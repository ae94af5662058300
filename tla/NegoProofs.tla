---------------------------- MODULE NegoProofs -----------------------------
(***************************************************************************)
(* What the negotiation of the security protocol guarantees, for any       *)
(* number of connections one after the other, to any servers.              *)
(***************************************************************************)
EXTENDS Nego, TLAPS

\* What is under way belongs to the attempt of this state and to what the server
\* of this connection has chosen.
WireOK ==
  \/ wire = Nothing
  \/ wire = [kind |-> "request", protocols |-> Requested(state)]
  \/ /\ ~host.legacy /\ chosen = ServerChoice(host, Requested(state))
     /\ wire = [kind |-> IF chosen = "FAILED" THEN "failure" ELSE "response", protocol |-> chosen]
  \/ host.legacy /\ chosen = "RDP" /\ wire = [kind |-> "confirm"]

\* What the attempts so far have excluded.
Excluded ==
  /\ state = "NLA" => "HYBRID" \in enabled
  /\ state = "TLS" => "SSL" \in enabled /\ "HYBRID" \notin Common
  /\ state = "RDP" => "RDP" \in enabled /\ "HYBRID" \notin Common /\ "SSL" \notin Common
  /\ state = "FAIL" => Common = {}
  /\ state = "FINAL" => tcp /\ chosen = selected /\ Common # {} /\ selected = Strongest(Common)

\* A client that does not negotiate.
Unnegotiated ==
  /\ state \in {"INITIAL", "FINAL"}
  /\ state = "FINAL" => selected = Direct(enabled) /\ (preconnection => tcp)

Untouched == wire = Nothing /\ chosen = "none" /\ selected = "RDP" /\ ~tcp

AttemptStates == {"EXT", "NLA", "TLS", "RDP"}

\* The inductive invariant.
NegoInv ==
  /\ NegoTypeOK /\ WireOK
  /\ state \in AttemptStates => result = "running" /\ negotiate
  /\ state = "INITIAL" => Untouched
  /\ result = "none" => connects = 0 /\ enabled = {} /\ ~negotiate
  /\ negotiate => allowed = enabled
  /\ negotiate /\ host.legacy => selected = "RDP"
  /\ OneRequestPerConnection
  /\ serverUse => chosen = "RDP"
  /\ result = "running" => IF negotiate THEN Excluded ELSE Unnegotiated
  /\ result = "secured" /\ serverUse => use
  /\ StrongestCommon /\ DirectAfterPreconnection /\ LayersAgree

\* Before the first rdp_client_connect.
LEMMA NegoInitInv == NegoInit => NegoInv
<1> SUFFICES ASSUME NegoInit PROVE NegoInv
  OBVIOUS
<1>1. NegoTypeOK
  <2>1. host \in Servers /\ ServerOK(host) /\ wire.kind = "nothing"
    BY DEF NegoInit, Servers, ServerOK, Nothing
  <2>2. /\ negotiate \in BOOLEAN /\ preconnection \in BOOLEAN
        /\ tcp \in BOOLEAN /\ use \in BOOLEAN /\ serverUse \in BOOLEAN
    BY Zenon DEF NegoInit
  <2>3. connects \in 0..MaxConnects /\ wire = Nothing
    BY NegoAssumption DEF NegoInit
  <2> QED BY <2>1, <2>2, <2>3 DEF NegoInit, NegoTypeOK, NegoStates, Protocols
<1> QED BY <1>1 DEF NegoInit, NegoInv, WireOK, Untouched, AttemptStates, OneRequestPerConnection,
             StrongestCommon, DirectAfterPreconnection, DirectAttempted, LayersAgree, Nothing

\* A step that ends the connection with a broken transport, or one that leaves
\* the state of the negotiation behind, has nothing left to keep.
LEMMA FreshInv ==
  ASSUME NegoInv, NegoFresh, connects < MaxConnects,
         negotiate' \in BOOLEAN, preconnection' \in BOOLEAN, enabled' \subseteq Protocols
  PROVE  NegoInv'
<1>1. wire' = Nothing /\ wire'.kind = "nothing"
  BY DEF NegoFresh, Nothing
<1>2. host' \in Servers /\ ServerOK(host')
  BY DEF NegoFresh
<1>3. connects' \in 0..MaxConnects
  BY NegoAssumption DEF NegoFresh, NegoInv, NegoTypeOK
<1>4. use' \in BOOLEAN /\ serverUse' = FALSE /\ tcp' = FALSE
  BY DEF NegoFresh, NegoInv, NegoTypeOK
<1>5. NegoTypeOK'
  BY Zenon, <1>1, <1>2, <1>3, <1>4 DEF NegoFresh, NegoTypeOK, NegoStates, Protocols, ServerOK
<1>6. state' = "INITIAL" /\ result' = "running" /\ Untouched'
  BY <1>1, <1>4 DEF NegoFresh, Untouched
<1> QED BY <1>1, <1>4, <1>5, <1>6
    DEF NegoFresh, NegoInv, WireOK, AttemptStates, OneRequestPerConnection, Excluded, Unnegotiated,
        StrongestCommon, DirectAfterPreconnection, DirectAttempted, LayersAgree

\* A connection that the transport breaks: only the settings and the type are
\* left to keep.
LEMMA BrokenInv ==
  ASSUME NegoInv, result = "running", result' = "broken", state' = "FINAL", wire' = Nothing,
         tcp' \in BOOLEAN, selected' \in Protocols, allowed' \subseteq Protocols,
         negotiate => allowed' = allowed /\ selected' = selected,
         UNCHANGED <<settings, host, use, chosen, serverUse, connects>>
  PROVE  NegoInv'
<1>1. wire'.kind = "nothing"
  BY DEF Nothing
<1>2. NegoTypeOK'
  BY <1>1 DEF NegoInv, NegoTypeOK, settings, NegoStates, Servers, ServerOK
<1> QED BY <1>1, <1>2
    DEF NegoInv, settings, WireOK, AttemptStates, OneRequestPerConnection,
        StrongestCommon, DirectAfterPreconnection, DirectAttempted, LayersAgree

\* nego_connect up to its loop.
LEMMA BeginsInv ==
  ASSUME NegoInv, NegoBegins
  PROVE  NegoInv'
<1>1. /\ state = "INITIAL" /\ result = "running" /\ Untouched /\ wire' = Nothing
      /\ UNCHANGED <<settings, host, use, chosen, serverUse, connects>> /\ NegoTypeOK
  BY DEF NegoBegins, NegoInv, Untouched, Fails
<1>2. wire'.kind = "nothing" /\ wire.kind = "nothing"
  BY <1>1 DEF Untouched, Nothing
<1>3. CASE enabled = {}
  <2>1. state' = "FAIL" /\ result' = "failed" /\ UNCHANGED <<allowed, selected, tcp>>
    BY <1>3 DEF NegoBegins, Fails
  <2>2. NegoTypeOK'
    BY <1>1, <1>2, <2>1 DEF NegoTypeOK, settings, NegoStates, Servers, ServerOK
  <2>3. Common' = {}
    BY <1>1, <1>3 DEF Common, settings
  <2> QED BY <1>1, <1>2, <1>3, <2>1, <2>2, <2>3
      DEF NegoInv, settings, WireOK, AttemptStates, OneRequestPerConnection,
          StrongestCommon, DirectAfterPreconnection, DirectAttempted, LayersAgree
<1>4. CASE enabled # {}
  <2>1. /\ allowed' = IF negotiate THEN allowed ELSE OnlyHighest(enabled)
        /\ selected' = IF negotiate THEN selected ELSE Direct(enabled)
    BY <1>4 DEF NegoBegins
  <2>2. allowed' \subseteq Protocols /\ selected' \in Protocols
    BY <1>1, <2>1 DEF NegoTypeOK, OnlyHighest, Direct, Protocols
  <2>3. CASE preconnection /\ Fails("broken") /\ state' = "FINAL" /\ tcp' \in BOOLEAN
    BY <1>1, <2>1, <2>2, <2>3, BrokenInv DEF Fails
  <2>4. CASE /\ state' = IF negotiate THEN Highest(enabled) ELSE "FINAL"
             /\ tcp' = preconnection
             /\ UNCHANGED <<settings, host, use, chosen, serverUse, result, connects>>
    <3>1. NegoTypeOK'
      BY <1>1, <1>2, <2>2, <2>4 DEF NegoTypeOK, settings, NegoStates, Servers, ServerOK, Highest
    <3>2. CASE negotiate
      <4>1. Excluded' /\ state' # "FAIL" /\ state' # "FINAL" /\ state' # "INITIAL"
        BY Zenon, <1>1, <1>4, <2>4, <3>2 DEF Excluded, Highest, Common, settings, NegoTypeOK, Protocols
      <4> QED BY <1>1, <1>2, <2>1, <2>4, <3>1, <3>2, <4>1
          DEF NegoInv, settings, WireOK, AttemptStates, OneRequestPerConnection, Untouched,
              StrongestCommon, DirectAfterPreconnection, DirectAttempted, LayersAgree
    <3>3. CASE ~negotiate
      <4>1. Unnegotiated'
        BY <1>1, <2>1, <2>4, <3>3 DEF Unnegotiated, settings
      <4> QED BY <1>1, <1>2, <2>1, <2>4, <3>1, <3>3, <4>1
          DEF NegoInv, settings, WireOK, AttemptStates, OneRequestPerConnection, Untouched,
              StrongestCommon, DirectAfterPreconnection, DirectAttempted, LayersAgree
    <3> QED BY <3>2, <3>3
  <2> QED BY <1>4, <2>3, <2>4 DEF NegoBegins
<1> QED BY <1>3, <1>4

\* An attempt sends its request, or the transport fails under it.
LEMMA SendsInv ==
  ASSUME NegoInv, AttemptSends \/ AttemptFails
  PROVE  NegoInv'
<1>1. CASE AttemptFails
  <2>1. result = "running" /\ tcp' \in BOOLEAN
    BY Zenon, <1>1 DEF AttemptFails, Attempting, NegoInv, NegoTypeOK
  <2> QED BY <1>1, <2>1, BrokenInv DEF AttemptFails, Fails, NegoInv, NegoTypeOK
<1>2. CASE AttemptSends
  <2>1. /\ state \in AttemptStates /\ result = "running" /\ wire = Nothing /\ tcp' = TRUE
        /\ UNCHANGED <<settings, host, state, allowed, selected, use, chosen, serverUse, result, connects>>
        /\ wire' = [kind |-> "request", protocols |-> Requested(state)]
    BY <1>2 DEF AttemptSends, Attempting, AttemptStates
  <2>2. wire'.kind = "request" /\ wire.kind = "nothing"
    BY <2>1 DEF Nothing
  <2>3. NegoTypeOK'
    BY <2>1, <2>2 DEF NegoInv, NegoTypeOK, settings, Attempting, AttemptStates, Servers, ServerOK
  <2>4. WireOK'
    BY <2>1 DEF WireOK, Requested
  <2>5. Excluded'
    BY <2>1 DEF NegoInv, Excluded, settings, Common, AttemptStates
  <2>6. OneRequestPerConnection'
    BY <2>1, <2>2 DEF NegoInv, OneRequestPerConnection
  <2> QED BY <2>1, <2>3, <2>4, <2>5, <2>6
      DEF NegoInv, settings, AttemptStates, StrongestCommon, DirectAfterPreconnection, DirectAttempted, LayersAgree
<1> QED BY <1>1, <1>2

\* The server answers the request of its connection.
LEMMA AnswerInv ==
  ASSUME NegoInv, rdp_server_accept_nego \/ LegacyServerConfirms
  PROVE  NegoInv'
<1>1. /\ wire.kind = "request" /\ NegoTypeOK
      /\ UNCHANGED <<settings, host, state, allowed, selected, tcp, use, result, connects>>
  BY DEF rdp_server_accept_nego, LegacyServerConfirms, nego, NegoInv
<1>2. /\ wire # Nothing /\ tcp /\ state \in AttemptStates /\ result = "running" /\ negotiate
  BY <1>1 DEF NegoInv, NegoTypeOK, Attempting, AttemptStates, Nothing
<1>3. wire = [kind |-> "request", protocols |-> Requested(state)]
  BY <1>1 DEF NegoInv, WireOK, Nothing
<1>4. wire.protocols = Requested(state)
  BY <1>3
<1>5. /\ WireOK' /\ wire'.kind \in {"response", "failure", "confirm"}
      /\ chosen' \in ServerProtocols \cup {"FAILED"}
      /\ serverUse' \in BOOLEAN /\ (serverUse' => chosen' = "RDP")
  <2>1. CASE rdp_server_accept_nego
    <3>1. /\ ~host.legacy /\ chosen' = ServerChoice(host, Requested(state))
          /\ serverUse' = (chosen' = "RDP" /\ ~host.local)
          /\ wire' = [kind |-> IF chosen' = "FAILED" THEN "failure" ELSE "response", protocol |-> chosen']
      BY <2>1, <1>4 DEF rdp_server_accept_nego, nego_send_negotiation_response
    <3>2. WireOK'
      BY <1>1, <3>1 DEF WireOK, ServerChoice, Requested
    <3>3. serverUse' \in BOOLEAN /\ (serverUse' => chosen' = "RDP")
      BY <3>1, Zenon
    <3> QED BY <3>1, <3>2, <3>3 DEF ServerChoice, ServerProtocols
  <2>2. CASE LegacyServerConfirms
    BY <2>2, <1>1 DEF LegacyServerConfirms, WireOK, ServerProtocols
  <2> QED BY <2>1, <2>2
<1>6. NegoTypeOK'
  BY <1>1, <1>2, <1>5 DEF NegoTypeOK, settings, Attempting, AttemptStates, Servers, ServerOK
<1>7. Excluded'
  BY <1>1, <1>2 DEF NegoInv, Excluded, settings, Common, AttemptStates
<1>8. OneRequestPerConnection'
  BY <1>5 DEF OneRequestPerConnection
<1> QED BY <1>1, <1>2, <1>5, <1>6, <1>7, <1>8
    DEF NegoInv, settings, AttemptStates, StrongestCommon, DirectAfterPreconnection, DirectAttempted, LayersAgree

\* The answer is read: FINAL with the strongest protocol, or the next attempt
\* after what the answer has excluded.
LEMMA ReceivesInv ==
  ASSUME NegoInv, AttemptReceives
  PROVE  NegoInv'
<1>1. /\ state \in AttemptStates /\ result = "running" /\ negotiate /\ allowed = enabled /\ tcp
      /\ wire.kind \in {"response", "failure", "confirm"} /\ wire' = Nothing /\ NegoTypeOK
      /\ UNCHANGED <<settings, host, allowed, use, result, connects>>
      /\ selected' = (IF wire.kind = "response" THEN wire.protocol ELSE selected)
      /\ state' = (IF Received(wire) = "FINAL" THEN "FINAL" ELSE Fallback(state))
  BY DEF AttemptReceives, Attempting, AttemptStates, NegoInv, NegoTypeOK, Nothing
<1>2. Excluded /\ wire'.kind = "nothing"
  BY <1>1 DEF NegoInv, Nothing
<1>3. /\ host.accepts \subseteq ServerProtocols /\ (host.legacy => host.accepts = {"RDP"})
      /\ enabled \subseteq Protocols
  BY <1>1 DEF NegoTypeOK, Servers, ServerOK
<1>4. \/ /\ wire.kind = "response" /\ wire.protocol = chosen /\ chosen \in ServerProtocols
         /\ ~host.legacy /\ chosen = ServerChoice(host, Requested(state))
      \/ /\ wire.kind = "failure" /\ chosen = "FAILED"
         /\ ~host.legacy /\ chosen = ServerChoice(host, Requested(state))
      \/ wire.kind = "confirm" /\ host.legacy /\ chosen = "RDP"
  BY <1>1 DEF NegoInv, WireOK, Nothing, ServerChoice, ServerProtocols
<1>5. IF state' = "FINAL" \/ state = "RDP"
      THEN UNCHANGED <<tcp, chosen, serverUse>>
      ELSE tcp' = FALSE /\ chosen' = "none" /\ serverUse' = FALSE
  BY DEF AttemptReceives
<1>6. CASE Received(wire) = "FINAL"
  <2>1. state' = "FINAL" /\ UNCHANGED <<tcp, chosen, serverUse>>
    BY <1>1, <1>5, <1>6
  <2>2. selected' \in allowed \cap host.accepts /\ selected' = chosen
    <3>1. CASE wire.kind = "response"
      BY <3>1, <1>1, <1>4, <1>6 DEF Received, ServerChoice, ServerProtocols
    <3>2. CASE wire.kind = "confirm"
      BY <3>2, <1>1, <1>3, <1>4, <1>6 DEF Received, NegoInv
    <3>3. CASE wire.kind = "failure"
      BY <3>3, <1>6 DEF Received
    <3> QED BY <1>1, <3>1, <3>2, <3>3
  <2>3. selected' = Strongest(Common) /\ Common # {}
    <3>1. CASE host.legacy
      <4>1. Common = {"RDP"} /\ selected' = "RDP"
        BY <3>1, <1>1, <1>3, <1>4, <2>2 DEF Common
      <4> QED BY <4>1 DEF Strongest
    <3>2. CASE ~host.legacy
      <4>1. chosen = ServerChoice(host, Requested(state)) /\ chosen \in Common
        BY <3>2, <1>1, <1>4, <2>2 DEF Common
      <4> QED BY <4>1, <2>2, <1>1, <1>2, <1>3
          DEF Strongest, ServerChoice, Requested, Common, Excluded, AttemptStates, ServerProtocols
    <3> QED BY <3>1, <3>2
  <2>4. Excluded'
    BY <1>1, <2>1, <2>2, <2>3 DEF Excluded, Common, Strongest, settings
  <2>5. NegoTypeOK'
    BY <1>1, <1>2, <1>3, <2>1, <2>2 DEF NegoTypeOK, settings, NegoStates, Servers, ServerOK, ServerProtocols, Protocols
  <2>6. negotiate' /\ host'.legacy => selected' = "RDP"
    BY <1>1, <1>4, <2>2
  <2> QED BY <1>1, <1>2, <2>1, <2>4, <2>5, <2>6
      DEF NegoInv, settings, AttemptStates, WireOK, OneRequestPerConnection,
          StrongestCommon, DirectAfterPreconnection, DirectAttempted, LayersAgree
<1>7. CASE Received(wire) # "FINAL"
  <2>1. state' = Fallback(state) /\ state' \in {"NLA", "TLS", "RDP", "FAIL"}
    BY <1>1, <1>7 DEF Fallback, Highest, AttemptStates
  <2>2. (state' # "FAIL" => state # "RDP") /\ (state' = "FAIL" \/ chosen' = "none")
    BY Zenon, <1>1, <1>5, <2>1 DEF Fallback, Highest, AttemptStates
  <2>3. /\ tcp' \in BOOLEAN /\ serverUse' \in BOOLEAN /\ chosen' \in ServerProtocols \cup {"none", "FAILED"}
        /\ (serverUse' => chosen' = "RDP")
    <3>1. CASE state = "RDP"
      BY <3>1, <1>1, <1>5 DEF NegoInv, NegoTypeOK
    <3>2. CASE state # "RDP"
      BY Zenon, <3>2, <1>5, <2>1
    <3> QED BY <3>1, <3>2
  <2>4. selected' \in Protocols /\ (negotiate' /\ host'.legacy => selected' = "RDP")
    <3>1. CASE wire.kind = "response"
      BY <3>1, <1>1, <1>4 DEF Protocols, ServerProtocols
    <3>2. CASE wire.kind # "response"
      BY <3>2, <1>1 DEF NegoInv, NegoTypeOK, settings
    <3> QED BY <3>1, <3>2
  <2>5. NegoTypeOK'
    BY <1>1, <1>2, <2>1, <2>3, <2>4 DEF NegoTypeOK, settings, NegoStates, Servers, ServerOK
  <2>6. Excluded'
    <3>1. /\ state \in {"NLA"} => "HYBRID" \notin Common
          /\ state = "TLS" => "SSL" \notin Common
          /\ state = "RDP" => "RDP" \notin Common
      <4>1. CASE host.legacy
        BY <4>1, <1>1, <1>3, <1>4, <1>7 DEF Common, Received
      <4>2. CASE ~host.legacy /\ wire.kind = "response"
        BY <4>2, <1>1, <1>2, <1>3, <1>4, <1>7 DEF Common, Received, ServerChoice, Requested, Excluded
      <4>3. CASE ~host.legacy /\ wire.kind = "failure"
        BY <4>3, <1>1, <1>2, <1>3, <1>4 DEF Common, ServerChoice, Requested, Excluded
      <4> QED BY <1>4, <4>1, <4>2, <4>3
    <3>2. Common' = Common /\ enabled' = enabled
      BY <1>1 DEF Common, settings
    <3>3. Common \subseteq {"RDP", "SSL", "HYBRID"} /\ Common \subseteq allowed
      BY <1>1, <1>3 DEF Common, ServerProtocols
    <3>4. CASE state = "EXT"
      BY <3>2, <3>3, <3>4, <1>1, <2>1 DEF Excluded, Fallback, Highest
    <3>5. CASE state = "NLA"
      BY <3>1, <3>2, <3>3, <3>5, <1>1, <2>1 DEF Excluded, Fallback, Highest
    <3>6. CASE state = "TLS"
      BY <3>1, <3>2, <3>3, <3>6, <1>1, <1>2, <2>1 DEF Excluded, Fallback, Highest
    <3>7. CASE state = "RDP"
      BY <3>1, <3>2, <3>3, <3>7, <1>1, <1>2, <2>1 DEF Excluded, Fallback, Highest
    <3> QED BY <1>1, <3>4, <3>5, <3>6, <3>7 DEF AttemptStates
  <2>7. OneRequestPerConnection'
    BY <2>1, <2>2 DEF OneRequestPerConnection
  <2> QED BY <1>1, <1>2, <2>1, <2>3, <2>4, <2>5, <2>6, <2>7
      DEF NegoInv, settings, AttemptStates, WireOK,
          StrongestCommon, DirectAfterPreconnection, DirectAttempted, LayersAgree
<1> QED BY <1>6, <1>7

\* The ends of nego_connect: the attempts have failed, or the handshake follows.
LEMMA EndsInv ==
  ASSUME NegoInv, NegoGivesUp \/ nego_security_connect
  PROVE  NegoInv'
<1>1. /\ result = "running" /\ wire = Nothing /\ NegoTypeOK
      /\ UNCHANGED <<settings, host, allowed, selected, tcp, wire, connects>>
      /\ state \in {"FAIL", "FINAL"} /\ state' = "FINAL"
  BY DEF NegoGivesUp, nego_security_connect, Fails, nego, NegoInv
<1>2. wire'.kind = "nothing"
  BY <1>1 DEF Nothing
<1>3. Common' = Common /\ Strongest(Common)' = Strongest(Common)
  BY <1>1 DEF Common, Strongest, settings
<1>4. CASE NegoGivesUp
  <2>1. /\ state = "FAIL" /\ result' = "failed"
        /\ UNCHANGED <<use, chosen, serverUse>>
    BY <1>4 DEF NegoGivesUp, Fails
  <2>2. negotiate /\ Common = {}
    BY <1>1, <2>1 DEF NegoInv, Excluded, Unnegotiated
  <2>3. NegoTypeOK'
    BY <1>1, <1>2, <2>1 DEF NegoTypeOK, settings, NegoStates, Servers, ServerOK
  <2> QED BY <1>1, <1>2, <1>3, <2>1, <2>2, <2>3
      DEF NegoInv, settings, AttemptStates, WireOK, OneRequestPerConnection,
          StrongestCommon, DirectAfterPreconnection, DirectAttempted, LayersAgree
<1>5. CASE nego_security_connect
  <2>1. /\ state = "FINAL" /\ use' = (selected = "RDP" \/ use)
        /\ \/ Handshake /\ result' = "secured"
           \/ ~Handshake /\ result' = "failed"
           \/ result' = "broken"
        /\ chosen' = (IF result' = "secured" THEN selected ELSE chosen)
        /\ serverUse' = (IF negotiate \/ result' # "secured" THEN serverUse
                         ELSE selected = "RDP" /\ ~host.local)
    BY <1>5 DEF nego_security_connect
  <2>2. IF negotiate THEN Excluded ELSE Unnegotiated
    BY <1>1 DEF NegoInv
  <2>3. serverUse => chosen = "RDP"
    BY DEF NegoInv
  <2>4. host.accepts \subseteq ServerProtocols
    BY <1>1 DEF NegoTypeOK, Servers
  <2>5. use' \in BOOLEAN
    BY <2>1, Zenon
  <2>6. result' = "secured" => selected \in ServerProtocols /\ (negotiate => chosen = selected)
    BY <2>1 DEF Handshake
  <2>7. serverUse' \in BOOLEAN /\ (serverUse' => chosen' = "RDP")
    <3>1. CASE negotiate \/ result' # "secured"
      <4>1. serverUse' = serverUse /\ chosen' = chosen
        BY <2>1, <2>6, <3>1
      <4> QED BY <1>1, <2>3, <4>1 DEF NegoTypeOK
    <3>2. CASE ~(negotiate \/ result' # "secured")
      <4>1. serverUse' = (selected = "RDP" /\ ~host.local) /\ chosen' = selected
        BY <2>1, <3>2, Zenon
      <4> QED BY <4>1, Zenon
    <3> QED BY <3>1, <3>2
  <2>8. chosen' \in ServerProtocols \cup {"none", "FAILED"}
    BY <1>1, <2>1, <2>6 DEF NegoTypeOK
  <2>9. result' = "secured" /\ serverUse' => use'
    <3>1. result' = "secured" => chosen' = selected
      BY <2>1
    <3>2. selected = "RDP" => use'
      BY <2>1, Zenon
    <3> QED BY <2>7, <3>1, <3>2
  <2>10. NegoTypeOK'
    BY <1>1, <1>2, <2>1, <2>5, <2>7, <2>8 DEF NegoTypeOK, settings, NegoStates, Servers, ServerOK
  <2>11. StrongestCommon'
    <3>1. negotiate => Handshake /\ Common # {} /\ selected = Strongest(Common)
      <4> HAVE negotiate
      <4>1. tcp /\ chosen = selected /\ Common # {} /\ selected = Strongest(Common)
        BY <2>1, <2>2 DEF Excluded
      <4>2. selected \in ServerProtocols
        BY <4>1 DEF Strongest, ServerProtocols
      <4> QED BY <4>1, <4>2 DEF Handshake
    <3> QED BY <1>1, <1>3, <2>1, <3>1 DEF StrongestCommon, settings
  <2>12. DirectAfterPreconnection'
    <3> SUFFICES ASSUME preconnection, ~negotiate, result' = "failed" PROVE Direct(enabled) \notin host.accepts
      BY <1>1 DEF DirectAfterPreconnection, DirectAttempted, settings, Direct
    <3>1. ~Handshake /\ tcp /\ selected = Direct(enabled)
      BY <2>1, <2>2 DEF Unnegotiated
    <3> QED BY <2>4, <3>1 DEF Handshake
  <2>13. result' \in {"secured", "failed", "broken"}
    BY <2>1
  <2> QED BY <1>1, <1>2, <2>7, <2>9, <2>10, <2>11, <2>12, <2>13
      DEF NegoInv, settings, AttemptStates, WireOK, OneRequestPerConnection, LayersAgree
<1> QED BY <1>4, <1>5

\* The Connect Response settles the RDP security layer.
LEMMA JoinInv ==
  ASSUME NegoInv, gcc_read_server_security_data
  PROVE  NegoInv'
<1>1. /\ result = "secured" /\ result' = "joined" /\ NegoTypeOK
      /\ UNCHANGED <<settings, host, state, allowed, selected, tcp, wire, chosen, serverUse, connects>>
  BY DEF gcc_read_server_security_data, nego, NegoInv
<1>2. use' = serverUse' /\ use' \in BOOLEAN
  <2>1. use' = (use /\ serverUse)
    BY Zenon DEF gcc_read_server_security_data
  <2>2. serverUse => use
    BY <1>1 DEF NegoInv
  <2>3. use \in BOOLEAN /\ serverUse \in BOOLEAN
    BY <1>1 DEF NegoTypeOK
  <2> QED BY <1>1, <2>1, <2>2, <2>3
<1>3. wire = Nothing /\ wire'.kind = "nothing"
  BY <1>1 DEF NegoInv, NegoTypeOK, Attempting, Nothing
<1>4. NegoTypeOK'
  BY <1>1, <1>2, <1>3 DEF NegoTypeOK, settings, Servers, ServerOK
<1>5. StrongestCommon'
  BY <1>1 DEF NegoInv, StrongestCommon, Common, Strongest, settings
<1> QED BY <1>1, <1>2, <1>3, <1>4, <1>5
    DEF NegoInv, settings, AttemptStates, WireOK, OneRequestPerConnection, Untouched,
        DirectAfterPreconnection, DirectAttempted, LayersAgree

\* The invariant holds always.
LEMMA NegoInvAlways == NegoSpec => []NegoInv
<1>1. NegoInv /\ [NegoNext]_negoVars => NegoInv'
  <2> SUFFICES ASSUME NegoInv, [NegoNext]_negoVars PROVE NegoInv'
    OBVIOUS
  <2>1. CASE UNCHANGED negoVars
    <3>1. UNCHANGED <<negotiate, preconnection, enabled, host, state, allowed, selected, tcp,
                      wire, use, chosen, serverUse, result, connects>>
      BY <2>1 DEF negoVars, settings, nego
    <3>2. NegoTypeOK'
      BY <3>1 DEF NegoInv, NegoTypeOK, Attempting
    <3>3. WireOK' /\ (state' = "INITIAL" => Untouched')
      BY <3>1 DEF NegoInv, WireOK, Untouched
    <3>4. Common' = Common
      BY <3>1 DEF Common
    <3>5. result' = "running" => IF negotiate' THEN Excluded' ELSE Unnegotiated'
      BY <3>1, <3>4 DEF NegoInv, Excluded, Unnegotiated
    <3>6. StrongestCommon'
      BY <3>1, <3>4 DEF NegoInv, StrongestCommon
    <3>7. OneRequestPerConnection' /\ DirectAfterPreconnection' /\ LayersAgree'
      BY <3>1 DEF NegoInv, OneRequestPerConnection, DirectAfterPreconnection, DirectAttempted, LayersAgree
    <3> QED BY <3>1, <3>2, <3>3, <3>5, <3>6, <3>7 DEF NegoInv
  <2>2. CASE Connecting
    BY <2>2, BeginsInv, SendsInv, AnswerInv, ReceivesInv, EndsInv, JoinInv DEF Connecting
  <2>3. CASE rdp_client_connect
    <3>1. connects < MaxConnects
      BY <2>3, NegoAssumption DEF rdp_client_connect, NegoInv
    <3> QED BY <2>3, <3>1, FreshInv DEF rdp_client_connect
  <2>4. CASE rdp_client_reconnect
    BY Zenon, <2>4, FreshInv DEF rdp_client_reconnect, settings, NegoInv, NegoTypeOK
  <2> QED BY <2>1, <2>2, <2>3, <2>4 DEF NegoNext
<1> QED BY <1>1, NegoInitInv, PTL DEF NegoSpec

\* The types, and that something is under way only during an attempt.
THEOREM NegoTypeCorrect == NegoSpec => []NegoTypeOK
  BY NegoInvAlways, PTL DEF NegoInv

\* The attempts of nego_connect end with the strongest protocol that client and
\* server have in common, and fail only when there is none, on every connection
\* of any number of them.
THEOREM StrongestCommonAlways == NegoSpec => []StrongestCommon
  BY NegoInvAlways, PTL DEF NegoInv

\* No attempt sends a second request on a connection whose server has answered.
THEOREM OneRequestAlways == NegoSpec => []OneRequestPerConnection
  BY NegoInvAlways, PTL DEF NegoInv

\* Client and server agree on the RDP security layer after the Connect Response,
\* whatever UseRdpSecurityLayer the client kept from earlier connections.
THEOREM LayersAgreeAlways == NegoSpec => []LayersAgree
  BY NegoInvAlways, PTL DEF NegoInv

\* A client that does not negotiate, and sends a preconnection PDU, connects to
\* every server that accepts its highest protocol.
THEOREM DirectAfterPreconnectionAlways == NegoSpec => []DirectAfterPreconnection
  BY NegoInvAlways, PTL DEF NegoInv
=============================================================================
