-------------------------------- MODULE Nego -------------------------------
(***************************************************************************)
(* Security protocol negotiation: nego_connect (libfreerdp/core/nego.c) on *)
(* the client, rdp_server_accept_nego (connection.c) on the server, and    *)
(* the encryption level of the MCS Connect Response (gcc.c) that settles   *)
(* UseRdpSecurityLayer.  The client reconnects (rdp_client_reconnect,      *)
(* rdp_client_redirect), possibly to another server, and keeps its         *)
(* settings.  Cookies, routing tokens and the presence of RDP_NEG_DATA in  *)
(* a request for RDP security make no difference to the server and are     *)
(* left out.                                                               *)
(***************************************************************************)
EXTENDS Naturals

CONSTANT MaxConnects   \* bound: calls of rdp_client_connect

ASSUME NegoAssumption == MaxConnects \in Nat \ {0}

\* PROTOCOL_*: the protocols a client may enable, and a server.
Protocols       == {"RDP", "SSL", "HYBRID", "HYBRID_EX"}
ServerProtocols == {"RDP", "SSL", "HYBRID"}

\* NEGO_STATE_*.
NegoStates == {"INITIAL", "EXT", "NLA", "TLS", "RDP", "FAIL", "FINAL"}

VARIABLES
  negotiate,      \* settings->NegotiateSecurityLayer
  preconnection,  \* settings->SendPreconnectionPdu
  enabled,    \* RdpSecurity, TlsSecurity, NlaSecurity, ExtSecurity of the client
  host,       \* [accepts, legacy, local]: protocols of the server, whether it knows
              \* nothing of negotiation, and whether the client is local to it
  state,      \* nego->state
  allowed,    \* nego->EnabledProtocols
  selected,   \* nego->SelectedProtocol
  tcp,        \* nego->TcpConnected
  wire,       \* what is under way: a request, an answer or nothing
  use,        \* settings->UseRdpSecurityLayer of the client
  chosen,     \* nego->SelectedProtocol of the server for this TCP connection
  serverUse,  \* settings->UseRdpSecurityLayer of the server
  result,     \* of rdp_client_connect: "none" yet, "running", "secured", "joined", "failed", or
              \* "broken" when the transport failed
  connects    \* calls of rdp_client_connect

settings == <<negotiate, preconnection, enabled>>
nego == <<state, allowed, selected, tcp>>
negoVars == <<settings, host, nego, wire, use, chosen, serverUse, result, connects>>

Nothing == [kind |-> "nothing"]

Servers == [accepts : SUBSET ServerProtocols, legacy : BOOLEAN, local : BOOLEAN]

\* A server that knows nothing of negotiation has RDP security only.
ServerOK(s) == s.legacy => s.accepts = {"RDP"}

NegoInit ==
  /\ negotiate = FALSE /\ preconnection = FALSE /\ enabled = {}
  /\ host = [accepts |-> {}, legacy |-> FALSE, local |-> FALSE]
  /\ state = "INITIAL" /\ allowed = {} /\ selected = "RDP" /\ tcp = FALSE
  /\ wire = Nothing /\ use = FALSE
  /\ chosen = "none" /\ serverUse = FALSE
  /\ result = "none" /\ connects = 0

\* The first state whose protocol is in S.
Highest(S) ==
  IF "HYBRID_EX" \in S THEN "EXT"
  ELSE IF "HYBRID" \in S THEN "NLA"
  ELSE IF "SSL" \in S THEN "TLS"
  ELSE IF "RDP" \in S THEN "RDP" ELSE "FAIL"

\* What is left of the enabled protocols when negotiation is disabled, and the
\* protocol that is then selected.
OnlyHighest(S) ==
  IF "HYBRID_EX" \in S THEN {"HYBRID_EX", "HYBRID"}
  ELSE IF "HYBRID" \in S THEN {"HYBRID"} ELSE IF "SSL" \in S THEN {"SSL"} ELSE {"RDP"}
Direct(S) ==
  IF "HYBRID_EX" \in S THEN "HYBRID_EX"
  ELSE IF "HYBRID" \in S THEN "HYBRID" ELSE IF "SSL" \in S THEN "SSL" ELSE "RDP"

\* rdp_client_connect returns FALSE.
Fails(how) == result' = how /\ UNCHANGED <<settings, host, use, chosen, serverUse, connects>>

\* nego_connect up to its loop: the first state, and the preconnection PDU, for
\* which TCP is connected.
NegoBegins ==
  /\ state = "INITIAL" /\ result = "running"
  /\ IF enabled = {}
     THEN state' = "FAIL" /\ Fails("failed") /\ UNCHANGED <<allowed, selected, tcp>>
     ELSE /\ allowed' = IF negotiate THEN allowed ELSE OnlyHighest(enabled)
          /\ selected' = IF negotiate THEN selected ELSE Direct(enabled)
          /\ \/ /\ preconnection /\ Fails("broken")
                /\ state' = "FINAL" /\ tcp' \in BOOLEAN
             \/ /\ state' = IF negotiate THEN Highest(enabled) ELSE "FINAL"
                /\ tcp' = preconnection
                /\ UNCHANGED <<settings, host, use, chosen, serverUse, result, connects>>
  /\ UNCHANGED wire

\* RequestedProtocols of an attempt; none of the bits is PROTOCOL_RDP.
Requested(s) ==
  IF s = "EXT" THEN {"HYBRID", "SSL", "HYBRID_EX"}
  ELSE IF s = "NLA" THEN {"HYBRID", "SSL"}
  ELSE IF s = "TLS" THEN {"SSL"} ELSE {}

Attempting == state \in {"EXT", "NLA", "TLS", "RDP"} /\ result = "running"

\* nego_attempt_*: connect TCP if it is not connected, and send the request.
AttemptSends ==
  /\ Attempting /\ wire = Nothing
  /\ tcp' = TRUE
  /\ wire' = [kind |-> "request", protocols |-> Requested(state)]
  /\ UNCHANGED <<settings, host, state, allowed, selected, use, chosen, serverUse, result, connects>>

\* nego_attempt_* when connecting, sending or receiving fails: nego_connect
\* gives up.
AttemptFails ==
  /\ Attempting
  /\ state' = "FINAL" /\ tcp' \in {tcp, TRUE} /\ wire' = Nothing /\ Fails("broken")
  /\ UNCHANGED <<allowed, selected>>

\* PROTOCOL_FAILED_NEGO when nothing fits.
ServerChoice(s, protocols) ==
  IF "HYBRID" \in s.accepts \cap protocols THEN "HYBRID"
  ELSE IF "SSL" \in s.accepts \cap protocols THEN "SSL"
  ELSE IF "RDP" \in s.accepts /\ protocols = {} THEN "RDP" ELSE "FAILED"

\* The answer, and the settings of the server; a local client gets no RDP security
\* layer.
nego_send_negotiation_response(choice) ==
  /\ serverUse' = (choice = "RDP" /\ ~host.local)
  /\ wire' = [kind |-> IF choice = "FAILED" THEN "failure" ELSE "response", protocol |-> choice]

\* Up to the security handshake, which the client of a failed negotiation does not
\* take part in.
rdp_server_accept_nego ==
  /\ wire.kind = "request" /\ ~host.legacy
  /\ chosen' = ServerChoice(host, wire.protocols)
  /\ nego_send_negotiation_response(chosen')
  /\ UNCHANGED <<settings, host, nego, use, result, connects>>

\* A server older than negotiation confirms without RDP_NEG_DATA.
LegacyServerConfirms ==
  /\ wire.kind = "request" /\ host.legacy
  /\ chosen' = "RDP" /\ serverUse' = TRUE
  /\ wire' = [kind |-> "confirm"]
  /\ UNCHANGED <<settings, host, nego, use, result, connects>>

\* nego_recv: the state after the answer.
Received(answer) ==
  IF answer.kind = "response"
  THEN IF answer.protocol \in allowed THEN "FINAL" ELSE "FAIL"
  ELSE IF answer.kind = "confirm" /\ "RDP" \in allowed THEN "FINAL" ELSE "FAIL"

\* Mutated form of Fallback: TLS is not tried after EXT.
FallbackSkips(s) ==
  Highest(allowed \cap IF s = "EXT" THEN {"HYBRID", "RDP"}
                       ELSE IF s = "NLA" THEN {"SSL", "RDP"}
                       ELSE IF s = "TLS" THEN {"RDP"} ELSE {})

\* Mutated form of Fallback: RDP security is tried again.
FallbackRepeats(s) ==
  Highest(allowed \cap IF s = "EXT" THEN {"HYBRID", "SSL", "RDP"}
                       ELSE IF s = "NLA" THEN {"SSL", "RDP"} ELSE {"RDP"})

\* The next attempt, after an answer that is not FINAL.
Fallback(s) ==
  Highest(allowed \cap IF s = "EXT" THEN {"HYBRID", "SSL", "RDP"}
                       ELSE IF s = "NLA" THEN {"SSL", "RDP"}
                       ELSE IF s = "TLS" THEN {"RDP"} ELSE {})

\* The end of nego_attempt_*: after FAIL the transport is disconnected (not by
\* nego_attempt_rdp) and the next state is chosen.
AttemptReceives ==
  /\ Attempting /\ wire.kind \in {"response", "failure", "confirm"}
  /\ wire' = Nothing
  /\ selected' = IF wire.kind = "response" THEN wire.protocol ELSE selected
  /\ state' = IF Received(wire) = "FINAL" THEN "FINAL" ELSE Fallback(state)
  /\ IF state' = "FINAL" \/ state = "RDP"
     THEN UNCHANGED <<tcp, chosen, serverUse>>
     ELSE tcp' = FALSE /\ chosen' = "none" /\ serverUse' = FALSE
  /\ UNCHANGED <<settings, host, allowed, use, result, connects>>

\* nego_connect when its loop ended in NEGO_STATE_FAIL.
NegoGivesUp ==
  /\ state = "FAIL" /\ result = "running" /\ wire = Nothing
  /\ state' = "FINAL" /\ Fails("failed")
  /\ UNCHANGED <<allowed, selected, tcp, wire>>

\* Whether the handshake of nego_security_connect can succeed: transport_connect_*
\* for the selected protocol meets transport_accept_* for the chosen one, or a
\* server that expects the handshake at once.
Handshake ==
  /\ tcp /\ selected \in ServerProtocols
  /\ IF negotiate THEN chosen = selected ELSE selected \in host.accepts

\* The end of nego_connect: settings are updated and the security layer is
\* connected.
nego_security_connect ==
  /\ state = "FINAL" /\ result = "running" /\ wire = Nothing
  /\ use' = (selected = "RDP" \/ use)
  /\ \/ Handshake /\ result' = "secured"
     \/ ~Handshake /\ result' = "failed"
     \/ result' = "broken"
  /\ chosen' = IF result' = "secured" THEN selected ELSE chosen
  /\ serverUse' = IF negotiate \/ result' # "secured" THEN serverUse
                  ELSE selected = "RDP" /\ ~host.local
  /\ UNCHANGED <<settings, host, nego, wire, connects>>

\* Mutated form of gcc_read_server_security_data: the level NONE is ignored.
gcc_read_server_security_data_kept ==
  /\ result = "secured"
  /\ result' = "joined"
  /\ UNCHANGED <<settings, host, nego, wire, use, chosen, serverUse, connects>>

\* The Connect Response carries ENCRYPTION_LEVEL_NONE exactly when the server does
\* not use the RDP security layer (gcc_write_server_security_data).
gcc_read_server_security_data ==
  /\ result = "secured"
  /\ use' = (use /\ serverUse)
  /\ result' = "joined"
  /\ UNCHANGED <<settings, host, nego, wire, chosen, serverUse, connects>>

\* nego_new and nego_init, the settings handed over; TCP is not connected.
NegoFresh ==
  /\ host' \in {s \in Servers : ServerOK(s)}
  /\ state' = "INITIAL" /\ allowed' = enabled' /\ selected' = "RDP" /\ tcp' = FALSE
  /\ wire' = Nothing /\ chosen' = "none" /\ serverUse' = FALSE
  /\ result' = "running" /\ connects' = connects + 1
  /\ UNCHANGED use

\* rdp_client_connect with the settings of the user
rdp_client_connect ==
  /\ result = "none"
  /\ negotiate' \in BOOLEAN /\ preconnection' \in BOOLEAN /\ enabled' \in SUBSET Protocols
  /\ NegoFresh

\* rdp_client_disconnect (rdp_reset replaces nego), then rdp_client_connect.
rdp_client_reconnect ==
  /\ result \in {"joined", "failed", "broken"} /\ connects < MaxConnects
  /\ UNCHANGED settings
  /\ NegoFresh

Connecting ==
  \/ NegoBegins \/ AttemptSends \/ AttemptFails \/ AttemptReceives \/ NegoGivesUp
  \/ rdp_server_accept_nego \/ LegacyServerConfirms
  \/ nego_security_connect \/ gcc_read_server_security_data

NegoNext == Connecting \/ rdp_client_connect \/ rdp_client_reconnect

NegoSpec == NegoInit /\ [][NegoNext]_negoVars

\* The client runs; the server answers, or the transport fails.
NegoFairSpec == NegoSpec /\ WF_negoVars(Connecting)
----------------------------------------------------------------------------
(* Properties.                                                             *)

\* Types of the variables; something is under way only on a connection and during
\* an attempt.
NegoTypeOK ==
  /\ negotiate \in BOOLEAN /\ preconnection \in BOOLEAN
  /\ enabled \subseteq Protocols /\ allowed \subseteq Protocols
  /\ host \in Servers /\ ServerOK(host)
  /\ state \in NegoStates /\ selected \in Protocols
  /\ tcp \in BOOLEAN /\ use \in BOOLEAN /\ serverUse \in BOOLEAN
  /\ chosen \in ServerProtocols \cup {"none", "FAILED"}
  /\ wire.kind \in {"nothing", "request", "response", "failure", "confirm"}
  /\ result \in {"none", "running", "secured", "joined", "failed", "broken"}
  /\ connects \in 0..MaxConnects
  /\ wire # Nothing => tcp /\ Attempting

Common == enabled \cap host.accepts

Strongest(S) == IF "HYBRID" \in S THEN "HYBRID" ELSE IF "SSL" \in S THEN "SSL" ELSE "RDP"

\* The attempts end with the strongest protocol that both sides allow, and fail
\* only when there is none (or the transport fails), whatever order of attempts
\* and fallbacks leads there (nego_attempt_*, rdp_server_accept_nego).
StrongestCommon ==
  negotiate =>
    /\ result \in {"secured", "joined"} => Common # {} /\ selected = Strongest(Common)
    /\ result = "failed" => Common = {}

\* A new attempt starts on a new connection: the server of a connection answers
\* one request (nego_transport_disconnect in nego_attempt_*).
OneRequestPerConnection ==
  state \in {"EXT", "NLA", "TLS", "RDP"} /\ wire.kind \in {"nothing", "request"} => chosen = "none"

\* Once the Connect Response has been read both sides agree on the RDP security
\* layer, although the client keeps UseRdpSecurityLayer from one connection to
\* the next (gcc_read_server_security_data).
LayersAgree == result = "joined" => use = serverUse

\* "attempt only the highest enabled protocol (see nego_attempt_*)": with the
\* negotiation disabled the client connects to a server that accepts its highest
\* protocol, unless the transport fails.
DirectAttempted ==
  ~negotiate /\ enabled # {} /\ result = "failed" => Direct(enabled) \notin host.accepts

\* The same for a client that sends a preconnection PDU, for which nego_connect
\* connects TCP (nego_send_preconnection_pdu).
DirectAfterPreconnection == preconnection => DirectAttempted

\* nego_connect ends.
NegotiationEnds == result = "running" ~> result # "running"
=============================================================================
