----------------------------- MODULE RdpScript -----------------------------
(***************************************************************************)
(* The order in which the PDUs of a connection come, as an invariant of    *)
(* RdpConnection for applications that reactivate only an active session.  *)
(* The PDUs that change a state are numbered, in each direction, in the    *)
(* order of the connection sequence; the state of each side tells how many *)
(* of them it has sent and taken.  Under way are then exactly those in     *)
(* between, in order, and other PDUs only at places where the receiver     *)
(* takes them.                                                             *)
(***************************************************************************)
EXTENDS RdpConnection

----------------------------------------------------------------------------
(* Numbered queues.  The first n PDUs of a queue are seen as their numbers *)
(* rk[1..n], 0 for a PDU that has none.                                    *)

\* The numbers are those from lo + 1 to hi, in order.
Numbered(rk, n, lo, hi) ==
  /\ \A i, j \in 1..n : i < j /\ rk[i] # 0 /\ rk[j] # 0 => rk[i] < rk[j]
  /\ \A i \in 1..n : rk[i] # 0 => lo < rk[i] /\ rk[i] <= hi
  /\ \A k \in (lo + 1)..hi : \E i \in 1..n : rk[i] = k

\* A PDU without a number comes after those up to some number L in at[i], and
\* before the others.
Placed(rk, at, n, lo, hi) ==
  \A i \in 1..n : rk[i] = 0 =>
    \E L \in lo..hi :
      /\ L \in at[i]
      /\ \A j \in 1..n : /\ j < i => rk[j] <= L
                         /\ j > i /\ rk[j] # 0 => rk[j] > L

----------------------------------------------------------------------------
(* The PDUs of the client.                                                 *)

Joins == Len(JoinOrder)
JoinIndex(id) == IF MessageChannel \/ id <= GlobalId THEN id ELSE id - 1

\* How many PDUs the client has sent when it has sent its client info, and when
\* it has confirmed the Demand Active PDU of round r.
Greeting == Joins + (IF UseRdpSecurityLayer THEN 5 ELSE 4)
ClientRound(r) == Greeting + 3 * r

\* How many PDUs of the round follow.
ClientLag == [ConfirmActive |-> 2, RequestControl |-> 1, FontList |-> 0]

CNumber(m) ==
  CASE m.type = "ConnectInitial"    -> 1
    [] m.type = "ErectDomain"       -> 2
    [] m.type = "AttachUser"        -> 3
    [] m.type = "Join"              -> 3 + JoinIndex(m.arg)
    [] m.type = "SecurityExchange"  -> Joins + 4
    [] m.type = "ClientInfo"        -> Greeting
    [] m.type \in DOMAIN ClientLag  -> IF m.arg = 0 THEN -1
                                       ELSE ClientRound(m.arg) - ClientLag[m.type]
    [] OTHER                        -> 0

CNumbers(q) == [i \in 1..Len(q) |-> CNumber(q[i])]

\* How many the client has sent.
ClientSent ==
  CASE cstate = "NEGO"             -> 0
    [] cstate = "MCS_CONNECT"      -> 1
    [] cstate = "MCS_ATTACH_USER"  -> 3
    [] cstate = "MCS_CHANNEL_JOIN" -> 3 + cjoined + 1
    [] OTHER -> IF cend = "failed" THEN ClientRound(cround) - 2 ELSE ClientRound(cround)

\* Control is still to be requested in the exchange.
ControlAwaited == \E i \in 1..Len(c2s) : c2s[i].type = "RequestControl"

\* How many the server has taken.
ServerTaken ==
  CASE sstate = "NEGO"                      -> 0
    [] sstate = "MCS_CONNECT"               -> 1
    [] sstate = "MCS_ERECT_DOMAIN"          -> 2
    [] sstate = "MCS_ATTACH_USER"           -> 3 + Cardinality(sjoined)
    [] sstate = "RDP_SECURITY_COMMENCEMENT" -> 3 + Joins
    [] sstate = "SECURE_SETTINGS_EXCHANGE"  -> 4 + Joins
    [] sstate = "FINALIZATION" -> ClientRound(fonts) + (IF ControlAwaited THEN 1 ELSE 2)
    [] OTHER                   -> ClientRound(fonts)

----------------------------------------------------------------------------
(* The PDUs of the server.                                                 *)

\* How many PDUs the server has sent before the Demand Active PDU of round r + 1.
ServerRound(r) == Joins + 3 + 6 * r

\* How many PDUs of the round follow.
ServerLag == [DemandActive |-> 5, Synchronize |-> 4, Cooperate |-> 3, GrantedControl |-> 2,
              FontMap |-> 1, DeactivateAll |-> 0]

SNumber(m) ==
  CASE m.type = "ConnectResponse"    -> 1
    [] m.type = "AttachConfirm"      -> IF m.arg = UserId THEN 2 ELSE -1
    [] m.type = "JoinConfirm"        -> 2 + JoinIndex(m.arg)
    [] m.type = "LicenseValidClient" -> Joins + 3
    [] m.type \in DOMAIN ServerLag   -> IF m.arg = 0 THEN -1
                                        ELSE ServerRound(m.arg) - ServerLag[m.type]
    [] OTHER                         -> 0

\* Where the client takes a PDU without a number: updates while it is ACTIVE,
\* channel data from Demand Active to Deactivate All.
Places(m) ==
  CASE m.type = "Update"  -> {L \in Nat : \E r \in 1..L : L = ServerRound(r) - 1}
    [] m.type = "Channel" -> {L \in Nat : \E r \in 1..L, k \in 1..5 : L = ServerRound(r) - k}
    [] OTHER -> {}

SNumbers(q, n) == [i \in 1..n |-> SNumber(q[i])]
SPlaces(q, n)  == [i \in 1..n |-> Places(q[i])]

\* The first n PDUs of q are those from number lo + 1 to hi.
Stream(q, n, lo, hi) ==
  /\ Numbered(SNumbers(q, n), n, lo, hi)
  /\ Placed(SNumbers(q, n), SPlaces(q, n), n, lo, hi)

\* How many the server has sent.
ServerSent ==
  CASE sstate = "NEGO"                                 -> 0
    [] sstate \in {"MCS_CONNECT", "MCS_ERECT_DOMAIN"}  -> 1
    [] sstate = "MCS_ATTACH_USER"                      -> 2 + Cardinality(sjoined)
    [] sstate \in {"RDP_SECURITY_COMMENCEMENT", "SECURE_SETTINGS_EXCHANGE"} -> 2 + Joins
    [] sstate = "CAPABILITIES_EXCHANGE" -> IF round = 0 THEN Joins + 3 ELSE ServerRound(round) - 5
    [] sstate = "FINALIZATION" -> ServerRound(round) - (IF ControlAwaited THEN 3 ELSE 2)
    [] OTHER                   -> ServerRound(round) - 1

\* finalize_sc_pdus once k of the PDUs of round r have come.
FinalizeOrder == <<"Synchronize", "Cooperate", "GrantedControl", "FontMap">>
Finalized(k, r) == {<<FinalizeOrder[i], r>> : i \in 1..k}
FinalizedCount == CHOOSE k \in 0..4 : finalize = Finalized(k, cround)

\* How many the client has taken.
ClientTaken ==
  CASE cstate \in {"NEGO", "MCS_CONNECT"}   -> 0
    [] cstate = "MCS_ATTACH_USER"           -> 1
    [] cstate = "MCS_CHANNEL_JOIN"          -> 2 + cjoined
    [] cstate = "LICENSING"                 -> 2 + Joins
    [] cstate = "CAPABILITIES_EXCHANGE"     -> ServerRound(cround)
    [] OTHER                                -> ServerRound(cround) - 5 + FinalizedCount

----------------------------------------------------------------------------
(* The invariant.                                                          *)

ConnectStates == {"NEGO", "MCS_CONNECT", "MCS_ATTACH_USER", "MCS_CHANNEL_JOIN", "LICENSING"}

\* What the state of the client says of its other variables.
ClientLocal ==
  /\ cstate \in ConnectStates =>
       cround = 0 /\ events = <<>> /\ reactivation = FALSE /\ frames = <<>> /\ cend # "failed"
  /\ cstate \in ClientStates \ {"NEGO", "MCS_CONNECT", "MCS_ATTACH_USER", "MCS_CHANNEL_JOIN"} =>
       cjoined = Joins
  /\ cstate = "CAPABILITIES_EXCHANGE" => Len(events) \in {cround - 1, cround}
  /\ cstate = "FINALIZATION" =>
       /\ cround > 0 /\ Len(events) = cround - 1 /\ (reactivation <=> cround > 1)
       /\ \E k \in 0..3 : finalize = Finalized(k, cround)
       /\ \A i \in 1..Len(frames) : frames[i] = "ACTIVE"
  /\ cstate = "ACTIVE" =>
       cround > 0 /\ Len(events) = cround /\ finalize = Finalized(4, cround) /\ frames = <<>>
  /\ cend = "failed" => cround > 0
  /\ \A i \in 1..Len(events) : events[i] = (i = 1)

\* What the state of the server says of its other variables.
ServerLocal ==
  /\ sstate \notin PduStates => round = 0 /\ fonts = 0 /\ confirmed = 0 /\ ~connected
  /\ sstate \in {"NEGO", "MCS_CONNECT", "MCS_ERECT_DOMAIN"} => sjoined = {}
  /\ sstate = "MCS_ATTACH_USER" =>
       /\ IsFiniteSet(sjoined)
       /\ \E k \in 0..(Joins - 1) : Cardinality(sjoined) = k /\ sjoined = {JoinOrder[i] : i \in 1..k}
  /\ sstate = "SECURE_SETTINGS_EXCHANGE" => UseRdpSecurityLayer
  /\ sstate = "CAPABILITIES_EXCHANGE" =>
       /\ confirmed = fonts
       /\ round = fonts + 1 \/ (round = 0 /\ fonts = 0 /\ send # "open")
  /\ sstate = "FINALIZATION" => round > 0 /\ confirmed = round /\ fonts = round - 1
  /\ sstate = "ACTIVE" => round > 0 /\ confirmed = round /\ fonts = round
  /\ connected => fonts > 0

\* How far the two sides may be apart.
Linked ==
  /\ confirmed <= cround /\ cround <= round
  /\ cstate = "ACTIVE" => cround <= fonts
  /\ cstate = "NEGO" => sstate = "NEGO"

\* What is under way to the server.
ToServer ==
  send = "open" =>
    /\ Numbered(CNumbers(c2s), Len(c2s), ServerTaken, ClientSent)
    /\ cend = "open" => ServerTaken <= ClientSent
    /\ \A i \in 1..Len(c2s) : CNumber(c2s[i]) = 0 => sstate \in PduStates

\* The first n PDUs under way to the client are those of the sequence up to
\* number h, at places where the client takes them.
InOrder(n, h) ==
  /\ ClientTaken <= h /\ h <= ServerSent
  /\ Stream(s2c, n, ClientTaken, h)
  /\ ccrypt # "lost"
  /\ cstate = "CAPABILITIES_EXCHANGE" =>
       /\ Len(events) = cround /\ (reactivation <=> cround > 0)
       /\ \A i \in 1..Len(frames) : frames[i] = "ACTIVE"

\* The PDUs from place i on are those of freerdp_peer_close after Deactivate All.
Farewell(i) ==
  \/ i <= Len(s2c) /\ s2c[i].type = "Ultimatum"
  \/ i < Len(s2c) /\ s2c[i].type = "ErrorInfo" /\ s2c[i + 1].type = "Ultimatum"

\* They are all that is under way, or the application has closed the connection
\* and what it sends last comes behind them.
Until(n, h) ==
  \/ ~closing /\ n = Len(s2c) /\ h = ServerSent
  \/ closing /\ n < Len(s2c) /\ s2c[n + 1].type = "DeactivateAll" /\ Farewell(n + 2)

\* What is under way to the client.
ToClient ==
  cend = "open" =>
    \/ \E n \in 0..Len(s2c), h \in 0..ServerSent : InOrder(n, h) /\ Until(n, h)
    \/ closing /\ cstate = "CAPABILITIES_EXCHANGE" /\ Farewell(1)

\* No side refuses a PDU but those of a connection that is being closed.
Taken == send # "refused" /\ (cend = "refused" => closing)

ScriptInv == ClientLocal /\ ServerLocal /\ Linked /\ ToServer /\ ToClient /\ Taken
=============================================================================
