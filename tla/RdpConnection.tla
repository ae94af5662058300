--------------------------- MODULE RdpConnection ---------------------------
(***************************************************************************)
(* The RDP connection sequence of libfreerdp/core after the security       *)
(* negotiation: a client (rdp.c, connection.c) and a server (peer.c,       *)
(* connection.c) that walk through MCS connect, channel joins, key         *)
(* exchange, licensing, capability exchange and finalization, then         *)
(* deactivate and reactivate the session, then disconnect.                 *)
(*                                                                         *)
(* A step is one call of a receive callback with one PDU, everything it    *)
(* sends included, or one call of an application into the library.  The    *)
(* two directions of the TCP stream are FIFO queues.  What a PDU carries   *)
(* is reduced to its kind, the channel it names and whether it is          *)
(* encrypted; "round" numbers the Demand Active PDUs.  It is not on the    *)
(* wire (the share id never changes): it lets the properties say which     *)
(* exchange a PDU belongs to.                                              *)
(***************************************************************************)
EXTENDS Integers, Sequences, FiniteSets

CONSTANTS
  ChannelCount,         \* mcs->channelCount: static virtual channels
  MessageChannel,       \* mcs->messageChannelId != 0
  UseRdpSecurityLayer,  \* standard RDP security: keys are exchanged
  ResizeStates,         \* server states in which the application calls DesktopResize
  AppMayFail,           \* whether application callbacks may return FALSE
  MaxRounds,            \* bound: Demand Active PDUs sent
  MaxClientData,        \* bound: input and channel PDUs of the client
  MaxServerData         \* bound: update and channel PDUs of the server

ASSUME ChannelAssumption  == ChannelCount \in Nat /\ MessageChannel \in BOOLEAN
ASSUME SecurityAssumption == UseRdpSecurityLayer \in BOOLEAN
ASSUME AppAssumption ==
  /\ ResizeStates \subseteq {"CAPABILITIES_EXCHANGE", "FINALIZATION", "ACTIVE"}
  /\ AppMayFail \in BOOLEAN
ASSUME BoundAssumption ==
  MaxRounds \in Nat \ {0} /\ MaxClientData \in Nat /\ MaxServerData \in Nat

VARIABLES
  cstate,        \* client rdp->state
  cjoined,       \* how many of JoinOrder the client knows to be joined
  ccrypt,        \* client keys: "off", "on", "lost" (stream cipher out of step)
  finalize,      \* client rdp->finalize_sc_pdus, each PDU with its round
  reactivation,  \* client rdp->deactivation_reactivation
  frames,        \* states in which DEACTIVATE_ALL entered its nested receive loop
  cround,        \* round of the Demand Active PDU the client confirmed last
  events,        \* firstActivation of each Activated event the client published
  cend,          \* how the client's connection ended
  sstate,        \* server rdp->state
  sjoined,       \* channels marked joined in the server's mcs
  scrypt,        \* server keys
  connected,     \* peer->connected
  activated,     \* peer->activated
  posts,         \* calls of PostConnect
  round,         \* Demand Active PDUs sent
  confirmed,     \* round of the Confirm Active PDU the server accepted last
  fonts,         \* round of the Font List PDU that took the server to ACTIVE last
  closing,       \* the application called peer->Close
  send,          \* how the server's connection ended
  c2s, s2c,      \* the TCP stream, one queue per direction
  cdata, sdata   \* input, update and channel PDUs sent, for the bounds

client == <<cstate, cjoined, ccrypt, finalize, reactivation, frames, cround, events, cend>>
server == <<sstate, sjoined, scrypt, connected, activated, posts, round,
            confirmed, fonts, closing, send>>
vars == <<client, server, c2s, s2c, cdata, sdata>>

----------------------------------------------------------------------------
\* MCS channel ids, in the order in which the client joins the channels.
UserId == 1
GlobalId == 2
MessageId == 3
ChannelId(i) == 3 + i

JoinOrder ==
  <<UserId, GlobalId>> \o (IF MessageChannel THEN <<MessageId>> ELSE <<>>)
                       \o [i \in 1..ChannelCount |-> ChannelId(i)]

JoinIds ==
  {UserId, GlobalId} \cup (IF MessageChannel THEN {MessageId} ELSE {})
                     \cup {ChannelId(i) : i \in 1..ChannelCount}

ClientStates == {"NEGO", "MCS_CONNECT", "MCS_ATTACH_USER", "MCS_CHANNEL_JOIN", "LICENSING",
                 "CAPABILITIES_EXCHANGE", "FINALIZATION", "ACTIVE"}
ServerStates == {"NEGO", "MCS_CONNECT", "MCS_ERECT_DOMAIN", "MCS_ATTACH_USER",
                 "RDP_SECURITY_COMMENCEMENT", "SECURE_SETTINGS_EXCHANGE",
                 "CAPABILITIES_EXCHANGE", "FINALIZATION", "ACTIVE"}

McsRequests == {"ConnectInitial", "ErectDomain", "AttachUser", "Join"}
McsReplies == {"ConnectResponse", "AttachConfirm", "JoinConfirm"}
ShareRequests == {"ConfirmActive", "Synchronize", "Cooperate", "RequestControl",
                  "PersistentKeyList", "FontList"}
\* The PDUs of which rdp->finalize_sc_pdus counts one each.
FinalizePdus == {"Synchronize", "Cooperate", "GrantedControl", "FontMap"}
ClientPdus == McsRequests \cup {"SecurityExchange", "ClientInfo", "Input", "Channel"}
                          \cup ShareRequests
ServerPdus == McsReplies \cup {"LicenseValidClient", "DemandActive", "DeactivateAll",
                               "ErrorInfo", "Update", "Channel", "Ultimatum"}
                         \cup FinalizePdus

Pdu(type, arg, enc) == [type |-> type, arg |-> arg, enc |-> enc]
McsPdu(type, id) == Pdu(type, id, FALSE)
ClientPdu(type) == Pdu(type, cround, ccrypt # "off")
ServerPdu(type, r) == Pdu(type, r, scrypt # "off")

AppResults == IF AppMayFail THEN BOOLEAN ELSE {TRUE}

Init ==
  /\ cstate = "NEGO" /\ cjoined = 0 /\ ccrypt = "off"
  /\ finalize = {} /\ reactivation = FALSE /\ frames = <<>>
  /\ cround = 0 /\ events = <<>> /\ cend = "open"
  /\ sstate = "NEGO" /\ sjoined = {} /\ scrypt = "off"
  /\ connected = FALSE /\ activated = FALSE /\ posts = 0
  /\ round = 0 /\ confirmed = 0 /\ fonts = 0
  /\ closing = FALSE /\ send = "open"
  /\ c2s = <<>> /\ s2c = <<>> /\ cdata = 0 /\ sdata = 0

----------------------------------------------------------------------------
(* The server: peer_recv_callback with one PDU of the client, or a call of *)
(* its application.                                                        *)

PduStates == {"CAPABILITIES_EXCHANGE", "FINALIZATION", "ACTIVE"}

\* What peer_recv_callback and the functions it calls accept in each state.
ServerAccepts(m) ==
  /\ m.enc => scrypt = "on"
  /\ \/ sstate = "NEGO" /\ m.type = "ConnectInitial"
     \/ sstate = "MCS_CONNECT" /\ m.type = "ErectDomain"
     \/ sstate = "MCS_ERECT_DOMAIN" /\ m.type = "AttachUser"
     \/ sstate = "MCS_ATTACH_USER" /\ m.type = "Join"
     \/ /\ sstate = "RDP_SECURITY_COMMENCEMENT"
        /\ m.type = (IF UseRdpSecurityLayer THEN "SecurityExchange" ELSE "ClientInfo")
     \/ sstate = "SECURE_SETTINGS_EXCHANGE" /\ m.type = "ClientInfo"
     \/ sstate = "CAPABILITIES_EXCHANGE" /\ m.type = "ConfirmActive"
     \/ /\ sstate \in PduStates
        /\ m.type \in (ShareRequests \ {"ConfirmActive"}) \cup {"Input", "Channel"}

ServerReceives(types) ==
  /\ send = "open" /\ c2s # <<>>
  /\ Head(c2s).type \in types
  /\ ServerAccepts(Head(c2s))
  /\ c2s' = Tail(c2s)

AcceptConnectInitial ==
  /\ ServerReceives({"ConnectInitial"})
  /\ s2c' = Append(s2c, McsPdu("ConnectResponse", 0))
  /\ sstate' = "MCS_CONNECT"
  /\ UNCHANGED <<client, sjoined, scrypt, connected, activated, posts, round, confirmed,
                 fonts, closing, send, cdata, sdata>>

AcceptErectDomain ==
  /\ ServerReceives({"ErectDomain"})
  /\ sstate' = "MCS_ERECT_DOMAIN"
  /\ UNCHANGED <<client, sjoined, scrypt, connected, activated, posts, round, confirmed,
                 fonts, closing, send, s2c, cdata, sdata>>

AcceptAttachUser ==
  /\ ServerReceives({"AttachUser"})
  /\ s2c' = Append(s2c, McsPdu("AttachConfirm", UserId))
  /\ sstate' = "MCS_ATTACH_USER"
  /\ UNCHANGED <<client, sjoined, scrypt, connected, activated, posts, round, confirmed,
                 fonts, closing, send, cdata, sdata>>

\* Mutated form of AllJoined: the static channels are not looked at.
AllJoinedFixed(ids) == {UserId, GlobalId} \subseteq ids

AllJoined(ids) == ids = JoinIds

AcceptJoin ==   \* rdp_server_accept_mcs_channel_join_request
  /\ ServerReceives({"Join"})
  /\ s2c' = Append(s2c, McsPdu("JoinConfirm", Head(c2s).arg))
  /\ sjoined' = sjoined \cup ({Head(c2s).arg} \cap JoinIds)
  /\ sstate' = IF AllJoined(sjoined') THEN "RDP_SECURITY_COMMENCEMENT" ELSE sstate
  /\ UNCHANGED <<client, scrypt, connected, activated, posts, round, confirmed, fonts,
                 closing, send, cdata, sdata>>

rdp_server_establish_keys ==
  /\ ServerReceives({"SecurityExchange"})
  /\ scrypt' = "on"
  /\ sstate' = "SECURE_SETTINGS_EXCHANGE"
  /\ UNCHANGED <<client, sjoined, connected, activated, posts, round, confirmed, fonts,
                 closing, send, s2c, cdata, sdata>>

\* Client info, then without another PDU: the licence callback (a valid client
\* error packet) and the capability callback with the Demand Active PDU.
AcceptClientInfo ==
  /\ ServerReceives({"ClientInfo"})
  /\ sstate' = "CAPABILITIES_EXCHANGE"
  /\ activated' = FALSE
  /\ \E ok \in AppResults :
       IF ok
       THEN /\ round' = round + 1
            /\ s2c' = s2c \o <<ServerPdu("LicenseValidClient", 0),
                               ServerPdu("DemandActive", round + 1)>>
            /\ UNCHANGED send
       ELSE /\ send' = "failed"
            /\ s2c' = Append(s2c, ServerPdu("LicenseValidClient", 0))
            /\ UNCHANGED round
  /\ UNCHANGED <<client, sjoined, scrypt, connected, posts, confirmed, fonts, closing,
                 cdata, sdata>>

AcceptConfirmActive ==   \* rdp_server_accept_confirm_active
  /\ ServerReceives({"ConfirmActive"})
  /\ \E ok \in AppResults :
       IF ok
       THEN /\ sstate' = "FINALIZATION"
            /\ activated' = FALSE
            /\ confirmed' = Head(c2s).arg
            /\ s2c' = s2c \o <<ServerPdu("Synchronize", Head(c2s).arg),
                               ServerPdu("Cooperate", Head(c2s).arg)>>
            /\ UNCHANGED send
       ELSE /\ send' = "failed"
            /\ UNCHANGED <<sstate, activated, confirmed, s2c>>
  /\ UNCHANGED <<client, sjoined, scrypt, connected, posts, round, fonts, closing,
                 cdata, sdata>>

\* Mutated form of AcceptRequestControl: control is not granted.
AcceptRequestControlSilent ==
  /\ ServerReceives({"RequestControl"})
  /\ UNCHANGED <<client, server, s2c, cdata, sdata>>

AcceptRequestControl ==   \* rdp_server_accept_client_control_pdu
  /\ ServerReceives({"RequestControl"})
  /\ s2c' = Append(s2c, ServerPdu("GrantedControl", Head(c2s).arg))
  /\ UNCHANGED <<client, sstate, sjoined, scrypt, connected, activated, posts, round,
                 confirmed, fonts, closing, send, cdata, sdata>>

\* PDUs after which the connection is as before: the server never reads
\* finalize_sc_pdus, ignores the key list, and hands input and channel data
\* to its application.
AcceptData ==
  /\ ServerReceives({"Synchronize", "Cooperate", "PersistentKeyList", "Input", "Channel"})
  /\ UNCHANGED <<client, server, s2c, cdata, sdata>>

\* Mutated form of ReactivatePdus: no Deactivate All PDU.
ReactivatePdusBare == <<ServerPdu("DemandActive", round + 1)>>

\* The PDUs rdp_server_reactivate sends, which DesktopResize calls.
ReactivatePdus == <<ServerPdu("DeactivateAll", round), ServerPdu("DemandActive", round + 1)>>

CallsPostConnect == ~connected

\* rdp_server_accept_client_font_list_pdu: the Font Map PDU, then the
\* transition to ACTIVE, which calls PostConnect the first time and Activate
\* when PostConnect has not reactivated the session.
AcceptFontList ==
  /\ ServerReceives({"FontList"})
  /\ fonts' = Head(c2s).arg
  /\ posts' = IF CallsPostConnect THEN posts + 1 ELSE posts
  /\ \/ /\ CallsPostConnect /\ AppMayFail       \* PostConnect returns FALSE
        /\ sstate' = "ACTIVE" /\ send' = "failed"
        /\ activated' = FALSE
        /\ s2c' = Append(s2c, ServerPdu("FontMap", Head(c2s).arg))
        /\ UNCHANGED <<connected, round>>
     \/ /\ CallsPostConnect /\ round < MaxRounds  \* PostConnect calls DesktopResize
        /\ sstate' = "CAPABILITIES_EXCHANGE"
        /\ connected' = TRUE /\ activated' = FALSE
        /\ round' = round + 1
        /\ s2c' = s2c \o <<ServerPdu("FontMap", Head(c2s).arg)>> \o ReactivatePdus
        /\ UNCHANGED send
     \/ /\ sstate' = "ACTIVE" /\ connected' = TRUE
        /\ activated' \in AppResults
        /\ send' = IF activated' THEN send ELSE "failed"
        /\ s2c' = Append(s2c, ServerPdu("FontMap", Head(c2s).arg))
        /\ UNCHANGED round
  /\ UNCHANGED <<client, sjoined, scrypt, confirmed, closing, cdata, sdata>>

\* peer_recv_callback returns -1 and the application ends the connection.
ServerRefuses ==
  /\ send = "open" /\ c2s # <<>>
  /\ ~ServerAccepts(Head(c2s))
  /\ c2s' = Tail(c2s)
  /\ send' = "refused"
  /\ UNCHANGED <<client, sstate, sjoined, scrypt, connected, activated, posts, round,
                 confirmed, fonts, closing, s2c, cdata, sdata>>

ServerReceive ==
  \/ AcceptConnectInitial \/ AcceptErectDomain \/ AcceptAttachUser \/ AcceptJoin
  \/ rdp_server_establish_keys \/ AcceptClientInfo \/ AcceptConfirmActive
  \/ AcceptRequestControl \/ AcceptData \/ AcceptFontList \/ ServerRefuses

\* Mutated form of MayResize: no look at the state of the session.
MayResizeAnyTime == connected

\* When the application calls update->DesktopResize.
MayResize == connected /\ sstate \in ResizeStates

\* Mutated form of rdp_server_reactivate: activated is not cleared.
rdp_server_reactivate_activated ==
  /\ send = "open" /\ MayResize /\ round < MaxRounds
  /\ sstate' = "CAPABILITIES_EXCHANGE"
  /\ round' = round + 1
  /\ s2c' = s2c \o ReactivatePdus
  /\ UNCHANGED <<client, sjoined, scrypt, connected, activated, posts, confirmed, fonts,
                 closing, send, c2s, cdata, sdata>>

rdp_server_reactivate ==
  /\ send = "open" /\ MayResize /\ round < MaxRounds
  /\ activated' = FALSE
  /\ sstate' = "CAPABILITIES_EXCHANGE"
  /\ round' = round + 1
  /\ s2c' = s2c \o ReactivatePdus
  /\ UNCHANGED <<client, sjoined, scrypt, connected, posts, confirmed, fonts, closing,
                 send, c2s, cdata, sdata>>

ServerUpdate ==
  /\ send = "open" /\ activated /\ sdata < MaxServerData
  /\ s2c' = Append(s2c, ServerPdu("Update", 0))
  /\ sdata' = sdata + 1
  /\ UNCHANGED <<client, server, c2s, cdata>>

ServerChannelData ==
  /\ send = "open" /\ connected /\ sdata < MaxServerData
  /\ s2c' = Append(s2c, ServerPdu("Channel", 0))
  /\ sdata' = sdata + 1
  /\ UNCHANGED <<client, server, c2s, cdata>>

freerdp_peer_close ==
  /\ send = "open" /\ ~closing
  /\ closing' = TRUE
  /\ \E info \in {<<>>, <<ServerPdu("ErrorInfo", 0)>>} :
       s2c' = s2c \o <<ServerPdu("DeactivateAll", round)>> \o info
                  \o <<McsPdu("Ultimatum", 0)>>
  /\ UNCHANGED <<client, sstate, sjoined, scrypt, connected, activated, posts, round,
                 confirmed, fonts, send, c2s, cdata, sdata>>

freerdp_peer_disconnect ==
  /\ send = "open"
  /\ send' = "closed"
  /\ UNCHANGED <<client, sstate, sjoined, scrypt, connected, activated, posts, round,
                 confirmed, fonts, closing, c2s, s2c, cdata, sdata>>

\* transport_read_pdu fails: the client's end of the connection is gone.
ServerReadFails ==
  /\ send = "open" /\ cend # "open"
  /\ send' = "closed"
  /\ UNCHANGED <<client, sstate, sjoined, scrypt, connected, activated, posts, round,
                 confirmed, fonts, closing, c2s, s2c, cdata, sdata>>

----------------------------------------------------------------------------
(* The client: rdp_recv_callback with one PDU of the server, or a call of  *)
(* its application.                                                        *)

\* Share data PDUs, which rdp_recv_data_pdu handles in any state.
DataPdus == FinalizePdus \cup {"ErrorInfo"}

\* The states in which rdp_recv_callback hands PDUs to rdp_recv_pdu.
PduLoopStates == {"FINALIZATION", "ACTIVE"}

ClientAccepts(m) ==
  /\ m.enc => ccrypt = "on"
  /\ \/ cstate = "MCS_CONNECT" /\ m.type = "ConnectResponse"
     \/ cstate = "MCS_ATTACH_USER" /\ m.type = "AttachConfirm"
     \/ /\ cstate = "MCS_CHANNEL_JOIN" /\ m.type = "JoinConfirm"
        /\ m.arg = JoinOrder[cjoined + 1]
     \/ cstate = "LICENSING" /\ m.type \in {"LicenseValidClient", "Ultimatum"} \cup DataPdus
     \/ /\ cstate = "CAPABILITIES_EXCHANGE"
        /\ m.type \in {"DemandActive", "Ultimatum"} \cup DataPdus
     \/ /\ cstate \in PduLoopStates
        /\ m.type \in {"DeactivateAll", "Update", "Channel", "Ultimatum"} \cup DataPdus

ClientReceives(types) ==
  /\ cend = "open" /\ s2c # <<>>
  /\ Head(s2c).type \in types
  /\ ClientAccepts(Head(s2c))
  /\ s2c' = Tail(s2c)

mcs_client_begin ==
  /\ cend = "open" /\ cstate = "NEGO"
  /\ cstate' = "MCS_CONNECT"
  /\ c2s' = Append(c2s, McsPdu("ConnectInitial", 0))
  /\ UNCHANGED <<cjoined, ccrypt, finalize, reactivation, frames, cround, events, cend,
                 server, s2c, cdata, sdata>>

RecvConnectResponse ==
  /\ ClientReceives({"ConnectResponse"})
  /\ c2s' = c2s \o <<McsPdu("ErectDomain", 0), McsPdu("AttachUser", 0)>>
  /\ cstate' = "MCS_ATTACH_USER"
  /\ UNCHANGED <<cjoined, ccrypt, finalize, reactivation, frames, cround, events, cend,
                 server, cdata, sdata>>

RecvAttachConfirm ==
  /\ ClientReceives({"AttachConfirm"})
  /\ c2s' = Append(c2s, McsPdu("Join", Head(s2c).arg))
  /\ cstate' = "MCS_CHANNEL_JOIN"
  /\ UNCHANGED <<cjoined, ccrypt, finalize, reactivation, frames, cround, events, cend,
                 server, cdata, sdata>>

\* Mutated form of SecurityPdus: the client info goes first.
SecurityPdusSwapped ==
  IF UseRdpSecurityLayer
  THEN <<Pdu("ClientInfo", 0, TRUE), McsPdu("SecurityExchange", 0)>>
  ELSE <<Pdu("ClientInfo", 0, FALSE)>>

\* What rdp_client_establish_keys and rdp_send_client_info send.
SecurityPdus ==
  IF UseRdpSecurityLayer
  THEN <<McsPdu("SecurityExchange", 0), Pdu("ClientInfo", 0, TRUE)>>
  ELSE <<Pdu("ClientInfo", 0, FALSE)>>

\* rdp_client_connect_mcs_channel_join_confirm: the next join, or after the
\* last one the key exchange and the client info.
RecvJoinConfirm ==
  /\ ClientReceives({"JoinConfirm"})
  /\ cjoined' = cjoined + 1
  /\ IF cjoined' < Len(JoinOrder)
     THEN /\ c2s' = Append(c2s, McsPdu("Join", JoinOrder[cjoined' + 1]))
          /\ UNCHANGED <<ccrypt, cstate>>
     ELSE /\ c2s' = c2s \o SecurityPdus
          /\ ccrypt' = IF UseRdpSecurityLayer THEN "on" ELSE "off"
          /\ cstate' = "LICENSING"
  /\ UNCHANGED <<finalize, reactivation, frames, cround, events, cend, server, cdata, sdata>>

RecvLicense ==   \* license_recv: ERROR_ALERT with STATUS_VALID_CLIENT
  /\ ClientReceives({"LicenseValidClient"})
  /\ cstate' = "CAPABILITIES_EXCHANGE"
  /\ UNCHANGED <<cjoined, ccrypt, finalize, reactivation, frames, cround, events, cend,
                 server, c2s, cdata, sdata>>

\* What rdp_client_connect_demand_active and rdp_client_connect_finalize send
\* in answer to the Demand Active PDU of round r.
ActivationPdus(r) ==
  LET share(type) == Pdu(type, r, ccrypt # "off") IN
  <<share("ConfirmActive"), share("Synchronize"), share("Cooperate"), share("RequestControl")>>
    \o (IF reactivation THEN <<>> ELSE <<share("PersistentKeyList")>>)
    \o <<share("FontList")>>

\* The orders in which those PDUs leave while another thread of the client
\* writes at most one PDU of its own.
InputWithin(pdus) ==
  {SubSeq(pdus, 1, i) \o <<ClientPdu("Input")>> \o SubSeq(pdus, i + 1, Len(pdus)) :
     i \in 1..(Len(pdus) - 1)}

ClientMaySendData == Len(events) > 0 /\ cdata < MaxClientData

\* Mutated form of EnterFinalization: finalize_sc_pdus is not cleared.
EnterFinalizationStale == cstate' = "FINALIZATION" /\ UNCHANGED finalize

\* rdp_client_transition_to_state(rdp, CONNECTION_STATE_FINALIZATION)
EnterFinalization == cstate' = "FINALIZATION" /\ finalize' = {}

\* rdp_client_connect_demand_active
RecvDemandActive ==
  /\ ClientReceives({"DemandActive"})
  /\ cround' = Head(s2c).arg
  /\ \/ /\ EnterFinalization
        /\ \/ c2s' = c2s \o ActivationPdus(cround') /\ UNCHANGED cdata
           \/ /\ ClientMaySendData
              /\ \E pdus \in InputWithin(ActivationPdus(cround')) : c2s' = c2s \o pdus
              /\ cdata' = cdata + 1
        /\ UNCHANGED cend
     \/ /\ AppMayFail                     \* update->DesktopResize returns FALSE
        /\ c2s' = Append(c2s, Head(ActivationPdus(cround')))
        /\ cend' = "failed"
        /\ UNCHANGED <<cstate, finalize, cdata>>
  /\ UNCHANGED <<cjoined, ccrypt, reactivation, frames, events, server, sdata>>

Counted(m) == IF m.type \in FinalizePdus THEN {<<m.type, m.arg>>} ELSE {}
Complete(pdus) == \A type \in FinalizePdus : \E p \in pdus : p[1] = type

\* A data PDU before Demand Active.  In CAPABILITIES_EXCHANGE it is handled,
\* reported as not being Demand Active, rewound and handled again out of
\* sequence; the second decryption takes the stream cipher out of step and
\* what it yields is refused or not.
RecvDataOutOfSequence ==
  /\ cstate \in {"LICENSING", "CAPABILITIES_EXCHANGE"}
  /\ ClientReceives(DataPdus)
  /\ finalize' = finalize \cup Counted(Head(s2c))
  /\ IF cstate = "CAPABILITIES_EXCHANGE" /\ Head(s2c).enc
     THEN ccrypt' = "lost" /\ cend' \in {"open", "refused"}
     ELSE UNCHANGED <<ccrypt, cend>>
  /\ UNCHANGED <<cstate, cjoined, reactivation, frames, cround, events, server, c2s,
                 cdata, sdata>>

\* Every nested receive loop ends as soon as the client is ACTIVE; those that
\* were entered in FINALIZATION return into the check for completion and
\* report the activation again.
Reports == 1 + Cardinality({i \in 1..Len(frames) : frames[i] = "FINALIZATION"})

RecvData ==
  /\ cstate \in PduLoopStates
  /\ ClientReceives({"Update", "Channel"} \cup DataPdus)
  /\ finalize' = finalize \cup Counted(Head(s2c))
  /\ IF cstate = "FINALIZATION" /\ Complete(finalize')
     THEN /\ cstate' = "ACTIVE"
          /\ events' = events \o [i \in 1..Reports |-> ~reactivation]
          /\ frames' = <<>>
     ELSE UNCHANGED <<cstate, events, frames>>
  /\ UNCHANGED <<cjoined, ccrypt, reactivation, cround, cend, server, c2s, cdata, sdata>>

\* Mutated form of rdp_recv_deactivate_all: the flag is not set.
rdp_recv_deactivate_all_first ==
  /\ ClientReceives({"DeactivateAll"})
  /\ reactivation' = FALSE
  /\ frames' = Append(frames, cstate)
  /\ cstate' = "CAPABILITIES_EXCHANGE"
  /\ UNCHANGED <<cjoined, ccrypt, finalize, cround, events, cend, server, c2s, cdata, sdata>>

rdp_recv_deactivate_all ==
  /\ ClientReceives({"DeactivateAll"})
  /\ reactivation' = (cstate = "ACTIVE")
  /\ frames' = Append(frames, cstate)
  /\ cstate' = "CAPABILITIES_EXCHANGE"
  /\ UNCHANGED <<cjoined, ccrypt, finalize, cround, events, cend, server, c2s, cdata, sdata>>

RecvUltimatum ==   \* rdp_read_header aborts the connection
  /\ ClientReceives({"Ultimatum"})
  /\ cend' = "aborted"
  /\ UNCHANGED <<cstate, cjoined, ccrypt, finalize, reactivation, frames, cround, events,
                 server, c2s, cdata, sdata>>

ClientRefuses ==
  /\ cend = "open" /\ s2c # <<>>
  /\ ~ClientAccepts(Head(s2c))
  /\ s2c' = Tail(s2c)
  /\ cend' = "refused"
  /\ UNCHANGED <<cstate, cjoined, ccrypt, finalize, reactivation, frames, cround, events,
                 server, c2s, cdata, sdata>>

ClientReceive ==
  \/ RecvConnectResponse \/ RecvAttachConfirm \/ RecvJoinConfirm \/ RecvLicense
  \/ RecvDemandActive \/ RecvDataOutOfSequence \/ RecvData \/ rdp_recv_deactivate_all
  \/ RecvUltimatum \/ ClientRefuses

\* Once connected, threads of the client send input and channel data whatever
\* the state is.
ClientSendData ==
  /\ cend = "open" /\ ClientMaySendData
  /\ \E type \in {"Input", "Channel"} : c2s' = Append(c2s, ClientPdu(type))
  /\ cdata' = cdata + 1
  /\ UNCHANGED <<client, server, s2c, sdata>>

rdp_client_disconnect ==
  /\ cend = "open"
  /\ cend' = "closed"
  /\ UNCHANGED <<cstate, cjoined, ccrypt, finalize, reactivation, frames, cround, events,
                 server, c2s, s2c, cdata, sdata>>

ClientReadFails ==
  /\ cend = "open" /\ send # "open"
  /\ cend' = "closed"
  /\ UNCHANGED <<cstate, cjoined, ccrypt, finalize, reactivation, frames, cround, events,
                 server, c2s, s2c, cdata, sdata>>

----------------------------------------------------------------------------
Next ==
  \/ ServerReceive \/ rdp_server_reactivate \/ ServerUpdate \/ ServerChannelData
  \/ freerdp_peer_close \/ freerdp_peer_disconnect \/ ServerReadFails
  \/ mcs_client_begin \/ ClientReceive \/ ClientSendData
  \/ rdp_client_disconnect \/ ClientReadFails

Spec == Init /\ [][Next]_vars

\* Both sides run their receive loop (rdp_check_fds) until the connection ends.
Fairness ==
  /\ WF_vars(ServerReceive) /\ WF_vars(ServerReadFails)
  /\ WF_vars(mcs_client_begin) /\ WF_vars(ClientReceive) /\ WF_vars(ClientReadFails)

FairSpec == Spec /\ Fairness

----------------------------------------------------------------------------
(* Properties.                                                             *)

ClientEnds == {"open", "closed", "aborted", "refused", "failed"}
ServerEnds == {"open", "closed", "refused", "failed"}
Message(types) == [type : types, arg : Nat, enc : BOOLEAN]

\* The states of both sides, the queues and the counters have their types, and
\* no side counts a channel that is not in the join order.
TypeOK ==
  /\ cstate \in ClientStates /\ cjoined \in 0..Len(JoinOrder)
  /\ ccrypt \in {"off", "on", "lost"}
  /\ finalize \subseteq FinalizePdus \X Nat /\ reactivation \in BOOLEAN
  /\ frames \in Seq({"FINALIZATION", "ACTIVE"})
  /\ cround \in Nat /\ events \in Seq(BOOLEAN) /\ cend \in ClientEnds
  /\ sstate \in ServerStates /\ sjoined \subseteq JoinIds /\ scrypt \in {"off", "on"}
  /\ connected \in BOOLEAN /\ activated \in BOOLEAN /\ posts \in Nat
  /\ round \in Nat /\ confirmed \in Nat /\ fonts \in Nat
  /\ closing \in BOOLEAN /\ send \in ServerEnds
  /\ c2s \in Seq(Message(ClientPdus)) /\ s2c \in Seq(Message(ServerPdus))
  /\ cdata \in Nat /\ sdata \in Nat

\* Neither side ever receives a PDU it refuses, in whatever order reactivations,
\* input and channel data of both sides cross on the wire, unless the server's
\* application is closing the connection (peer_recv_callback and
\* rdp_recv_callback return -1 on a PDU their state does not accept).
NoRefusal ==
  /\ send # "refused"
  /\ cend = "refused" => closing \/ send # "open"

\* The server is ACTIVE only for the capabilities it demanded last: the Confirm
\* Active and the Font List PDU that took it there answer that Demand Active,
\* although neither carries a number and
\* rdp_server_accept_client_font_list_pdu checks no state.
ServerActiveForLastDemand ==
  sstate = "ACTIVE" => confirmed = round /\ fonts = round

\* The client is ACTIVE only on the four finalization PDUs of the exchange it
\* confirmed last, never on one left over from the exchange before
\* (finalize_sc_pdus), and only after the server was ACTIVE for it.
ClientActiveForLastDemand ==
  cstate = "ACTIVE" => /\ finalize \subseteq FinalizePdus \X {cround}
                       /\ fonts >= cround

\* Activated is published once for every exchange, with firstActivation exactly
\* the first time (rdp_recv_callback, deactivation_reactivation).
ActivatedOncePerExchange ==
  /\ Len(events) \in {cround - 1, cround}
  /\ cstate = "ACTIVE" => Len(events) = cround
  /\ \A i \in 1..Len(events) : events[i] = (i = 1)

\* No update reaches a client that is not ACTIVE: the server sends updates only
\* while activated is set, and a reactivation clears it before it deactivates.
UpdatesFindActiveClient ==
  cend = "open" /\ s2c # <<>> /\ Head(s2c).type = "Update" => cstate = "ACTIVE"

\* PostConnect is called once, not again after a reactivation, and the peer is
\* activated only after it and only in ACTIVE (rdp_server_transition_to_state).
PostConnectOnce ==
  /\ posts <= 1
  /\ activated => connected /\ posts = 1 /\ sstate = "ACTIVE"

\* An encrypted PDU is never on its way to a side that will not have the keys
\* when it arrives: the security exchange precedes it, or was received.
KeysPrecedeCiphertext ==
  /\ send = "open" =>
       \A i \in 1..Len(c2s) : c2s[i].enc =>
         scrypt = "on" \/ \E j \in 1..(i - 1) : c2s[j].type = "SecurityExchange"
  /\ \A i \in 1..Len(s2c) : s2c[i].enc => ccrypt # "off"

\* A channel the client takes as joined is joined on the server, and the server
\* leaves the join phase with every channel joined.
JoinsAgree ==
  /\ {JoinOrder[i] : i \in 1..cjoined} \subseteq sjoined
  /\ sstate \notin {"NEGO", "MCS_CONNECT", "MCS_ERECT_DOMAIN", "MCS_ATTACH_USER"} =>
       sjoined = JoinIds

\* Every deactivation ends in an active session again or in the end of the
\* connection, on both sides: the receive loop nested in
\* rdp_recv_deactivate_all terminates.
SessionActivates ==
  /\ sstate = "CAPABILITIES_EXCHANGE" ~> activated \/ send # "open"
  /\ cstate # "ACTIVE" ~> cstate = "ACTIVE" \/ cend # "open"

\* A reactivation the application asks for is carried out: the answer to its
\* Demand Active PDU is not refused.  "DesktopResize causes internal function
\* rdp_server_reactivate to be called, which causes the reactivation."
\* (server/proxy/pf_client.c)
ReactivationCarriedOut == send # "refused"

Abstract == INSTANCE Activation WITH offered <- round, granted <- fonts,
                                     reported <- Len(events)
\* The exchange of PDUs implements the activation of Activation.tla.
ImplementsActivation == Abstract!Spec

=============================================================================
