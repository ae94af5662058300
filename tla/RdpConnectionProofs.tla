------------------------ MODULE RdpConnectionProofs ------------------------
(***************************************************************************)
(* Theorems about RdpConnection for every number of channels, with and     *)
(* without a message channel and standard RDP security, for applications   *)
(* that reactivate the session at any time, and for every bound.           *)
(***************************************************************************)
EXTENDS RdpConnection, SequenceTheorems, FiniteSetTheorems, TLAPS

----------------------------------------------------------------------------
(* The join order.                                                         *)

\* A function on 1..n is a sequence of length n.
LEMMA FunctionIsSequence ==
  ASSUME NEW S, NEW n \in Nat, NEW f \in [1..n -> S]
  PROVE  f \in Seq(S) /\ Len(f) = n
<1>1. f \in Seq(S)
  BY SeqDef
<1> QED
  BY <1>1, LenProperties

\* The channels after the message channel, in the order of the client.
Static == [i \in 1..ChannelCount |-> ChannelId(i)]

\* The client joins only channels the server knows, at least the user channel
\* and the global channel.
LEMMA JoinOrderType == JoinOrder \in Seq(JoinIds) /\ Len(JoinOrder) \in Nat /\ Len(JoinOrder) >= 2
<1>1. Static \in Seq(JoinIds) /\ Len(Static) = ChannelCount
  <2>1. \A i \in 1..ChannelCount : ChannelId(i) \in JoinIds
    BY DEF JoinIds
  <2>2. Static \in [1..ChannelCount -> JoinIds]
    BY <2>1 DEF Static
  <2> QED
    BY <2>2, ChannelAssumption, FunctionIsSequence
<1>2. <<UserId, GlobalId>> \in Seq(JoinIds)
  BY DEF JoinIds
<1>3. (IF MessageChannel THEN <<MessageId>> ELSE <<>>) \in Seq(JoinIds)
  <2>1. CASE MessageChannel
    BY <2>1 DEF JoinIds
  <2>2. CASE ~MessageChannel
    BY <2>2
  <2> QED
    BY <2>1, <2>2
<1> QED
  BY <1>1, <1>2, <1>3, ChannelAssumption DEF JoinOrder, Static

----------------------------------------------------------------------------
(* The inductive invariant.                                                *)

\* The client counts joins only while it joins channels, and there is one left
\* to join as long as it does.
JoinPhase ==
  /\ cstate \in {"NEGO", "MCS_CONNECT", "MCS_ATTACH_USER"} => cjoined = 0
  /\ cstate = "MCS_CHANNEL_JOIN" => cjoined < Len(JoinOrder)

\* Join requests name channels of the server, and a confirmation under way
\* names one the server has joined.
JoinPdus ==
  /\ \A i \in 1..Len(c2s) : c2s[i].type = "Join" => c2s[i].arg \in JoinIds
  /\ \A i \in 1..Len(s2c) : /\ s2c[i].type = "JoinConfirm" => s2c[i].arg \in sjoined
                            /\ s2c[i].type = "AttachConfirm" => s2c[i].arg \in JoinIds

\* PostConnect was called if and only if connected is set, unless it failed.
PostCalls ==
  /\ connected => posts = 1
  /\ ~connected /\ send = "open" => posts = 0

\* Keys are only made for standard RDP security; the server has keys only if
\* the client has, and a client with keys has a
\* security exchange under way that the server has not received yet.
KeyOrder ==
  /\ ccrypt # "off" => UseRdpSecurityLayer
  /\ scrypt = "on" => ccrypt # "off"
  /\ \A i \in 1..Len(c2s) : c2s[i].type = "SecurityExchange" => ccrypt # "off"
  /\ send = "open" /\ ccrypt # "off" =>
       scrypt = "on" \/ \E i \in 1..Len(c2s) : c2s[i].type = "SecurityExchange"

IInv == TypeOK /\ JoinPhase /\ JoinPdus /\ JoinsAgree /\ PostCalls /\ PostConnectOnce
               /\ KeyOrder /\ KeysPrecedeCiphertext

----------------------------------------------------------------------------
(* Queues and the PDUs that are put into them.                             *)

\* Receiving a PDU shifts the others by one place.
LEMMA TailQueue ==
  ASSUME NEW S, NEW q \in Seq(S), q # <<>>
  PROVE  /\ Tail(q) \in Seq(S)
         /\ Len(q) \in Nat \ {0}
         /\ Len(Tail(q)) = Len(q) - 1
         /\ Head(q) = q[1]
         /\ Head(q) \in S
         /\ \A i \in 1..Len(Tail(q)) : Tail(q)[i] = q[i + 1]
OBVIOUS

\* A queue that loses its first PDU is another queue.
LEMMA TailShorter ==
  ASSUME NEW S, NEW q \in Seq(S), q # <<>>
  PROVE  Tail(q) # q
BY TailQueue

\* Sending PDUs leaves those under way where they are.
LEMMA ConcatQueue ==
  ASSUME NEW S, NEW q \in Seq(S), NEW r \in Seq(S)
  PROVE  /\ q \o r \in Seq(S)
         /\ Len(q) \in Nat /\ Len(r) \in Nat
         /\ Len(q \o r) = Len(q) + Len(r)
         /\ \A i \in 1..Len(q) : (q \o r)[i] = q[i]
         /\ \A i \in (Len(q) + 1)..Len(q \o r) : (q \o r)[i] = r[i - Len(q)]
         /\ \A i \in 1..Len(r) : r[i] \in S
OBVIOUS

\* The queue p is q with the PDUs r sent.
Longer(p, q, r) == p = q \o r

\* A PDU of the longer queue was under way before or is one of those sent.
LEMMA ConcatSplit ==
  ASSUME NEW S, NEW q \in Seq(S), NEW r \in Seq(S), NEW p, Longer(p, q, r), NEW i \in 1..Len(p)
  PROVE  \/ i \in 1..Len(q) /\ p[i] = q[i]
         \/ i - Len(q) \in 1..Len(r) /\ p[i] = r[i - Len(q)]
<1>1. Len(q) \in Nat /\ Len(r) \in Nat /\ Len(p) = Len(q) + Len(r)
  BY ConcatQueue DEF Longer
<1>2. CASE i \in 1..Len(q)
  BY <1>2, ConcatQueue DEF Longer
<1>3. CASE i \notin 1..Len(q)
  <2>1. i \in (Len(q) + 1)..Len(p) /\ i - Len(q) \in 1..Len(r)
    BY <1>1, <1>3
  <2> QED
    BY <2>1, ConcatQueue DEF Longer
<1> QED
  BY <1>2, <1>3

\* Sending one PDU.
LEMMA SendOne ==
  ASSUME NEW S, NEW q \in Seq(S), NEW T, NEW x \in T
  PROVE  <<x>> \in Seq(T) /\ Append(q, x) = q \o <<x>>
OBVIOUS

\* Sending two PDUs, or one.
LEMMA PairIsSequence ==
  ASSUME NEW S, NEW x \in S, NEW y \in S
  PROVE  <<x, y>> \in Seq(S) /\ <<x>> \in Seq(S)
OBVIOUS

\* What the client sends once it has joined its channels, except the security
\* exchange and the client info.
Late == [type : ShareRequests \cup {"Input", "Channel"}, arg : Nat, enc : {ccrypt # "off"}]

\* They are PDUs of the client.
LEMMA LateType == Late \subseteq Message(ClientPdus)
BY Zenon DEF Late, Message, ClientPdus

\* What the server sends apart from the confirmations of MCS requests.
Plain == [type : ServerPdus \ {"JoinConfirm", "AttachConfirm"}, arg : Nat,
          enc : {FALSE, scrypt # "off"}]

\* They are PDUs of the server.
LEMMA PlainType == Plain \subseteq Message(ServerPdus)
BY Zenon DEF Plain, Message

\* Every PDU built with ServerPdu is one of them.
LEMMA ServerPduPlain ==
  ASSUME NEW type \in ServerPdus \ {"JoinConfirm", "AttachConfirm"}, NEW r \in Nat
  PROVE  ServerPdu(type, r) \in Plain
BY DEF ServerPdu, Pdu, Plain

\* The answer to a Demand Active PDU (rdp_client_connect_demand_active,
\* rdp_client_connect_finalize) consists of late PDUs, at least five.
LEMMA ActivationPdusLate ==
  ASSUME TypeOK, NEW r \in Nat
  PROVE  ActivationPdus(r) \in Seq(Late) /\ Len(ActivationPdus(r)) >= 5
<1> DEFINE share(type) == Pdu(type, r, ccrypt # "off")
           burst == <<share("ConfirmActive"), share("Synchronize"), share("Cooperate"),
                      share("RequestControl")>>
           keys == IF reactivation THEN <<>> ELSE <<share("PersistentKeyList")>>
<1>1. \A type \in ShareRequests : share(type) \in Late
  BY DEF Pdu, Late
<1>2. burst \in Seq(Late) /\ Len(burst) = 4
  BY <1>1 DEF ShareRequests
<1>3. keys \in Seq(Late) /\ Len(keys) \in {0, 1}
  <2>1. CASE reactivation
    BY <2>1
  <2>2. CASE ~reactivation
    BY <2>2, <1>1 DEF ShareRequests
  <2> QED
    BY <2>1, <2>2
<1>4. <<share("FontList")>> \in Seq(Late) /\ Len(<<share("FontList")>>) = 1
  BY <1>1 DEF ShareRequests
<1>5. ActivationPdus(r) = burst \o keys \o <<share("FontList")>>
  BY DEF ActivationPdus
<1> DEFINE font == <<share("FontList")>>
<1>6. font \in Seq(Late) /\ Len(font) = 1 /\ ActivationPdus(r) = burst \o keys \o font
  BY <1>4, <1>5
<1> HIDE DEF burst, keys, share, font
<1>7. burst \o keys \in Seq(Late) /\ Len(burst \o keys) = Len(burst) + Len(keys)
  BY <1>2, <1>3, ConcatQueue, Zenon
<1>8. /\ burst \o keys \o font \in Seq(Late)
      /\ Len(burst \o keys \o font) = Len(burst \o keys) + Len(font)
  BY <1>6, <1>7, ConcatQueue, Zenon
<1> QED
  BY <1>2, <1>3, <1>6, <1>7, <1>8

\* Input of another thread within that answer is late as well.
LEMMA InputWithinLate ==
  ASSUME TypeOK, NEW pdus \in Seq(Late), NEW mix \in InputWithin(pdus)
  PROVE  mix \in Seq(Late)
<1>1. ClientPdu("Input") \in Late
  BY DEF ClientPdu, Pdu, Late, TypeOK
<1>2. PICK i \in 1..(Len(pdus) - 1) :
        mix = SubSeq(pdus, 1, i) \o <<ClientPdu("Input")>> \o SubSeq(pdus, i + 1, Len(pdus))
  BY Zenon DEF InputWithin
<1>3. SubSeq(pdus, 1, i) \in Seq(Late) /\ SubSeq(pdus, i + 1, Len(pdus)) \in Seq(Late)
  BY SubSeqProperties
<1> QED
  BY <1>1, <1>2, <1>3

----------------------------------------------------------------------------
(* Types.                                                                  *)

\* peer_recv_callback takes the first PDU off the queue of the client.
LEMMA ServerTakes ==
  ASSUME TypeOK, NEW types, ServerReceives(types)
  PROVE  /\ c2s' = Tail(c2s) /\ c2s # <<>> /\ send = "open"
         /\ c2s' \in Seq(Message(ClientPdus))
         /\ Head(c2s) = c2s[1] /\ Head(c2s) \in Message(ClientPdus)
         /\ Head(c2s).arg \in Nat /\ Head(c2s).type \in types
<1>1. c2s \in Seq(Message(ClientPdus)) /\ c2s # <<>>
  BY DEF ServerReceives, TypeOK
<1>2. Head(c2s) \in Message(ClientPdus) /\ Tail(c2s) \in Seq(Message(ClientPdus)) /\ Head(c2s) = c2s[1]
  BY <1>1, TailQueue
<1>3. Head(c2s).arg \in Nat
  BY <1>2 DEF Message
<1> QED
  BY <1>1, <1>2, <1>3 DEF ServerReceives

\* rdp_recv_callback takes the first PDU off the queue of the server.
LEMMA ClientTakes ==
  ASSUME TypeOK, NEW types, ClientReceives(types)
  PROVE  /\ s2c' = Tail(s2c) /\ s2c # <<>> /\ cend = "open"
         /\ s2c' \in Seq(Message(ServerPdus))
         /\ Head(s2c) = s2c[1] /\ Head(s2c) \in Message(ServerPdus)
         /\ Head(s2c).arg \in Nat /\ Head(s2c).type \in types
<1>1. s2c \in Seq(Message(ServerPdus)) /\ s2c # <<>>
  BY DEF ClientReceives, TypeOK
<1>2. Head(s2c) \in Message(ServerPdus) /\ Tail(s2c) \in Seq(Message(ServerPdus)) /\ Head(s2c) = s2c[1]
  BY <1>1, TailQueue
<1>3. Head(s2c).arg \in Nat
  BY <1>2 DEF Message
<1> QED
  BY <1>1, <1>2, <1>3 DEF ClientReceives

\* Appending plain PDUs keeps the type of the server's queue.
LEMMA PlainSent ==
  ASSUME TypeOK, NEW r \in Seq(Plain)
  PROVE  s2c \o r \in Seq(Message(ServerPdus)) /\ r \in Seq(Message(ServerPdus))
BY PlainType, SeqMonotonic, ConcatQueue DEF TypeOK

\* Appending late PDUs keeps the type of the client's queue.
LEMMA LateSent ==
  ASSUME TypeOK, NEW r \in Seq(Late)
  PROVE  c2s \o r \in Seq(Message(ClientPdus)) /\ r \in Seq(Message(ClientPdus))
BY LateType, SeqMonotonic, ConcatQueue DEF TypeOK

\* The PDUs of rdp_server_reactivate are plain.
LEMMA ReactivatePdusPlain ==
  ASSUME TypeOK
  PROVE  ReactivatePdus \in Seq(Plain)
<1>1. ServerPdu("DeactivateAll", round) \in Plain /\ ServerPdu("DemandActive", round + 1) \in Plain
  BY ServerPduPlain DEF TypeOK, ServerPdus, McsReplies
<1> QED
  BY <1>1 DEF ReactivatePdus

\* The licence PDU and Demand Active that follow the client info.
LEMMA ClientInfoSends ==
  ASSUME TypeOK, AcceptClientInfo
  PROVE  \E r \in Seq(Plain) : s2c' = s2c \o r
<1> DEFINE licence == ServerPdu("LicenseValidClient", 0)
           demand == ServerPdu("DemandActive", round + 1)
<1>0. round + 1 \in Nat
  BY DEF TypeOK
<1>1. licence \in Plain /\ demand \in Plain
  BY Zenon, <1>0, ServerPduPlain DEF ServerPdus
<1>2. \/ s2c' = s2c \o <<licence, demand>>
      \/ s2c' = Append(s2c, licence)
  BY DEF AcceptClientInfo
<1>3. <<licence, demand>> \in Seq(Plain) /\ <<licence>> \in Seq(Plain)
  BY <1>1
<1>4. Append(s2c, licence) = s2c \o <<licence>>
  BY DEF TypeOK
<1> QED
  BY Zenon, <1>2, <1>3, <1>4

\* The answer to Confirm Active, nothing when the callback fails.
LEMMA ConfirmActiveSends ==
  ASSUME TypeOK, AcceptConfirmActive
  PROVE  \E r \in Seq(Plain) : s2c' = s2c \o r
<1> DEFINE sync == ServerPdu("Synchronize", Head(c2s).arg)
           coop == ServerPdu("Cooperate", Head(c2s).arg)
<1>1. Head(c2s).arg \in Nat
  BY ServerTakes DEF AcceptConfirmActive
<1>2. sync \in Plain /\ coop \in Plain
  BY <1>1, ServerPduPlain DEF ServerPdus, FinalizePdus
<1>3. s2c' = s2c \o <<sync, coop>> \/ s2c' = s2c
  BY DEF AcceptConfirmActive
<1>4. <<sync, coop>> \in Seq(Plain) /\ <<>> \in Seq(Plain) /\ s2c = s2c \o <<>>
  BY <1>2 DEF TypeOK
<1> QED
  BY Zenon, <1>3, <1>4

\* The answer to a request for control.
LEMMA RequestControlSends ==
  ASSUME TypeOK, AcceptRequestControl
  PROVE  \E r \in Seq(Plain) : s2c' = s2c \o r
<1> DEFINE grant == ServerPdu("GrantedControl", Head(c2s).arg)
<1>1. Head(c2s).arg \in Nat
  BY ServerTakes DEF AcceptRequestControl
<1>2. grant \in Plain
  BY <1>1, ServerPduPlain DEF ServerPdus, FinalizePdus
<1>3. s2c' = s2c \o <<grant>> /\ <<grant>> \in Seq(Plain)
  BY <1>2 DEF AcceptRequestControl, TypeOK
<1> QED
  BY Zenon, <1>3

\* The Font Map PDU, and a reactivation when PostConnect asks for one.
LEMMA FontListSends ==
  ASSUME TypeOK, AcceptFontList
  PROVE  \E r \in Seq(Plain) : s2c' = s2c \o r
<1> DEFINE map == ServerPdu("FontMap", Head(c2s).arg)
<1>1. Head(c2s).arg \in Nat
  BY ServerTakes DEF AcceptFontList
<1>2. map \in Plain
  BY Zenon, <1>1, ServerPduPlain DEF ServerPdus, FinalizePdus
<1>3. \/ s2c' = Append(s2c, map)
      \/ s2c' = s2c \o <<map>> \o ReactivatePdus
  BY DEF AcceptFontList
<1>4. <<map>> \in Seq(Plain) /\ <<map>> \o ReactivatePdus \in Seq(Plain)
  BY <1>2, ReactivatePdusPlain
<1>5. Append(s2c, map) = s2c \o <<map>>
  BY DEF TypeOK
<1>6. s2c \o <<map>> \o ReactivatePdus = s2c \o (<<map>> \o ReactivatePdus)
  <2>1. /\ s2c \in Seq(Message(ServerPdus)) /\ <<map>> \in Seq(Message(ServerPdus))
        /\ ReactivatePdus \in Seq(Message(ServerPdus))
    BY <1>2, PlainType, ReactivatePdusPlain, SeqMonotonic DEF TypeOK
  <2> HIDE DEF map
  <2> QED
    BY <2>1, ConcatAssociative
<1> QED
  BY Zenon, <1>3, <1>4, <1>5, <1>6

\* Every PDU peer_recv_callback handles keeps the types.
LEMMA StepTypeServer ==
  ASSUME TypeOK, JoinPhase, ServerReceive
  PROVE  TypeOK'
<1> USE DEF client, server
<1>1. CASE AcceptConnectInitial
  <2>1. McsPdu("ConnectResponse", 0) \in Message(ServerPdus)
    BY DEF McsPdu, Pdu, Message, ServerPdus, McsReplies
  <2> QED
    BY <1>1, <2>1, ServerTakes DEF AcceptConnectInitial, TypeOK, ServerStates
<1>2. CASE AcceptErectDomain
  BY <1>2, ServerTakes DEF AcceptErectDomain, TypeOK, ServerStates
<1>3. CASE AcceptAttachUser
  <2>1. McsPdu("AttachConfirm", UserId) \in Message(ServerPdus)
    BY DEF McsPdu, Pdu, Message, ServerPdus, McsReplies, UserId
  <2> QED
    BY <1>3, <2>1, ServerTakes DEF AcceptAttachUser, TypeOK, ServerStates
<1>4. CASE AcceptJoin
  <2>1. ServerReceives({"Join"})
    BY <1>4 DEF AcceptJoin
  <2>2. McsPdu("JoinConfirm", Head(c2s).arg) \in Message(ServerPdus)
    BY <2>1, ServerTakes DEF McsPdu, Pdu, Message, ServerPdus, McsReplies
  <2> QED
    BY <1>4, <2>1, <2>2, ServerTakes DEF AcceptJoin, TypeOK, ServerStates
<1>5. CASE rdp_server_establish_keys
  BY <1>5, ServerTakes DEF rdp_server_establish_keys, TypeOK, ServerStates
<1>6. CASE AcceptClientInfo
  <2>1. PICK r \in Seq(Plain) : s2c' = s2c \o r
    BY <1>6, ClientInfoSends
  <2>2. s2c' \in Seq(Message(ServerPdus)) /\ c2s' \in Seq(Message(ClientPdus))
    BY <1>6, <2>1, ServerTakes, PlainSent DEF AcceptClientInfo
  <2>3. round' \in Nat /\ send' \in ServerEnds
    <3>1. round' \in {round, round + 1} /\ send' \in {send, "failed"}
      BY <1>6 DEF AcceptClientInfo
    <3> QED
      BY <3>1 DEF TypeOK, ServerEnds
  <2> QED
    BY Zenon, <1>6, <2>2, <2>3 DEF AcceptClientInfo, TypeOK, ServerStates
<1>7. CASE AcceptConfirmActive
  <2>1. PICK r \in Seq(Plain) : s2c' = s2c \o r
    BY <1>7, ConfirmActiveSends
  <2>2. s2c' \in Seq(Message(ServerPdus)) /\ c2s' \in Seq(Message(ClientPdus))
    BY <1>7, <2>1, ServerTakes, PlainSent DEF AcceptConfirmActive
  <2>3. Head(c2s).arg \in Nat
    BY <1>7, ServerTakes DEF AcceptConfirmActive
  <2>4. /\ sstate' \in ServerStates /\ activated' \in BOOLEAN
        /\ confirmed' \in Nat /\ send' \in ServerEnds
    BY Zenon, <1>7, <2>3 DEF AcceptConfirmActive, TypeOK, ServerStates, ServerEnds
  <2> QED
    BY Zenon, <1>7, <2>2, <2>4 DEF AcceptConfirmActive, TypeOK
<1>8. CASE AcceptRequestControl
  <2>1. PICK r \in Seq(Plain) : s2c' = s2c \o r
    BY <1>8, RequestControlSends
  <2> QED
    BY Zenon, <1>8, <2>1, ServerTakes, PlainSent DEF AcceptRequestControl, TypeOK
<1>9. CASE AcceptData
  BY <1>9, ServerTakes DEF AcceptData, TypeOK
<1>10. CASE AcceptFontList
  <2>1. PICK r \in Seq(Plain) : s2c' = s2c \o r
    BY <1>10, FontListSends
  <2>2. s2c' \in Seq(Message(ServerPdus)) /\ c2s' \in Seq(Message(ClientPdus))
    BY <1>10, <2>1, ServerTakes, PlainSent DEF AcceptFontList
  <2>3. fonts' \in Nat
    BY <1>10, ServerTakes DEF AcceptFontList
  <2>4. posts' \in Nat /\ round' \in Nat
    <3>1. posts' \in {posts, posts + 1} /\ round' \in {round, round + 1}
      BY <1>10 DEF AcceptFontList
    <3> QED
      BY <3>1 DEF TypeOK
  <2>5. AppResults \subseteq BOOLEAN
    BY Zenon DEF AppResults
  <2>6. /\ sstate' \in ServerStates /\ activated' \in BOOLEAN
        /\ connected' \in BOOLEAN /\ send' \in ServerEnds
    BY Zenon, <1>10, <2>5 DEF AcceptFontList, TypeOK, ServerStates, ServerEnds
  <2> QED
    BY Zenon, <1>10, <2>2, <2>3, <2>4, <2>6 DEF AcceptFontList, TypeOK
<1>11. CASE ServerRefuses
  BY <1>11, TailQueue DEF ServerRefuses, TypeOK, ServerEnds
<1> QED
  BY <1>1, <1>2, <1>3, <1>4, <1>5, <1>6, <1>7, <1>8, <1>9, <1>10, <1>11 DEF ServerReceive

\* What rdp_server_reactivate, updates, channel data and peer->Close append.
LEMMA ServerAppSends ==
  ASSUME TypeOK,
         rdp_server_reactivate \/ ServerUpdate \/ ServerChannelData \/ freerdp_peer_close
  PROVE  \E r \in Seq(Plain) : s2c' = s2c \o r
<1>1. CASE rdp_server_reactivate
  BY Zenon, <1>1, ReactivatePdusPlain DEF rdp_server_reactivate
<1>2. ASSUME NEW type \in {"Update", "Channel"}, s2c' = Append(s2c, ServerPdu(type, 0))
      PROVE  \E r \in Seq(Plain) : s2c' = s2c \o r
  <2>1. ServerPdu(type, 0) \in Plain
    BY ServerPduPlain DEF ServerPdus
  <2>2. <<ServerPdu(type, 0)>> \in Seq(Plain) /\ s2c' = s2c \o <<ServerPdu(type, 0)>>
    BY <1>2, <2>1 DEF TypeOK
  <2> QED
    BY Zenon, <2>2
<1>3. CASE freerdp_peer_close
  <2> DEFINE off == ServerPdu("DeactivateAll", round)
             ult == McsPdu("Ultimatum", 0)
             err == ServerPdu("ErrorInfo", 0)
  <2>1. off \in Plain /\ err \in Plain
    BY Zenon, ServerPduPlain DEF ServerPdus, TypeOK
  <2>2. ult \in Plain
    BY DEF McsPdu, Pdu, Plain, ServerPdus
  <2>3. PICK info \in {<<>>, <<err>>} : s2c' = s2c \o <<off>> \o info \o <<ult>>
    BY Zenon, <1>3 DEF freerdp_peer_close
  <2> HIDE DEF off, ult, err
  <2>4. info \in Seq(Plain) /\ <<off>> \in Seq(Plain) /\ <<ult>> \in Seq(Plain)
    <3>1. <<off>> \in Seq(Plain) /\ <<err>> \in Seq(Plain) /\ <<ult>> \in Seq(Plain)
      BY <2>1, <2>2
    <3>2. info = <<>> \/ info = <<err>>
      BY <2>3
    <3> QED
      <4>1. <<>> \in Seq(Plain)
        OBVIOUS
      <4>2. CASE info = <<>>
        BY <3>1, <4>1, <4>2
      <4>3. CASE info = <<err>>
        BY <3>1, <4>3
      <4> QED
        BY <3>2, <4>2, <4>3
  <2>5. s2c \in Seq(Message(ServerPdus)) /\ \A r \in Seq(Plain) : r \in Seq(Message(ServerPdus))
    BY PlainSent DEF TypeOK
  <2>6. <<off>> \o info \o <<ult>> \in Seq(Plain)
    BY <2>4
  <2>7. s2c' = s2c \o (<<off>> \o info \o <<ult>>)
    <3>1. s2c \o <<off>> \in Seq(Message(ServerPdus)) /\ <<off>> \o info \in Seq(Message(ServerPdus))
      BY Zenon, <2>4, <2>5, ConcatQueue
    <3>2. (s2c \o <<off>>) \o info = s2c \o (<<off>> \o info)
      BY <2>4, <2>5, ConcatAssociative
    <3>3. (s2c \o (<<off>> \o info)) \o <<ult>> = s2c \o ((<<off>> \o info) \o <<ult>>)
      BY <2>4, <2>5, <3>1, ConcatAssociative
    <3> QED
      BY <2>3, <3>2, <3>3
  <2> QED
    BY Zenon, <2>6, <2>7
<1> QED
  BY Zenon, <1>1, <1>2, <1>3 DEF ServerUpdate, ServerChannelData

\* Calls of the server's application, and the end of the connection, keep the types.
LEMMA StepTypeServerApp ==
  ASSUME TypeOK,
         \/ rdp_server_reactivate \/ ServerUpdate \/ ServerChannelData \/ freerdp_peer_close
         \/ freerdp_peer_disconnect \/ ServerReadFails
  PROVE  TypeOK'
<1> USE DEF client, server
<1>1. CASE rdp_server_reactivate
  <2>1. s2c' \in Seq(Message(ServerPdus))
    BY Zenon, <1>1, ServerAppSends, PlainSent
  <2> QED
    <3>1. activated' = FALSE /\ sstate' \in ServerStates
      BY <1>1 DEF rdp_server_reactivate, ServerStates
    <3>4. round' \in Nat
      BY <1>1 DEF rdp_server_reactivate, TypeOK
    <3>2. UNCHANGED <<client, sjoined, scrypt, connected, posts, confirmed, fonts, closing,
                      send, c2s, cdata, sdata>>
      BY <1>1 DEF rdp_server_reactivate
    <3> QED
      BY Zenon, <2>1, <3>1, <3>2, <3>4 DEF TypeOK
<1>2. CASE ServerUpdate
  <2>1. s2c' \in Seq(Message(ServerPdus))
    BY Zenon, <1>2, ServerAppSends, PlainSent
  <2>2. sdata' = sdata + 1 /\ UNCHANGED <<client, server, c2s, cdata>>
    BY <1>2 DEF ServerUpdate
  <2> QED
    BY <2>1, <2>2 DEF TypeOK
<1>3. CASE ServerChannelData
  <2>1. s2c' \in Seq(Message(ServerPdus))
    BY Zenon, <1>3, ServerAppSends, PlainSent
  <2>2. sdata' = sdata + 1 /\ UNCHANGED <<client, server, c2s, cdata>>
    BY <1>3 DEF ServerChannelData
  <2> QED
    BY <2>1, <2>2 DEF TypeOK
<1>4. CASE freerdp_peer_close
  <2>1. s2c' \in Seq(Message(ServerPdus))
    BY Zenon, <1>4, ServerAppSends, PlainSent
  <2> QED
    <3>1. closing' = TRUE
      BY Zenon, <1>4 DEF freerdp_peer_close
    <3>2. UNCHANGED <<client, sstate, sjoined, scrypt, connected, activated, posts, round,
                      confirmed, fonts, send, c2s, cdata, sdata>>
      BY Zenon, <1>4 DEF freerdp_peer_close
    <3> QED
      BY <2>1, <3>1, <3>2 DEF TypeOK
<1>5. CASE freerdp_peer_disconnect
  BY <1>5 DEF freerdp_peer_disconnect, TypeOK, ServerEnds
<1>6. CASE ServerReadFails
  BY <1>6 DEF ServerReadFails, TypeOK, ServerEnds
<1> QED
  BY <1>1, <1>2, <1>3, <1>4, <1>5, <1>6

\* What the client answers to Demand Active, and what its other threads send.
LEMMA DemandActiveSends ==
  ASSUME TypeOK, RecvDemandActive
  PROVE  \E r \in Seq(Late) : c2s' = c2s \o r
<1>1. cround' = Head(s2c).arg /\ Head(s2c).arg \in Nat
  BY ClientTakes DEF RecvDemandActive
<1> DEFINE pdus == ActivationPdus(cround')
<1>2. pdus \in Seq(Late) /\ Len(pdus) >= 5
  BY <1>1, ActivationPdusLate
<1>3. \/ c2s' = c2s \o pdus
      \/ \E mix \in InputWithin(pdus) : c2s' = c2s \o mix
      \/ c2s' = Append(c2s, Head(pdus))
  BY DEF RecvDemandActive
<1> HIDE DEF pdus
<1>4. \A mix \in InputWithin(pdus) : mix \in Seq(Late)
  BY <1>2, InputWithinLate
<1>5. pdus # <<>>
  BY <1>2
<1>6. Head(pdus) \in Late
  BY <1>2, <1>5, TailQueue
<1>7. <<Head(pdus)>> \in Seq(Late) /\ Append(c2s, Head(pdus)) = c2s \o <<Head(pdus)>>
  <2>1. c2s \in Seq(Message(ClientPdus))
    BY DEF TypeOK
  <2> QED
    BY <1>6, <2>1, SendOne
<1> QED
  BY <1>2, <1>3, <1>4, <1>7

\* Input and channel data are late PDUs.
LEMMA ClientDataSends ==
  ASSUME TypeOK, ClientSendData
  PROVE  \E r \in Seq(Late) : c2s' = c2s \o r
<1>1. PICK type \in {"Input", "Channel"} : c2s' = Append(c2s, ClientPdu(type))
  BY DEF ClientSendData
<1>2. ClientPdu(type) \in Late
  BY DEF ClientPdu, Pdu, Late, TypeOK
<1>3. <<ClientPdu(type)>> \in Seq(Late) /\ c2s' = c2s \o <<ClientPdu(type)>>
  BY <1>1, <1>2 DEF TypeOK
<1> QED
  BY <1>3

\* The client reports an activation a finite number of times (Reports).
LEMMA ReportsType ==
  ASSUME TypeOK
  PROVE  Reports \in Nat
<1>1. Len(frames) \in Nat
  BY DEF TypeOK
<1>2. IsFiniteSet({i \in 1..Len(frames) : frames[i] = "FINALIZATION"})
  <2>1. IsFiniteSet(1..Len(frames))
    BY <1>1, FS_Interval
  <2> QED
    BY <2>1, FS_Subset
<1> QED
  BY <1>2, FS_CardinalityType DEF Reports

\* The client's receive callback, its connect call and its other threads keep
\* the types; the join phase ends when no channel is left.
LEMMA StepTypeClient ==
  ASSUME TypeOK, JoinPhase,
         \/ mcs_client_begin \/ ClientReceive \/ ClientSendData
         \/ rdp_client_disconnect \/ ClientReadFails
  PROVE  TypeOK' /\ JoinPhase'
<1> USE DEF client, server
<1>0. Len(JoinOrder) \in Nat /\ Len(JoinOrder) >= 2 /\ JoinOrder \in Seq(JoinIds)
  BY JoinOrderType
<1>q. c2s \in Seq(Message(ClientPdus)) /\ s2c \in Seq(Message(ServerPdus))
  BY DEF TypeOK
<1>1. CASE mcs_client_begin
  <2>1. McsPdu("ConnectInitial", 0) \in Message(ClientPdus)
    BY DEF McsPdu, Pdu, Message, ClientPdus, McsRequests
  <2>2. c2s' \in Seq(Message(ClientPdus))
    BY <1>1, <1>q, <2>1 DEF mcs_client_begin
  <2> QED
    BY <1>0, <1>1, <2>2 DEF mcs_client_begin, TypeOK, JoinPhase, ClientStates
<1>2. CASE RecvConnectResponse
  <2>1. /\ McsPdu("ErectDomain", 0) \in Message(ClientPdus)
        /\ McsPdu("AttachUser", 0) \in Message(ClientPdus)
    BY DEF McsPdu, Pdu, Message, ClientPdus, McsRequests
  <2>2. c2s' \in Seq(Message(ClientPdus))
    BY <1>2, <1>q, <2>1 DEF RecvConnectResponse
  <2>3. s2c' \in Seq(Message(ServerPdus)) /\ cstate = "MCS_CONNECT"
    BY <1>2, ClientTakes DEF RecvConnectResponse, ClientReceives, ClientAccepts, PduLoopStates,
         DataPdus, FinalizePdus
  <2> QED
    BY <1>0, <1>2, <2>2, <2>3 DEF RecvConnectResponse, TypeOK, JoinPhase, ClientStates
<1>3. CASE RecvAttachConfirm
  <2>1. ClientReceives({"AttachConfirm"})
    BY <1>3 DEF RecvAttachConfirm
  <2>2. McsPdu("Join", Head(s2c).arg) \in Message(ClientPdus)
    BY <2>1, ClientTakes DEF McsPdu, Pdu, Message, ClientPdus, McsRequests
  <2>3. c2s' \in Seq(Message(ClientPdus))
    BY <1>3, <1>q, <2>2 DEF RecvAttachConfirm
  <2>4. s2c' \in Seq(Message(ServerPdus)) /\ cstate = "MCS_ATTACH_USER"
    BY <2>1, ClientTakes DEF ClientReceives, ClientAccepts, PduLoopStates, DataPdus, FinalizePdus
  <2> QED
    BY <1>0, <1>3, <2>3, <2>4 DEF RecvAttachConfirm, TypeOK, JoinPhase, ClientStates
<1>4. CASE RecvJoinConfirm
  <2>1. ClientReceives({"JoinConfirm"})
    BY <1>4 DEF RecvJoinConfirm
  <2>2. s2c' \in Seq(Message(ServerPdus)) /\ cstate = "MCS_CHANNEL_JOIN"
    BY <2>1, ClientTakes DEF ClientReceives, ClientAccepts, PduLoopStates, DataPdus, FinalizePdus
  <2>3. cjoined < Len(JoinOrder) /\ cjoined \in Nat /\ cjoined' = cjoined + 1
    BY <1>0, <1>4, <2>2 DEF JoinPhase, TypeOK, RecvJoinConfirm
  <2>4. CASE cjoined' < Len(JoinOrder)
    <3>1. JoinOrder[cjoined' + 1] \in Nat
      BY <1>0, <2>3, <2>4, ChannelAssumption
         DEF JoinIds, UserId, GlobalId, MessageId, ChannelId
    <3>2. McsPdu("Join", JoinOrder[cjoined' + 1]) \in Message(ClientPdus)
      BY <3>1 DEF McsPdu, Pdu, Message, ClientPdus, McsRequests
    <3>3. /\ c2s' = Append(c2s, McsPdu("Join", JoinOrder[cjoined' + 1]))
          /\ UNCHANGED <<ccrypt, cstate>>
      BY <1>4, <2>4 DEF RecvJoinConfirm
    <3>4. c2s' \in Seq(Message(ClientPdus))
      BY <1>q, <3>2, <3>3
    <3>5. UNCHANGED <<finalize, reactivation, frames, cround, events, cend, server, cdata, sdata>>
      BY <1>4 DEF RecvJoinConfirm
    <3>6. ccrypt' = ccrypt /\ cstate' = cstate
      BY <3>3
    <3> QED
      BY <1>0, <2>2, <2>3, <2>4, <3>4, <3>5, <3>6 DEF TypeOK, JoinPhase
  <2>5. CASE ~(cjoined' < Len(JoinOrder))
    <3>1. SecurityPdus \in Seq(Message(ClientPdus))
      <4>1. /\ McsPdu("SecurityExchange", 0) \in Message(ClientPdus)
            /\ Pdu("ClientInfo", 0, TRUE) \in Message(ClientPdus)
            /\ Pdu("ClientInfo", 0, FALSE) \in Message(ClientPdus)
        BY DEF McsPdu, Pdu, Message, ClientPdus
      <4>2. /\ <<McsPdu("SecurityExchange", 0), Pdu("ClientInfo", 0, TRUE)>>
                 \in Seq(Message(ClientPdus))
            /\ <<Pdu("ClientInfo", 0, FALSE)>> \in Seq(Message(ClientPdus))
        BY <4>1, PairIsSequence
      <4> QED
        BY <4>2 DEF SecurityPdus
    <3>2. /\ c2s' = c2s \o SecurityPdus /\ cstate' = "LICENSING"
          /\ ccrypt' \in {"on", "off"}
      BY <1>4, <2>5 DEF RecvJoinConfirm
    <3>3. c2s' \in Seq(Message(ClientPdus))
      BY <1>q, <3>1, <3>2, ConcatQueue
    <3>4. UNCHANGED <<finalize, reactivation, frames, cround, events, cend, server, cdata, sdata>>
      BY <1>4 DEF RecvJoinConfirm
    <3>5. cstate' = "LICENSING" /\ ccrypt' \in {"on", "off"}
      BY <3>2
    <3> QED
      BY <1>0, <2>2, <2>3, <2>5, <3>3, <3>4, <3>5 DEF TypeOK, JoinPhase, ClientStates
  <2> QED
    BY <2>4, <2>5
<1>5. CASE RecvLicense
  <2>1. s2c' \in Seq(Message(ServerPdus))
    BY <1>5, ClientTakes DEF RecvLicense
  <2> QED
    BY <1>5, <2>1 DEF RecvLicense, TypeOK, JoinPhase, ClientStates
<1>6. CASE RecvDemandActive
  <2>1. s2c' \in Seq(Message(ServerPdus)) /\ cround' \in Nat
    BY <1>6, ClientTakes DEF RecvDemandActive
  <2>2. c2s' \in Seq(Message(ClientPdus))
    BY <1>6, DemandActiveSends, LateSent
  <2>3. \/ cstate' = "FINALIZATION" /\ finalize' = {} /\ cend' = cend
        \/ cstate' = cstate /\ finalize' = finalize /\ cend' = "failed"
    BY <1>6 DEF RecvDemandActive, EnterFinalization
  <2>4. cdata' \in {cdata, cdata + 1}
    BY <1>6 DEF RecvDemandActive
  <2>5. UNCHANGED <<cjoined, ccrypt, reactivation, frames, events, server, sdata>>
    BY <1>6 DEF RecvDemandActive
  <2> QED
    BY <2>1, <2>2, <2>3, <2>4, <2>5 DEF TypeOK, JoinPhase, ClientStates, ClientEnds
<1>7. CASE RecvDataOutOfSequence
  <2>1. ClientReceives(DataPdus)
    BY <1>7 DEF RecvDataOutOfSequence
  <2>2. s2c' \in Seq(Message(ServerPdus)) /\ Counted(Head(s2c)) \subseteq FinalizePdus \X Nat
    BY <2>1, ClientTakes DEF Counted
  <2> QED
    BY <1>7, <2>2 DEF RecvDataOutOfSequence, TypeOK, JoinPhase, ClientEnds
<1>8. CASE RecvData
  <2>1. ClientReceives({"Update", "Channel"} \cup DataPdus)
    BY <1>8 DEF RecvData
  <2>2. s2c' \in Seq(Message(ServerPdus)) /\ Counted(Head(s2c)) \subseteq FinalizePdus \X Nat
    BY <2>1, ClientTakes DEF Counted
  <2>3. Reports \in Nat
    BY ReportsType
  <2>4. [i \in 1..Reports |-> ~reactivation] \in Seq(BOOLEAN)
    BY <2>3, FunctionIsSequence
  <2>5. /\ events' \in Seq(BOOLEAN) /\ frames' \in {frames, <<>>}
        /\ cstate' = cstate \/ cstate' = "ACTIVE"
    <3>1. events \in Seq(BOOLEAN)
      BY DEF TypeOK
    <3>2. events \o [i \in 1..Reports |-> ~reactivation] \in Seq(BOOLEAN)
      BY <2>4, <3>1, ConcatQueue
    <3>3. \/ /\ events' = events \o [i \in 1..Reports |-> ~reactivation]
             /\ frames' = <<>> /\ cstate' = "ACTIVE"
          \/ UNCHANGED <<cstate, events, frames>>
      BY <1>8 DEF RecvData
    <3> QED
      BY <3>1, <3>2, <3>3
  <2>6. finalize' = finalize \cup Counted(Head(s2c))
    BY <1>8 DEF RecvData
  <2>7. UNCHANGED <<cjoined, ccrypt, reactivation, cround, cend, server, c2s, cdata, sdata>>
    BY <1>8 DEF RecvData
  <2>8. finalize' \subseteq FinalizePdus \X Nat
    BY <2>2, <2>6 DEF TypeOK
  <2>9. frames' \in Seq({"FINALIZATION", "ACTIVE"}) /\ cstate' \in ClientStates
    <3>1. frames \in Seq({"FINALIZATION", "ACTIVE"}) /\ <<>> \in Seq({"FINALIZATION", "ACTIVE"})
      BY DEF TypeOK
    <3>2. cstate \in ClientStates /\ "ACTIVE" \in ClientStates
      BY DEF TypeOK, ClientStates
    <3> QED
      BY <2>5, <3>1, <3>2
  <2>10. JoinPhase'
    BY <2>5, <2>7 DEF JoinPhase
  <2> QED
    BY <2>2, <2>5, <2>7, <2>8, <2>9, <2>10 DEF TypeOK
<1>9. CASE rdp_recv_deactivate_all
  <2>1. s2c' \in Seq(Message(ServerPdus)) /\ cstate \in PduLoopStates
    BY <1>9, ClientTakes DEF rdp_recv_deactivate_all, ClientReceives, ClientAccepts, DataPdus,
         FinalizePdus
  <2>2. frames' \in Seq({"FINALIZATION", "ACTIVE"})
    BY <1>9, <2>1 DEF rdp_recv_deactivate_all, PduLoopStates, TypeOK
  <2> QED
    BY <1>9, <2>1, <2>2 DEF rdp_recv_deactivate_all, TypeOK, JoinPhase, ClientStates
<1>10. CASE RecvUltimatum
  <2>1. s2c' \in Seq(Message(ServerPdus))
    BY <1>10, ClientTakes DEF RecvUltimatum
  <2> QED
    BY <1>10, <2>1 DEF RecvUltimatum, TypeOK, JoinPhase, ClientEnds
<1>11. CASE ClientRefuses
  <2>1. s2c' \in Seq(Message(ServerPdus))
    BY <1>11, <1>q, TailQueue DEF ClientRefuses
  <2> QED
    BY <1>11, <2>1 DEF ClientRefuses, TypeOK, JoinPhase, ClientEnds
<1>12. CASE ClientSendData
  <2>1. c2s' \in Seq(Message(ClientPdus))
    BY <1>12, ClientDataSends, LateSent
  <2>2. cdata' = cdata + 1 /\ UNCHANGED <<client, server, s2c, sdata>>
    BY <1>12 DEF ClientSendData
  <2> QED
    BY <2>1, <2>2 DEF TypeOK, JoinPhase
<1>13. CASE rdp_client_disconnect
  BY <1>13 DEF rdp_client_disconnect, TypeOK, JoinPhase, ClientEnds
<1>14. CASE ClientReadFails
  BY <1>14 DEF ClientReadFails, TypeOK, JoinPhase, ClientEnds
<1> QED
  BY <1>1, <1>2, <1>3, <1>4, <1>5, <1>6, <1>7, <1>8, <1>9, <1>10, <1>11, <1>12, <1>13, <1>14
     DEF ClientReceive

----------------------------------------------------------------------------
(* What the steps of one side do to the queues.                            *)

ServerAct ==
  \/ ServerReceive \/ rdp_server_reactivate \/ ServerUpdate \/ ServerChannelData
  \/ freerdp_peer_close \/ freerdp_peer_disconnect \/ ServerReadFails

ClientAct ==
  \/ mcs_client_begin \/ ClientReceive \/ ClientSendData
  \/ rdp_client_disconnect \/ ClientReadFails

\* What a step of the server may append: confirmations only of channels that
\* are joined, and ciphertext only when the server has keys.
ServerSends(r) ==
  /\ r \in Seq(Message(ServerPdus))
  /\ s2c' = s2c \o r
  /\ \A i \in 1..Len(r) : /\ r[i].enc => scrypt # "off"
                          /\ r[i].type = "JoinConfirm" => r[i].arg \in sjoined'
                          /\ r[i].type = "AttachConfirm" => r[i].arg \in JoinIds

\* Plain PDUs are such PDUs.
LEMMA PlainServerSends ==
  ASSUME TypeOK, NEW r \in Seq(Plain), s2c' = s2c \o r
  PROVE  ServerSends(r)
<1>1. r \in Seq(Message(ServerPdus))
  BY PlainSent
<1>2. \A i \in 1..Len(r) : r[i] \in Plain
  OBVIOUS
<1> QED
  BY <1>1, <1>2 DEF ServerSends, Plain

\* So is a single confirmation.
LEMMA OneServerSends ==
  ASSUME TypeOK, NEW x \in Message(ServerPdus), s2c' = Append(s2c, x), ~x.enc,
         x.type = "JoinConfirm" => x.arg \in sjoined',
         x.type = "AttachConfirm" => x.arg \in JoinIds
  PROVE  \E r : ServerSends(r)
<1>1. <<x>> \in Seq(Message(ServerPdus)) /\ s2c' = s2c \o <<x>>
  BY SendOne DEF TypeOK
<1>2. \A i \in 1..Len(<<x>>) : <<x>>[i] = x
  OBVIOUS
<1>3. ServerSends(<<x>>)
  BY <1>1, <1>2 DEF ServerSends
<1> QED
  BY <1>3

\* So is nothing.
LEMMA NoneServerSends ==
  ASSUME TypeOK, s2c' = s2c
  PROVE  \E r : ServerSends(r)
<1>1. ServerSends(<<>>)
  BY DEF ServerSends, TypeOK
<1> QED
  BY <1>1

\* Whatever the server does, it appends such PDUs and takes at most the first
\* PDU of the client.
LEMMA ServerStep ==
  ASSUME TypeOK, JoinPdus, ServerAct
  PROVE  /\ \E r : ServerSends(r)
         /\ sjoined \subseteq sjoined'
         /\ UNCHANGED client
         /\ \/ c2s' = c2s /\ scrypt' = scrypt
            \/ /\ c2s # <<>> /\ c2s' = Tail(c2s)
               /\ \/ send' # "open" /\ scrypt' = scrypt
                  \/ c2s[1].type = "SecurityExchange" /\ scrypt' = "on"
                  \/ c2s[1].type # "SecurityExchange" /\ scrypt' = scrypt
         /\ send' = "open" => send = "open"
<1> USE DEF server
<1>1. CASE AcceptConnectInitial
  <2>1. McsPdu("ConnectResponse", 0) \in Message(ServerPdus)
    BY DEF McsPdu, Pdu, Message, ServerPdus, McsReplies
  <2>2. \E r : ServerSends(r)
    BY <1>1, <2>1, OneServerSends DEF AcceptConnectInitial, McsPdu, Pdu
  <2>3. ServerReceives({"ConnectInitial"})
    BY <1>1 DEF AcceptConnectInitial
  <2> QED
    BY <1>1, <2>2, <2>3, ServerTakes DEF AcceptConnectInitial
<1>2. CASE AcceptErectDomain
  <2>1. ServerReceives({"ErectDomain"}) /\ s2c' = s2c
    BY <1>2 DEF AcceptErectDomain
  <2> QED
    BY <1>2, <2>1, ServerTakes, NoneServerSends DEF AcceptErectDomain
<1>3. CASE AcceptAttachUser
  <2>1. McsPdu("AttachConfirm", UserId) \in Message(ServerPdus)
    BY DEF McsPdu, Pdu, Message, ServerPdus, McsReplies, UserId
  <2>2. \E r : ServerSends(r)
    BY <1>3, <2>1, OneServerSends DEF AcceptAttachUser, McsPdu, Pdu, JoinIds
  <2>3. ServerReceives({"AttachUser"})
    BY <1>3 DEF AcceptAttachUser
  <2> QED
    BY <1>3, <2>2, <2>3, ServerTakes DEF AcceptAttachUser
<1>4. CASE AcceptJoin
  <2>1. ServerReceives({"Join"})
    BY <1>4 DEF AcceptJoin
  <2>2. McsPdu("JoinConfirm", Head(c2s).arg) \in Message(ServerPdus)
    BY <2>1, ServerTakes DEF McsPdu, Pdu, Message, ServerPdus, McsReplies
  <2>3. Len(c2s) \in Nat \ {0} /\ Head(c2s) = c2s[1]
    BY <2>1, TailQueue DEF ServerReceives, TypeOK
  <2>4. Head(c2s).arg \in JoinIds
    BY <2>1, <2>3, ServerTakes DEF JoinPdus
  <2>5. Head(c2s).arg \in sjoined'
    BY <1>4, <2>4 DEF AcceptJoin
  <2>6. \E r : ServerSends(r)
    BY <1>4, <2>2, <2>5, OneServerSends DEF AcceptJoin, McsPdu, Pdu
  <2> QED
    BY <1>4, <2>1, <2>6, ServerTakes DEF AcceptJoin
<1>5. CASE rdp_server_establish_keys
  <2>1. ServerReceives({"SecurityExchange"}) /\ s2c' = s2c
    BY <1>5 DEF rdp_server_establish_keys
  <2> QED
    BY <1>5, <2>1, ServerTakes, NoneServerSends DEF rdp_server_establish_keys
<1>6. CASE AcceptClientInfo
  <2>1. ServerReceives({"ClientInfo"})
    BY <1>6 DEF AcceptClientInfo
  <2>2. \E r : ServerSends(r)
    BY <1>6, ClientInfoSends, PlainServerSends
  <2>3. UNCHANGED <<client, sjoined, scrypt>>
    BY <1>6 DEF AcceptClientInfo
  <2> QED
    BY <2>1, <2>2, <2>3, ServerTakes
<1>7. CASE AcceptConfirmActive
  <2>1. ServerReceives({"ConfirmActive"})
    BY <1>7 DEF AcceptConfirmActive
  <2>2. \E r : ServerSends(r)
    BY <1>7, ConfirmActiveSends, PlainServerSends
  <2>3. UNCHANGED <<client, sjoined, scrypt>>
    BY <1>7 DEF AcceptConfirmActive
  <2> QED
    BY <2>1, <2>2, <2>3, ServerTakes
<1>8. CASE AcceptRequestControl
  <2>1. ServerReceives({"RequestControl"})
    BY <1>8 DEF AcceptRequestControl
  <2>2. \E r : ServerSends(r)
    BY <1>8, RequestControlSends, PlainServerSends
  <2>3. UNCHANGED <<client, sjoined, scrypt, send>>
    BY <1>8 DEF AcceptRequestControl
  <2> QED
    BY <2>1, <2>2, <2>3, ServerTakes
<1>9. CASE AcceptData
  <2>1. /\ ServerReceives({"Synchronize", "Cooperate", "PersistentKeyList", "Input", "Channel"})
        /\ s2c' = s2c
    BY <1>9 DEF AcceptData
  <2>2. \E r : ServerSends(r)
    BY <2>1, NoneServerSends
  <2>3. UNCHANGED <<client, sjoined, scrypt, send>>
    BY <1>9 DEF AcceptData
  <2>4. c2s # <<>> /\ c2s' = Tail(c2s) /\ Head(c2s) = c2s[1]
    BY <2>1, ServerTakes
  <2>5. c2s[1].type # "SecurityExchange"
    BY <2>1, <2>4 DEF ServerReceives
  <2> QED
    BY <2>2, <2>3, <2>4, <2>5
<1>10. CASE AcceptFontList
  <2>1. ServerReceives({"FontList"})
    BY <1>10 DEF AcceptFontList
  <2>2. \E r : ServerSends(r)
    BY <1>10, FontListSends, PlainServerSends
  <2>3. UNCHANGED <<client, sjoined, scrypt>>
    BY <1>10 DEF AcceptFontList
  <2> QED
    BY <2>1, <2>2, <2>3, ServerTakes
<1>11. CASE ServerRefuses
  <2>1. \E r : ServerSends(r)
    BY <1>11, NoneServerSends DEF ServerRefuses
  <2>2. /\ send = "open" /\ send' = "refused" /\ c2s # <<>> /\ c2s' = Tail(c2s)
        /\ UNCHANGED <<client, sjoined, scrypt>>
    BY <1>11 DEF ServerRefuses
  <2> QED
    BY <2>1, <2>2
<1>12. CASE rdp_server_reactivate \/ ServerUpdate \/ ServerChannelData \/ freerdp_peer_close
  <2>1. \E r : ServerSends(r)
    BY <1>12, ServerAppSends, PlainServerSends
  <2>2. UNCHANGED <<client, sjoined, scrypt, c2s, send>>
    BY <1>12 DEF rdp_server_reactivate, ServerUpdate, ServerChannelData, freerdp_peer_close
  <2> QED
    BY <2>1, <2>2
<1>13. CASE freerdp_peer_disconnect \/ ServerReadFails
  <2>1. UNCHANGED <<client, sjoined, scrypt, c2s, s2c>> /\ send = "open"
    BY <1>13 DEF freerdp_peer_disconnect, ServerReadFails
  <2>2. \E r : ServerSends(r)
    BY <2>1, NoneServerSends
  <2> QED
    BY <2>1, <2>2
<1> QED
  BY <1>1, <1>2, <1>3, <1>4, <1>5, <1>6, <1>7, <1>8, <1>9, <1>10, <1>11, <1>12, <1>13
     DEF ServerAct, ServerReceive

\* What a step of the client may append: joins only of channels of the server,
\* and ciphertext only when the client has keys; the security exchange comes
\* first when the step makes the keys.
ClientSends(r) ==
  /\ r \in Seq(Message(ClientPdus))
  /\ c2s' = c2s \o r
  /\ \A i \in 1..Len(r) : r[i].type = "Join" => r[i].arg \in JoinIds
  /\ \/ /\ ccrypt' = "off" <=> ccrypt = "off"
        /\ \A i \in 1..Len(r) : /\ r[i].enc => ccrypt # "off"
                                /\ r[i].type # "SecurityExchange"
     \/ /\ UseRdpSecurityLayer /\ ccrypt' # "off"
        /\ Len(r) > 0 /\ r[1].type = "SecurityExchange" /\ ~r[1].enc

\* Late PDUs are such PDUs.
LEMMA LateClientSends ==
  ASSUME TypeOK, NEW r \in Seq(Late), c2s' = c2s \o r, ccrypt' = ccrypt
  PROVE  ClientSends(r)
<1>1. r \in Seq(Message(ClientPdus))
  BY LateSent
<1>2. \A i \in 1..Len(r) : r[i] \in Late
  OBVIOUS
<1>3. \A m \in Late : /\ m.type # "SecurityExchange" /\ m.type # "Join"
                      /\ m.enc => ccrypt # "off"
  BY DEF Late, ShareRequests
<1> QED
  BY <1>1, <1>2, <1>3 DEF ClientSends

\* So is a single MCS request.
LEMMA OneClientSends ==
  ASSUME TypeOK, NEW x \in Message(ClientPdus), c2s' = Append(c2s, x), ~x.enc,
         ccrypt' = ccrypt, x.type # "SecurityExchange",
         x.type = "Join" => x.arg \in JoinIds
  PROVE  \E r : ClientSends(r)
<1>1. <<x>> \in Seq(Message(ClientPdus)) /\ c2s' = c2s \o <<x>>
  BY SendOne DEF TypeOK
<1>2. \A i \in 1..Len(<<x>>) : <<x>>[i] = x
  OBVIOUS
<1>3. ClientSends(<<x>>)
  BY <1>1, <1>2 DEF ClientSends
<1> QED
  BY <1>3

\* So is nothing.
LEMMA NoneClientSends ==
  ASSUME TypeOK, c2s' = c2s, ccrypt' = "off" <=> ccrypt = "off"
  PROVE  \E r : ClientSends(r)
<1>1. ClientSends(<<>>)
  BY DEF ClientSends, TypeOK
<1> QED
  BY <1>1

\* The step that makes the keys.
LEMMA SecurityClientSends ==
  ASSUME TypeOK, c2s' = c2s \o SecurityPdus,
         ccrypt' = IF UseRdpSecurityLayer THEN "on" ELSE "off",
         ccrypt # "off" => UseRdpSecurityLayer
  PROVE  \E r : ClientSends(r)
<1> DEFINE exchange == McsPdu("SecurityExchange", 0)
           secret == Pdu("ClientInfo", 0, TRUE)
           info == Pdu("ClientInfo", 0, FALSE)
<1>1. /\ secret \in Message(ClientPdus) /\ secret.type = "ClientInfo"
      /\ info \in Message(ClientPdus) /\ info.type = "ClientInfo" /\ ~info.enc
  BY DEF Pdu, Message, ClientPdus
<1>2. /\ exchange \in Message(ClientPdus) /\ exchange.type = "SecurityExchange"
      /\ ~exchange.enc
  BY DEF McsPdu, Pdu, Message, ClientPdus
<1>3. SecurityPdus = IF UseRdpSecurityLayer THEN <<exchange, secret>> ELSE <<info>>
  BY DEF SecurityPdus
<1> HIDE DEF exchange, secret, info
<1>4. CASE UseRdpSecurityLayer
  <2> DEFINE r == <<exchange, secret>>
  <2>1. /\ r \in Seq(Message(ClientPdus)) /\ Len(r) = 2 /\ r[1] = exchange
        /\ r[2] = secret
    BY <1>1, <1>2
  <2>2. c2s' = c2s \o r /\ ccrypt' = "on"
    BY <1>3, <1>4
  <2> HIDE DEF r
  <2>3. \A i \in 1..Len(r) : r[i].type # "Join"
    <3>1. \A i \in 1..Len(r) : r[i] = exchange \/ r[i] = secret
      BY <2>1
    <3> QED
      BY <1>1, <1>2, <3>1
  <2>4. ClientSends(r)
    BY <1>2, <1>4, <2>1, <2>2, <2>3 DEF ClientSends
  <2> QED
    BY <2>4
<1>5. CASE ~UseRdpSecurityLayer
  <2> DEFINE r == <<info>>
  <2>1. r \in Seq(Message(ClientPdus)) /\ Len(r) = 1 /\ r[1] = info
    BY <1>1
  <2>2. c2s' = c2s \o r /\ ccrypt' = "off" /\ ccrypt = "off"
    BY <1>3, <1>5
  <2> HIDE DEF r
  <2>3. \A i \in 1..Len(r) : /\ r[i].type # "Join" /\ r[i].type # "SecurityExchange"
                            /\ ~r[i].enc
    BY <1>1, <2>1
  <2>4. ClientSends(r)
    BY <2>1, <2>2, <2>3 DEF ClientSends
  <2> QED
    BY <2>4
<1> QED
  BY <1>4, <1>5

\* Whatever the client does, it appends such PDUs and takes at most the first
\* PDU of the server.
LEMMA ClientStep ==
  ASSUME TypeOK, JoinPhase, JoinPdus, KeyOrder, ClientAct
  PROVE  /\ \E r : ClientSends(r)
         /\ UNCHANGED server
         /\ s2c' = s2c \/ (s2c # <<>> /\ s2c' = Tail(s2c))
<1> USE DEF client
<1>1. CASE mcs_client_begin
  <2>1. McsPdu("ConnectInitial", 0) \in Message(ClientPdus)
    BY DEF McsPdu, Pdu, Message, ClientPdus, McsRequests
  <2>2. \E r : ClientSends(r)
    BY <1>1, <2>1, OneClientSends DEF mcs_client_begin, McsPdu, Pdu
  <2> QED
    BY <1>1, <2>2 DEF mcs_client_begin
<1>2. CASE RecvConnectResponse
  <2> DEFINE erect == McsPdu("ErectDomain", 0)
             attach == McsPdu("AttachUser", 0)
             r == <<erect, attach>>
  <2>1. /\ erect \in Message(ClientPdus) /\ erect.type = "ErectDomain" /\ ~erect.enc
        /\ attach \in Message(ClientPdus) /\ attach.type = "AttachUser" /\ ~attach.enc
    BY DEF McsPdu, Pdu, Message, ClientPdus, McsRequests
  <2>2. c2s' = c2s \o r /\ ccrypt' = ccrypt
    BY <1>2 DEF RecvConnectResponse
  <2> HIDE DEF erect, attach
  <2>3. r \in Seq(Message(ClientPdus)) /\ \A i \in 1..Len(r) : r[i] = erect \/ r[i] = attach
    BY <2>1
  <2> HIDE DEF r
  <2>4. ClientSends(r)
    BY <2>1, <2>2, <2>3 DEF ClientSends
  <2> QED
    BY <1>2, <2>4 DEF RecvConnectResponse, ClientReceives
<1>3. CASE RecvAttachConfirm
  <2>1. ClientReceives({"AttachConfirm"})
    BY <1>3 DEF RecvAttachConfirm
  <2>2. Len(s2c) \in Nat \ {0} /\ Head(s2c) = s2c[1]
    BY <2>1, TailQueue DEF ClientReceives, TypeOK
  <2>3. Head(s2c).arg \in JoinIds /\ Head(s2c).arg \in Nat
    BY <2>1, <2>2, ClientTakes DEF JoinPdus
  <2>4. McsPdu("Join", Head(s2c).arg) \in Message(ClientPdus)
    BY <2>3 DEF McsPdu, Pdu, Message, ClientPdus, McsRequests
  <2>5. \E r : ClientSends(r)
    BY <1>3, <2>3, <2>4, OneClientSends DEF RecvAttachConfirm, McsPdu, Pdu
  <2> QED
    BY <1>3, <2>5 DEF RecvAttachConfirm, ClientReceives
<1>4. CASE RecvJoinConfirm
  <2>1. ClientReceives({"JoinConfirm"})
    BY <1>4 DEF RecvJoinConfirm
  <2>2. s2c # <<>> /\ s2c' = Tail(s2c) /\ UNCHANGED server
    BY <1>4 DEF RecvJoinConfirm, ClientReceives
  <2>3. JoinOrder \in Seq(JoinIds) /\ Len(JoinOrder) \in Nat /\ cjoined \in Nat
        /\ cjoined' = cjoined + 1
    BY <1>4, JoinOrderType DEF RecvJoinConfirm, TypeOK
  <2>4. CASE cjoined' < Len(JoinOrder)
    <3> DEFINE id == JoinOrder[cjoined' + 1]
    <3>1. id \in JoinIds
      BY <2>3, <2>4
    <3>2. id \in Nat
      BY <3>1, ChannelAssumption DEF JoinIds, UserId, GlobalId, MessageId, ChannelId
    <3>3. c2s' = Append(c2s, McsPdu("Join", id)) /\ ccrypt' = ccrypt
      BY <1>4, <2>4 DEF RecvJoinConfirm
    <3> HIDE DEF id
    <3>4. McsPdu("Join", id) \in Message(ClientPdus)
      BY <3>2 DEF McsPdu, Pdu, Message, ClientPdus, McsRequests
    <3>5. \E r : ClientSends(r)
      BY <3>1, <3>3, <3>4, OneClientSends DEF McsPdu, Pdu
    <3> QED
      BY <2>2, <3>5
  <2>5. CASE ~(cjoined' < Len(JoinOrder))
    <3>1. /\ c2s' = c2s \o SecurityPdus
          /\ ccrypt' = IF UseRdpSecurityLayer THEN "on" ELSE "off"
      BY <1>4, <2>5 DEF RecvJoinConfirm
    <3>2. \E r : ClientSends(r)
      BY <3>1, SecurityClientSends DEF KeyOrder
    <3> QED
      BY <2>2, <3>2
  <2> QED
    BY <2>4, <2>5
<1>5. CASE RecvLicense \/ RecvData \/ rdp_recv_deactivate_all \/ RecvUltimatum \/ ClientRefuses
  <2>1. UNCHANGED <<c2s, ccrypt, server>> /\ s2c # <<>> /\ s2c' = Tail(s2c)
    BY <1>5 DEF RecvLicense, RecvData, rdp_recv_deactivate_all, RecvUltimatum, ClientRefuses,
                ClientReceives
  <2> QED
    BY <2>1, NoneClientSends
<1>6. CASE RecvDataOutOfSequence
  <2>1. UNCHANGED <<c2s, server>> /\ s2c # <<>> /\ s2c' = Tail(s2c)
    BY <1>6 DEF RecvDataOutOfSequence, ClientReceives
  <2>2. ccrypt' = "off" <=> ccrypt = "off"
    BY <1>6 DEF RecvDataOutOfSequence, ClientReceives, ClientAccepts
  <2> QED
    BY <2>1, <2>2, NoneClientSends
<1>7. CASE RecvDemandActive
  <2>1. UNCHANGED <<ccrypt, server>> /\ s2c # <<>> /\ s2c' = Tail(s2c)
    BY <1>7 DEF RecvDemandActive, ClientReceives
  <2> QED
    BY <1>7, <2>1, DemandActiveSends, LateClientSends
<1>8. CASE ClientSendData
  <2>1. UNCHANGED <<ccrypt, server, s2c>>
    BY <1>8 DEF ClientSendData
  <2> QED
    BY <1>8, <2>1, ClientDataSends, LateClientSends
<1>9. CASE rdp_client_disconnect \/ ClientReadFails
  <2>1. UNCHANGED <<ccrypt, server, s2c, c2s>>
    BY <1>9 DEF rdp_client_disconnect, ClientReadFails
  <2> QED
    BY <2>1, NoneClientSends
<1> QED
  BY <1>1, <1>2, <1>3, <1>4, <1>5, <1>6, <1>7, <1>8, <1>9 DEF ClientAct, ClientReceive

----------------------------------------------------------------------------
(* The invariants.                                                         *)

\* Joins: a step of the server keeps them.
LEMMA JoinServerStep ==
  ASSUME TypeOK, JoinPhase, JoinPdus, JoinsAgree, ServerAct
  PROVE  JoinPhase' /\ JoinPdus' /\ JoinsAgree'
<1>1. UNCHANGED <<cstate, cjoined>> /\ sjoined \subseteq sjoined'
  BY ServerStep DEF client
<1>2. JoinPhase'
  BY <1>1 DEF JoinPhase
<1>q. c2s \in Seq(Message(ClientPdus)) /\ s2c \in Seq(Message(ServerPdus))
  BY DEF TypeOK
<1>3. \A i \in 1..Len(c2s') : c2s'[i].type = "Join" => c2s'[i].arg \in JoinIds
  <2>1. CASE c2s' = c2s
    BY <2>1 DEF JoinPdus
  <2>2. CASE c2s # <<>> /\ c2s' = Tail(c2s)
    BY <2>2, <1>q, TailQueue DEF JoinPdus
  <2> QED
    BY <2>1, <2>2, ServerStep
<1>4. \A i \in 1..Len(s2c') : /\ s2c'[i].type = "JoinConfirm" => s2c'[i].arg \in sjoined'
                              /\ s2c'[i].type = "AttachConfirm" => s2c'[i].arg \in JoinIds
  <2>1. PICK r : ServerSends(r)
    BY ServerStep
  <2>2. r \in Seq(Message(ServerPdus)) /\ s2c' = s2c \o r
    BY <2>1 DEF ServerSends
  <2>3. SUFFICES ASSUME NEW i \in 1..Len(s2c')
                 PROVE  /\ s2c'[i].type = "JoinConfirm" => s2c'[i].arg \in sjoined'
                        /\ s2c'[i].type = "AttachConfirm" => s2c'[i].arg \in JoinIds
    OBVIOUS
  <2>4. CASE i \in 1..Len(s2c) /\ s2c'[i] = s2c[i]
    BY <1>1, <2>4 DEF JoinPdus
  <2>5. CASE i - Len(s2c) \in 1..Len(r) /\ s2c'[i] = r[i - Len(s2c)]
    BY <2>1, <2>5 DEF ServerSends
  <2>6. r \in Seq(Message(ServerPdus)) /\ Longer(s2c', s2c, r)
    BY <2>2 DEF Longer
  <2>7. \/ i \in 1..Len(s2c) /\ s2c'[i] = s2c[i]
        \/ i - Len(s2c) \in 1..Len(r) /\ s2c'[i] = r[i - Len(s2c)]
    BY <1>q, <2>6, ConcatSplit, Zenon
  <2> QED
    BY <2>4, <2>5, <2>7
<1>5. JoinsAgree'
  <2>1. {JoinOrder[i] : i \in 1..cjoined'} \subseteq sjoined'
    BY <1>1 DEF JoinsAgree
  <2>2. CASE AcceptJoin
    <3>1. sstate = "MCS_ATTACH_USER"
      BY <2>2 DEF AcceptJoin, ServerReceives, ServerAccepts, ShareRequests, PduStates
    <3>2. AllJoined(sjoined') \/ sstate' = sstate
      BY <2>2 DEF AcceptJoin
    <3> QED
      BY <2>1, <3>1, <3>2 DEF JoinsAgree, AllJoined
  <2>3. CASE ~AcceptJoin
    <3>1. sjoined' = sjoined
      BY <2>3 DEF ServerAct, ServerReceive, AcceptConnectInitial, AcceptErectDomain,
           AcceptAttachUser, rdp_server_establish_keys, AcceptClientInfo, AcceptConfirmActive,
           AcceptRequestControl, AcceptData, AcceptFontList, ServerRefuses,
           rdp_server_reactivate, ServerUpdate, ServerChannelData, freerdp_peer_close,
           freerdp_peer_disconnect, ServerReadFails, server
    <3>2. sstate \in {"NEGO", "MCS_CONNECT", "MCS_ERECT_DOMAIN", "MCS_ATTACH_USER"} =>
            sstate' \in {"NEGO", "MCS_CONNECT", "MCS_ERECT_DOMAIN", "MCS_ATTACH_USER"}
      <4>1. ASSUME sstate \in {"NEGO", "MCS_CONNECT", "MCS_ERECT_DOMAIN", "MCS_ATTACH_USER"}
            PROVE  /\ ~rdp_server_establish_keys /\ ~AcceptClientInfo /\ ~AcceptConfirmActive
                   /\ ~AcceptFontList
        BY <4>1 DEF rdp_server_establish_keys, AcceptClientInfo, AcceptConfirmActive,
             AcceptFontList, ServerReceives, ServerAccepts, PduStates, ShareRequests
      <4>2. ASSUME sstate \in {"NEGO", "MCS_CONNECT", "MCS_ERECT_DOMAIN", "MCS_ATTACH_USER"}
            PROVE  ~rdp_server_reactivate
        BY <4>2, AppAssumption DEF rdp_server_reactivate, MayResize
      <4> QED
        BY <2>3, <4>1, <4>2 DEF ServerAct, ServerReceive, AcceptConnectInitial,
             AcceptErectDomain, AcceptAttachUser, AcceptRequestControl, AcceptData,
             ServerRefuses, ServerUpdate, ServerChannelData, freerdp_peer_close,
             freerdp_peer_disconnect, ServerReadFails, server
    <3> QED
      BY <2>1, <3>1, <3>2 DEF JoinsAgree
  <2> QED
    BY <2>2, <2>3
<1> QED
  BY <1>2, <1>3, <1>4, <1>5 DEF JoinPdus

\* Joins: a step of the client keeps them.
LEMMA JoinClientStep ==
  ASSUME TypeOK, JoinPhase, JoinPdus, JoinsAgree, KeyOrder, ClientAct
  PROVE  JoinPdus' /\ JoinsAgree'
<1>1. UNCHANGED <<sstate, sjoined>>
  BY ClientStep DEF server
<1>q. c2s \in Seq(Message(ClientPdus)) /\ s2c \in Seq(Message(ServerPdus))
  BY DEF TypeOK
<1>2. \A i \in 1..Len(c2s') : c2s'[i].type = "Join" => c2s'[i].arg \in JoinIds
  <2>1. PICK r : ClientSends(r)
    BY ClientStep
  <2>2. r \in Seq(Message(ClientPdus)) /\ c2s' = c2s \o r
    BY <2>1 DEF ClientSends
  <2>3. SUFFICES ASSUME NEW i \in 1..Len(c2s')
                 PROVE  c2s'[i].type = "Join" => c2s'[i].arg \in JoinIds
    OBVIOUS
  <2>4. CASE i \in 1..Len(c2s) /\ c2s'[i] = c2s[i]
    BY <2>4 DEF JoinPdus
  <2>5. CASE i - Len(c2s) \in 1..Len(r) /\ c2s'[i] = r[i - Len(c2s)]
    BY <2>1, <2>5 DEF ClientSends
  <2>6. r \in Seq(Message(ClientPdus)) /\ Longer(c2s', c2s, r)
    BY <2>2 DEF Longer
  <2>7. \/ i \in 1..Len(c2s) /\ c2s'[i] = c2s[i]
        \/ i - Len(c2s) \in 1..Len(r) /\ c2s'[i] = r[i - Len(c2s)]
    BY <1>q, <2>6, ConcatSplit, Zenon
  <2> QED
    BY <2>4, <2>5, <2>7
<1>3. \A i \in 1..Len(s2c') : /\ s2c'[i].type = "JoinConfirm" => s2c'[i].arg \in sjoined
                              /\ s2c'[i].type = "AttachConfirm" => s2c'[i].arg \in JoinIds
  <2>1. CASE s2c' = s2c
    BY <2>1 DEF JoinPdus
  <2>2. CASE s2c # <<>> /\ s2c' = Tail(s2c)
    BY <2>2, <1>q, TailQueue DEF JoinPdus
  <2> QED
    BY <2>1, <2>2, ClientStep
<1>4. {JoinOrder[i] : i \in 1..cjoined'} \subseteq sjoined
  <2>1. CASE RecvJoinConfirm
    <3>1. ClientReceives({"JoinConfirm"}) /\ cjoined' = cjoined + 1
      BY <2>1 DEF RecvJoinConfirm
    <3>2. Head(s2c).arg = JoinOrder[cjoined + 1]
      BY <3>1 DEF ClientReceives, ClientAccepts, PduLoopStates, DataPdus, FinalizePdus
    <3>3. Len(s2c) \in Nat \ {0} /\ Head(s2c) = s2c[1] /\ Head(s2c).type = "JoinConfirm"
      BY <1>q, <3>1, TailQueue DEF ClientReceives
    <3>4. Head(s2c).arg \in sjoined
      BY <3>3 DEF JoinPdus
    <3> QED
      BY <3>1, <3>2, <3>4 DEF JoinsAgree, TypeOK
  <2>2. CASE ~RecvJoinConfirm
    <3>1. cjoined' = cjoined
      BY <2>2 DEF ClientAct, ClientReceive, mcs_client_begin, RecvConnectResponse,
           RecvAttachConfirm, RecvLicense, RecvDemandActive, RecvDataOutOfSequence, RecvData,
           rdp_recv_deactivate_all, RecvUltimatum, ClientRefuses, ClientSendData,
           rdp_client_disconnect, ClientReadFails, client
    <3> QED
      BY <3>1 DEF JoinsAgree
  <2> QED
    BY <2>1, <2>2
<1> QED
  BY <1>1, <1>2, <1>3, <1>4 DEF JoinPdus, JoinsAgree

\* PostConnect: the calls of the transition to ACTIVE keep the count.
LEMMA PostServerStep ==
  ASSUME TypeOK, PostCalls, PostConnectOnce, ServerAct
  PROVE  PostCalls' /\ PostConnectOnce'
<1> USE DEF PostCalls, PostConnectOnce, server
<1>0. connected \in BOOLEAN /\ activated \in BOOLEAN /\ posts \in Nat
  BY DEF TypeOK
<1>1. CASE \/ AcceptConnectInitial \/ AcceptErectDomain \/ AcceptAttachUser \/ AcceptJoin
           \/ rdp_server_establish_keys
  <2>1. sstate # "ACTIVE" /\ UNCHANGED <<connected, activated, posts, send>>
    BY <1>1 DEF AcceptConnectInitial, AcceptErectDomain, AcceptAttachUser, AcceptJoin,
         rdp_server_establish_keys, ServerReceives, ServerAccepts, ShareRequests, PduStates
  <2> QED
    BY <1>0, <2>1
<1>2. CASE AcceptClientInfo \/ AcceptConfirmActive
  <2>1. /\ activated' = FALSE \/ UNCHANGED <<activated, sstate>>
        /\ UNCHANGED <<connected, posts>> /\ send = "open"
    BY <1>2 DEF AcceptClientInfo, AcceptConfirmActive, ServerReceives
  <2> QED
    BY <1>0, <2>1
<1>3. CASE AcceptFontList
  <2>1. send = "open"
    BY <1>3 DEF AcceptFontList, ServerReceives
  <2>2. posts = IF connected THEN 1 ELSE 0
    BY <1>0, <2>1
  <2>3. posts' = 1
    BY <1>3, <2>2 DEF AcceptFontList, CallsPostConnect
  <2>4. /\ activated' => sstate' = "ACTIVE" /\ connected'
        /\ ~connected' => send' # "open"
    BY <1>3, <1>0 DEF AcceptFontList, CallsPostConnect
  <2> QED
    BY <2>3, <2>4
<1>4. CASE rdp_server_reactivate
  <2>1. activated' = FALSE /\ UNCHANGED <<connected, posts, send>>
    BY <1>4 DEF rdp_server_reactivate
  <2> QED
    BY <1>0, <2>1
<1>5. CASE \/ AcceptRequestControl \/ AcceptData \/ ServerUpdate \/ ServerChannelData
           \/ freerdp_peer_close
  <2>1. UNCHANGED <<connected, activated, posts, send, sstate>>
    BY <1>5 DEF AcceptRequestControl, AcceptData, ServerUpdate, ServerChannelData,
         freerdp_peer_close
  <2> QED
    BY <1>0, <2>1
<1>6. CASE ServerRefuses \/ freerdp_peer_disconnect \/ ServerReadFails
  <2>1. UNCHANGED <<connected, activated, posts, sstate>> /\ send' # "open"
    BY <1>6 DEF ServerRefuses, freerdp_peer_disconnect, ServerReadFails
  <2> QED
    BY <1>0, <2>1
<1> QED
  BY <1>1, <1>2, <1>3, <1>4, <1>5, <1>6 DEF ServerAct, ServerReceive

\* Keys: a step of the server keeps the order of exchange and ciphertext.
LEMMA KeyServerStep ==
  ASSUME TypeOK, JoinPdus, KeyOrder, KeysPrecedeCiphertext, ServerAct
  PROVE  KeyOrder' /\ KeysPrecedeCiphertext'
<1>1. ccrypt' = ccrypt /\ (send' = "open" => send = "open")
  BY ServerStep DEF client
<1>q. c2s \in Seq(Message(ClientPdus)) /\ s2c \in Seq(Message(ServerPdus))
  BY DEF TypeOK
<1>0. scrypt \in {"off", "on"}
  BY DEF TypeOK
<1>2. \A i \in 1..Len(s2c') : s2c'[i].enc => ccrypt # "off"
  <2>1. PICK r : ServerSends(r)
    BY ServerStep
  <2>2. r \in Seq(Message(ServerPdus)) /\ s2c' = s2c \o r
    BY <2>1 DEF ServerSends
  <2>3. SUFFICES ASSUME NEW i \in 1..Len(s2c'), s2c'[i].enc
                 PROVE  ccrypt # "off"
    OBVIOUS
  <2>4. CASE i \in 1..Len(s2c) /\ s2c'[i] = s2c[i]
    BY <2>3, <2>4 DEF KeysPrecedeCiphertext
  <2>5. CASE i - Len(s2c) \in 1..Len(r) /\ s2c'[i] = r[i - Len(s2c)]
    <3>2. scrypt # "off"
      BY <2>1, <2>3, <2>5 DEF ServerSends
    <3> QED
      BY <1>0, <3>2 DEF KeyOrder
  <2>6. r \in Seq(Message(ServerPdus)) /\ Longer(s2c', s2c, r)
    BY <2>2 DEF Longer
  <2>7. \/ i \in 1..Len(s2c) /\ s2c'[i] = s2c[i]
        \/ i - Len(s2c) \in 1..Len(r) /\ s2c'[i] = r[i - Len(s2c)]
    BY <1>q, <2>6, ConcatSplit, Zenon
  <2> QED
    BY <2>4, <2>5, <2>7
<1>3. CASE c2s' = c2s /\ scrypt' = scrypt
  BY <1>1, <1>2, <1>3 DEF KeyOrder, KeysPrecedeCiphertext
<1>4. CASE c2s # <<>> /\ c2s' = Tail(c2s)
  <2>1. /\ Len(c2s) \in Nat \ {0} /\ Len(c2s') = Len(c2s) - 1
        /\ \A i \in 1..Len(c2s') : c2s'[i] = c2s[i + 1]
    BY <1>4, <1>q, TailQueue
  <2>2. \A i \in 1..Len(c2s') : c2s'[i].type = "SecurityExchange" => ccrypt # "off"
    BY <2>1 DEF KeyOrder
  <2>3. CASE send' # "open" /\ scrypt' = scrypt
    BY <1>1, <1>2, <2>2, <2>3 DEF KeyOrder, KeysPrecedeCiphertext
  <2>4. CASE c2s[1].type = "SecurityExchange" /\ scrypt' = "on"
    <3>1. ccrypt # "off"
      BY <2>1, <2>4 DEF KeyOrder
    <3> QED
      BY <1>1, <1>2, <2>2, <2>4, <3>1 DEF KeyOrder, KeysPrecedeCiphertext
  <2>5. CASE c2s[1].type # "SecurityExchange" /\ scrypt' = scrypt
    <3>1. ASSUME NEW i \in 1..Len(c2s), c2s[i].type = "SecurityExchange"
          PROVE  i - 1 \in 1..Len(c2s') /\ c2s'[i - 1].type = "SecurityExchange"
      <4>1. i # 1
        BY <2>5, <3>1
      <4>2. i - 1 \in 1..Len(c2s') /\ (i - 1) + 1 = i
        BY <2>1, <4>1
      <4>3. c2s'[i - 1] = c2s[(i - 1) + 1]
        BY <2>1, <4>2
      <4> QED
        BY <3>1, <4>2, <4>3
    <3>2. send' = "open" /\ ccrypt # "off" =>
            scrypt = "on" \/ \E i \in 1..Len(c2s') : c2s'[i].type = "SecurityExchange"
      BY <1>1, <3>1 DEF KeyOrder
    <3>3. ASSUME send' = "open", scrypt # "on", NEW i \in 1..Len(c2s'), c2s'[i].enc
          PROVE  \E j \in 1..(i - 1) : c2s'[j].type = "SecurityExchange"
      <4>1. i + 1 \in 1..Len(c2s) /\ c2s[i + 1].enc
        BY <2>1, <3>3
      <4>2. PICK j \in 1..((i + 1) - 1) : c2s[j].type = "SecurityExchange"
        BY <1>1, <3>3, <4>1 DEF KeysPrecedeCiphertext
      <4>3. j \in 1..Len(c2s) /\ j # 1
        BY <2>1, <2>5, <4>2
      <4>4. j - 1 \in 1..(i - 1) /\ c2s'[j - 1].type = "SecurityExchange"
        BY <2>1, <3>1, <4>2, <4>3
      <4> QED
        BY <4>4
    <3> QED
      BY <1>1, <1>2, <2>2, <2>5, <3>2, <3>3 DEF KeyOrder, KeysPrecedeCiphertext
  <2> QED
    BY <1>4, <2>3, <2>4, <2>5, <2>1, ServerStep, TailShorter, <1>q
<1> QED
  BY <1>3, <1>4, ServerStep

\* Keys: a step of the client keeps the order of exchange and ciphertext.
LEMMA KeyClientStep ==
  ASSUME TypeOK, JoinPhase, JoinPdus, KeyOrder, KeysPrecedeCiphertext, ClientAct
  PROVE  KeyOrder' /\ KeysPrecedeCiphertext'
<1>1. UNCHANGED <<scrypt, send>>
  BY ClientStep DEF server
<1>q. c2s \in Seq(Message(ClientPdus)) /\ s2c \in Seq(Message(ServerPdus))
  BY DEF TypeOK
<1>2. PICK r : ClientSends(r)
  BY ClientStep
<1>3. r \in Seq(Message(ClientPdus)) /\ c2s' = c2s \o r
  BY <1>2 DEF ClientSends
<1>4. /\ Len(c2s) \in Nat /\ Len(r) \in Nat /\ Len(c2s') = Len(c2s) + Len(r)
      /\ \A i \in 1..Len(c2s) : c2s'[i] = c2s[i]
      /\ \A i \in 1..Len(r) : c2s'[Len(c2s) + i] = r[i]
      /\ \A i \in 1..Len(c2s') : i \in 1..Len(c2s) \/ i - Len(c2s) \in 1..Len(r)
  <2>1. /\ Len(c2s) \in Nat /\ Len(r) \in Nat /\ Len(c2s') = Len(c2s) + Len(r)
        /\ \A i \in 1..Len(c2s) : c2s'[i] = c2s[i]
        /\ \A i \in (Len(c2s) + 1)..Len(c2s') : c2s'[i] = r[i - Len(c2s)]
    BY <1>q, <1>3, ConcatQueue
  <2>2. ASSUME NEW i \in 1..Len(r)
        PROVE  c2s'[Len(c2s) + i] = r[i]
    <3>1. Len(c2s) + i \in (Len(c2s) + 1)..Len(c2s') /\ (Len(c2s) + i) - Len(c2s) = i
      BY <2>1
    <3> QED
      BY <2>1, <3>1
  <2> QED
    BY <2>1, <2>2
<1>5. ccrypt # "off" => ccrypt' # "off"
  BY <1>2 DEF ClientSends
<1>6. \A i \in 1..Len(s2c') : s2c'[i].enc => ccrypt' # "off"
  <2>1. CASE s2c' = s2c
    BY <1>5, <2>1 DEF KeysPrecedeCiphertext
  <2>2. CASE s2c # <<>> /\ s2c' = Tail(s2c)
    BY <1>5, <2>2, <1>q, TailQueue DEF KeysPrecedeCiphertext
  <2> QED
    BY <2>1, <2>2, ClientStep
<1>7. ccrypt' # "off" => UseRdpSecurityLayer
  BY <1>2 DEF ClientSends, KeyOrder
<1>8. \A i \in 1..Len(c2s') : c2s'[i].type = "SecurityExchange" => ccrypt' # "off"
  <2>1. SUFFICES ASSUME NEW i \in 1..Len(c2s'), c2s'[i].type = "SecurityExchange"
                 PROVE  ccrypt' # "off"
    OBVIOUS
  <2>2. CASE i \in 1..Len(c2s)
    BY <1>4, <1>5, <2>1, <2>2 DEF KeyOrder
  <2>3. CASE i - Len(c2s) \in 1..Len(r)
    <3>1. c2s'[i] = r[i - Len(c2s)]
      BY <1>4, <2>3
    <3> QED
      BY <1>2, <2>1, <2>3, <3>1 DEF ClientSends
  <2> QED
    BY <1>4, <2>2, <2>3
<1>9. send = "open" /\ ccrypt' # "off" =>
        scrypt = "on" \/ \E i \in 1..Len(c2s') : c2s'[i].type = "SecurityExchange"
  <2>1. CASE ccrypt # "off"
    BY <1>4, <2>1 DEF KeyOrder
  <2>2. CASE ccrypt = "off" /\ ccrypt' # "off"
    <3>1. Len(r) > 0 /\ r[1].type = "SecurityExchange"
      BY <1>2, <2>2 DEF ClientSends
    <3>2. Len(c2s) + 1 \in 1..Len(c2s') /\ c2s'[Len(c2s) + 1].type = "SecurityExchange"
      BY <1>4, <3>1
    <3> QED
      BY <3>2
  <2> QED
    BY <2>1, <2>2
<1>10. ASSUME send = "open", scrypt # "on", NEW i \in 1..Len(c2s'), c2s'[i].enc
       PROVE  \E j \in 1..(i - 1) : c2s'[j].type = "SecurityExchange"
  <2>1. CASE i \in 1..Len(c2s)
    <3>1. c2s[i].enc
      BY <1>4, <1>10, <2>1
    <3>2. PICK j \in 1..(i - 1) : c2s[j].type = "SecurityExchange"
      BY <1>10, <2>1, <3>1 DEF KeysPrecedeCiphertext
    <3>3. j \in 1..Len(c2s)
      BY <1>4, <2>1
    <3> QED
      BY <1>4, <3>2, <3>3
  <2>2. CASE i - Len(c2s) \in 1..Len(r)
    <3>1. c2s'[i] = r[i - Len(c2s)]
      BY <1>4, <2>2
    <3>2. CASE ccrypt # "off"
      <4>1. PICK j \in 1..Len(c2s) : c2s[j].type = "SecurityExchange"
        BY <1>10, <3>2 DEF KeyOrder
      <4>2. j \in 1..(i - 1) /\ c2s'[j].type = "SecurityExchange"
        BY <1>4, <2>2, <4>1
      <4> QED
        BY <4>2
    <3>3. CASE ccrypt = "off"
      <4>1. Len(r) > 0 /\ r[1].type = "SecurityExchange" /\ ~r[1].enc
        BY <1>2, <1>10, <2>2, <3>1, <3>3 DEF ClientSends
      <4>2. i - Len(c2s) # 1
        BY <1>10, <3>1, <4>1
      <4>3. Len(c2s) + 1 \in 1..(i - 1)
        BY <1>4, <2>2, <4>1, <4>2
      <4>4. c2s'[Len(c2s) + 1] = r[1]
        BY <1>4, <2>2, <4>1, <4>3
      <4> QED
        BY <4>1, <4>3, <4>4
    <3> QED
      BY <3>2, <3>3
  <2> QED
    BY <1>4, <2>1, <2>2
<1>11. scrypt = "on" => ccrypt' # "off"
  BY <1>5 DEF KeyOrder
<1> QED
  BY <1>1, <1>6, <1>7, <1>8, <1>9, <1>10, <1>11 DEF KeyOrder, KeysPrecedeCiphertext

----------------------------------------------------------------------------
(* The theorems.                                                           *)

\* The invariant holds before the first PDU.
LEMMA InitIInv == Init => IInv
<1> SUFFICES ASSUME Init PROVE IInv
  OBVIOUS
<1>1. Len(JoinOrder) \in Nat /\ Len(JoinOrder) >= 2
  BY JoinOrderType
<1>2. TypeOK
  <2>1. /\ cstate \in ClientStates /\ cjoined \in 0..Len(JoinOrder) /\ cround \in Nat
        /\ ccrypt \in {"off", "on", "lost"} /\ cend \in ClientEnds
    BY <1>1 DEF Init, ClientStates, ClientEnds
  <2>2. finalize \subseteq FinalizePdus \X Nat /\ reactivation \in BOOLEAN
    BY DEF Init
  <2>3. frames \in Seq({"FINALIZATION", "ACTIVE"}) /\ events \in Seq(BOOLEAN)
    BY DEF Init
  <2>4. /\ sstate \in ServerStates /\ sjoined \subseteq JoinIds /\ scrypt \in {"off", "on"}
        /\ send \in ServerEnds
    BY DEF Init, ServerStates, ServerEnds
  <2>5. /\ posts \in Nat /\ round \in Nat /\ confirmed \in Nat /\ fonts \in Nat
        /\ cdata \in Nat /\ sdata \in Nat
    BY DEF Init
  <2>6. connected \in BOOLEAN /\ activated \in BOOLEAN /\ closing \in BOOLEAN
    BY DEF Init
  <2>7. c2s \in Seq(Message(ClientPdus)) /\ s2c \in Seq(Message(ServerPdus))
    BY DEF Init
  <2> QED
    BY <2>1, <2>2, <2>3, <2>4, <2>5, <2>6, <2>7 DEF TypeOK
<1>3. JoinPhase /\ JoinPdus /\ JoinsAgree
  BY <1>1 DEF Init, JoinPhase, JoinPdus, JoinsAgree
<1>4. PostCalls /\ PostConnectOnce
  BY DEF Init, PostCalls, PostConnectOnce
<1>5. KeyOrder /\ KeysPrecedeCiphertext
  BY DEF Init, KeyOrder, KeysPrecedeCiphertext
<1> QED
  BY <1>2, <1>3, <1>4, <1>5 DEF IInv

\* Every step of either side keeps the invariant.
LEMMA StepIInv == IInv /\ [Next]_vars => IInv'
<1> SUFFICES ASSUME IInv, [Next]_vars PROVE IInv'
  OBVIOUS
<1>0. /\ TypeOK /\ JoinPhase /\ JoinPdus /\ JoinsAgree /\ PostCalls /\ PostConnectOnce
      /\ KeyOrder /\ KeysPrecedeCiphertext
  BY DEF IInv
<1>1. CASE ServerAct
  <2>1. TypeOK'
    BY <1>0, <1>1, StepTypeServer, StepTypeServerApp DEF ServerAct
  <2> QED
    BY <1>0, <1>1, <2>1, JoinServerStep, PostServerStep, KeyServerStep DEF IInv
<1>2. CASE ClientAct
  <2>1. TypeOK' /\ JoinPhase'
    BY <1>0, <1>2, StepTypeClient DEF ClientAct
  <2>2. PostCalls' /\ PostConnectOnce'
    <3>1. UNCHANGED <<connected, activated, posts, send, sstate>>
      BY <1>0, <1>2, ClientStep DEF server
    <3> QED
      BY <1>0, <3>1 DEF PostCalls, PostConnectOnce
  <2> QED
    BY <1>0, <1>2, <2>1, <2>2, JoinClientStep, KeyClientStep DEF IInv
<1>3. CASE UNCHANGED vars
  <2>1. TypeOK'
    BY <1>0, <1>3 DEF vars, client, server, TypeOK
  <2>2. JoinPhase' /\ JoinPdus' /\ JoinsAgree'
    BY <1>0, <1>3 DEF vars, client, server, JoinPhase, JoinPdus, JoinsAgree
  <2>3. PostCalls' /\ PostConnectOnce' /\ KeyOrder' /\ KeysPrecedeCiphertext'
    BY <1>0, <1>3 DEF vars, client, server, PostCalls, PostConnectOnce, KeyOrder,
         KeysPrecedeCiphertext
  <2> QED
    BY <2>1, <2>2, <2>3 DEF IInv
<1> QED
  BY <1>1, <1>2, <1>3 DEF Next, ServerAct, ClientAct

\* The inductive invariant of the connection sequence.
THEOREM Invariant == Spec => []IInv
BY InitIInv, StepIInv, PTL DEF Spec

\* The states of rdp_recv_callback and peer_recv_callback, the queues and the
\* counters keep their types for any number of channels and reactivations.
THEOREM TypeCorrect == Spec => []TypeOK
BY Invariant, PTL DEF IInv

\* A channel the client takes as joined is joined on the server, and the server
\* leaves the join phase with every channel joined, for any number of channels
\* (rdp_client_connect_mcs_channel_join_confirm,
\* rdp_server_accept_mcs_channel_join_request).
THEOREM JoinsAgreeHolds == Spec => []JoinsAgree
BY Invariant, PTL DEF IInv

\* PostConnect is called once however often the session is reactivated, and a
\* peer is activated only after it and in ACTIVE (rdp_server_transition_to_state).
THEOREM PostConnectOnceHolds == Spec => []PostConnectOnce
BY Invariant, PTL DEF IInv

\* No side receives ciphertext before it has keys (rdp_client_establish_keys,
\* rdp_server_establish_keys), whatever is sent while the exchange is under way.
THEOREM KeysPrecedeCiphertextHolds == Spec => []KeysPrecedeCiphertext
BY Invariant, PTL DEF IInv

=============================================================================
