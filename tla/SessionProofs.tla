--------------------------- MODULE SessionProofs ---------------------------
(***************************************************************************)
(* Proofs about licensing, a plugin of a static channel and fast-path      *)
(* updates: for any licenses and streams, any queue lengths and any sizes  *)
(* of updates and packets.                                                 *)
(***************************************************************************)
EXTENDS License, StaticChannel, FastPath, TLAPS

----------------------------------------------------------------------------
(* License.                                                                *)

\* The inductive invariant: what .cal.new holds at each step of saveCal, and
\* that only a CAL of the server gets there.
LicenseInv ==
  /\ StoredCalIsWhole /\ LicensedMeansCompleted
  /\ packet.type = "NEW_LICENSE" => packet.cal \in Cals
  /\ stored \in Cals \cup {NoFile}
  /\ process = "connecting" /\ saving # "no" => newCal \in Cals /\ licenseState = "COMPLETED"
  /\ process = "connecting" /\ saving = "no" => newCal = NoFile
  /\ process = "connecting" /\ saving = "written" => calFileNew = Whole(newCal)

\* Every step of the licensing phase keeps it.
LEMMA LicenseStepInv == LicenseInv /\ [LicenseNext]_licenseVars => LicenseInv'
<1> SUFFICES ASSUME LicenseInv, [LicenseNext]_licenseVars PROVE LicenseInv'
  OBVIOUS
<1> USE DEF LicenseInv, StoredCalIsWhole, LicensedMeansCompleted, Whole
<1>1. CASE UNCHANGED licenseVars
  BY <1>1 DEF licenseVars, clientLicense, store
<1>2. CASE ServerStep
  <2>1. /\ process = "connecting" /\ UNCHANGED <<process, licenseState, store>>
        /\ packet'.type = "NEW_LICENSE" => packet'.cal \in Cals
    BY <1>2 DEF ServerStep, ServerAsks, ServerChallenges, ServerIssues, ServerAlerts, ServerSends, ServerTurn, Packet
  <2> QED BY <2>1 DEF store
<1>3. CASE license_answer_license_request \/ license_send_platform_challenge_response_packet
  <2>1. /\ process = "connecting" /\ UNCHANGED <<process, licenseState, store>>
        /\ packet'.type # "NEW_LICENSE"
    BY <1>3 DEF license_answer_license_request, license_send_platform_challenge_response_packet, Receives, Packet
  <2> QED BY <2>1 DEF store
<1>4. CASE license_read_new_or_upgrade_license_packet
  <2>1. packet'.type # "NEW_LICENSE"
    BY <1>4 DEF license_read_new_or_upgrade_license_packet, Packet
  <2> QED BY <1>4, <2>1 DEF license_read_new_or_upgrade_license_packet, Receives, OpenNew
<1>5. CASE license_read_error_alert_packet
  <2>1. packet'.type # "NEW_LICENSE"
    BY <1>5 DEF license_read_error_alert_packet, Packet
  <2> QED BY <1>5, <2>1 DEF license_read_error_alert_packet, Receives, store
<1>6. CASE SaveOpenFails
  <2>1. packet'.type # "NEW_LICENSE"
    BY <1>6 DEF SaveOpenFails, Packet
  <2> QED BY <1>6, <2>1 DEF SaveOpenFails, store
<1>7. CASE SaveWrites
  BY <1>7 DEF SaveWrites, clientLicense
<1>8. CASE SaveWriteFails \/ SaveMoveFails
  BY <1>8 DEF SaveWriteFails, SaveMoveFails
<1>9. CASE SaveMoves
  BY <1>9, LicenseAssumption DEF SaveMoves
<1>10. CASE Kill
  BY <1>10 DEF Kill, store
<1>11. CASE license_new
  <2>1. packet'.type # "NEW_LICENSE"
    BY <1>11 DEF license_new, Packet
  <2> QED BY <1>11, <2>1 DEF license_new
<1> QED BY Zenon, <1>1, <1>2, <1>3, <1>4, <1>5, <1>6, <1>7, <1>8, <1>9, <1>10, <1>11 DEF LicenseNext, ClientLicenseStep

\* The invariant of licensing holds always.
LEMMA LicenseInvAlways == LicenseSpec => []LicenseInv
<1>1. LicenseInit => LicenseInv
  BY DEF LicenseInit, LicenseInv, StoredCalIsWhole, LicensedMeansCompleted, Packet
<1> QED BY <1>1, LicenseStepInv, PTL DEF LicenseSpec

\* Wherever saveCal is interrupted, the file that loadCalFile reads is the last
\* CAL that was saved, whole.
THEOREM StoredCalIsWholeAlways == LicenseSpec => []StoredCalIsWhole
  BY LicenseInvAlways, PTL DEF LicenseInv

\* rdp_client_connect_license goes on only with licensing completed and the CAL
\* of this connection, if the server issued one, in the store.
THEOREM LicensedMeansCompletedAlways == LicenseSpec => []LicensedMeansCompleted
  BY LicenseInvAlways, PTL DEF LicenseInv
----------------------------------------------------------------------------
(* StaticChannel.                                                          *)

InSession == mainStep \in {"connected", "draining", "telling", "joining"}

\* The plugin's thread runs only while the channel is connected and open.
ThreadInv ==
  /\ allowed_write \in BOOLEAN /\ leaving \in BOOLEAN /\ refusedWrite \in BOOLEAN
  /\ allowed_write <=> InSession
  /\ InSession => openFlags = 2
  /\ pluginThread \in {"reading", "writing"} => InSession
  /\ WritesAccepted

\* Where a WMQ_QUIT can be in channels->queue, by the step of the main thread:
\* only ever in front, and not behind anything that is still to be sent when
\* the plugin is terminated.
ChannelsInv ==
  /\ channelsQueue \in Seq({Write, Quit})
  /\ \A i \in 2..Len(channelsQueue) : channelsQueue[i] # Quit
  /\ mainStep \in {"telling", "joining", "disconnected"} =>
       \A i \in 1..Len(channelsQueue) : channelsQueue[i] # Quit
  /\ mainStep = "closing" /\ channelsQueue # <<>> /\ Head(channelsQueue) = Quit => Len(channelsQueue) = 1
  /\ mainStep = "closed" => channelsQueue = <<>>
  /\ mainStep \in {"terminated", "loaded"} =>
       Len(channelsQueue) <= 1 /\ \A i \in 1..Len(channelsQueue) : channelsQueue[i] = Quit
  /\ plugin = "freed" => mainStep = "terminated"
  /\ eventAfterFree \in BOOLEAN
  /\ NoEventAfterFree

\* No stream is in the plugin's queue twice.
StreamInv ==
  /\ data_in \in DataStreams \cup {None}
  /\ handled \in DataStreams \cup {None}
  /\ pluginThread # "writing" => handled = None
  /\ pluginQueue \in Seq(DataStreams \cup {Quit})
  /\ \A i, j \in 1..Len(pluginQueue) : i # j /\ pluginQueue[i] = pluginQueue[j] => pluginQueue[i] = Quit
  /\ OneOwnerOfStream

\* Every step keeps ThreadInv: allowed_write and the flags are taken back only
\* once the thread has ended.
LEMMA ThreadStep == ThreadInv /\ [StaticNext]_staticVars => ThreadInv'
<1> SUFFICES ASSUME ThreadInv, [StaticNext]_staticVars PROVE ThreadInv'
  OBVIOUS
<1> USE DEF ThreadInv, InSession, WritesAccepted, threadVars, pluginVars, observed
<1>1. CASE UNCHANGED staticVars
  BY <1>1 DEF staticVars
<1>2. CASE freerdp_channels_post_connect
  BY <1>2 DEF freerdp_channels_post_connect
<1>3. CASE freerdp_channels_data \/ freerdp_channels_check_fds
  BY <1>3 DEF freerdp_channels_data, freerdp_channels_check_fds
<1>4. ASSUME NEW leave \in BOOLEAN, Disconnect(leave) PROVE ThreadInv'
  BY <1>4 DEF Disconnect
<1>5. CASE Drain("draining", "telling") \/ freerdp_channels_close_drains
  BY <1>5 DEF freerdp_channels_close_drains, Drain
<1>6. CASE PluginQuits
  BY <1>6 DEF PluginQuits
<1>7. CASE PluginDisconnected
  <2>1. /\ mainStep' \in {"closing", "disconnected"}
        /\ pluginThread' = "ended" /\ UNCHANGED <<refusedWrite, leaving>>
    BY <1>7 DEF PluginDisconnected, Joinable
  <2>2. allowed_write' = FALSE
    BY <1>7 DEF PluginDisconnected
  <2> QED BY <2>1, <2>2, Zenon
<1>8. CASE freerdp_channels_close
  BY <1>8 DEF freerdp_channels_close
<1>9. CASE freerdp_channels_client_load_ex
  <2>1. mainStep = "terminated" /\ mainStep' = "loaded" /\ UNCHANGED <<pluginThread, refusedWrite, allowed_write>>
    BY <1>9 DEF freerdp_channels_client_load_ex
  <2>2. leaving' = FALSE
    BY <1>9 DEF freerdp_channels_client_load_ex
  <2> QED BY <2>1, <2>2, Zenon
<1>10. CASE ThreadReads \/ ThreadWrites \/ ThreadDone
  BY <1>10 DEF ThreadReads, ThreadWrites, ThreadDone
<1> QED BY <1>1, <1>2, <1>3, <1>4, <1>5, <1>6, <1>7, <1>8, <1>9, <1>10 DEF StaticNext, MainEnds

\* What is behind the message that SendNext takes.
LEMMA TailIsRest ==
  ASSUME NEW S, NEW q \in Seq(S), q # <<>>
  PROVE  /\ Tail(q) \in Seq(S) /\ Len(Tail(q)) = Len(q) - 1 /\ Head(q) = q[1] /\ Len(q) \in Nat \ {0}
         /\ \A i \in 1..Len(Tail(q)) : i + 1 \in 2..Len(q) /\ Tail(q)[i] = q[i + 1]
  OBVIOUS

\* Every step keeps ChannelsInv: nothing is queued behind the drain of
\* freerdp_channels_close, because the thread has ended.
LEMMA ChannelsStep == ThreadInv /\ ChannelsInv /\ [StaticNext]_staticVars => ChannelsInv'
<1> SUFFICES ASSUME ThreadInv, ChannelsInv, [StaticNext]_staticVars PROVE ChannelsInv'
  OBVIOUS
<1> USE DEF ChannelsInv, NoEventAfterFree, threadVars, pluginVars, observed, Write, Quit
<1>1. CASE UNCHANGED staticVars
  BY <1>1 DEF staticVars
<1>2. CASE freerdp_channels_post_connect
  BY <1>2 DEF freerdp_channels_post_connect
<1>3. CASE freerdp_channels_data
  BY <1>3 DEF freerdp_channels_data
<1>4. CASE freerdp_channels_check_fds
  BY <1>4, TailIsRest DEF freerdp_channels_check_fds, SendNext
<1>5. ASSUME NEW leave \in BOOLEAN, Disconnect(leave) PROVE ChannelsInv'
  <2>1. /\ UNCHANGED <<channelsQueue, plugin, eventAfterFree>>
        /\ \/ mainStep \in {"loaded", "disconnected"} /\ mainStep' = "closing"
           \/ mainStep = "connected" /\ mainStep' = "draining"
    <3>1. allowed_write <=> mainStep = "connected"
      BY <1>5 DEF Disconnect, ThreadInv, InSession
    <3> QED BY <1>5, <3>1 DEF Disconnect
  <2>2. channelsQueue # <<>> => Head(channelsQueue) = channelsQueue[1] /\ Len(channelsQueue) >= 1
    BY TailIsRest
  <2>3. CASE mainStep = "connected"
    BY <2>1, <2>3
  <2>4. CASE mainStep = "disconnected"
    BY <2>1, <2>2, <2>4
  <2>5. CASE mainStep = "loaded"
    <3>1. channelsQueue # <<>> => Len(channelsQueue) = 1
      <4>1. Len(channelsQueue) \in Nat /\ Len(channelsQueue) <= 1
        BY <2>5
      <4> HIDE DEF ChannelsInv
      <4> QED BY <2>2, <4>1
    <3>2. mainStep' = "closing" /\ UNCHANGED <<channelsQueue, plugin, eventAfterFree>>
      BY <2>1, <2>5
    <3> QED BY <2>5, <3>1, <3>2
  <2> QED BY <2>1, <2>3, <2>4, <2>5
<1>6. CASE Drain("draining", "telling")
  <2>1. CASE channelsQueue = <<>>
    BY <1>6, <2>1 DEF Drain, SendNext
  <2>2. CASE channelsQueue # <<>>
    <3>1. /\ channelsQueue' = Tail(channelsQueue) /\ UNCHANGED plugin
          /\ plugin # "freed" /\ mainStep = "draining" /\ mainStep' \in {"draining", "telling"}
          /\ mainStep' = "telling" => Head(channelsQueue) = Quit
      BY <1>6, <2>2 DEF Drain, SendNext
    <3>2. eventAfterFree' \in BOOLEAN /\ ~eventAfterFree'
      BY <1>6, <2>2 DEF Drain, SendNext
    <3>3. /\ channelsQueue' \in Seq({Write, Quit})
          /\ \A i \in 1..Len(channelsQueue') : channelsQueue'[i] # Quit
      BY <2>2, <3>1, TailIsRest
    <3> QED BY <3>1, <3>2, <3>3
  <2> QED BY <2>1, <2>2
<1>7. CASE freerdp_channels_close_drains
  BY <1>7, TailIsRest DEF freerdp_channels_close_drains, Drain, SendNext
<1>8. CASE PluginQuits \/ PluginDisconnected
  BY <1>8 DEF PluginQuits, PluginDisconnected
<1>9. CASE freerdp_channels_close
  BY <1>9 DEF freerdp_channels_close
<1>10. CASE freerdp_channels_client_load_ex
  BY <1>10 DEF freerdp_channels_client_load_ex
<1>11. CASE ThreadReads \/ ThreadDone
  BY <1>11 DEF ThreadReads, ThreadDone
<1>12. CASE ThreadWrites
  BY <1>12 DEF ThreadWrites, ThreadInv, InSession
<1> QED BY Zenon, <1>1, <1>2, <1>3, <1>4, <1>5, <1>6, <1>7, <1>8, <1>9, <1>10, <1>11, <1>12 DEF StaticNext, MainEnds

\* Every step keeps StreamInv: posting a stream gives it away.
LEMMA StreamStep == StreamInv /\ [StaticNext]_staticVars => StreamInv'
<1> SUFFICES ASSUME StreamInv, [StaticNext]_staticVars PROVE StreamInv'
  OBVIOUS
<1> USE StaticAssumption DEF StreamInv, OneOwnerOfStream, threadVars, pluginVars, observed, None, Quit
<1>1. CASE UNCHANGED staticVars
  BY <1>1 DEF staticVars
<1>2. CASE freerdp_channels_post_connect
  BY <1>2 DEF freerdp_channels_post_connect
<1>3. CASE freerdp_channels_data
  <2>1. PICK first, last \in BOOLEAN, s \in DataStreams :
          /\ s # handled /\ \A i \in 1..Len(pluginQueue) : pluginQueue[i] # s
          /\ data_in' = IF last THEN None ELSE s
          /\ pluginQueue' = IF last THEN Append(pluginQueue, s) ELSE pluginQueue
    <3>1. ASSUME ~(DataStreams \subseteq Busy)
          PROVE  NewStream \in DataStreams /\ NewStream \notin Busy
      BY <3>1 DEF NewStream
    <3> QED BY Zenon, <1>3, <3>1 DEF freerdp_channels_data, Busy, AfterLast
  <2>2. UNCHANGED <<handled, pluginThread>>
    BY <1>3 DEF freerdp_channels_data
  <2> QED BY <2>1, <2>2
<1>4. CASE freerdp_channels_check_fds
  BY <1>4 DEF freerdp_channels_check_fds
<1>5. ASSUME NEW leave \in BOOLEAN, Disconnect(leave) PROVE StreamInv'
  BY <1>5 DEF Disconnect
<1>6. CASE Drain("draining", "telling") \/ freerdp_channels_close_drains
  BY <1>6 DEF freerdp_channels_close_drains, Drain
<1>7. CASE PluginQuits
  BY <1>7 DEF PluginQuits
<1>8. CASE PluginDisconnected
  BY <1>8 DEF PluginDisconnected
<1>9. CASE freerdp_channels_close \/ freerdp_channels_client_load_ex
  BY <1>9 DEF freerdp_channels_close, freerdp_channels_client_load_ex
<1>10. CASE ThreadReads
  BY <1>10, TailIsRest DEF ThreadReads
<1>11. CASE ThreadWrites \/ ThreadDone
  BY <1>11 DEF ThreadWrites, ThreadDone
<1> QED BY Zenon, <1>1, <1>2, <1>3, <1>4, <1>5, <1>6, <1>7, <1>8, <1>9, <1>10, <1>11 DEF StaticNext, MainEnds

\* The three invariants of a static channel hold always.
LEMMA StaticInvAlways == StaticSpec => [](ThreadInv /\ ChannelsInv /\ StreamInv)
<1>1. StaticInit => ThreadInv
  BY Zenon DEF StaticInit, ThreadInv, InSession, WritesAccepted
<1>2. StaticInit => ChannelsInv
  <2> SUFFICES ASSUME StaticInit PROVE ChannelsInv
    OBVIOUS
  <2>1. channelsQueue = <<>> /\ Len(channelsQueue) = 0 /\ channelsQueue \in Seq({Write, Quit})
    BY DEF StaticInit
  <2>2. plugin = "allocated" /\ mainStep = "loaded"
    BY DEF StaticInit
  <2>3. eventAfterFree \in BOOLEAN /\ ~eventAfterFree
    BY Zenon DEF StaticInit
  <2> QED BY <2>1, <2>2, <2>3 DEF ChannelsInv, NoEventAfterFree
<1>3. StaticInit => StreamInv
  BY DEF StaticInit, StreamInv, OneOwnerOfStream, None
<1> QED BY <1>1, <1>2, <1>3, ThreadStep, ChannelsStep, StreamStep, PTL DEF StaticSpec

\* The plugin's thread finds the channel open whenever it writes.
THEOREM WritesAcceptedAlways == StaticSpec => []WritesAccepted
  BY StaticInvAlways, PTL DEF ThreadInv

\* No event of a message goes to a plugin that was freed or to its successor.
THEOREM NoEventAfterFreeAlways == StaticSpec => []NoEventAfterFree
  BY StaticInvAlways, PTL DEF ChannelsInv

\* A stream is with the main thread, in the plugin's queue or with its thread.
THEOREM OneOwnerOfStreamAlways == StaticSpec => []OneOwnerOfStream
  BY StaticInvAlways, PTL DEF StreamInv

----------------------------------------------------------------------------
(* FastPath.                                                               *)

Begins(p) == p.fragmentation \in {"SINGLE", "FIRST"}
Ends(p)   == p.fragmentation \in {"SINGLE", "LAST"}

\* The part of its update that a fragment carries: the bytes Start + 1 .. End.
Start(p) == IF Begins(p) THEN 0 ELSE p.data[1][2] - 1
End(p)   == Start(p) + Len(p.data)

\* ... with the largest update that the client takes, and compressed or not
FragmentOK(p, largest, compressed) ==
  /\ p.fragmentation \in {"SINGLE", "FIRST", "NEXT", "LAST"}
  /\ p.update \in Nat /\ p.whole \in 0..largest
  /\ p.data \in Seq(Nat \X Nat) /\ Start(p) \in Nat
  /\ \A i \in 1..Len(p.data) : p.data[i] = <<p.update, Start(p) + i>>
  /\ IF Ends(p) THEN End(p) = p.whole ELSE End(p) < p.whole
  /\ ~compressed /\ p.whole <= SafeSize => p.fragmentation = "SINGLE"

\* The fragment q goes on where p ended.
Follows(p, q) ==
  IF Ends(p) THEN Begins(q)
  ELSE ~Begins(q) /\ q.update = p.update /\ q.whole = p.whole /\ Start(q) = End(p)

\* data is the n first bytes of the update u.
IsPrefixOf(data, u, n) == Len(data) = n /\ \A i \in 1..n : data[i] = <<u, i>>

\* A client in the state f that holds data goes on with p.
ClientReadyFor(p, f, data) ==
  IF f = "none" THEN Begins(p) ELSE ~Begins(p) /\ IsPrefixOf(data, p.update, Start(p))

\* The server, at fragment k of update u with sent of whole bytes, was at p last.
ServerWasAt(p, k, u, whole, sent) ==
  IF Ends(p) THEN k \in {-1, 0}
  ELSE k > 0 /\ p.update = u /\ p.whole = whole /\ End(p) = sent

\* With nothing on the way
InStep ==
  IF fragmentation = "none" THEN fragment \in {-1, 0}
  ELSE fragment > 0 /\ IsPrefixOf(updateData, update, total - left)

ServerOK ==
  /\ serverMax \in Nat /\ clientMax \in Nat /\ serverMax <= clientMax
  /\ update \in Nat /\ total \in 0..serverMax /\ left \in 0..total
  /\ fragment \in Nat \cup {-1} /\ compress \in BOOLEAN
  /\ fragment = 0 => left = total
  /\ fragment > 0 => left \in 1..(total - 1) /\ (compress \/ total > MaxLength)
  /\ clientMax = 0 => fragment = -1 /\ pdus = <<>>

ClientOK ==
  /\ fragmentation \in {"none", "FIRST", "NEXT"}
  /\ updateData \in Seq(Nat \X Nat)
  /\ fragmentation = "none" => updateData = <<>>

PduType == [fragmentation : {"SINGLE", "FIRST", "NEXT", "LAST"}, update : Nat, whole : Nat, data : Seq(Nat \X Nat)]

\* The fragments on the way are a run of the server's, from where the client is
\* to where the server is.
PdusOK ==
  /\ pdus \in Seq(PduType)
  /\ \A i \in 1..Len(pdus) : FragmentOK(pdus[i], clientMax, compress)
  /\ \A i \in 1..(Len(pdus) - 1) : Follows(pdus[i], pdus[i + 1])
  /\ IF pdus = <<>> THEN InStep
     ELSE /\ ClientReadyFor(pdus[1], fragmentation, updateData)
          /\ ServerWasAt(pdus[Len(pdus)], fragment, update, total, total - left)

Flags == rejected = FALSE /\ garbled = FALSE

FastPathInv == ServerOK /\ ClientOK /\ PdusOK /\ Flags

\* Two consecutive parts of an update make one.
LEMMA Joined ==
  ASSUME NEW s \in Seq(Nat \X Nat), NEW t \in Seq(Nat \X Nat), NEW u \in Nat,
         \A i \in 1..Len(s) : s[i] = <<u, i>>,
         \A i \in 1..Len(t) : t[i] = <<u, Len(s) + i>>
  PROVE  /\ s \o t \in Seq(Nat \X Nat) /\ Len(s \o t) = Len(s) + Len(t)
         /\ \A i \in 1..(Len(s) + Len(t)) : (s \o t)[i] = <<u, i>>
<1>1. Len(s) \in Nat /\ Len(t) \in Nat /\ s \o t \in Seq(Nat \X Nat) /\ Len(s \o t) = Len(s) + Len(t)
  OBVIOUS
<1>2. ASSUME NEW i \in 1..(Len(s) + Len(t)) PROVE (s \o t)[i] = <<u, i>>
  <2>1. CASE i <= Len(s)
    BY <1>1, <2>1
  <2>2. CASE i > Len(s)
    <3> DEFINE k == i - Len(s)
    <3>1. k \in 1..Len(t) /\ (s \o t)[i] = t[k] /\ Len(s) + k = i
      BY <1>1, <2>2
    <3> HIDE DEF k
    <3> QED BY Zenon, <3>1
  <2>3. i <= Len(s) \/ i > Len(s)
    BY <1>1
  <2> QED BY Zenon, <2>1, <2>2, <2>3
<1> QED BY <1>1, <1>2

\* The client puts the next fragment behind what it holds, and has a prefix of
\* the update again.
LEMMA Assembled ==
  ASSUME ClientOK, clientMax \in Nat, NEW p \in PduType,
         FragmentOK(p, clientMax, compress), ClientReadyFor(p, fragmentation, updateData)
  PROVE  /\ updateData \o p.data \in Seq(Nat \X Nat) /\ Len(updateData \o p.data) = End(p)
         /\ End(p) \in Nat /\ End(p) <= clientMax
         /\ \A i \in 1..End(p) : (updateData \o p.data)[i] = <<p.update, i>>
<1>1. p.data \in Seq(Nat \X Nat) /\ updateData \in Seq(Nat \X Nat) /\ Start(p) \in Nat
  BY DEF ClientOK, FragmentOK
<1>2. Len(updateData) = Start(p) /\ \A i \in 1..Start(p) : updateData[i] = <<p.update, i>>
  <2>1. CASE fragmentation = "none"
    <3>1. updateData = <<>> /\ Start(p) = 0
      BY <2>1 DEF ClientOK, ClientReadyFor, Start
    <3> QED BY <3>1
  <2>2. CASE fragmentation # "none"
    BY <2>2 DEF ClientReadyFor, IsPrefixOf
  <2> QED BY <2>1, <2>2
<1>3. \A i \in 1..Len(p.data) : p.data[i] = <<p.update, Start(p) + i>>
  BY DEF FragmentOK
<1>4. Len(p.data) \in Nat /\ End(p) = Len(updateData) + Len(p.data) /\ End(p) \in Nat
  BY <1>1, <1>2 DEF End
<1>5. End(p) <= clientMax
  <2>1. p.whole \in 0..clientMax /\ (End(p) = p.whole \/ End(p) < p.whole)
    BY DEF FragmentOK
  <2> QED BY <1>4, <2>1
<1>6. /\ \A i \in 1..Len(updateData) : updateData[i] = <<p.update, i>>
      /\ \A i \in 1..Len(p.data) : p.data[i] = <<p.update, Len(updateData) + i>>
  BY <1>2, <1>3
<1>7. /\ updateData \o p.data \in Seq(Nat \X Nat)
      /\ Len(updateData \o p.data) = Len(updateData) + Len(p.data)
      /\ \A i \in 1..(Len(updateData) + Len(p.data)) : (updateData \o p.data)[i] = <<p.update, i>>
  <2> DEFINE d == p.data
             u == p.update
  <2>1. u \in Nat /\ d \in Seq(Nat \X Nat) /\ \A i \in 1..Len(d) : d[i] = <<u, Len(updateData) + i>>
    BY <1>1, <1>6 DEF PduType
  <2>2. updateData \in Seq(Nat \X Nat) /\ \A i \in 1..Len(updateData) : updateData[i] = <<u, i>>
    BY <1>1, <1>6
  <2> HIDE DEF d, u
  <2>3. /\ updateData \o d \in Seq(Nat \X Nat) /\ Len(updateData \o d) = Len(updateData) + Len(d)
        /\ \A i \in 1..(Len(updateData) + Len(d)) : (updateData \o d)[i] = <<u, i>>
    BY <2>1, <2>2, Joined
  <2> QED BY Zenon, <2>3 DEF d, u
<1>8. Len(updateData \o p.data) = End(p)
  BY Zenon, <1>4, <1>7
<1> QED BY Zenon, <1>4, <1>5, <1>7, <1>8

\* What the exchange of capability sets leaves: the server does not send more
\* than the client takes.
LEMMA ExchangeFits == FastPathInv /\ Exchange => FastPathInv'
<1> SUFFICES ASSUME FastPathInv, Exchange PROVE FastPathInv'
  OBVIOUS
<1>1. PICK s, c \in Announced, remoteFx \in BOOLEAN :
        clientMax' = ClientReads(s, c) /\ serverMax' = ServerReads(s, ClientReads(s, c), remoteFx)
  BY DEF Exchange
<1>2. s \in Nat /\ c \in Nat /\ s >= SafeSize /\ c >= SafeSize /\ SafeSize \in Nat \ {0} /\ MaxPacket \in Nat
  BY FastPathAssumption
<1>3. /\ clientMax' \in Nat \ {0} /\ serverMax' \in Nat /\ serverMax' <= clientMax'
  BY <1>1, <1>2 DEF ClientReads, ServerReads
<1>4. clientMax = 0 /\ compress' \in BOOLEAN /\ UNCHANGED <<update, total, left, fragment, pdus, fragmentation, updateData, rejected, garbled>>
  BY DEF Exchange, clientSide
<1>5. fragment = -1 /\ pdus = <<>>
  BY <1>4 DEF FastPathInv, ServerOK
<1>6. total = 0 /\ left = 0 /\ update \in Nat
  BY <1>4 DEF FastPathInv, ServerOK
<1>7. ServerOK'
  BY <1>3, <1>4, <1>5, <1>6 DEF ServerOK
<1>8. ClientOK' /\ Flags'
  BY <1>4 DEF FastPathInv, ClientOK, Flags
<1>9. PdusOK'
  BY <1>4, <1>5 DEF FastPathInv, PdusOK, InStep, IsPrefixOf
<1> QED BY <1>7, <1>8, <1>9 DEF FastPathInv

\* A new update begins between two others.
LEMMA SendBegins ==
  ASSUME NEW length \in 0..MaxUpdate, FastPathInv, fastpath_send_update_pdu(length)
  PROVE  FastPathInv'
<1>1. /\ fragment = -1 /\ clientMax > 0 /\ length <= serverMax /\ length \in Nat
      /\ update' \in Nat /\ total' = length /\ left' = length /\ fragment' = 0
      /\ UNCHANGED <<serverMax, clientMax, compress, pdus, fragmentation, updateData, rejected, garbled>>
  BY FastPathAssumption DEF fastpath_send_update_pdu, clientSide, FastPathInv, ServerOK
<1>2. ServerOK'
  BY <1>1 DEF FastPathInv, ServerOK
<1>3. ClientOK' /\ Flags'
  BY <1>1 DEF FastPathInv, ClientOK, Flags
<1>4. PdusOK'
  <2>1. fragment' \in {-1, 0} /\ ~(fragment > 0)
    BY <1>1
  <2>2. InStep => InStep'
    BY <1>1, <2>1 DEF InStep
  <2>3. ASSUME NEW p, ServerWasAt(p, fragment, update, total, total - left)
        PROVE  ServerWasAt(p, fragment', update', total', total' - left')
    BY <2>1, <2>3 DEF ServerWasAt
  <2> QED BY <1>1, <2>2, <2>3 DEF FastPathInv, PdusOK
<1> QED BY <1>2, <1>3, <1>4 DEF FastPathInv

\* The fragment that SendFragment makes carries the next part of the update.
LEMMA NextFragment ==
  ASSUME ServerOK, fragment # -1, NEW size,
         size = IF left > maxLength THEN maxLength ELSE left
  PROVE  LET p == [fragmentation |-> Fragmentation(size), update |-> update, whole |-> total,
                   data |-> [i \in 1..size |-> <<update, (total - left) + i>>]]
         IN  /\ p \in PduType /\ FragmentOK(p, clientMax, compress)
             /\ Begins(p) <=> fragment = 0
             /\ Ends(p) <=> left - size = 0
             /\ Start(p) = total - left /\ End(p) = total - (left - size)
             /\ p.update = update /\ p.whole = total
<1> DEFINE d == [i \in 1..size |-> <<update, (total - left) + i>>]
           p == [fragmentation |-> Fragmentation(size), update |-> update, whole |-> total, data |-> d]
<1>1. /\ size \in Nat /\ left \in Nat /\ total \in Nat /\ size <= left /\ left <= total /\ total - left \in Nat
      /\ update \in Nat /\ total <= clientMax /\ clientMax \in Nat /\ compress \in BOOLEAN /\ SafeSize \in Nat
      /\ left # 0 => size # 0
  BY FastPathAssumption DEF ServerOK, maxLength
<1>2. d \in Seq(Nat \X Nat) /\ Len(d) = size /\ \A i \in 1..size : d[i] = <<update, (total - left) + i>>
  BY <1>1
<1> HIDE DEF d
<1>3. p.fragmentation = Fragmentation(size) /\ p.update = update /\ p.whole = total /\ p.data = d
  OBVIOUS
<1>4. /\ p.fragmentation \in {"SINGLE", "FIRST", "NEXT", "LAST"}
      /\ Begins(p) <=> fragment = 0
      /\ Ends(p) <=> left - size = 0
  BY <1>3 DEF Fragmentation, Begins, Ends
<1>5. p \in PduType
  BY <1>1, <1>2, <1>3, <1>4 DEF PduType
<1> HIDE DEF p
<1>6. Start(p) = total - left
  <2>1. CASE fragment = 0
    BY <1>1, <1>4, <2>1 DEF Start, ServerOK
  <2>2. CASE fragment # 0
    <3>1. left # 0
      BY <2>2 DEF ServerOK
    <3>2. d[1] = <<update, (total - left) + 1>>
      BY <1>1, <1>2, <3>1
    <3> QED BY <1>1, <1>3, <1>4, <2>2, <3>2 DEF Start
  <2> QED BY <2>1, <2>2
<1>7. End(p) = total - (left - size)
  <2>1. Len(p.data) = size
    BY <1>2, <1>3
  <2>2. End(p) = (total - left) + size
    BY <1>6, <2>1 DEF End
  <2> QED BY <1>1, <2>2
<1>8. ~compress /\ total <= SafeSize => p.fragmentation = "SINGLE"
  <2> SUFFICES ASSUME ~compress, total <= SafeSize PROVE p.fragmentation = "SINGLE"
    OBVIOUS
  <2>1. fragment = 0 /\ left = total
    BY <1>1, FastPathAssumption DEF ServerOK
  <2>2. left - size = 0
    BY <1>1, <2>1, FastPathAssumption DEF maxLength
  <2> QED BY <1>3, <2>1, <2>2 DEF Fragmentation
<1>9. FragmentOK(p, clientMax, compress)
  <2>1. IF Ends(p) THEN End(p) = p.whole ELSE End(p) < p.whole
    BY <1>1, <1>3, <1>4, <1>7
  <2>2. \A i \in 1..Len(p.data) : p.data[i] = <<p.update, Start(p) + i>>
    BY <1>2, <1>3, <1>6
  <2>3. p.update \in Nat /\ p.whole \in 0..clientMax /\ p.data \in Seq(Nat \X Nat) /\ Start(p) \in Nat
    BY <1>1, <1>2, <1>3, <1>6
  <2> QED BY <1>3, <1>4, <1>8, <2>1, <2>2, <2>3 DEF FragmentOK
<1> QED BY <1>3, <1>4, <1>5, <1>6, <1>7, <1>9 DEF d, p

\* A fragment more is on its way, and goes on where the last one ended.
LEMMA SendFragmentStep == FastPathInv /\ SendFragment => FastPathInv'
<1> SUFFICES ASSUME FastPathInv, SendFragment PROVE FastPathInv'
  OBVIOUS
<1> DEFINE size == IF left > maxLength THEN maxLength ELSE left
           p == [fragmentation |-> Fragmentation(size), update |-> update, whole |-> total,
                 data |-> [i \in 1..size |-> <<update, (total - left) + i>>]]
<1>1. /\ fragment # -1 /\ pdus' = Append(pdus, p) /\ left' = left - size
      /\ fragment' = IF left' = 0 THEN -1 ELSE fragment + 1
      /\ UNCHANGED <<serverMax, clientMax, update, total, compress, fragmentation, updateData, rejected, garbled>>
  <2>1. UNCHANGED <<serverMax, clientMax, update, total, compress, fragmentation, updateData, rejected, garbled>>
    BY DEF SendFragment, clientSide
  <2>2. /\ fragment # -1 /\ pdus' = Append(pdus, p) /\ left' = left - size
        /\ fragment' = IF left' = 0 THEN -1 ELSE fragment + 1
    BY Zenon DEF SendFragment
  <2> QED BY Zenon, <2>1, <2>2
<1>2. /\ p \in PduType /\ FragmentOK(p, clientMax, compress)
      /\ Begins(p) <=> fragment = 0
      /\ Ends(p) <=> left - size = 0
      /\ Start(p) = total - left /\ End(p) = total - (left - size)
      /\ p.update = update /\ p.whole = total
  BY <1>1, NextFragment DEF FastPathInv
<1>3. /\ size \in Nat /\ size <= left /\ left \in Nat /\ total \in Nat /\ left <= total
      /\ left # 0 => size # 0
      /\ ~compress /\ left # size => left > MaxLength
  BY FastPathAssumption DEF FastPathInv, ServerOK, maxLength
<1> HIDE DEF size, p
<1>4. ServerOK'
  <2>1. clientMax # 0
    BY <1>1 DEF FastPathInv, ServerOK
  <2>2. left' \in 0..total' /\ total' \in 0..serverMax' /\ fragment' \in Nat \cup {-1} /\ fragment' # 0
    BY <1>1, <1>3 DEF FastPathInv, ServerOK
  <2>3. fragment' > 0 => left' \in 1..(total' - 1) /\ (compress' \/ total' > MaxLength)
    BY <1>1, <1>3, FastPathAssumption DEF FastPathInv, ServerOK
  <2> QED BY <1>1, <2>1, <2>2, <2>3 DEF FastPathInv, ServerOK
<1>5. ClientOK' /\ Flags'
  BY <1>1 DEF FastPathInv, ClientOK, Flags
<1>6. PdusOK'
  <2>1. /\ pdus \in Seq(PduType) /\ pdus' \in Seq(PduType) /\ Len(pdus') = Len(pdus) + 1 /\ Len(pdus) \in Nat
        /\ pdus' # <<>> /\ pdus'[Len(pdus')] = p /\ \A i \in 1..Len(pdus) : pdus'[i] = pdus[i]
    BY <1>1, <1>2 DEF FastPathInv, PdusOK
  <2>2. \A i \in 1..Len(pdus') : FragmentOK(pdus'[i], clientMax', compress')
    BY <1>1, <1>2, <2>1 DEF FastPathInv, PdusOK
  <2>3. ServerWasAt(p, fragment', update', total', total' - left')
    BY <1>1, <1>2, <1>3 DEF ServerWasAt, FastPathInv, ServerOK
  <2>4. CASE pdus = <<>>
    <3>1. ClientReadyFor(p, fragmentation, updateData)
      BY <1>1, <1>2, <2>4 DEF FastPathInv, PdusOK, InStep, ClientReadyFor, ServerOK
    <3> QED BY <1>1, <2>1, <2>2, <2>3, <2>4, <3>1 DEF PdusOK
  <2>5. CASE pdus # <<>>
    <3>1. Len(pdus) > 0
      BY <2>1, <2>5
    <3>2. Follows(pdus[Len(pdus)], p)
      <4>1. ServerWasAt(pdus[Len(pdus)], fragment, update, total, total - left)
        BY <2>5 DEF FastPathInv, PdusOK
      <4> QED BY <1>1, <1>2, <4>1 DEF ServerWasAt, Follows, FastPathInv, ServerOK
    <3>3. ASSUME NEW i \in 1..(Len(pdus') - 1) PROVE Follows(pdus'[i], pdus'[i + 1])
      <4>1. CASE i = Len(pdus)
        BY <2>1, <3>2, <4>1
      <4>2. CASE i # Len(pdus)
        <5>1. i \in 1..(Len(pdus) - 1) /\ i \in 1..Len(pdus) /\ i + 1 \in 1..Len(pdus)
          BY <2>1, <4>2
        <5> QED BY <2>1, <5>1 DEF FastPathInv, PdusOK
      <4> QED BY <4>1, <4>2
    <3>4. ClientReadyFor(pdus'[1], fragmentation', updateData')
      BY <1>1, <2>1, <2>5, <3>1 DEF FastPathInv, PdusOK
    <3> QED BY <2>1, <2>2, <2>3, <3>3, <3>4 DEF PdusOK
  <2> QED BY <2>4, <2>5
<1> QED BY <1>4, <1>5, <1>6 DEF FastPathInv

\* The client takes the first fragment on its way.
LEMMA ReceiveStep == FastPathInv /\ fastpath_recv_update_data => FastPathInv'
<1> SUFFICES ASSUME FastPathInv, fastpath_recv_update_data PROVE FastPathInv'
  OBVIOUS
<1> DEFINE p == pdus[1]
           data == updateData \o p.data
<1>1. /\ pdus \in Seq(PduType) /\ pdus # <<>> /\ Len(pdus) \in Nat \ {0} /\ p \in PduType /\ p = Head(pdus)
      /\ pdus' = Tail(pdus) /\ pdus' \in Seq(PduType) /\ Len(pdus') = Len(pdus) - 1
      /\ \A i \in 1..Len(pdus') : i + 1 \in 1..Len(pdus) /\ pdus'[i] = pdus[i + 1]
      /\ UNCHANGED <<serverMax, clientMax, update, total, left, fragment, compress>>
  <2>1. pdus \in Seq(PduType)
    BY Zenon DEF FastPathInv, PdusOK
  <2>2. /\ pdus # <<>> /\ pdus' = Tail(pdus)
        /\ UNCHANGED <<serverMax, clientMax, update, total, left, fragment, compress>>
    BY DEF fastpath_recv_update_data, serverSide
  <2>3. /\ Len(pdus) \in Nat \ {0} /\ p \in PduType /\ p = Head(pdus)
        /\ Tail(pdus) \in Seq(PduType) /\ Len(Tail(pdus)) = Len(pdus) - 1
    BY <2>1, <2>2
  <2>4. \A i \in 1..Len(Tail(pdus)) : i + 1 \in 1..Len(pdus) /\ Tail(pdus)[i] = pdus[i + 1]
    BY <2>1, <2>3
  <2> QED BY Zenon, <2>1, <2>2, <2>3, <2>4
<1>2. FragmentOK(p, clientMax, compress) /\ ClientReadyFor(p, fragmentation, updateData) /\ clientMax \in Nat
  <2>1. 1 \in 1..Len(pdus) /\ pdus # <<>>
    BY <1>1
  <2> QED BY Zenon, <2>1 DEF FastPathInv, PdusOK, ServerOK
<1>3. /\ data \in Seq(Nat \X Nat) /\ Len(data) = End(p) /\ End(p) \in Nat /\ End(p) <= clientMax
      /\ \A i \in 1..End(p) : data[i] = <<p.update, i>>
  BY Zenon, <1>1, <1>2, Assembled DEF FastPathInv
<1>4. /\ rejected' = Unexpected(p.fragmentation, Len(data))
      /\ updateData' = IF Unexpected(p.fragmentation, Len(data)) THEN data ELSE Position(p.fragmentation, data)
      /\ fragmentation' =
           IF Unexpected(p.fragmentation, Len(data)) THEN fragmentation
           ELSE IF p.fragmentation \in {"FIRST", "NEXT"} THEN p.fragmentation ELSE "none"
      /\ garbled' = (garbled \/ (~Unexpected(p.fragmentation, Len(data)) /\ p.fragmentation \in {"SINGLE", "LAST"}
                                  /\ data # [i \in 1..p.whole |-> <<p.update, i>>]))
  BY Zenon, <1>1 DEF fastpath_recv_update_data
<1> HIDE DEF p, data
<1>5. /\ p.fragmentation \in {"SINGLE", "FIRST", "NEXT", "LAST"}
      /\ p.whole \in Nat
      /\ Ends(p) => End(p) = p.whole
  BY <1>2 DEF FragmentOK
<1>6. ~Unexpected(p.fragmentation, Len(data))
  <2>1. ~(Len(data) > clientMax)
    BY <1>2, <1>3
  <2>2. fragmentation = "none" <=> p.fragmentation \in {"SINGLE", "FIRST"}
    BY <1>2 DEF ClientReadyFor, Begins
  <2> QED BY <2>1, <2>2 DEF Unexpected
<1>7. Ends(p) => data = [i \in 1..p.whole |-> <<p.update, i>>]
  BY <1>3, <1>5
<1>8. rejected' = FALSE
  <2>1. Unexpected(p.fragmentation, Len(data)) \in BOOLEAN
    BY Zenon DEF Unexpected
  <2>2. Unexpected(p.fragmentation, Len(data)) = FALSE
    BY <1>6, <2>1, Zenon
  <2> QED BY <1>4, <2>2, Zenon
<1>9. garbled' = FALSE
  <2>1. garbled = FALSE
    BY DEF FastPathInv, Flags
  <2>2. ~(p.fragmentation \in {"SINGLE", "LAST"} /\ data # [i \in 1..p.whole |-> <<p.update, i>>])
    BY <1>7 DEF Ends
  <2> QED BY <1>4, <2>1, <2>2, Zenon
<1>10. /\ Ends(p) => fragmentation' = "none" /\ updateData' = <<>>
       /\ ~Ends(p) => /\ fragmentation' \in {"FIRST", "NEXT"}
                      /\ updateData' = data /\ IsPrefixOf(updateData', p.update, End(p))
  BY <1>3, <1>4, <1>5, <1>6 DEF Position, Ends, IsPrefixOf
<1>11. ClientOK'
  <2>1. CASE Ends(p)
    BY <1>10, <2>1 DEF ClientOK
  <2>2. CASE ~Ends(p)
    BY <1>3, <1>10, <2>2 DEF ClientOK
  <2> QED BY <2>1, <2>2
<1>12. ServerOK'
  BY <1>1 DEF FastPathInv, ServerOK
<1>13. PdusOK'
  <2>1. \A i \in 1..Len(pdus') : FragmentOK(pdus'[i], clientMax', compress')
    BY <1>1 DEF FastPathInv, PdusOK
  <2>2. ASSUME NEW i \in 1..(Len(pdus') - 1) PROVE Follows(pdus'[i], pdus'[i + 1])
    <3>1. i + 1 \in 1..(Len(pdus) - 1) /\ pdus'[i] = pdus[i + 1] /\ pdus'[i + 1] = pdus[(i + 1) + 1]
      BY <1>1
    <3> QED BY <3>1 DEF FastPathInv, PdusOK
  <2>3. CASE pdus' = <<>>
    <3>1. Len(pdus) = 1
      <4>1. Len(pdus') = 0
        BY <2>3
      <4> QED BY <1>1, <4>1
    <3>2. ServerWasAt(p, fragment, update, total, total - left)
      BY <1>1, <3>1 DEF FastPathInv, PdusOK, p
    <3>3. InStep'
      BY <1>1, <1>10, <3>2 DEF ServerWasAt, InStep
    <3> QED BY <1>1, <2>1, <2>2, <2>3, <3>3 DEF PdusOK
  <2>4. CASE pdus' # <<>>
    <3>1. Len(pdus) \in Nat /\ Len(pdus) >= 2 /\ pdus'[1] = pdus[2] /\ pdus'[Len(pdus')] = pdus[Len(pdus)]
      BY <1>1, <2>4
    <3>2. Follows(p, pdus[2])
      BY <1>1, <3>1 DEF FastPathInv, PdusOK, p
    <3>3. ClientReadyFor(pdus'[1], fragmentation', updateData')
      BY Zenon, <1>10, <3>1, <3>2 DEF Follows, ClientReadyFor
    <3>4. ServerWasAt(pdus'[Len(pdus')], fragment', update', total', total' - left')
      BY <1>1, <3>1 DEF FastPathInv, PdusOK
    <3> QED BY <1>1, <2>1, <2>2, <2>4, <3>3, <3>4 DEF PdusOK
  <2> QED BY <2>3, <2>4
<1>14. Flags'
  BY <1>8, <1>9, Zenon DEF Flags
<1> QED BY <1>11, <1>12, <1>13, <1>14 DEF FastPathInv

\* The invariant of fast-path updates holds always.
LEMMA FastPathInvAlways == FastPathSpec => []FastPathInv
<1>1. FastPathInit => FastPathInv
  <2> SUFFICES ASSUME FastPathInit PROVE FastPathInv
    OBVIOUS
  <2>1. /\ serverMax = 0 /\ clientMax = 0 /\ update = 0 /\ total = 0 /\ left = 0 /\ fragment = -1
        /\ pdus = <<>> /\ fragmentation = "none" /\ updateData = <<>>
    BY DEF FastPathInit
  <2>2. compress \in BOOLEAN /\ Flags
    BY Zenon DEF FastPathInit, Flags
  <2> QED BY <2>1, <2>2 DEF FastPathInv, ServerOK, ClientOK, PdusOK, InStep
<1>2. FastPathInv /\ UNCHANGED fpVars => FastPathInv'
  BY DEF FastPathInv, ServerOK, ClientOK, PdusOK, InStep, Flags, fpVars, serverSide, clientSide
<1>3. FastPathInv /\ [FastPathNext]_fpVars => FastPathInv'
  BY <1>2, ExchangeFits, SendBegins, SendFragmentStep, ReceiveStep DEF FastPathNext
<1> QED BY <1>1, <1>3, PTL DEF FastPathSpec

\* The updates arrive byte for byte, whatever their sizes and the fragments'.
THEOREM UpdatesIntactAlways == FastPathSpec => []UpdatesIntact
<1>1. FastPathInv => UpdatesIntact
  BY Zenon DEF FastPathInv, Flags, UpdatesIntact
<1> QED BY <1>1, FastPathInvAlways, PTL

\* The client refuses nothing that the server may send after the exchange.
THEOREM NeverRejectedAlways == FastPathSpec => []NeverRejected
<1>1. FastPathInv => NeverRejected
  BY Zenon DEF FastPathInv, Flags, NeverRejected
<1> QED BY <1>1, FastPathInvAlways, PTL

\* FASTPATH_FRAGMENT_SAFE_SIZE is safe without compression.
THEOREM SafeIsUnfragmentedAlways == FastPathSpec => []SafeIsUnfragmented
<1>1. FastPathInv => SafeIsUnfragmented
  BY Zenon DEF FastPathInv, PdusOK, FragmentOK, SafeIsUnfragmented
<1> QED BY <1>1, FastPathInvAlways, PTL

\* What the client holds back is the beginning of one update.
THEOREM HeldBackOfOneUpdateAlways == FastPathSpec => []HeldBackOfOneUpdate
<1>1. FastPathInv => HeldBackOfOneUpdate
  <2> SUFFICES ASSUME FastPathInv, NEW i \in 1..Len(updateData)
               PROVE  updateData[i] = <<updateData[1][1], i>>
    BY DEF FastPathInv, ClientOK, HeldBackOfOneUpdate
  <2>1. updateData \in Seq(Nat \X Nat) /\ updateData # <<>> /\ Len(updateData) \in Nat
    BY DEF FastPathInv, ClientOK
  <2>2. PICK u : \A j \in 1..Len(updateData) : updateData[j] = <<u, j>>
    <3>1. fragmentation # "none"
      BY <2>1 DEF FastPathInv, ClientOK
    <3>2. CASE pdus = <<>>
      BY Zenon, <3>1, <3>2 DEF FastPathInv, PdusOK, InStep, IsPrefixOf
    <3>3. CASE pdus # <<>>
      BY Zenon, <3>1, <3>3 DEF FastPathInv, PdusOK, ClientReadyFor, IsPrefixOf
    <3> QED BY Zenon, <3>2, <3>3
  <2>3. 1 \in 1..Len(updateData)
    BY <2>1
  <2>4. updateData[1] = <<u, 1>> /\ updateData[i] = <<u, i>>
    BY Zenon, <2>2, <2>3
  <2> QED BY <2>4
<1> QED BY <1>1, FastPathInvAlways, PTL
=============================================================================
