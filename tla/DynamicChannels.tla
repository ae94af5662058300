-------------------------- MODULE DynamicChannels --------------------------
(***************************************************************************)
(* Dynamic virtual channels: the manager of the server (server.c) and the  *)
(* drdynvc plugin of the client (channels/drdynvc/client/drdynvc_main.c).  *)
(* The server opens channels; each side writes messages, which are cut     *)
(* into PDUs, and closes channels.  The PDUs go over the static channel    *)
(* drdynvc, in order.  One application thread writes to a channel on each  *)
(* side; the threads of different channels interleave PDU by PDU.  The     *)
(* bytes of a message tell the channel, its length and their place in it.  *)
(***************************************************************************)
EXTENDS Integers, Sequences

CONSTANTS
  MaxChannels,  \* bound: channels that are opened in a session
  ChunkLength,  \* bytes of data that fit in a Data PDU
  FirstLength,  \* ... and in a Data First PDU, which has the length as well
  Lengths,      \* bound: Lengths[id]: how long the messages of channel id are
  MaxPdus       \* bound: PDUs on their way, in each direction

ASSUME DynamicAssumption ==
  /\ {MaxChannels, ChunkLength, FirstLength, MaxPdus} \subseteq Nat \ {0}
  /\ \A id \in 1..MaxChannels : Lengths[id] \subseteq Nat \ {0}
  /\ FirstLength < ChunkLength

ChannelIds == 1..MaxChannels

VARIABLES
  drdynvcState,  \* vcm->drdynvc_state: "INITIALIZED" or "READY"
  lastId,        \* vcm->dvc_channel_id_seq
  serverDvc,   \* serverDvc[id]: "none"; dvc_open_state "NONE", "SUCCEEDED", "FAILED"
               \* or "CLOSED"; "dropped" (closed before the answer), "gone"
  clientDvc,   \* clientDvc[id]: "none", "open", "refused", "closed" (by the client), "ended"
  writing,     \* writing[side][id]: what is left of the message that is written
  reading,     \* reading[side][id]: the stream, and the length it waits for, 0 for none
  toClient,    \* PDUs on their way
  toServer,
  misread      \* a message came out other than it was written (observed)

dvcVars == <<drdynvcState, lastId, serverDvc, clientDvc, writing, reading,
             toClient, toServer, misread>>

Sides == {"client", "server"}
Idle  == [total |-> 0, data |-> <<>>]

Pdu(cmd, id) == [cmd |-> cmd, id |-> id]

\* WTSVirtualChannelManagerCheckFileDescriptor has sent the capabilities.
DvcFresh ==
  /\ drdynvcState' = "INITIALIZED" /\ lastId' = 0
  /\ serverDvc' = [id \in ChannelIds |-> "none"]
  /\ clientDvc' = [id \in ChannelIds |-> "none"]
  /\ writing' = [side \in Sides |-> [id \in ChannelIds |-> Idle]]
  /\ reading' = [side \in Sides |-> [id \in ChannelIds |-> Idle]]
  /\ toClient' = <<Pdu("CAPABILITY", 0)>> /\ toServer' = <<>>

DvcInit ==
  /\ drdynvcState = "INITIALIZED" /\ lastId = 0
  /\ serverDvc = [id \in ChannelIds |-> "none"]
  /\ clientDvc = [id \in ChannelIds |-> "none"]
  /\ writing = [side \in Sides |-> [id \in ChannelIds |-> Idle]]
  /\ reading = [side \in Sides |-> [id \in ChannelIds |-> Idle]]
  /\ toClient = <<Pdu("CAPABILITY", 0)>> /\ toServer = <<>>
  /\ misread = FALSE

----------------------------------------------------------------------------
(* Data in both directions.                                                *)

\* Mutated form of DataPdu: the first of several PDUs is not told from the rest.
DataPduPlain(id, total, data) ==
  LET first == Len(data) = total
      room  == IF first /\ total > ChunkLength THEN FirstLength ELSE ChunkLength
      size  == IF Len(data) < room THEN Len(data) ELSE room
  IN  [cmd |-> "DATA", id |-> id, length |-> total, data |-> SubSeq(data, 1, size)]

\* The next PDU of a message: WTSVirtualChannelWrite, drdynvc_write_data.
DataPdu(id, total, data) ==
  LET first == Len(data) = total
      room  == IF first /\ total > ChunkLength THEN FirstLength ELSE ChunkLength
      size  == IF Len(data) < room THEN Len(data) ELSE room
  IN  [cmd |-> IF first /\ total > ChunkLength THEN "DATA_FIRST" ELSE "DATA",
       id |-> id, length |-> total, data |-> SubSeq(data, 1, size)]

\* The stream of the channel once pdu has come.
Gathered(side, pdu) ==
  IF pdu.cmd = "DATA_FIRST" THEN [total |-> pdu.length, data |-> pdu.data]
  ELSE [reading[side][pdu.id] EXCEPT !.data = @ \o pdu.data]

Complete(stream) == Len(stream.data) >= stream.total

Message(id, n) == [i \in 1..n |-> <<id, n, i>>]

\* wts_read_drdynvc_data_first and wts_read_drdynvc_data on the server,
\* dvcman_receive_channel_data_first and dvcman_receive_channel_data on the
\* client: a whole message is handed on.  (pdu.length is read only if the PDU is
\* a DATA_FIRST; otherwise it is there to compare with.)
ReceiveData(side, pdu) ==
  LET stream == Gathered(side, pdu)
      done   == pdu.cmd = "DATA" /\ Complete(stream)
  IN  /\ reading' = [reading EXCEPT ![side][pdu.id] = IF done THEN Idle ELSE stream]
      /\ misread' = (misread \/ (done /\ stream.data # Message(pdu.id, pdu.length)))

\* The application asks for a message of n bytes.
BeginWrite(side, id, n) ==
  /\ writing[side][id] = Idle
  /\ writing' = [writing EXCEPT ![side][id] = [total |-> n, data |-> Message(id, n)]]

\* One round of the loop.
WriteNext(side, id, pdu) ==
  /\ writing[side][id] # Idle
  /\ pdu = DataPdu(id, writing[side][id].total, writing[side][id].data)
  /\ LET rest == SubSeq(writing[side][id].data, Len(pdu.data) + 1, Len(writing[side][id].data))
     IN  writing' = [writing EXCEPT ![side][id] = IF rest = <<>> THEN Idle ELSE [@ EXCEPT !.data = rest]]

NextPdu(side, id) == DataPdu(id, writing[side][id].total, writing[side][id].data)

----------------------------------------------------------------------------
(* The server (server.c).                                                  *)

ToClient(pdu) == Len(toClient) < MaxPdus /\ toClient' = Append(toClient, pdu)

Held(id) == serverDvc[id] \in {"NONE", "SUCCEEDED", "FAILED", "CLOSED"}

WTSVirtualChannelOpenEx ==
  /\ drdynvcState = "READY" /\ lastId < MaxChannels
  /\ lastId' = lastId + 1
  /\ serverDvc' = [serverDvc EXCEPT ![lastId + 1] = "NONE"]
  /\ ToClient(Pdu("CREATE", lastId + 1))
  /\ UNCHANGED <<drdynvcState, clientDvc, writing, reading, toServer, misread>>

\* WTSVirtualChannelWrite does not look at dvc_open_state.
ServerBegins(id, n) ==
  /\ Held(id)
  /\ BeginWrite("server", id, n)
  /\ UNCHANGED <<drdynvcState, lastId, serverDvc, clientDvc, reading, toClient, toServer, misread>>

ServerWrites(id) ==
  /\ WriteNext("server", id, NextPdu("server", id))
  /\ ToClient(NextPdu("server", id))
  /\ UNCHANGED <<drdynvcState, lastId, serverDvc, clientDvc, reading, toServer, misread>>

\* Mutated form of WTSVirtualChannelClose: the client is never told.
WTSVirtualChannelCloseSilent(id) ==
  /\ Held(id) /\ writing["server"][id] = Idle
  /\ UNCHANGED toClient
  /\ serverDvc' = [serverDvc EXCEPT ![id] = IF @ = "NONE" THEN "dropped" ELSE "gone"]
  /\ reading' = [reading EXCEPT !["server"][id] = Idle]
  /\ UNCHANGED <<drdynvcState, lastId, clientDvc, writing, toServer, misread>>

\* The client is told only if its answer to the creation has come.
WTSVirtualChannelClose(id) ==
  /\ Held(id) /\ writing["server"][id] = Idle
  /\ IF serverDvc[id] = "SUCCEEDED" THEN ToClient(Pdu("CLOSE", id)) ELSE UNCHANGED toClient
  /\ serverDvc' = [serverDvc EXCEPT ![id] = IF @ = "NONE" THEN "dropped" ELSE "gone"]
  /\ reading' = [reading EXCEPT !["server"][id] = Idle]
  /\ UNCHANGED <<drdynvcState, lastId, clientDvc, writing, toServer, misread>>

\* wts_read_drdynvc_pdu: a PDU for a channel that is not in the list is ignored.
wts_read_drdynvc_pdu ==
  /\ toServer # <<>>
  /\ LET pdu  == Head(toServer)
         Open(state) == serverDvc' = [serverDvc EXCEPT ![pdu.id] = state]
     IN  \/ /\ pdu.cmd = "CAPABILITY"
            /\ drdynvcState' = "READY"
            /\ UNCHANGED <<serverDvc, reading, misread>>
         \/ /\ pdu.cmd # "CAPABILITY" /\ ~Held(pdu.id)
            /\ UNCHANGED <<drdynvcState, serverDvc, reading, misread>>
         \/ /\ pdu.cmd = "CREATE" /\ Held(pdu.id)
            /\ Open(IF pdu.accepted THEN "SUCCEEDED" ELSE "FAILED")
            /\ UNCHANGED <<drdynvcState, reading, misread>>
         \/ /\ pdu.cmd \in {"DATA_FIRST", "DATA"} /\ Held(pdu.id)
            /\ ReceiveData("server", pdu)
            /\ UNCHANGED <<drdynvcState, serverDvc>>
         \/ /\ pdu.cmd = "CLOSE" /\ Held(pdu.id)
            /\ Open("CLOSED")
            /\ UNCHANGED <<drdynvcState, reading, misread>>
  /\ toServer' = Tail(toServer)
  /\ UNCHANGED <<lastId, clientDvc, writing, toClient>>

----------------------------------------------------------------------------
(* The client (drdynvc_main.c).                                            *)

ToServer(pdu) == Len(toServer) < MaxPdus /\ toServer' = Append(toServer, pdu)

\* A channel leaves the list: dvcman_close_channel, dvcman_channel_free.
Leaves(id, state) ==
  /\ clientDvc' = [clientDvc EXCEPT ![id] = IF @ = "open" THEN state ELSE @]
  /\ reading' = [reading EXCEPT !["client"][id] = Idle]

\* drdynvc_order_recv, in the thread of the plugin.  A PDU for a channel that is
\* not in the list is ignored, but a Close Request is always answered.
drdynvc_order_recv ==
  /\ toClient # <<>>
  /\ LET pdu == Head(toClient)
     IN  \/ /\ pdu.cmd = "CAPABILITY"
            /\ ToServer(pdu)
            /\ UNCHANGED <<clientDvc, reading, misread>>
         \/ /\ pdu.cmd = "CREATE"
            /\ \E accepted \in BOOLEAN :   \* is there a listener that accepts it
                 /\ clientDvc' = [clientDvc EXCEPT ![pdu.id] = IF accepted THEN "open" ELSE "refused"]
                 /\ ToServer([cmd |-> "CREATE", id |-> pdu.id, accepted |-> accepted])
            /\ UNCHANGED <<reading, misread>>
         \/ /\ pdu.cmd \in {"DATA_FIRST", "DATA"} /\ clientDvc[pdu.id] = "open"
            /\ ReceiveData("client", pdu)
            /\ UNCHANGED <<clientDvc, toServer>>
         \/ /\ pdu.cmd \in {"DATA_FIRST", "DATA"} /\ clientDvc[pdu.id] # "open"
            /\ UNCHANGED <<clientDvc, reading, misread, toServer>>
         \/ /\ pdu.cmd = "CLOSE"
            /\ Leaves(pdu.id, "ended")
            /\ ToServer(Pdu("CLOSE", pdu.id))
            /\ UNCHANGED misread
  /\ toClient' = Tail(toClient)
  /\ UNCHANGED <<drdynvcState, lastId, serverDvc, writing>>

ClientBegins(id, n) ==
  /\ clientDvc[id] = "open"
  /\ BeginWrite("client", id, n)
  /\ UNCHANGED <<drdynvcState, lastId, serverDvc, clientDvc, reading, toClient, toServer, misread>>

\* Also when the channel has ended meanwhile: the loop does not look again.
ClientWrites(id) ==
  /\ WriteNext("client", id, NextPdu("client", id))
  /\ ToServer(NextPdu("client", id))
  /\ UNCHANGED <<drdynvcState, lastId, serverDvc, clientDvc, reading, toClient, misread>>

\* Mutated form of ClientCloses: the server is not told.
ClientClosesSilent(id) ==
  /\ clientDvc[id] = "open" /\ writing["client"][id] = Idle
  /\ Leaves(id, "closed")
  /\ UNCHANGED <<drdynvcState, lastId, serverDvc, writing, toClient, toServer, misread>>

\* A write of no bytes: drdynvc_write_data sends a Close Request.
ClientCloses(id) ==
  /\ clientDvc[id] = "open" /\ writing["client"][id] = Idle
  /\ ToServer(Pdu("CLOSE", id))
  /\ Leaves(id, "closed")
  /\ UNCHANGED <<drdynvcState, lastId, serverDvc, writing, toClient, misread>>

\* The connection ends, and a new one begins: WTSCloseServer, dvcman_free.
NewConnection == DvcFresh /\ UNCHANGED misread

Application(id) ==
  \/ \E n \in Lengths[id] : ServerBegins(id, n) \/ ClientBegins(id, n)
  \/ WTSVirtualChannelClose(id) \/ ClientCloses(id)

DvcNext ==
  \/ WTSVirtualChannelOpenEx
  \/ \E id \in ChannelIds : Application(id) \/ ServerWrites(id) \/ ClientWrites(id)
  \/ wts_read_drdynvc_pdu \/ drdynvc_order_recv
  \/ NewConnection

\* Strong for the client: its queue of PDUs to send has no bound in the code, so
\* that a queue full of other PDUs never keeps it from answering.
DvcFairness == WF_dvcVars(wts_read_drdynvc_pdu) /\ SF_dvcVars(drdynvc_order_recv)

DvcSpec == DvcInit /\ [][DvcNext]_dvcVars /\ DvcFairness

----------------------------------------------------------------------------
(* Properties.                                                             *)

\* A message comes out as it was written, although its PDUs come between those
\* of other channels and channels are closed in the middle of a message.
MessagesIntact == ~misread

Under(way, cmd, id) == \E i \in 1..Len(way) : way[i].cmd = cmd /\ way[i].id = id

\* The two lists of channels agree up to what is under way.  A channel that the
\* server takes for open is open on the client, or the client's Close Request is
\* on its way.  A channel that is open on the client is known to the server, or
\* the server has sent a Close Request, or it is one that the server gave up
\* before it had the answer ("remaining dynamic channels that the server did not"
\* disconnect, which the client closes when the session ends).
ListsAgree ==
  \A id \in ChannelIds :
    /\ serverDvc[id] = "SUCCEEDED" => clientDvc[id] = "open" \/ Under(toServer, "CLOSE", id)
    /\ clientDvc[id] = "open" =>
         \/ serverDvc[id] \in {"NONE", "SUCCEEDED", "dropped"}
         \/ Under(toClient, "CLOSE", id)

\* The client ignores data only on a channel that it has refused or closed
\* itself: none comes before the channel is there or after the server's end.
NoDataAstray ==
  toClient # <<>> /\ Head(toClient).cmd \in {"DATA_FIRST", "DATA"} =>
    clientDvc[Head(toClient).id] \in {"open", "refused", "closed"}

\* A channel that the server closes is closed on the client.
CloseReachesClient ==
  \A id \in ChannelIds : serverDvc[id] = "gone" ~> clientDvc[id] # "open"
=============================================================================
