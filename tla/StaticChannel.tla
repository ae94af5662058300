--------------------------- MODULE StaticChannel ---------------------------
(***************************************************************************)
(* A plugin of a static virtual channel in the client: the channel manager *)
(* (libfreerdp/core/client.c) and the life of the drdynvc plugin           *)
(* (channels/drdynvc/client/drdynvc_main.c), over sessions, reconnections  *)
(* and a second connection with the same context.  The main thread handles *)
(* what the server sends, sends what is queued and tells the plugin of the *)
(* connection; the plugin has a thread that reads a queue of its own.      *)
(***************************************************************************)
EXTENDS Integers, Sequences, FiniteSets

CONSTANTS
  DataStreams,  \* bound: streams that hold data of the server
  MaxQueued     \* bound: messages in a queue

ASSUME StaticAssumption == DataStreams \subseteq Nat \ {0} /\ IsFiniteSet(DataStreams) /\ MaxQueued \in Nat

None  == 0
Write == 1    \* a message of the plugin, in channels->queue
Quit  == -1   \* WMQ_QUIT, in either queue

VARIABLES
  mainStep,       \* "loaded", "connected", "draining", "telling", "joining", "closing",
                  \* "closed", "disconnected" (and it may reconnect) or "terminated"
  leaving,        \* freerdp_disconnect, not freerdp_disconnect_before_reconnect
  allowed_write,  \* channels->connected
  openFlags,      \* pChannelOpenData->flags: 1 initialised, 2 open, 0 closed
  plugin,         \* "allocated" or "freed"
  OpenHandle,     \* drdynvc->OpenHandle is set
  pluginThread,   \* "none", "reading", "writing" or "ended"
  handled,        \* the stream that the thread handles
  pluginQueue,    \* drdynvc->queue
  channelsQueue,  \* channels->queue
  data_in,        \* drdynvc->data_in
  refusedWrite,   \* a write of the thread was refused (observed)
  eventAfterFree  \* an open event was sent to a plugin that was freed (observed)

staticVars == <<mainStep, leaving, allowed_write, openFlags, plugin, OpenHandle, pluginThread,
                handled, pluginQueue, channelsQueue, data_in, refusedWrite, eventAfterFree>>
threadVars == <<pluginThread, handled>>
pluginVars == <<openFlags, plugin, OpenHandle, data_in>>
observed   == <<refusedWrite, eventAfterFree>>

StaticInit ==
  /\ mainStep = "loaded" /\ leaving = FALSE /\ allowed_write = FALSE
  /\ openFlags = 1 /\ plugin = "allocated" /\ OpenHandle = FALSE
  /\ pluginThread = "none" /\ handled = None
  /\ pluginQueue = <<>> /\ channelsQueue = <<>> /\ data_in = None
  /\ refusedWrite = FALSE /\ eventAfterFree = FALSE

----------------------------------------------------------------------------
(* The main thread, while connected.                                       *)

\* freerdp_channels_post_connect: the plugin opens the channel, makes its queue
\* and starts its thread.
freerdp_channels_post_connect ==
  /\ mainStep \in {"loaded", "disconnected"} /\ ~leaving
  /\ mainStep' = "connected" /\ allowed_write' = TRUE
  /\ openFlags' = 2 /\ OpenHandle' = TRUE
  /\ pluginQueue' = <<>> /\ pluginThread' = "reading" /\ handled' = None
  /\ UNCHANGED <<leaving, plugin, channelsQueue, data_in, observed>>

Busy == {data_in, handled} \cup {pluginQueue[i] : i \in 1..Len(pluginQueue)}
NewStream == CHOOSE s \in DataStreams : s \notin Busy

\* data_in once the stream s has been posted.
AfterLast(s) == None

\* freerdp_channels_data, drdynvc_virtual_channel_event_data_received: the first
\* chunk of a message replaces what is there, the last one posts the stream.
freerdp_channels_data ==
  /\ mainStep = "connected"
  /\ DataStreams \subseteq Busy => data_in # None
  /\ Len(pluginQueue) < MaxQueued
  /\ \E first, last \in BOOLEAN :
       LET s == IF first /\ ~(DataStreams \subseteq Busy) THEN NewStream ELSE data_in
       IN  /\ first \/ data_in # None
           /\ data_in' = IF last THEN AfterLast(s) ELSE s
           /\ pluginQueue' = IF last THEN Append(pluginQueue, s) ELSE pluginQueue
  /\ UNCHANGED <<mainStep, leaving, allowed_write, openFlags, plugin, OpenHandle, threadVars,
                 channelsQueue, observed>>

\* One round of freerdp_channels_process_sync: the data is sent and the plugin
\* is told that the write is complete.
SendNext ==
  /\ channelsQueue # <<>>
  /\ channelsQueue' = Tail(channelsQueue)
  /\ eventAfterFree' = (eventAfterFree \/ (Head(channelsQueue) # Quit /\ plugin = "freed"))

\* freerdp_channels_check_fds in the loop of the client
freerdp_channels_check_fds ==
  /\ mainStep = "connected"
  /\ SendNext
  /\ UNCHANGED <<mainStep, leaving, allowed_write, pluginVars, threadVars, pluginQueue, refusedWrite>>

----------------------------------------------------------------------------
(* The main thread, as the session ends.                                   *)

\* freerdp_disconnect and freerdp_disconnect_before_reconnect; without a
\* session there is nothing to disconnect.
Disconnect(leave) ==
  /\ mainStep \in {"loaded", "disconnected", "connected"} /\ ~leaving
  /\ mainStep = "connected" \/ leave
  /\ leaving' = leave
  /\ mainStep' = IF allowed_write THEN "draining" ELSE "closing"
  /\ UNCHANGED <<allowed_write, pluginVars, threadVars, pluginQueue, channelsQueue, observed>>

\* freerdp_channels_process_sync stops at an empty queue, and at WMQ_QUIT.
Drain(step, next) ==
  /\ mainStep = step
  /\ \/ /\ channelsQueue = <<>>
        /\ mainStep' = next
        /\ UNCHANGED <<channelsQueue, eventAfterFree>>
     \/ /\ SendNext
        /\ mainStep' = IF Head(channelsQueue) = Quit THEN next ELSE step
  /\ UNCHANGED <<leaving, allowed_write, pluginVars, threadVars, pluginQueue, refusedWrite>>

\* Mutated form of PluginQuits: the thread is not told.
PluginQuitsSilent ==
  /\ mainStep = "telling"
  /\ mainStep' = "joining"
  /\ UNCHANGED <<leaving, allowed_write, pluginVars, threadVars, pluginQueue, channelsQueue, observed>>

\* drdynvc_virtual_channel_event_disconnected as far as the wait for the thread
PluginQuits ==
  /\ mainStep = "telling"
  /\ pluginQueue' = Append(pluginQueue, Quit)
  /\ mainStep' = "joining"
  /\ UNCHANGED <<leaving, allowed_write, pluginVars, threadVars, channelsQueue, observed>>

Joinable == pluginThread = "ended"

\* ... and the rest of it; freerdp_channels_disconnect forgets the connection.
PluginDisconnected ==
  /\ mainStep = "joining" /\ Joinable
  /\ pluginQueue' = <<>> /\ openFlags' = 0 /\ OpenHandle' = FALSE /\ data_in' = None
  /\ allowed_write' = FALSE
  /\ mainStep' = IF leaving THEN "closing" ELSE "disconnected"
  /\ UNCHANGED <<leaving, plugin, threadVars, channelsQueue, observed>>

\* Mutated form of freerdp_channels_close_drains: what is queued is not sent.
CloseWithoutDrain ==
  /\ mainStep = "closing" /\ mainStep' = "closed"
  /\ UNCHANGED <<leaving, allowed_write, pluginVars, threadVars, pluginQueue, channelsQueue, observed>>

\* freerdp_channels_close sends what is queued
freerdp_channels_close_drains == Drain("closing", "closed")

\* ... and then has the plugin freed.
freerdp_channels_close ==
  /\ mainStep = "closed"
  /\ plugin' = "freed" /\ mainStep' = "terminated"
  /\ channelsQueue' = Append(channelsQueue, Quit)
  /\ UNCHANGED <<leaving, allowed_write, openFlags, OpenHandle, data_in, threadVars, pluginQueue, observed>>

\* The application connects again with the same context: the plugin is loaded
\* anew, with the queue as it is.
freerdp_channels_client_load_ex ==
  /\ mainStep = "terminated"
  /\ plugin' = "allocated" /\ openFlags' = 1 /\ mainStep' = "loaded" /\ leaving' = FALSE
  /\ eventAfterFree' = (eventAfterFree \/ \E i \in 1..Len(channelsQueue) : channelsQueue[i] # Quit)
  /\ UNCHANGED <<allowed_write, OpenHandle, data_in, threadVars, pluginQueue, channelsQueue, refusedWrite>>

MainEnds ==
  \/ Drain("draining", "telling") \/ PluginQuits \/ PluginDisconnected
  \/ freerdp_channels_close_drains \/ freerdp_channels_close

----------------------------------------------------------------------------
(* The thread of the plugin.                                               *)

\* MessageQueue_Wait, MessageQueue_Peek
ThreadReads ==
  /\ pluginThread = "reading" /\ pluginQueue # <<>>
  /\ pluginQueue' = Tail(pluginQueue)
  /\ IF Head(pluginQueue) = Quit
     THEN pluginThread' = "ended" /\ handled' = None
     ELSE pluginThread' = "writing" /\ handled' = Head(pluginQueue)
  /\ UNCHANGED <<mainStep, leaving, allowed_write, pluginVars, channelsQueue, observed>>

\* drdynvc_order_recv answers: FreeRDP_VirtualChannelWriteEx.
ThreadWrites ==
  /\ pluginThread = "writing" /\ Len(channelsQueue) < MaxQueued
  /\ IF allowed_write /\ openFlags = 2
     THEN channelsQueue' = Append(channelsQueue, Write) /\ UNCHANGED refusedWrite
     ELSE refusedWrite' = TRUE /\ UNCHANGED channelsQueue
  /\ UNCHANGED <<mainStep, leaving, allowed_write, pluginVars, threadVars, pluginQueue, eventAfterFree>>

\* It is done with the stream; after an error the thread ends.
ThreadDone ==
  /\ pluginThread = "writing"
  /\ handled' = None /\ pluginThread' \in {"reading", "ended"}
  /\ UNCHANGED <<mainStep, leaving, allowed_write, pluginVars, pluginQueue, channelsQueue, observed>>

StaticNext ==
  \/ freerdp_channels_post_connect \/ freerdp_channels_data \/ freerdp_channels_check_fds
  \/ \E leave \in BOOLEAN : Disconnect(leave)
  \/ MainEnds
  \/ freerdp_channels_client_load_ex
  \/ ThreadReads \/ ThreadWrites \/ ThreadDone

StaticFairness ==
  /\ WF_staticVars(MainEnds)
  /\ WF_staticVars(ThreadReads) /\ WF_staticVars(ThreadDone)

StaticSpec == StaticInit /\ [][StaticNext]_staticVars /\ StaticFairness

----------------------------------------------------------------------------
(* Properties.                                                             *)

\* The thread of the plugin finds the channel open and connected whenever it
\* writes: the plugin waits for it before it closes the channel.
WritesAccepted == ~refusedWrite

\* No open event goes to a plugin that has been freed, nor to the one that is
\* loaded in its place: what the thread still wrote while the session ended is
\* taken from the queue before the plugin is terminated, also if a WMQ_QUIT of
\* the connection before was in front of it.
NoEventAfterFree == ~eventAfterFree

\* A stream has one owner: what the main thread writes to is neither in the
\* queue of the plugin nor with its thread.
OneOwnerOfStream ==
  /\ data_in # None =>
       data_in # handled /\ \A i \in 1..Len(pluginQueue) : pluginQueue[i] # data_in
  /\ handled # None => \A i \in 1..Len(pluginQueue) : pluginQueue[i] # handled

\* The end of a session comes to an end, although it waits for the plugin's
\* thread, which has messages to handle first.
DisconnectEnds ==
  mainStep = "draining" ~> mainStep \in {"disconnected", "terminated"}
=============================================================================
