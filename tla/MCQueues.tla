------------------------------ MODULE MCQueues -----------------------------
(***************************************************************************)
(* What carries data between threads and to the socket, side by side, for  *)
(* model checking: the message queue, the object queue, the output buffer  *)
(* of a transport and the streams of the send path.  They do not share     *)
(* state: focus says which of them a behaviour is about.                   *)
(***************************************************************************)
EXTENDS MessageQueue, Queue, BufferedSocket, SendPath

VARIABLE focus

queuesVars == <<vars, queueVars, socketVars, pathVars, focus>>

QueuesInit ==
  /\ Init /\ QueueInit /\ SocketInit /\ PathInit
  /\ focus \in {"messages", "objects", "socket", "path"}

MessagesPart == focus = "messages" /\ UNCHANGED <<queueVars, socketVars, pathVars, focus>>
ObjectsPart  == focus = "objects" /\ UNCHANGED <<vars, socketVars, pathVars, focus>>
SocketPart   == focus = "socket" /\ UNCHANGED <<vars, queueVars, pathVars, focus>>
PathPart     == focus = "path" /\ UNCHANGED <<vars, queueVars, socketVars, focus>>

QueuesNext ==
  \/ MessagesPart /\ Next
  \/ ObjectsPart /\ QueueNext
  \/ SocketPart /\ SocketNext
  \/ PathPart /\ PathNext

\* A consumer is at one of these steps at a time.
ConsumerRuns(c) == MessageQueue_Wait(c) \/ MessageQueue_Get(c) \/ MessageQueue_Peek(c)

\* The fairness of MessageQueue and BufferedSocket, in the part that is looked at.
QueuesFairness ==
  /\ \A c \in Consumers : WF_queuesVars(MessagesPart /\ ConsumerRuns(c))
  /\ WF_queuesVars(SocketPart /\ FlushStep)
  /\ WF_queuesVars(SocketPart /\ PeerReads)
  /\ WF_queuesVars(SocketPart /\ WriteFails)

QueuesSpec == QueuesInit /\ [][QueuesNext]_queuesVars /\ QueuesFairness
=============================================================================
