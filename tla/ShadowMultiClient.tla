------------------------- MODULE ShadowMultiClient -------------------------
(***************************************************************************)
(* The update event of the shadow server (server/shadow/shadow_mcevent.c). *)
(* The subsystem thread publishes a frame and waits until every client     *)
(* thread has sent it; a client that is done early waits for the others.   *)
(* Clients join and leave at any time.  What runs under event->lock is one *)
(* step; a wait for one of the three manual-reset events, outside the      *)
(* lock, ends in a step of its own.  eventid, a number for the log, is     *)
(* left out.                                                               *)
(***************************************************************************)
EXTENDS Integers, FiniteSets

CONSTANT Clients  \* client threads

ASSUME ClientsAssumption == IsFiniteSet(Clients)

VARIABLES
  event,      \* event->event is set: there is a frame to send
  barrier,    \* event->barrierEvent is set: clients at the barrier may go on
  done,       \* event->doneEvent is set: the server may go on
  consuming,  \* event->consuming: shares that are out
  waiting,    \* event->waiting: clients at the barrier
  please,     \* please[c]: pleaseHandle of the subscriber of c
  pc,         \* "gone" (not subscribed), "idle" (in its loop), "sending" (has
              \* seen the event), "barrier" (waits), "released" (wait returned)
  server      \* "idle", "waiting" (for doneEvent), "awake" (wait returned)

vars == <<event, barrier, done, consuming, waiting, please, pc, server>>

subscribers == {c \in Clients : pc[c] # "gone"}

Init ==   \* shadow_multiclient_new
  /\ event = FALSE /\ barrier = FALSE /\ done = TRUE
  /\ consuming = 0 /\ waiting = 0
  /\ please = [c \in Clients |-> FALSE]
  /\ pc = [c \in Clients |-> "gone"]
  /\ server = "idle"

\* The assertion on consuming is in AssertionsHold.
_Publish ==
  /\ please' = [c \in Clients |-> (c \in subscribers) \/ please[c]]
  /\ consuming' = consuming + Cardinality(subscribers)
  /\ IF consuming' > 0 THEN event' = TRUE /\ done' = FALSE ELSE UNCHANGED <<event, done>>
  /\ UNCHANGED <<barrier, waiting, pc>>

\* Up to the wait in _WaitForSubscribers, which is skipped when no share is out.
shadow_multiclient_publish_and_wait ==
  /\ server = "idle"
  /\ _Publish
  /\ server' = IF consuming' > 0 THEN "waiting" ELSE "idle"

DoneReturns ==
  /\ server = "waiting" /\ done
  /\ server' = "awake"
  /\ UNCHANGED <<event, barrier, done, consuming, waiting, please, pc>>

ServerContinues ==
  /\ server = "awake"
  /\ server' = "idle"
  /\ UNCHANGED <<event, barrier, done, consuming, waiting, please, pc>>

\* Mutated form of LastShare: the server is told although clients are still at
\* the barrier.
LastShareEarly == event' = FALSE /\ barrier' = (waiting > 0 \/ barrier) /\ done' = TRUE

\* The event is reset before anyone goes on; the server is told by the last
\* client that leaves the barrier, or now when none is there.
LastShare ==
  /\ event' = FALSE
  /\ IF waiting > 0 THEN barrier' = TRUE /\ UNCHANGED done
                    ELSE done' = TRUE /\ UNCHANGED barrier

\* _Consume up to its wait; next is where the client is when it does not wait.
_Consume(c, asked, wait, next) ==
  /\ consuming' = IF event /\ asked THEN consuming - 1 ELSE consuming
  /\ IF consuming' = 0
     THEN LastShare /\ UNCHANGED waiting
     ELSE UNCHANGED <<event, barrier, done>> /\ waiting' = IF wait THEN waiting + 1 ELSE waiting
  /\ pc' = [pc EXCEPT ![c] = IF consuming' # 0 /\ wait THEN "barrier" ELSE next]
  /\ UNCHANGED server

\* Mutated form of shadow_multiclient_get_subscriber: the new client does not
\* wait for the round to end.
shadow_multiclient_get_subscriber_now(c) ==
  /\ pc[c] = "gone"
  /\ _Consume(c, FALSE, FALSE, "idle")
  /\ please' = [please EXCEPT ![c] = FALSE]

\* When calloc and ArrayList_Add succeed; otherwise nothing changes.
shadow_multiclient_get_subscriber(c) ==
  /\ pc[c] = "gone"
  /\ _Consume(c, FALSE, TRUE, "idle")
  /\ please' = [please EXCEPT ![c] = FALSE]

\* The client thread finds UpdateEvent set and sends the frame.
SeesUpdate(c) ==
  /\ pc[c] = "idle" /\ event
  /\ pc' = [pc EXCEPT ![c] = "sending"]
  /\ UNCHANGED <<event, barrier, done, consuming, waiting, please, server>>

shadow_multiclient_consume(c) ==
  /\ pc[c] = "sending"
  /\ _Consume(c, please[c], TRUE, "idle")
  /\ UNCHANGED please

\* From the loop, or when sending failed.
shadow_multiclient_release_subscriber(c) ==
  /\ pc[c] \in {"idle", "sending"}
  /\ _Consume(c, please[c], FALSE, "gone")
  /\ UNCHANGED please

BarrierReturns(c) ==
  /\ pc[c] = "barrier" /\ barrier
  /\ pc' = [pc EXCEPT ![c] = "released"]
  /\ UNCHANGED <<event, barrier, done, consuming, waiting, please, server>>

\* Mutated form of ClientContinues: the first client closes the barrier.
ClientContinuesFirst(c) ==
  /\ pc[c] = "released"
  /\ waiting' = waiting - 1
  /\ barrier' = FALSE /\ done' = (waiting' = 0 \/ done)
  /\ pc' = [pc EXCEPT ![c] = "idle"]
  /\ UNCHANGED <<event, consuming, please, server>>

\* The end of _Consume, with the lock again: the last client closes the barrier.
ClientContinues(c) ==
  /\ pc[c] = "released"
  /\ waiting' = waiting - 1
  /\ IF waiting' = 0 THEN barrier' = FALSE /\ done' = TRUE ELSE UNCHANGED <<barrier, done>>
  /\ pc' = [pc EXCEPT ![c] = "idle"]
  /\ UNCHANGED <<event, consuming, please, server>>

Client(c) ==
  \/ shadow_multiclient_get_subscriber(c) \/ shadow_multiclient_release_subscriber(c)
  \/ SeesUpdate(c) \/ shadow_multiclient_consume(c)
  \/ BarrierReturns(c) \/ ClientContinues(c)

Next ==
  \/ shadow_multiclient_publish_and_wait \/ DoneReturns \/ ServerContinues
  \/ \E c \in Clients : Client(c)

Spec == Init /\ [][Next]_vars

\* Threads are scheduled, and a client does not send for ever: it succeeds, or
\* fails and releases its subscriber.  Nobody has to publish, join or leave.
Sends(c) ==
  /\ pc[c] = "sending"
  /\ shadow_multiclient_consume(c) \/ shadow_multiclient_release_subscriber(c)

Fairness ==
  /\ WF_vars(DoneReturns) /\ WF_vars(ServerContinues)
  /\ \A c \in Clients :
       /\ WF_vars(SeesUpdate(c)) /\ WF_vars(Sends(c))
       /\ WF_vars(BarrierReturns(c)) /\ WF_vars(ClientContinues(c))

FairSpec == Spec /\ Fairness

----------------------------------------------------------------------------
(* Properties.                                                             *)

\* Types of the variables.
TypeOK ==
  /\ event \in BOOLEAN /\ barrier \in BOOLEAN /\ done \in BOOLEAN
  /\ consuming \in Nat /\ waiting \in Nat
  /\ please \in [Clients -> BOOLEAN]
  /\ pc \in [Clients -> {"gone", "idle", "sending", "barrier", "released"}]
  /\ server \in {"idle", "waiting", "awake"}

AtBarrier == {c \in Clients : pc[c] \in {"barrier", "released"}}

\* Clients asked to handle the frame that have not done so.
Owing == IF event THEN {c \in Clients : pc[c] \in {"idle", "sending"} /\ please[c]} ELSE {}

\* The two counters count what they are for, although pleaseHandle is never
\* cleared and clients join and leave in the middle of a round (event->consuming,
\* event->waiting).
CountersExact == consuming = Cardinality(Owing) /\ waiting = Cardinality(AtBarrier)

\* The assertions of _Publish, _WaitForSubscribers and _Consume.
AssertionsHold ==
  /\ server = "idle" => consuming = 0
  /\ server \in {"idle", "awake"} => ~event
  /\ consuming >= 0

\* "It should ensure that the screen and primary surface meta data is not changed
\* until it is reset": while a client sends or still owes a frame, the server is
\* waiting, and it has not been told to go on.
FrameKept ==
  (Owing # {} \/ \E c \in Clients : pc[c] = "sending") => server = "waiting" /\ ~done

\* "All clients should wait others before continue": a client leaves the barrier
\* only when no share is out, and the next round starts with the barrier closed
\* and nobody behind.
ClientsWaitForOthers ==
  /\ (\E c \in Clients : pc[c] = "released") => consuming = 0 /\ barrier
  /\ server = "idle" => ~barrier /\ AtBarrier = {}

Rounds == INSTANCE FrameRounds
  WITH members <- subscribers, owing <- Owing, busy <- server # "idle"

\* Each client handles each frame once, and the server goes on exactly when all
\* have (shadow_multiclient_publish_and_wait).
ImplementsRounds == Rounds!Spec

\* The server does not wait for ever, whoever joins and leaves.
ServerGoesOn == server = "waiting" ~> server = "idle"

=============================================================================
