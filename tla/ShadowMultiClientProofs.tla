---------------------- MODULE ShadowMultiClientProofs ----------------------
(***************************************************************************)
(* The update event of the shadow server keeps its promises for every      *)
(* number of clients.                                                      *)
(***************************************************************************)
EXTENDS ShadowMultiClient, FiniteSetTheorems, TLAPS

\* How the three events, the places of the clients and the server go together.
Shape ==
  /\ event => Owing # {} /\ \A c \in Clients : pc[c] \in {"idle", "sending"} => please[c]
  /\ event \/ AtBarrier # {} => server = "waiting" /\ ~done
  /\ barrier => ~event /\ AtBarrier # {}
  /\ \A c \in Clients : (pc[c] = "released" => barrier) /\ (pc[c] = "sending" => event)

\* The inductive invariant.
IInv == TypeOK /\ CountersExact /\ Shape

\* A counter that counts a set of clients.
LEMMA Counting ==
  ASSUME NEW S, S \subseteq Clients
  PROVE  /\ IsFiniteSet(S) /\ Cardinality(S) \in Nat
         /\ (Cardinality(S) = 0) <=> (S = {})
         /\ \A c \in S : Cardinality(S \ {c}) = Cardinality(S) - 1
         /\ \A c \in Clients \ S : Cardinality(S \cup {c}) = Cardinality(S) + 1
<1>1. IsFiniteSet(S)
  BY ClientsAssumption, FS_Subset
<1>2. Cardinality(S) \in Nat /\ ((Cardinality(S) = 0) <=> (S = {}))
  BY <1>1, FS_CardinalityType, FS_EmptySet
<1>3. \A c \in S : Cardinality(S \ {c}) = Cardinality(S) - 1
  BY <1>1, FS_RemoveElement
<1>4. \A c \in Clients \ S : Cardinality(S \cup {c}) = Cardinality(S) + 1
  BY <1>1, FS_AddElement
<1> QED
  BY <1>1, <1>2, <1>3, <1>4

\* The two counters of the event under the invariant.
LEMMA Counters ==
  ASSUME IInv
  PROVE  /\ Owing \subseteq Clients /\ AtBarrier \subseteq Clients
         /\ consuming \in Nat /\ waiting \in Nat
         /\ consuming = Cardinality(Owing) /\ waiting = Cardinality(AtBarrier)
         /\ (consuming = 0) <=> (Owing = {})
         /\ (waiting = 0) <=> (AtBarrier = {})
         /\ event <=> Owing # {}
<1>1. Owing \subseteq Clients /\ AtBarrier \subseteq Clients
  BY DEF Owing, AtBarrier
<1>2. consuming = Cardinality(Owing) /\ waiting = Cardinality(AtBarrier)
  BY DEF IInv, CountersExact
<1>3. event <=> Owing # {}
  BY DEF IInv, TypeOK, Shape, Owing
<1> QED
  BY <1>1, <1>2, <1>3, Counting

\* Publishing starts a round: every subscriber owes the frame.
LEMMA PublishStep ==
  ASSUME IInv, shadow_multiclient_publish_and_wait
  PROVE  IInv' /\ Rounds!Publish
<1>1. server = "idle" /\ _Publish /\ UNCHANGED <<barrier, waiting, pc>>
  BY DEF shadow_multiclient_publish_and_wait, _Publish
<1>2. ~event /\ AtBarrier = {} /\ ~barrier
  BY <1>1 DEF IInv, Shape
<1>3. Owing = {} /\ consuming = 0 /\ waiting = 0
  BY <1>2, Counters
<1>4. AtBarrier' = {} /\ subscribers' = subscribers
  BY <1>1, <1>2 DEF AtBarrier, subscribers
<1>5. /\ subscribers \subseteq Clients
      /\ \A c \in subscribers : pc[c] = "idle"
      /\ subscribers = {c \in Clients : pc[c] \in {"idle", "sending"}}
  BY <1>2 DEF IInv, TypeOK, Shape, subscribers, AtBarrier
<1>6. please' = [c \in Clients |-> (c \in subscribers) \/ please[c]]
  BY <1>1 DEF _Publish
<1>7. consuming' = Cardinality(subscribers) /\ consuming' \in Nat
  BY <1>1, <1>3, <1>5, Counting DEF _Publish
<1>8. please' \in [Clients -> BOOLEAN]
  BY <1>6 DEF IInv, TypeOK
<1>9. CASE subscribers = {}
  <2>1. consuming' = 0 /\ ~(consuming' > 0)
    BY <1>5, <1>7, <1>9, Counting
  <2>2. UNCHANGED <<event, done, server>>
    BY <1>1, <2>1 DEF _Publish, shadow_multiclient_publish_and_wait
  <2>3. Owing' = {}
    BY <1>2, <2>2 DEF Owing
  <2>4. TypeOK'
    BY <1>1, <1>7, <1>8, <2>2 DEF IInv, TypeOK
  <2>5. CountersExact'
    BY <1>1, <1>3, <1>4, <2>1, <2>3, Counting DEF CountersExact
  <2>6. Shape'
    BY <1>1, <1>2, <1>4, <2>2 DEF IInv, Shape
  <2> QED
    BY <1>1, <1>3, <1>4, <1>9, <2>2, <2>3, <2>4, <2>5, <2>6 DEF IInv, Rounds!Publish
<1>10. CASE subscribers # {}
  <2>0. consuming' # 0
    BY <1>5, <1>7, <1>10, Counting
  <2>1. consuming' > 0
    BY <1>7, <2>0
  <2>2. event' = TRUE /\ done' = FALSE /\ server' = "waiting"
    BY <1>1, <2>1 DEF _Publish, shadow_multiclient_publish_and_wait
  <2>3. Owing' = subscribers
    BY Zenon, <1>1, <1>5, <1>6, <2>2 DEF Owing
  <2>4. TypeOK'
    BY Zenon, <1>1, <1>7, <1>8, <2>2 DEF IInv, TypeOK
  <2>5. CountersExact'
    BY <1>1, <1>3, <1>4, <1>7, <2>3, Counting DEF CountersExact
  <2>6. \A c \in Clients : pc'[c] \in {"idle", "sending"} => please'[c]
    BY Zenon, <1>1, <1>5, <1>6
  <2>7. \A c \in Clients : (pc'[c] = "released" => barrier') /\ (pc'[c] = "sending" => event')
    BY <1>1, <2>2 DEF IInv, Shape
  <2>8. Shape'
    BY <1>1, <1>2, <1>4, <1>10, <2>2, <2>3, <2>6, <2>7 DEF Shape
  <2> QED
    BY <1>1, <1>4, <1>10, <2>2, <2>3, <2>4, <2>5, <2>8 DEF IInv, Rounds!Publish
<1> QED
  BY <1>9, <1>10

\* The server goes on: its wait returns only when nobody owes the frame and
\* nobody is at the barrier.
LEMMA ServerStep ==
  ASSUME IInv, DoneReturns \/ ServerContinues
  PROVE  IInv' /\ (Rounds!Finish \/ UNCHANGED Rounds!vars)
<1>1. UNCHANGED <<event, barrier, done, consuming, waiting, please, pc>>
  BY DEF DoneReturns, ServerContinues
<1>2. Owing' = Owing /\ AtBarrier' = AtBarrier /\ subscribers' = subscribers
  BY <1>1 DEF Owing, AtBarrier, subscribers
<1>3. ~event /\ AtBarrier = {}
  BY DEF IInv, Shape, DoneReturns, ServerContinues
<1>4. server' \in {"idle", "waiting", "awake"} /\ server # "idle"
  BY DEF DoneReturns, ServerContinues
<1>5. TypeOK' /\ CountersExact'
  BY <1>1, <1>2, <1>4 DEF IInv, TypeOK, CountersExact
<1>6. Shape'
  BY <1>1, <1>2, <1>3 DEF IInv, Shape
<1>7. Owing = {}
  BY <1>3 DEF Owing
<1>8. CASE DoneReturns
  <2>1. (server' # "idle") = (server # "idle")
    BY <1>8 DEF DoneReturns
  <2> QED
    BY <1>2, <1>5, <1>6, <2>1 DEF IInv, Rounds!vars
<1>9. CASE ServerContinues
  <2>1. server' = "idle"
    BY <1>9 DEF ServerContinues
  <2> QED
    BY <1>2, <1>4, <1>5, <1>6, <1>7, <2>1 DEF IInv, Rounds!Finish
<1> QED
  BY <1>8, <1>9

\* The last share: the event is reset, and the server is told unless a client at
\* the barrier will do so.
LEMMA LastShareStep ==
  ASSUME IInv, LastShare, UNCHANGED <<waiting, server>>, AtBarrier' = AtBarrier,
         \A c \in Clients : pc'[c] = "released" => pc[c] = "released",
         \A c \in Clients : pc'[c] # "sending"
  PROVE  /\ Shape' /\ Owing' = {} /\ event' = FALSE
         /\ barrier' \in BOOLEAN /\ done' \in BOOLEAN
<1>1. event' = FALSE /\ Owing' = {}
  BY DEF LastShare, Owing
<1>2. CASE waiting > 0
  <2>1. AtBarrier # {} /\ barrier' = TRUE /\ done' = done
    BY <1>2, Counters DEF LastShare
  <2>2. server = "waiting" /\ ~done
    BY <2>1 DEF IInv, Shape
  <2> QED
    BY <1>1, <2>1, <2>2 DEF IInv, TypeOK, Shape
<1>3. CASE ~(waiting > 0)
  <2>1. AtBarrier = {} /\ barrier' = barrier /\ done' = TRUE
    BY <1>3, Counters DEF LastShare
  <2>2. ~barrier
    BY <2>1 DEF IInv, Shape
  <2>3. \A c \in Clients : pc[c] # "released"
    BY <2>2 DEF IInv, Shape
  <2> QED
    BY <1>1, <2>1, <2>2, <2>3 DEF IInv, TypeOK, Shape
<1> QED
  BY Zenon, <1>2, <1>3

\* A client gives its share back after sending the frame, and waits at the
\* barrier while others still send.
LEMMA ConsumeStep ==
  ASSUME IInv, NEW c \in Clients, shadow_multiclient_consume(c)
  PROVE  IInv' /\ Rounds!Handle(c)
<1>1. pc[c] = "sending" /\ _Consume(c, please[c], TRUE, "idle") /\ UNCHANGED <<please, server>>
  BY DEF shadow_multiclient_consume, _Consume
<1>2. event /\ please[c] /\ c \in Owing /\ c \notin AtBarrier
  BY <1>1 DEF IInv, Shape, Owing, AtBarrier
<1>3. consuming' = consuming - 1
  BY <1>1, <1>2 DEF _Consume
<1>4. consuming' = Cardinality(Owing \ {c}) /\ consuming' \in Nat
  BY <1>2, <1>3, Counters, Counting
<1>5. pc \in [Clients -> {"gone", "idle", "sending", "barrier", "released"}]
  BY DEF IInv, TypeOK
<1>6. CASE consuming' = 0
  <2>1. LastShare /\ UNCHANGED waiting /\ pc' = [pc EXCEPT ![c] = "idle"]
    BY Zenon, <1>1, <1>6 DEF _Consume
  <2>2. Owing \ {c} = {}
    BY Zenon, <1>4, <1>6, Counters, Counting
  <2>3. AtBarrier' = AtBarrier /\ subscribers' = subscribers
    BY <1>1, <1>5, <2>1 DEF AtBarrier, subscribers
  <2>4. \A d \in Clients : pc[d] = "sending" => d \in Owing
    BY <1>2 DEF IInv, Shape, Owing
  <2>5. /\ \A d \in Clients : pc'[d] = "released" => pc[d] = "released"
        /\ \A d \in Clients : pc'[d] # "sending"
    BY <1>5, <2>1, <2>2, <2>4
  <2>6. /\ Shape' /\ Owing' = {} /\ event' = FALSE
        /\ barrier' \in BOOLEAN /\ done' \in BOOLEAN
    BY Zenon, <1>1, <2>1, <2>3, <2>5, LastShareStep
  <2>7. CountersExact'
    BY <1>6, <2>1, <2>3, <2>6, Counters, Counting DEF CountersExact
  <2>8. TypeOK'
    BY Zenon, <1>1, <1>4, <1>5, <2>1, <2>6 DEF IInv, TypeOK
  <2> QED
    BY <1>1, <1>2, <2>2, <2>3, <2>6, <2>7, <2>8 DEF IInv, Rounds!Handle
<1>7. CASE consuming' # 0
  <2>1. /\ UNCHANGED <<event, barrier, done>> /\ waiting' = waiting + 1
        /\ pc' = [pc EXCEPT ![c] = "barrier"]
    BY <1>1, <1>7 DEF _Consume
  <2>2. Owing' = Owing \ {c} /\ AtBarrier' = AtBarrier \cup {c} /\ subscribers' = subscribers
    BY <1>1, <1>2, <1>5, <2>1 DEF Owing, AtBarrier, subscribers
  <2>3. waiting' = Cardinality(AtBarrier') /\ waiting' \in Nat
    BY <1>2, <2>1, <2>2, Counters, Counting
  <2>4. CountersExact'
    BY <1>4, <2>2, <2>3 DEF CountersExact
  <2>5. Owing' # {}
    BY <1>4, <1>7, <2>2, Counters, Counting
  <2>6. TypeOK'
    BY <1>1, <1>4, <1>5, <2>1, <2>3 DEF IInv, TypeOK
  <2>7. Shape'
    BY <1>1, <1>2, <1>5, <2>1, <2>5 DEF IInv, Shape
  <2> QED
    BY <1>1, <1>2, <2>2, <2>4, <2>6, <2>7 DEF IInv, Rounds!Handle
<1> QED
  BY <1>6, <1>7

\* A client that leaves gives back the share it owes.
LEMMA ReleaseStep ==
  ASSUME IInv, NEW c \in Clients, shadow_multiclient_release_subscriber(c)
  PROVE  IInv' /\ Rounds!Leave(c)
<1>1. /\ pc[c] \in {"idle", "sending"} /\ _Consume(c, please[c], FALSE, "gone")
      /\ UNCHANGED <<please, server>>
  BY DEF shadow_multiclient_release_subscriber, _Consume
<1>2. pc \in [Clients -> {"gone", "idle", "sending", "barrier", "released"}]
  BY DEF IInv, TypeOK
<1>3. pc' = [pc EXCEPT ![c] = "gone"]
  BY <1>1 DEF _Consume
<1>4. /\ AtBarrier' = AtBarrier /\ c \in subscribers
      /\ subscribers' = subscribers \ {c}
  BY <1>1, <1>2, <1>3 DEF AtBarrier, subscribers
<1>5. consuming' = Cardinality(Owing \ {c}) /\ consuming' \in Nat
  <2>1. CASE event
    <3>1. please[c] /\ c \in Owing
      BY <1>1, <2>1 DEF IInv, Shape, Owing
    <3>2. consuming' = consuming - 1
      BY <1>1, <2>1, <3>1 DEF _Consume
    <3> QED
      BY <3>1, <3>2, Counters, Counting
  <2>2. CASE ~event
    <3>1. consuming' = consuming /\ Owing = {}
      BY <1>1, <2>2 DEF _Consume, Owing
    <3>2. Owing \ {c} = Owing
      BY <3>1
    <3> QED
      BY <3>1, <3>2, Counters
  <2> QED
    BY <2>1, <2>2
<1>6. CASE consuming' = 0
  <2>1. LastShare /\ UNCHANGED waiting
    BY <1>1, <1>6 DEF _Consume
  <2>2. Owing \ {c} = {}
    BY Zenon, <1>5, <1>6, Counters, Counting
  <2>3. \A d \in Clients : pc[d] = "sending" => d \in Owing
    BY DEF IInv, Shape, Owing
  <2>4. /\ \A d \in Clients : pc'[d] = "released" => pc[d] = "released"
        /\ \A d \in Clients : pc'[d] # "sending"
    BY <1>2, <1>3, <2>2, <2>3
  <2>5. /\ Shape' /\ Owing' = {} /\ event' = FALSE
        /\ barrier' \in BOOLEAN /\ done' \in BOOLEAN
    BY Zenon, <1>1, <1>4, <2>1, <2>4, LastShareStep
  <2>6. CountersExact'
    BY <1>4, <1>6, <2>1, <2>5, Counters, Counting DEF CountersExact
  <2>7. TypeOK'
    BY Zenon, <1>1, <1>2, <1>3, <1>5, <2>1, <2>5 DEF IInv, TypeOK
  <2> QED
    BY <1>1, <1>4, <2>2, <2>5, <2>6, <2>7 DEF IInv, Rounds!Leave
<1>7. CASE consuming' # 0
  <2>1. UNCHANGED <<event, barrier, done, waiting>>
    BY <1>1, <1>7 DEF _Consume
  <2>2. Owing' = Owing \ {c}
    BY <1>1, <1>2, <1>3, <2>1 DEF Owing
  <2>3. CountersExact'
    BY <1>4, <1>5, <2>1, <2>2, Counters DEF CountersExact
  <2>4. Owing' # {}
    BY <1>5, <1>7, <2>2, Counters, Counting
  <2>5. TypeOK'
    BY <1>1, <1>2, <1>3, <1>5, <2>1 DEF IInv, TypeOK
  <2>6. Shape'
    BY <1>1, <1>2, <1>3, <1>4, <2>1, <2>4 DEF IInv, Shape
  <2> QED
    BY <1>1, <1>4, <2>2, <2>3, <2>5, <2>6 DEF IInv, Rounds!Leave
<1> QED
  BY <1>6, <1>7

\* A client that joins in the middle of a round waits for its end at the barrier.
LEMMA JoinStep ==
  ASSUME IInv, NEW c \in Clients, shadow_multiclient_get_subscriber(c)
  PROVE  IInv' /\ Rounds!Join(c)
<1>1. /\ pc[c] = "gone" /\ _Consume(c, FALSE, TRUE, "idle")
      /\ please' = [please EXCEPT ![c] = FALSE] /\ UNCHANGED server
  BY DEF shadow_multiclient_get_subscriber, _Consume
<1>2. /\ pc \in [Clients -> {"gone", "idle", "sending", "barrier", "released"}]
      /\ please \in [Clients -> BOOLEAN]
  BY DEF IInv, TypeOK
<1>3. consuming' = consuming /\ please' \in [Clients -> BOOLEAN]
  BY <1>1, <1>2 DEF _Consume
<1>4. c \notin Owing /\ c \notin AtBarrier /\ c \notin subscribers
  BY <1>1 DEF Owing, AtBarrier, subscribers
<1>5. CASE consuming = 0
  <2>1. LastShare /\ UNCHANGED waiting /\ pc' = [pc EXCEPT ![c] = "idle"]
    BY <1>1, <1>3, <1>5 DEF _Consume
  <2>2. Owing = {} /\ ~event
    BY <1>5, Counters
  <2>3. AtBarrier' = AtBarrier /\ subscribers' = subscribers \cup {c}
    BY <1>1, <1>2, <2>1 DEF AtBarrier, subscribers
  <2>4. /\ \A d \in Clients : pc'[d] = "released" => pc[d] = "released"
        /\ \A d \in Clients : pc'[d] # "sending"
    BY <1>2, <2>1, <2>2 DEF IInv, Shape
  <2>5. /\ Shape' /\ Owing' = {} /\ event' = FALSE
        /\ barrier' \in BOOLEAN /\ done' \in BOOLEAN
    BY Zenon, <1>1, <2>1, <2>3, <2>4, LastShareStep
  <2>6. CountersExact'
    BY <1>3, <1>5, <2>1, <2>3, <2>5, Counters, Counting DEF CountersExact
  <2>7. TypeOK'
    BY Zenon, <1>1, <1>2, <1>3, <2>1, <2>5 DEF IInv, TypeOK
  <2> QED
    BY <1>1, <1>4, <2>2, <2>3, <2>5, <2>6, <2>7 DEF IInv, Rounds!Join
<1>6. CASE consuming # 0
  <2>1. /\ UNCHANGED <<event, barrier, done>> /\ waiting' = waiting + 1
        /\ pc' = [pc EXCEPT ![c] = "barrier"]
    BY <1>1, <1>3, <1>6 DEF _Consume
  <2>2. event /\ Owing # {}
    BY <1>6, Counters
  <2>3. /\ Owing' = Owing /\ AtBarrier' = AtBarrier \cup {c}
        /\ subscribers' = subscribers \cup {c}
    BY <1>1, <1>2, <2>1 DEF Owing, AtBarrier, subscribers
  <2>4. waiting' = Cardinality(AtBarrier') /\ waiting' \in Nat
    BY <1>4, <2>1, <2>3, Counters, Counting
  <2>5. CountersExact'
    BY <1>3, <2>3, <2>4, Counters DEF CountersExact
  <2>6. TypeOK'
    BY <1>1, <1>2, <1>3, <2>1, <2>4 DEF IInv, TypeOK
  <2>7. Shape'
    BY <1>1, <1>2, <2>1, <2>2, <2>3 DEF IInv, Shape
  <2> QED
    BY <1>1, <1>4, <2>3, <2>5, <2>6, <2>7 DEF IInv, Rounds!Join
<1> QED
  BY <1>5, <1>6

\* A client sees the event, or its wait at the barrier returns: no share moves.
LEMMA WakeStep ==
  ASSUME IInv, NEW c \in Clients, SeesUpdate(c) \/ BarrierReturns(c)
  PROVE  IInv' /\ UNCHANGED Rounds!vars
<1>1. UNCHANGED <<event, barrier, done, consuming, waiting, please, server>>
  BY DEF SeesUpdate, BarrierReturns
<1>2. \/ pc[c] = "idle" /\ event /\ pc' = [pc EXCEPT ![c] = "sending"]
      \/ pc[c] = "barrier" /\ barrier /\ pc' = [pc EXCEPT ![c] = "released"]
  BY DEF SeesUpdate, BarrierReturns
<1>3. pc \in [Clients -> {"gone", "idle", "sending", "barrier", "released"}]
  BY DEF IInv, TypeOK
<1>4. Owing' = Owing /\ AtBarrier' = AtBarrier /\ subscribers' = subscribers
  BY <1>1, <1>2, <1>3 DEF Owing, AtBarrier, subscribers
<1>5. TypeOK' /\ CountersExact'
  BY <1>1, <1>2, <1>3, <1>4 DEF IInv, TypeOK, CountersExact
<1>6. Shape'
  BY <1>1, <1>2, <1>3, <1>4 DEF IInv, Shape
<1> QED
  BY <1>1, <1>4, <1>5, <1>6 DEF IInv, Rounds!vars

\* A client leaves the barrier; the last one closes it and tells the server.
LEMMA ContinueStep ==
  ASSUME IInv, NEW c \in Clients, ClientContinues(c)
  PROVE  IInv' /\ UNCHANGED Rounds!vars
<1>1. /\ pc[c] = "released" /\ waiting' = waiting - 1 /\ pc' = [pc EXCEPT ![c] = "idle"]
      /\ UNCHANGED <<event, consuming, please, server>>
  BY DEF ClientContinues
<1>2. pc \in [Clients -> {"gone", "idle", "sending", "barrier", "released"}]
  BY DEF IInv, TypeOK
<1>3. barrier /\ ~event /\ c \in AtBarrier /\ server = "waiting" /\ ~done
  BY <1>1 DEF IInv, Shape, AtBarrier
<1>4. /\ Owing' = Owing /\ AtBarrier' = AtBarrier \ {c} /\ subscribers' = subscribers
  BY <1>1, <1>2, <1>3 DEF Owing, AtBarrier, subscribers
<1>5. waiting' = Cardinality(AtBarrier') /\ waiting' \in Nat
  BY <1>1, <1>3, <1>4, Counters, Counting
<1>6. CountersExact'
  BY <1>1, <1>4, <1>5, Counters DEF CountersExact
<1>7. TypeOK' /\ Shape'
  <2>1. CASE waiting' = 0
    <3>1. barrier' = FALSE /\ done' = TRUE
      BY Zenon, <2>1 DEF ClientContinues
    <3>2. AtBarrier' = {}
      BY Zenon, <1>4, <1>5, <2>1, Counters, Counting
    <3>3. \A d \in Clients : pc'[d] # "released" /\ pc'[d] # "sending"
      BY <1>1, <1>2, <1>3, <3>2 DEF IInv, Shape, AtBarrier
    <3>4. TypeOK'
      BY Zenon, <1>1, <1>2, <1>5, <3>1 DEF IInv, TypeOK
    <3> QED
      BY <1>1, <1>3, <3>1, <3>2, <3>3, <3>4 DEF Shape
  <2>2. CASE waiting' # 0
    <3>1. UNCHANGED <<barrier, done>>
      BY <2>2 DEF ClientContinues
    <3>2. AtBarrier' # {}
      BY <1>4, <1>5, <2>2, Counters, Counting
    <3>3. TypeOK'
      BY <1>1, <1>2, <1>5, <3>1 DEF IInv, TypeOK
    <3> QED
      BY <1>1, <1>2, <1>3, <3>1, <3>2, <3>3 DEF IInv, Shape
  <2> QED
    BY <2>1, <2>2
<1> QED
  BY <1>1, <1>4, <1>6, <1>7 DEF IInv, Rounds!vars

\* Every step keeps the invariant and is a step of FrameRounds.
LEMMA EveryStep ==
  ASSUME IInv, [Next]_vars
  PROVE  IInv' /\ [Rounds!Next]_(Rounds!vars)
<1>1. CASE shadow_multiclient_publish_and_wait
  BY <1>1, PublishStep DEF Rounds!Next
<1>2. CASE DoneReturns \/ ServerContinues
  BY <1>2, ServerStep DEF Rounds!Next
<1>3. ASSUME NEW c \in Clients, Client(c)
      PROVE  IInv' /\ [Rounds!Next]_(Rounds!vars)
  BY <1>3, ConsumeStep, ReleaseStep, JoinStep, WakeStep, ContinueStep DEF Client, Rounds!Next
<1>4. CASE UNCHANGED vars
  <2>1. Owing' = Owing /\ AtBarrier' = AtBarrier /\ subscribers' = subscribers
    BY <1>4 DEF vars, Owing, AtBarrier, subscribers
  <2> QED
    BY <1>4, <2>1 DEF vars, IInv, TypeOK, CountersExact, Shape, Rounds!vars
<1> QED
  BY <1>1, <1>2, <1>3, <1>4 DEF Next

\* A new event has no subscriber.
LEMMA InitStep == Init => IInv /\ Rounds!Init
<1> SUFFICES ASSUME Init PROVE IInv /\ Rounds!Init
  OBVIOUS
<1>1. Owing = {} /\ AtBarrier = {} /\ subscribers = {}
  BY DEF Init, Owing, AtBarrier, subscribers
<1>2. CountersExact
  BY <1>1, FS_EmptySet DEF Init, CountersExact
<1> QED
  BY Zenon, <1>1, <1>2 DEF Init, IInv, TypeOK, Shape, Rounds!Init

\* The counters, the three events and the places of the threads agree at every
\* moment.
THEOREM Invariant == Spec => []IInv
BY InitStep, EveryStep, PTL DEF Spec

\* Neither counter goes below zero.
THEOREM TypeCorrect == Spec => []TypeOK
BY Invariant, PTL DEF IInv

\* event->consuming and event->waiting count the clients that owe the frame and
\* the clients at the barrier.
THEOREM CountersHold == Spec => []CountersExact
BY Invariant, PTL DEF IInv

\* No assertion of shadow_mcevent.c fails.
THEOREM AssertionsNeverFail == Spec => []AssertionsHold
<1>1. IInv => AssertionsHold
  BY Counters DEF IInv, TypeOK, Shape, AssertionsHold
<1> QED
  BY <1>1, Invariant, PTL

\* The frame stays as it is until the last client has sent it.
THEOREM FrameKeptHolds == Spec => []FrameKept
<1>1. IInv => FrameKept
  BY DEF IInv, Shape, FrameKept, Owing
<1> QED
  BY <1>1, Invariant, PTL

\* No client starts over before the others are done.
THEOREM ClientsWait == Spec => []ClientsWaitForOthers
<1>1. IInv => ClientsWaitForOthers
  BY Counters DEF IInv, Shape, ClientsWaitForOthers
<1> QED
  BY <1>1, Invariant, PTL

\* The event implements rounds: one share per client and frame.
THEOREM Refinement == Spec => ImplementsRounds
<1>1. IInv /\ [Next]_vars => [Rounds!Next]_(Rounds!vars)
  BY EveryStep
<1> QED
  BY <1>1, InitStep, Invariant, PTL DEF Spec, ImplementsRounds, Rounds!Spec
=============================================================================
