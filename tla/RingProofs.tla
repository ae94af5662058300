---------------------------- MODULE RingProofs -----------------------------
(***************************************************************************)
(* The growing ring holds a sequence: what Put, Take and growth do to the  *)
(* content, for every capacity, growth factor and position of head; and    *)
(* what writing, reading, growing and shrinking do to the byte ring.       *)
(***************************************************************************)
EXTENDS Ring, RingBuffer, SequenceTheorems, TLAPS

\* An index below the capacity is its own remainder.
LEMMA ModSmall ==
  ASSUME NEW c \in Nat \ {0}, NEW x \in 0..(c - 1)
  PROVE  x % c = x
OBVIOUS

\* An index one turn too large comes back by the capacity (queue->head and
\* queue->tail after an increment).
LEMMA ModWrap ==
  ASSUME NEW c \in Nat \ {0}, NEW x \in c..(2 * c - 1)
  PROVE  x % c = x - c
OBVIOUS

\* The n-th place counted from head, without the remainder.
LEMMA ModPlace ==
  ASSUME NEW c \in Nat \ {0}, NEW h \in 0..(c - 1), NEW n \in 0..c
  PROVE  /\ (h + n) % c = IF h + n < c THEN h + n ELSE h + n - c
         /\ (h + n) % c \in 0..(c - 1)
<1>1. CASE h + n < c
  BY <1>1, ModSmall
<1>2. CASE ~(h + n < c)
  <2>1. h + n \in c..(2 * c - 1)
    BY <1>2
  <2>2. (h + n) % c = h + n - c
    BY <2>1, ModWrap
  <2> QED
    BY <1>2, <2>1, <2>2
<1> QED
  BY <1>1, <1>2

\* The place after the n-th one, and the n-th one counted from the next head.
LEMMA ModNext ==
  ASSUME NEW c \in Nat \ {0}, NEW h \in 0..(c - 1), NEW n \in 0..(c - 1)
  PROVE  /\ (((h + n) % c) + 1) % c = (h + (n + 1)) % c
         /\ (((h + 1) % c) + n) % c = (h + (n + 1)) % c
<1> DEFINE p == (h + n) % c
           q == (h + 1) % c
           t == (h + (n + 1)) % c
<1>0. n \in 0..c /\ 1 \in 0..c /\ n + 1 \in 0..c
  OBVIOUS
<1>1. p = (IF h + n < c THEN h + n ELSE h + n - c) /\ p \in 0..(c - 1)
  BY Zenon, <1>0, ModPlace
<1>2. q = (IF h + 1 < c THEN h + 1 ELSE h + 1 - c) /\ q \in 0..(c - 1)
  BY Zenon, <1>0, ModPlace
<1>3. t = IF h + (n + 1) < c THEN h + (n + 1) ELSE h + (n + 1) - c
  BY Zenon, <1>0, ModPlace
<1> HIDE DEF p, q, t
<1>4. (p + 1) % c = IF p + 1 < c THEN p + 1 ELSE p + 1 - c
  BY Zenon, <1>0, <1>1, ModPlace
<1>5. (q + n) % c = IF q + n < c THEN q + n ELSE q + n - c
  BY Zenon, <1>0, <1>2, ModPlace
<1>6. (p + 1) % c = t
  BY <1>1, <1>3, <1>4
<1>7. (q + n) % c = t
  BY <1>2, <1>3, <1>5
<1> QED
  BY <1>6, <1>7 DEF p, q, t

\* No two places are the same slot.
LEMMA ModDistinct ==
  ASSUME NEW c \in Nat \ {0}, NEW h \in 0..(c - 1), NEW m \in 0..(c - 1), NEW n \in 0..(c - 1),
         m # n
  PROVE  (h + m) % c # (h + n) % c
<1>0. m \in 0..c /\ n \in 0..c
  OBVIOUS
<1>1. (h + m) % c = IF h + m < c THEN h + m ELSE h + m - c
  BY Zenon, <1>0, ModPlace
<1>2. (h + n) % c = IF h + n < c THEN h + n ELSE h + n - c
  BY Zenon, <1>0, ModPlace
<1> QED
  BY <1>1, <1>2

\* The content is a sequence of objects.
LEMMA ContentType ==
  ASSUME NEW r, WellFormed(r)
  PROVE  Content(r) \in Seq(Objects) /\ Len(Content(r)) = r.size
<1>1. r.size \in Nat /\ Content(r) \in [1..r.size -> Objects]
  BY DEF WellFormed, Content
<1>2. Content(r) \in Seq(Objects)
  BY <1>1, SeqDef
<1> QED
  BY <1>1, <1>2, LenProperties

\* Two rings hold the same objects when their sizes and slots agree.
LEMMA ContentIs ==
  ASSUME NEW r, NEW s \in Seq(Objects), r.size = Len(s),
         \A i \in 1..r.size : r.array[Slot(r, i)] = s[i]
  PROVE  Content(r) = s
<1>1. s = [i \in 1..Len(s) |-> s[i]]
  OBVIOUS
<1> QED
  BY <1>1 DEF Content

\* An object stored where there is room becomes the last one.
LEMMA StoredContent ==
  ASSUME NEW r, WellFormed(r), r.size < r.capacity, NEW x \in Objects
  PROVE  WellFormed(Stored(r, x)) /\ Content(Stored(r, x)) = Append(Content(r), x)
<1> DEFINE q == Stored(r, x)
           c == r.capacity
           h == r.head
           n == r.size
<1>1. /\ c \in Nat \ {0} /\ h \in 0..(c - 1) /\ n \in 0..(c - 1)
      /\ r.tail = (h + n) % c /\ r.tail \in 0..(c - 1)
      /\ r.array \in [0..(c - 1) -> Objects \cup {Zero}]
      /\ \A i \in 1..n : r.array[Slot(r, i)] \in Objects
  BY DEF WellFormed
<1>2. /\ q.array = [r.array EXCEPT ![r.tail] = x] /\ q.head = h
      /\ q.tail = (r.tail + 1) % c /\ q.size = n + 1 /\ q.capacity = c
  BY DEF Stored, Buffer
<1>3. \A i : Slot(q, i) = Slot(r, i) /\ Slot(r, i) = (h + (i - 1)) % c
  BY <1>2 DEF Slot
<1>c. /\ Content(r) \in Seq(Objects) /\ Len(Content(r)) = n
      /\ \A i \in 1..n : Content(r)[i] = r.array[Slot(r, i)]
  BY Zenon, ContentType DEF Content
<1> HIDE DEF q, c, h, n
<1>4. Slot(r, n + 1) = r.tail
  <2>1. (n + 1) - 1 = n
    BY <1>1
  <2> QED
    BY Zenon, <1>1, <1>3, <2>1
<1>5. \A i \in 1..n : Slot(r, i) # r.tail /\ Slot(r, i) \in 0..(c - 1)
  <2>1. SUFFICES ASSUME NEW i \in 1..n
                 PROVE  Slot(r, i) # r.tail /\ Slot(r, i) \in 0..(c - 1)
    OBVIOUS
  <2>2. i - 1 \in 0..(c - 1) /\ i - 1 \in 0..c /\ i - 1 # n
    BY <1>1
  <2>3. (h + (i - 1)) % c # (h + n) % c /\ (h + (i - 1)) % c \in 0..(c - 1)
    BY Zenon, <1>1, <2>2, ModDistinct, ModPlace
  <2> QED
    BY Zenon, <1>1, <1>3, <2>3
<1>6. q.array[r.tail] = x /\ \A i \in 1..n : q.array[Slot(r, i)] = r.array[Slot(r, i)]
  BY <1>1, <1>2, <1>5
<1>7. q.tail = (q.head + q.size) % q.capacity /\ q.tail \in 0..(q.capacity - 1)
  <2>1. (r.tail + 1) % c = (h + (n + 1)) % c
    BY Zenon, <1>1, ModNext
  <2>2. n + 1 \in 0..c
    BY <1>1
  <2>3. (h + (n + 1)) % c \in 0..(c - 1)
    BY <1>1, <2>2, ModPlace
  <2> QED
    BY <1>2, <2>1, <2>3
<1>8. \A i \in 1..(n + 1) : q.array[Slot(r, i)] = Append(Content(r), x)[i]
  <2>1. SUFFICES ASSUME NEW i \in 1..(n + 1)
                 PROVE  q.array[Slot(r, i)] = Append(Content(r), x)[i]
    BY Zenon
  <2>2. CASE i \in 1..n
    <3>1. Append(Content(r), x)[i] = Content(r)[i]
      BY <1>c, <2>2
    <3> QED
      BY <1>6, <1>c, <2>2, <3>1
  <2>3. CASE i = n + 1
    <3>1. Append(Content(r), x)[n + 1] = x
      BY <1>1, <1>c
    <3> QED
      BY <1>4, <1>6, <2>3, <3>1
  <2>4. i \in 1..n \/ i = n + 1
    BY <1>1
  <2> QED
    BY Zenon, <2>2, <2>3, <2>4
<1>9. Append(Content(r), x) \in Seq(Objects) /\ Len(Append(Content(r), x)) = n + 1
  BY <1>c
<1>10. \A i \in 1..q.size : q.array[Slot(q, i)] = Append(Content(r), x)[i]
  BY Zenon, <1>2, <1>3, <1>8
<1>11. Content(q) = Append(Content(r), x)
  BY Zenon, <1>2, <1>9, <1>10, ContentIs
<1>12. \A i \in 1..q.size : q.array[Slot(q, i)] \in Objects
  <2>1. \A i \in 1..(n + 1) : Append(Content(r), x)[i] \in Objects
    BY <1>1, <1>9
  <2> QED
    BY Zenon, <1>2, <1>10, <2>1
<1>13. WellFormed(q)
  <2>1. q.array \in [0..(q.capacity - 1) -> Objects \cup {Zero}]
    BY Zenon, <1>1, <1>2
  <2>2. q.size \in 0..q.capacity
    BY <1>1, <1>2
  <2> QED
    BY Zenon, <1>1, <1>2, <1>7, <1>12, <2>1, <2>2 DEF WellFormed
<1> QED
  BY <1>11, <1>13 DEF q

\* Taking the first object leaves the others in their order.
LEMMA TakeContent ==
  ASSUME NEW r, WellFormed(r), r.size > 0
  PROVE  /\ WellFormed(Take(r)) /\ Content(Take(r)) = Tail(Content(r))
         /\ First(r) = Head(Content(r)) /\ First(r) \in Objects
         /\ Take(r).size = r.size - 1
<1> DEFINE q == Take(r)
           c == r.capacity
           h == r.head
           n == r.size
<1>1. /\ c \in Nat \ {0} /\ h \in 0..(c - 1) /\ n \in 1..c
      /\ r.tail = (h + n) % c /\ r.tail \in 0..(c - 1)
      /\ r.array \in [0..(c - 1) -> Objects \cup {Zero}]
      /\ \A i \in 1..n : r.array[Slot(r, i)] \in Objects
  BY DEF WellFormed
<1>2. /\ q.array = [r.array EXCEPT ![h] = Zero] /\ q.tail = r.tail
      /\ q.head = (h + 1) % c /\ q.size = n - 1 /\ q.capacity = c
  BY DEF Take, Buffer
<1>3. \A i : Slot(q, i) = (q.head + (i - 1)) % c /\ Slot(r, i) = (h + (i - 1)) % c
  BY <1>2 DEF Slot
<1>c. /\ Content(r) \in Seq(Objects) /\ Len(Content(r)) = n
      /\ \A i \in 1..n : Content(r)[i] = r.array[Slot(r, i)]
  BY Zenon, ContentType DEF Content
<1>f. First(r) = r.array[h]
  BY DEF First
<1> HIDE DEF q, c, h, n
<1>4. Slot(r, 1) = h /\ (h + 0) % c = h
  <2>1. (h + 0) % c = h
    <3>1. h + 0 = h /\ c \in Nat \ {0} /\ h \in 0..(c - 1)
      BY <1>1
    <3> QED
      BY <3>1, ModSmall
  <2>2. h + (1 - 1) = h + 0
    BY <1>1
  <2> QED
    BY <1>3, <2>1, <2>2
<1>5. \A i \in 1..(n - 1) : /\ Slot(q, i) = Slot(r, i + 1) /\ Slot(q, i) # h
                            /\ Slot(q, i) \in 0..(c - 1)
  <2>1. SUFFICES ASSUME NEW i \in 1..(n - 1)
                 PROVE  /\ Slot(q, i) = Slot(r, i + 1) /\ Slot(q, i) # h
                        /\ Slot(q, i) \in 0..(c - 1)
    OBVIOUS
  <2>2. /\ i - 1 \in 0..(c - 1) /\ i \in 0..(c - 1) /\ i \in 0..c /\ i # 0
        /\ (i - 1) + 1 = i /\ (i + 1) - 1 = i /\ 0 \in 0..(c - 1)
    BY <1>1
  <2>3. (((h + 1) % c) + (i - 1)) % c = (h + ((i - 1) + 1)) % c
    BY Zenon, <1>1, <2>2, ModNext
  <2>4. (h + i) % c # (h + 0) % c
    BY Zenon, <1>1, <2>2, ModDistinct
  <2>5. (h + i) % c \in 0..(c - 1)
    BY Zenon, <1>1, <2>2, ModPlace
  <2> QED
    BY <1>2, <1>3, <1>4, <2>2, <2>3, <2>4, <2>5
<1>6. \A i \in 1..(n - 1) : q.array[Slot(q, i)] = r.array[Slot(r, i + 1)]
  BY Zenon, <1>1, <1>2, <1>5
<1>8. /\ Tail(Content(r)) \in Seq(Objects) /\ Len(Tail(Content(r))) = n - 1
      /\ \A i \in 1..(n - 1) : Tail(Content(r))[i] = Content(r)[i + 1]
      /\ Head(Content(r)) = Content(r)[1]
  BY <1>1, <1>c
<1>9. \A i \in 1..q.size : q.array[Slot(q, i)] = Tail(Content(r))[i]
  <2>1. SUFFICES ASSUME NEW i \in 1..(n - 1)
                 PROVE  q.array[Slot(q, i)] = Tail(Content(r))[i]
    BY Zenon, <1>2
  <2>2. i + 1 \in 1..n
    BY <1>1
  <2> QED
    BY <1>6, <1>8, <1>c, <2>2
<1>10. Content(q) = Tail(Content(r))
  BY Zenon, <1>2, <1>8, <1>9, ContentIs
<1>11. First(r) = Head(Content(r)) /\ First(r) \in Objects
  BY <1>1, <1>4, <1>8, <1>c, <1>f
<1>12. q.tail = (q.head + q.size) % q.capacity
  <2>1. n - 1 \in 0..(c - 1) /\ (n - 1) + 1 = n
    BY <1>1
  <2>2. (((h + 1) % c) + (n - 1)) % c = (h + ((n - 1) + 1)) % c
    BY <1>1, <2>1, ModNext
  <2> QED
    BY <1>1, <1>2, <2>1, <2>2
<1>13. WellFormed(q)
  <2>1. q.array \in [0..(q.capacity - 1) -> Objects \cup {Zero}] /\ q.size \in 0..q.capacity
    BY <1>1, <1>2
  <2>2. \A i \in 1..q.size : q.array[Slot(q, i)] \in Objects
    <3>1. \A i \in 1..(n - 1) : Tail(Content(r))[i] \in Objects
      BY <1>1, <1>8
    <3> QED
      BY Zenon, <1>2, <1>9, <3>1
  <2>3. q.head \in 0..(q.capacity - 1)
    BY <1>1, <1>2, ModPlace
  <2> QED
    BY <1>1, <1>2, <1>12, <2>1, <2>2, <2>3 DEF WellFormed
<1> QED
  BY <1>2, <1>10, <1>11, <1>13 DEF q, n

\* The larger array.
LEMMA Larger ==
  ASSUME NEW c \in Nat \ {0}
  PROVE  c * GrowthFactor \in Nat \ {0} /\ c * GrowthFactor >= 2 * c
BY GrowthAssumption

\* Growth changes neither the objects nor their order, wherever head is, and
\* makes room for another one.
LEMMA GrownContent ==
  ASSUME NEW r, WellFormed(r), r.size = r.capacity
  PROVE  /\ WellFormed(Grown(r)) /\ Content(Grown(r)) = Content(r)
         /\ Grown(r).size < Grown(r).capacity
<1> DEFINE q == Grown(r)
           c == r.capacity
           h == r.head
           d == r.capacity * GrowthFactor
<1>1. /\ c \in Nat \ {0} /\ h \in 0..(c - 1) /\ r.size = c
      /\ r.tail = (h + c) % c
      /\ r.array \in [0..(c - 1) -> Objects \cup {Zero}]
      /\ \A i \in 1..c : r.array[Slot(r, i)] \in Objects
  BY Zenon DEF WellFormed
<1>2. d \in Nat \ {0} /\ d >= 2 * c
  BY Zenon, <1>1, Larger
<1>3. /\ q.array = [i \in 0..(d - 1) |-> Moved(r, i)] /\ q.head = h
      /\ q.tail = (IF r.tail <= h THEN r.tail + c ELSE r.tail) /\ q.size = c /\ q.capacity = d
  BY DEF Grown, Buffer
<1>4. \A i : Slot(q, i) = (h + (i - 1)) % d /\ Slot(r, i) = (h + (i - 1)) % c
  BY <1>3 DEF Slot
<1>5. \A i : Moved(r, i) = IF i < c THEN r.array[i]
                         ELSE IF r.tail <= h /\ i < c + r.tail THEN r.array[i - c] ELSE Zero
  BY DEF Moved
<1>c. /\ Content(r) \in Seq(Objects) /\ Len(Content(r)) = c
      /\ \A i \in 1..c : Content(r)[i] = r.array[Slot(r, i)]
  BY Zenon, ContentType DEF Content
<1> HIDE DEF q, c, h, d
<1>6. r.tail = h
  <2>1. c \in 0..c
    BY <1>1
  <2>2. (h + c) % c = IF h + c < c THEN h + c ELSE h + c - c
    BY <1>1, <2>1, ModPlace
  <2> QED
    BY <1>1, <2>2
<1>7. q.tail = h + c
  BY <1>1, <1>3, <1>6
<1>8. \A i \in 1..c : q.array[Slot(q, i)] = r.array[Slot(r, i)]
  <2>1. SUFFICES ASSUME NEW i \in 1..c
                 PROVE  q.array[Slot(q, i)] = r.array[Slot(r, i)]
    OBVIOUS
  <2> DEFINE k == i - 1
  <2>2. k \in 0..(c - 1)
    BY <1>1
  <2>3. Slot(q, i) = (h + k) % d /\ Slot(r, i) = (h + k) % c
    BY <1>4
  <2> HIDE DEF k
  <2>4. k \in 0..c /\ h + k \in 0..(d - 1) /\ h + k < c + h
    BY <1>1, <1>2, <2>2
  <2>5. Slot(q, i) = h + k
    BY <1>2, <2>3, <2>4, ModSmall
  <2>6. Slot(r, i) = IF h + k < c THEN h + k ELSE h + k - c
    <3>1. (h + k) % c = IF h + k < c THEN h + k ELSE h + k - c
      BY <1>1, <2>4, ModPlace
    <3> QED
      BY <2>3, <3>1
  <2>7. q.array[Slot(q, i)] = Moved(r, h + k)
    BY <1>3, <2>4, <2>5
  <2>8. CASE h + k < c
    BY <1>5, <2>6, <2>7, <2>8
  <2>9. CASE ~(h + k < c)
    <3>1. h + k < c + r.tail /\ r.tail <= h
      BY <1>1, <1>6, <2>4
    <3> DEFINE j == h + k
    <3>2. Moved(r, j) = r.array[j - c]
      <4>1. ~(j < c) /\ r.tail <= h /\ j < c + r.tail
        BY <2>9, <3>1
      <4> HIDE DEF j
      <4> QED
        BY <1>5, <4>1
    <3>3. q.array[Slot(q, i)] = Moved(r, j)
      BY <2>7
    <3>4. Slot(r, i) = j - c
      BY <1>1, <2>2, <2>6, <2>9
    <3> HIDE DEF j
    <3> QED
      BY Zenon, <3>2, <3>3, <3>4
  <2> QED
    BY Zenon, <2>8, <2>9
<1>9. Content(q) = Content(r)
  <2>1. \A i \in 1..q.size : q.array[Slot(q, i)] = Content(r)[i]
    BY Zenon, <1>3, <1>8, <1>c
  <2> QED
    BY Zenon, <1>3, <1>c, <2>1, ContentIs
<1>10. q.array \in [0..(d - 1) -> Objects \cup {Zero}]
  <2>1. ASSUME NEW i \in 0..(d - 1)
        PROVE  Moved(r, i) \in Objects \cup {Zero}
    <3>1. CASE i < c
      BY <1>1, <1>5, <3>1
    <3>2. CASE ~(i < c) /\ i < c + r.tail
      <4>1. i - c \in 0..(c - 1)
        BY <1>1, <1>6, <3>2
      <4> QED
        BY <1>1, <1>5, <3>2, <4>1
    <3>3. CASE ~(i < c) /\ ~(i < c + r.tail)
      BY <1>5, <3>3
    <3> QED
      BY <3>1, <3>2, <3>3
  <2> QED
    BY <1>3, <2>1
<1>11. WellFormed(q)
  <2>1. h + c \in 0..(d - 1) /\ h \in 0..(d - 1) /\ c \in 0..d
    BY <1>1, <1>2
  <2>2. (h + c) % d = h + c
    BY <1>2, <2>1, ModSmall
  <2>3. \A i \in 1..q.size : q.array[Slot(q, i)] \in Objects
    BY Zenon, <1>1, <1>3, <1>8
  <2> QED
    BY Zenon, <1>2, <1>3, <1>7, <1>10, <2>1, <2>2, <2>3 DEF WellFormed
<1>12. q.size < q.capacity
  BY <1>1, <1>2, <1>3
<1> QED
  BY <1>9, <1>11, <1>12 DEF q

\* Put appends an object to the content (MessageQueue_Dispatch, Queue_Enqueue),
\* whether the array has to grow or not.
THEOREM PutContent ==
  ASSUME NEW r, WellFormed(r), NEW x \in Objects
  PROVE  WellFormed(Put(r, x)) /\ Content(Put(r, x)) = Append(Content(r), x)
<1>1. r.size \in 0..r.capacity /\ r.capacity \in Nat
  BY DEF WellFormed
<1>2. CASE r.size = r.capacity
  <2>1. WellFormed(Grown(r)) /\ Content(Grown(r)) = Content(r) /\ Grown(r).size < Grown(r).capacity
    BY <1>2, GrownContent
  <2> QED
    BY <1>2, <2>1, StoredContent DEF Put
<1>3. CASE r.size # r.capacity
  <2>1. r.size < r.capacity
    BY <1>1, <1>3
  <2> QED
    BY <1>3, <2>1, StoredContent DEF Put
<1> QED
  BY <1>2, <1>3

\* A new queue is an empty ring.
LEMMA EmptyContent == WellFormed(Empty) /\ Content(Empty) = <<>> /\ Empty.size = 0
<1>1. /\ Empty.array = [i \in 0..(InitialCapacity - 1) |-> Zero] /\ Empty.head = 0
      /\ Empty.tail = 0 /\ Empty.size = 0 /\ Empty.capacity = InitialCapacity
  BY DEF Empty, Buffer
<1>2. 0 % InitialCapacity = 0
  BY CapacityAssumption, ModSmall
<1>3. WellFormed(Empty)
  BY <1>1, <1>2, CapacityAssumption DEF WellFormed
<1>4. Content(Empty) \in Seq(Objects) /\ Len(Content(Empty)) = 0
  BY Zenon, <1>1, <1>3, ContentType
<1> QED
  BY <1>1, <1>3, <1>4


----------------------------------------------------------------------------
(* The byte ring of RingBuffer.                                            *)

\* The place of the k-th byte counted from readPtr.
At(rb, k) == IF rb.readPtr + k < rb.size THEN rb.readPtr + k ELSE rb.readPtr + k - rb.size

BytesOK(rb) ==
  /\ rb.size \in Nat \ {0} /\ rb.readPtr \in 0..(rb.size - 1) /\ rb.freeSize \in 1..rb.size
  /\ rb.writePtr = At(rb, ringbuffer_used(rb))

\* The bytes that are in the ring are f[0], f[1], ...
Carries(rb, f) == \A k \in 0..(ringbuffer_used(rb) - 1) : rb.buffer[At(rb, k)] = f[k]

\* data is the part of f from n on.
GoesOn(data, f, n) == \A i \in 1..Len(data) : data[i] = f[n + i - 1]

HasRoom(rb, data) == Len(data) < rb.freeSize

\* The heads are equal just when the ring is empty.
LEMMA HeadsEqual ==
  ASSUME NEW rb, BytesOK(rb)
  PROVE  /\ rb.writePtr = rb.readPtr <=> ringbuffer_used(rb) = 0
         /\ ringbuffer_used(rb) \in 0..(rb.size - 1) /\ rb.writePtr \in 0..(rb.size - 1)
         /\ rb.writePtr >= rb.readPtr => rb.writePtr = rb.readPtr + ringbuffer_used(rb)
         /\ rb.writePtr < rb.readPtr => rb.writePtr = rb.readPtr + ringbuffer_used(rb) - rb.size
  BY DEF BytesOK, At, ringbuffer_used

\* ringbuffer_peek of all that is there returns it in order.
LEMMA PeekReturns ==
  ASSUME NEW rb, NEW f, BytesOK(rb), Carries(rb, f)
  PROVE  ringbuffer_peek(rb, ringbuffer_used(rb)) = [i \in 1..ringbuffer_used(rb) |-> f[i - 1]]
<1> DEFINE n == ringbuffer_used(rb)
           t == IF rb.readPtr + n > rb.size THEN rb.size - rb.readPtr ELSE n
<1>1. n \in 0..(rb.size - 1) /\ rb.readPtr \in 0..(rb.size - 1) /\ rb.size \in Nat
  BY HeadsEqual DEF BytesOK
<1>2. \A k \in 0..(n - 1) : rb.buffer[At(rb, k)] = f[k]
  BY DEF Carries
<1>3. ringbuffer_peek(rb, n) =
        [i \in 1..n |-> IF i <= t THEN rb.buffer[rb.readPtr + i - 1] ELSE rb.buffer[i - t - 1]]
  BY <1>1 DEF ringbuffer_peek
<1> HIDE DEF n
<1>4. ASSUME NEW i \in 1..n
      PROVE  (IF i <= t THEN rb.buffer[rb.readPtr + i - 1] ELSE rb.buffer[i - t - 1]) = f[i - 1]
  <2>1. i - 1 \in 0..(n - 1)
    BY <1>1
  <2>2. At(rb, i - 1) = IF i <= t THEN rb.readPtr + i - 1 ELSE i - t - 1
    BY <1>1 DEF At
  <2>3. rb.buffer[At(rb, i - 1)] = f[i - 1]
    BY <1>2, <2>1
  <2> QED BY <2>2, <2>3
<1> QED BY <1>3, <1>4 DEF n

\* ringbuffer_realloc keeps the bytes and their order, growing or shrinking.
LEMMA ReallocKeeps ==
  ASSUME NEW rb, NEW f, NEW target \in Nat, BytesOK(rb), Carries(rb, f), ringbuffer_used(rb) < target
  PROVE  LET q == ringbuffer_realloc(rb, target) IN
         BytesOK(q) /\ Carries(q, f) /\ ringbuffer_used(q) = ringbuffer_used(rb) /\ q.size = target
<1> DEFINE q == ringbuffer_realloc(rb, target)
           n == ringbuffer_used(rb)
           r == rb.readPtr
           w == rb.writePtr
           c == rb.size
<1>1. /\ n \in 0..(c - 1) /\ r \in 0..(c - 1) /\ w \in 0..(c - 1) /\ c \in Nat /\ n = c - rb.freeSize
      /\ rb.freeSize \in 1..c /\ (w = r <=> n = 0)
      /\ (w >= r => w = r + n) /\ (w < r => w = r + n - c)
  BY HeadsEqual DEF BytesOK, ringbuffer_used
<1>2. \A k \in 0..(n - 1) : rb.buffer[At(rb, k)] = f[k]
  BY DEF Carries
<1>3. q.size = target /\ q.freeSize = rb.freeSize + (target - c)
  BY DEF ringbuffer_realloc, Bytes
<1>4. ringbuffer_used(q) = n /\ q.freeSize \in 1..target
  BY <1>1, <1>3 DEF ringbuffer_used
<1>5. CASE w = r
  <2>1. q.readPtr = 0 /\ q.writePtr = 0 /\ n = 0
    BY <1>1, <1>5 DEF ringbuffer_realloc, Bytes
  <2> QED BY <1>1, <1>3, <1>4, <2>1 DEF BytesOK, Carries, At
<1>6. CASE w # r /\ w >= r /\ w < target
  <2>1. q.readPtr = r /\ q.writePtr = w /\ q.buffer = Reallocated(rb, target)
    BY <1>6 DEF ringbuffer_realloc, Bytes
  <2>2. BytesOK(q)
    BY <1>1, <1>3, <1>4, <1>6, <2>1 DEF BytesOK, At
  <2>3. ASSUME NEW k \in 0..(n - 1) PROVE q.buffer[At(q, k)] = f[k]
    <3>1. At(q, k) = r + k /\ At(rb, k) = r + k /\ r + k \in 0..(target - 1) /\ r + k < c
      BY <1>1, <1>3, <1>6, <2>1 DEF At
    <3>2. q.buffer[r + k] = rb.buffer[r + k]
      BY <2>1, <3>1 DEF Reallocated
    <3> QED BY <1>2, <3>1, <3>2
  <2> QED BY <1>3, <1>4, <2>2, <2>3 DEF Carries
<1>7. CASE w # r /\ ~(w >= r /\ w < target)
  <2>1. q.readPtr = 0 /\ q.writePtr = n /\ q.buffer = Unrolled(rb, target)
    BY <1>7 DEF ringbuffer_realloc, Bytes
  <2>2. BytesOK(q)
    BY <1>1, <1>3, <1>4, <2>1 DEF BytesOK, At
  <2>3. ASSUME NEW k \in 0..(n - 1) PROVE q.buffer[At(q, k)] = f[k]
    <3>1. At(q, k) = k /\ k \in 0..(target - 1)
      BY <1>1, <1>3, <2>1 DEF At
    <3>2. q.buffer[k] = rb.buffer[At(rb, k)]
      <4>1. CASE r < w
        <5>1. At(rb, k) = r + k /\ k < ringbuffer_used(rb)
          BY <1>1, <4>1 DEF At
        <5>2. q.buffer[k] = rb.buffer[r + k]
          BY <2>1, <3>1, <4>1, <5>1 DEF Unrolled
        <5> QED BY Zenon, <5>1, <5>2
      <4>2. CASE ~(r < w)
        <5>1. k < (c - r) + w
          BY <1>1, <1>7, <4>2
        <5>2. q.buffer[k] = IF k < c - r THEN rb.buffer[r + k] ELSE rb.buffer[k - (c - r)]
          BY <2>1, <3>1, <4>2, <5>1 DEF Unrolled
        <5>3. At(rb, k) = IF k < c - r THEN r + k ELSE k - (c - r)
          BY <1>1 DEF At
        <5> QED BY <5>2, <5>3
      <4> QED BY <4>1, <4>2
    <3> QED BY <1>2, <3>1, <3>2
  <2> QED BY <1>3, <1>4, <2>2, <2>3 DEF Carries
<1> QED BY <1>3, <1>4, <1>5, <1>6, <1>7

\* The write proper puts data behind what is there.
LEMMA WrittenCarries ==
  ASSUME NEW rb, NEW f, NEW S, NEW data \in Seq(S), BytesOK(rb), Carries(rb, f),
         HasRoom(rb, data),
         GoesOn(data, f, ringbuffer_used(rb))
  PROVE  LET q == Written(rb, data) IN
         BytesOK(q) /\ Carries(q, f) /\ ringbuffer_used(q) = ringbuffer_used(rb) + Len(data)
<1> DEFINE q == Written(rb, data)
           n == ringbuffer_used(rb)
           r == rb.readPtr
           w == rb.writePtr
           c == rb.size
           sz == Len(data)
           t == IF c - w < sz THEN c - w ELSE sz
<1>0. n = c - rb.freeSize /\ rb.freeSize \in 1..c /\ w = At(rb, n)
  BY DEF BytesOK, ringbuffer_used
<1>1. /\ n \in 0..(c - 1) /\ r \in 0..(c - 1) /\ w \in 0..(c - 1) /\ c \in Nat \ {0}
      /\ sz \in Nat /\ sz < c - n
  BY HeadsEqual DEF BytesOK, ringbuffer_used, HasRoom
<1>2. /\ \A k \in 0..(n - 1) : rb.buffer[At(rb, k)] = f[k]
      /\ \A i \in 1..sz : data[i] = f[n + i - 1]
  BY DEF Carries, GoesOn
<1>3. /\ q.size = c /\ q.readPtr = r /\ q.freeSize = rb.freeSize - sz
      /\ q.writePtr = (w + sz) % c
      /\ q.buffer = [i \in 0..(c - 1) |->
                       IF i >= w /\ i < w + t THEN data[i - w + 1]
                       ELSE IF i < sz - t THEN data[t + i + 1] ELSE rb.buffer[i]]
  BY DEF Written, Bytes
<1>4. ringbuffer_used(q) = n + sz
  BY <1>0, <1>1, <1>3 DEF ringbuffer_used
<1>5. /\ \A k : At(rb, k) = IF r + k < c THEN r + k ELSE r + k - c
      /\ \A k : At(q, k) = IF r + k < c THEN r + k ELSE r + k - c
  BY <1>3 DEF At
<1>6. w = IF r + n < c THEN r + n ELSE r + n - c
  BY <1>0, <1>5
<1>7. t \in 0..sz /\ (t = sz \/ t = c - w) /\ t <= c - w
  BY <1>1
<1> HIDE DEF q, n, r, w, c, sz, t
<1>8. (w + sz) % c = IF w + sz < c THEN w + sz ELSE w + sz - c
  <2>1. sz \in 0..c
    BY <1>1
  <2> QED BY Zenon, <1>1, <2>1, ModPlace
<1>9. BytesOK(q)
  <2>1. q.writePtr = At(q, n + sz)
    <3>1. (w + sz) % c = IF r + (n + sz) < c THEN r + (n + sz) ELSE r + (n + sz) - c
      BY <1>1, <1>6, <1>8
    <3> QED BY <1>3, <1>5, <3>1
  <2>2. q.freeSize \in 1..c
    <3>1. rb.freeSize = c - n
      BY <1>0, <1>1
    <3>2. q.freeSize = c - n - sz
      BY <1>3, <3>1
    <3> QED BY <1>1, <3>2
  <2> QED BY <1>1, <1>3, <1>4, <2>1, <2>2 DEF BytesOK
<1>10. ASSUME NEW k \in 0..(n + sz - 1) PROVE q.buffer[At(q, k)] = f[k]
  <2> DEFINE i == At(rb, k)
             j == k - n + 1
  <2>1. At(q, k) = i /\ i = IF r + k < c THEN r + k ELSE r + k - c
    BY <1>5
  <2> HIDE DEF i
  <2>2. i \in 0..(c - 1)
    BY <1>1, <2>1
  <2>3. q.buffer[i] = IF i >= w /\ i < w + t THEN data[i - w + 1]
                      ELSE IF i < sz - t THEN data[t + i + 1] ELSE rb.buffer[i]
    BY <1>3, <2>2
  <2>4. CASE k < n
    <3>1. ~(i >= w /\ i < w + t) /\ ~(i < sz - t) /\ k \in 0..(n - 1)
      BY <1>1, <1>6, <1>7, <2>1, <2>4
    <3> QED BY <1>2, <2>1, <2>3, <3>1 DEF i
  <2>5. CASE ~(k < n)
    <3>1. j \in 1..sz /\ n + j - 1 = k
      BY <1>1, <2>5
    <3>2. data[j] = f[n + j - 1]
      BY <1>2, <3>1
    <3>3. CASE i >= w /\ i < w + t
      <4>1. i - w + 1 = j
        BY <1>1, <1>6, <1>7, <2>1, <2>5, <3>3
      <4> QED BY <2>1, <2>3, <3>1, <3>2, <3>3, <4>1
    <3>4. CASE ~(i >= w /\ i < w + t)
      <4>1. t + i + 1 = j /\ i < sz - t
        BY <1>1, <1>6, <1>7, <2>1, <2>5, <3>4
      <4> QED BY <2>1, <2>3, <3>1, <3>2, <3>4, <4>1
    <3> QED BY <3>3, <3>4
  <2> QED BY <2>4, <2>5
<1>11. Carries(q, f)
  <2> SUFFICES ASSUME NEW k \in 0..(ringbuffer_used(q) - 1) PROVE q.buffer[At(q, k)] = f[k]
    BY DEF Carries
  <2>1. k \in 0..(n + sz - 1)
    BY <1>1, <1>4
  <2> QED BY <1>10, <2>1
<1> QED BY <1>4, <1>9, <1>11 DEF q, n, sz

\* ringbuffer_write puts data behind what is there, also if it has to grow.
THEOREM WriteCarries ==
  ASSUME NEW rb, NEW f, NEW S, NEW data \in Seq(S), BytesOK(rb), Carries(rb, f),
         GoesOn(data, f, ringbuffer_used(rb))
  PROVE  LET q == ringbuffer_write(rb, data) IN
         BytesOK(q) /\ Carries(q, f) /\ ringbuffer_used(q) = ringbuffer_used(rb) + Len(data)
<1>1. rb.size \in Nat /\ rb.freeSize \in 1..rb.size /\ Len(data) \in Nat
      /\ ringbuffer_used(rb) = rb.size - rb.freeSize
  BY DEF BytesOK, ringbuffer_used
<1>2. CASE MustGrow(rb, Len(data))
  <2> DEFINE g == ringbuffer_realloc(rb, rb.size + Len(data))
  <2>1. rb.size + Len(data) \in Nat /\ ringbuffer_used(rb) < rb.size + Len(data)
    BY <1>1
  <2>2. /\ BytesOK(g) /\ Carries(g, f) /\ ringbuffer_used(g) = ringbuffer_used(rb)
        /\ g.size = rb.size + Len(data)
    BY Zenon, <2>1, ReallocKeeps
  <2>3. ringbuffer_write(rb, data) = Written(g, data)
    BY <1>2 DEF ringbuffer_write
  <2> HIDE DEF g
  <2>4. Len(data) < g.freeSize
    <3>1. g.freeSize \in 1..g.size /\ ringbuffer_used(g) = g.size - g.freeSize
      BY <2>2 DEF BytesOK, ringbuffer_used
    <3>2. g.size \in Nat /\ rb.size - rb.freeSize = (rb.size + Len(data)) - g.freeSize
      BY <1>1, <2>2, <3>1
    <3> QED BY <1>1, <3>1, <3>2
  <2> QED BY <2>2, <2>3, <2>4, WrittenCarries DEF HasRoom
<1>3. CASE ~MustGrow(rb, Len(data))
  <2>1. Len(data) < rb.freeSize
    BY <1>1, <1>3 DEF MustGrow
  <2>2. ringbuffer_write(rb, data) = Written(rb, data)
    BY <1>3 DEF ringbuffer_write
  <2> QED BY <2>1, <2>2, WrittenCarries DEF HasRoom
<1> QED BY <1>2, <1>3

\* A remainder of a difference of two places.
LEMMA ModBelow ==
  ASSUME NEW c \in Nat \ {0}, NEW i \in 0..(c - 1), NEW r \in 0..(c - 1)
  PROVE  (i - r) % c = IF i >= r THEN i - r ELSE i - r + c
  OBVIOUS

\* Reading takes bytes from the front.
LEMMA AdvancedCarries ==
  ASSUME NEW rb, NEW f, NEW g, NEW sz \in 0..ringbuffer_used(rb), BytesOK(rb), Carries(rb, f),
         \A k \in 0..(ringbuffer_used(rb) - sz - 1) : g[k] = f[sz + k]
  PROVE  LET q == Advanced(rb, sz) IN
         BytesOK(q) /\ Carries(q, g) /\ ringbuffer_used(q) = ringbuffer_used(rb) - sz
<1> DEFINE q == Advanced(rb, sz)
           n == ringbuffer_used(rb)
           r == rb.readPtr
           c == rb.size
<1>1. /\ n \in 0..(c - 1) /\ r \in 0..(c - 1) /\ c \in Nat \ {0} /\ n = c - rb.freeSize
      /\ rb.freeSize \in 1..c /\ rb.writePtr = At(rb, n) /\ sz \in 0..n
  BY HeadsEqual DEF BytesOK, ringbuffer_used
<1>2. /\ \A k \in 0..(n - 1) : rb.buffer[At(rb, k)] = f[k]
      /\ \A k \in 0..(n - sz - 1) : g[k] = f[sz + k]
  BY DEF Carries
<1>3. /\ q.size = c /\ q.readPtr = (r + sz) % c /\ q.writePtr = rb.writePtr /\ q.freeSize = rb.freeSize + sz
      /\ q.buffer = [i \in 0..(c - 1) |-> IF (i - r) % c < sz THEN Garbage ELSE rb.buffer[i]]
  BY DEF Advanced, Bytes
<1>4. ringbuffer_used(q) = n - sz
  BY <1>1, <1>3 DEF ringbuffer_used
<1> DEFINE p == q.readPtr
<1>5. /\ \A k : At(rb, k) = IF r + k < c THEN r + k ELSE r + k - c
      /\ \A k : At(q, k) = IF p + k < c THEN p + k ELSE p + k - c
  BY <1>3 DEF At
<1> HIDE DEF q, n, r, c, p
<1>6. p = (IF r + sz < c THEN r + sz ELSE r + sz - c) /\ p \in 0..(c - 1)
  <2>1. sz \in 0..c
    BY <1>1
  <2>2. p = (r + sz) % c
    BY <1>3 DEF p
  <2> QED BY Zenon, <1>1, <2>1, <2>2, ModPlace
<1>7. ASSUME NEW k \in 0..(n - sz) PROVE At(q, k) = At(rb, sz + k)
  <2>1. (IF p + k < c THEN p + k ELSE p + k - c) = IF r + (sz + k) < c THEN r + (sz + k) ELSE r + (sz + k) - c
    BY <1>1, <1>6
  <2> QED BY <1>5, <2>1
<1>8. BytesOK(q)
  <2>1. n - sz \in 0..(n - sz) /\ sz + (n - sz) = n
    BY <1>1
  <2>2. q.writePtr = At(q, n - sz)
    BY Zenon, <1>1, <1>3, <1>7, <2>1
  <2>3. q.freeSize \in 1..c /\ q.readPtr \in 0..(c - 1)
    <3>1. rb.freeSize + sz \in 1..c
      BY <1>1
    <3>2. q.readPtr \in 0..(c - 1)
      BY Zenon, <1>6 DEF p
    <3> QED BY Zenon, <1>3, <3>1, <3>2
  <2> QED BY <1>1, <1>3, <1>4, <2>2, <2>3 DEF BytesOK
<1>9. ASSUME NEW k \in 0..(n - sz - 1) PROVE q.buffer[At(q, k)] = g[k]
  <2> DEFINE i == At(rb, sz + k)
  <2>1. i = IF r + (sz + k) < c THEN r + (sz + k) ELSE r + (sz + k) - c
    BY <1>5
  <2>2. rb.buffer[i] = f[sz + k] /\ At(q, k) = i
    BY <1>1, <1>2, <1>7
  <2> HIDE DEF i
  <2>3. i \in 0..(c - 1)
    BY <1>1, <2>1
  <2>4. (i - r) % c = IF i >= r THEN i - r ELSE i - r + c
    BY <1>1, <2>3, ModBelow
  <2>5. ~((i - r) % c < sz)
    BY <1>1, <2>1, <2>3, <2>4
  <2>6. q.buffer[i] = rb.buffer[i]
    BY <1>3, <2>3, <2>5
  <2> QED BY <1>2, <2>2, <2>6
<1>10. Carries(q, g)
  BY <1>4, <1>9 DEF Carries
<1> QED BY <1>4, <1>8, <1>10 DEF q, n

\* ringbuffer_commit_read_bytes takes the bytes that were read, also if the
\* array shrinks.
THEOREM CommitCarries ==
  ASSUME NEW rb, NEW f, NEW g, NEW sz \in 0..ringbuffer_used(rb), NEW shrink \in BOOLEAN,
         BytesOK(rb), Carries(rb, f),
         \A k \in 0..(ringbuffer_used(rb) - sz - 1) : g[k] = f[sz + k]
  PROVE  LET q == ringbuffer_commit_read_bytes(rb, sz, shrink) IN
         BytesOK(q) /\ Carries(q, g) /\ ringbuffer_used(q) = ringbuffer_used(rb) - sz
<1> DEFINE a == Advanced(rb, sz)
<1>1. BytesOK(a) /\ Carries(a, g) /\ ringbuffer_used(a) = ringbuffer_used(rb) - sz
  BY AdvancedCarries
<1>2. ringbuffer_used(rb) \in Nat
  BY HeadsEqual DEF BytesOK
<1> HIDE DEF a
<1>3. CASE sz < 1
  <2>1. sz = 0 /\ ringbuffer_commit_read_bytes(rb, sz, shrink) = rb
    BY <1>2, <1>3 DEF ringbuffer_commit_read_bytes
  <2> QED BY <1>2, <2>1 DEF Carries
<1>4. CASE ~(sz < 1) /\ MayShrink(a) /\ shrink
  <2>1. ringbuffer_commit_read_bytes(rb, sz, shrink) = ringbuffer_realloc(a, RingSize)
    BY <1>4 DEF ringbuffer_commit_read_bytes, a
  <2>2. ringbuffer_used(a) < RingSize /\ RingSize \in Nat
    BY <1>1, <1>2, <1>4, RingSizeAssumption DEF MayShrink
  <2> QED BY <1>1, <2>1, <2>2, ReallocKeeps
<1>5. CASE ~(sz < 1) /\ ~(MayShrink(a) /\ shrink)
  BY <1>1, <1>5 DEF ringbuffer_commit_read_bytes, a
<1> QED BY <1>3, <1>4, <1>5
=============================================================================
