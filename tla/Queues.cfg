\* Two producers and two consumers on a ring of two slots that grows twice; a
\* queue of objects that is cleared; an output buffer of four bytes that grows
\* and shrinks before a socket that takes two; one thread that sends and
\* receives with three streams.
CONSTANTS
  Quit = Quit
  Zero = Zero
  Objects = {m1, m2, Quit}
  InitialCapacity = 2
  GrowthFactor = 2
  Producers = {p1, p2}
  Consumers = {c1, c2}
  MaxSize = 5
  MaxObjects = 5
  RingSize = 4
  Garbage = Garbage
  ByteValues = 8
  MaxChunk = 3
  MaxPending = 7
  SocketRoom = 2
  Streams = {s1, s2, s3}
  NoStream = NoStream
  Receiver = r
  Senders = {}
  CountModulus = 4
  PoolCapacity = 2
SPECIFICATION QueuesSpec
CHECK_DEADLOCK FALSE
INVARIANTS
  EventWhenNonEmpty
  NothingLost
  PoolHasOnlyReturned
  PoolFits
  HeaderFits
PROPERTIES
  ImplementsFifo
  QuitArrives
  QueueImplementsFifo
  EveryByteLeaves
