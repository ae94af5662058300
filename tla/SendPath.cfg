\* A second thread that sends while the first receives: the stream that the
\* comment in transport_check_fds calls fresh.
SPECIFICATION PathSpec
CONSTANTS
  Streams = {s1, s2, s3}
  NoStream = NoStream
  Receiver = r
  Senders = {q}
  CountModulus = 4
  PoolCapacity = 2
CHECK_DEADLOCK FALSE
INVARIANT FreshReceiveBuffer
