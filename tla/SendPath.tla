----------------------------- MODULE SendPath ------------------------------
(***************************************************************************)
(* The streams of one transport: sending (rdp_send and its siblings in     *)
(* rdp.c, transport_write), receiving (transport_check_fds) and the pool   *)
(* from which both take their streams (StreamPool.c), with the flags of    *)
(* the security header, rdp->sec_flags, that the senders share.  A stream  *)
(* is used by one thread or is in the pool; its counter says which.        *)
(***************************************************************************)
EXTENDS Integers, Sequences, SequencesExt, FiniteSets

CONSTANTS
  Streams,       \* bound: streams that are ever allocated
  NoStream,
  Receiver,      \* the thread that runs transport_check_fds, and sends as well
  Senders,       \* other threads that send
  CountModulus,  \* wStream.count is a DWORD: 2^32
  PoolCapacity   \* aCapacity at first: 32

ASSUME StreamsAssumption == NoStream \notin Streams /\ IsFiniteSet(Streams) /\ Streams # {}
ASSUME PoolAssumption    == PoolCapacity \in Nat \ {0} /\ CountModulus \in Nat \ {0, 1}

SendThreads == Senders \cup {Receiver}

VARIABLES
  aArray,     \* streams in the pool
  aCapacity,
  uArray,     \* streams that were taken
  refs,       \* refs[s]: s->count
  sender,     \* sender[t]: what t does with stream[t]
  stream,
  prepared,   \* prepared[t]: the bytes that t left free for the security header, and
              \* the flags with which it will call rdp_security_stream_out
  receiver,   \* "read", "callback", "returning"
  ReceiveBuffer,
  received,
  sec_flags,
  do_crypt,
  do_crypt_license,  \* the peer takes licensing packets encrypted
  header      \* the last packet: bytes left free, bytes of its security header (observed)

poolState == <<aArray, aCapacity, uArray, refs>>
sendState == <<sender, stream, prepared>>
recvState == <<receiver, ReceiveBuffer, received>>
secState  == <<sec_flags, do_crypt, do_crypt_license, header>>
pathVars  == <<poolState, sendState, recvState, secState>>

----------------------------------------------------------------------------
(* StreamPool.c.  Each operation is one step: it has the lock of the pool. *)

\* Mutated form of StreamPool_Take: the stream is left in the pool.
StreamPool_TakeKept(s) ==
  /\ s \in ToSet(aArray) \/ s \notin ToSet(uArray)
  /\ UNCHANGED aArray
  /\ uArray' = Append(uArray, s)
  /\ refs' = [refs EXCEPT ![s] = 1]
  /\ UNCHANGED aCapacity

\* The first one that is large enough, or a new one: with the sizes left out,
\* one of the pool or one that is not yet allocated.
StreamPool_Take(s) ==
  /\ s \in ToSet(aArray) \/ s \notin ToSet(uArray)
  /\ aArray' = Remove(aArray, s)
  /\ uArray' = Append(uArray, s)
  /\ refs' = [refs EXCEPT ![s] = 1]
  /\ UNCHANGED aCapacity

\* Mutated form of Resized: shrinks to the size that is needed, off by one.
ResizedTight(size, capacity) ==
  IF size + 1 >= capacity THEN capacity * 2
  ELSE IF (size + 1) * 3 < capacity THEN size
  ELSE capacity

Resized(size, capacity) ==
  IF size + 1 >= capacity THEN capacity * 2
  ELSE IF (size + 1) * 3 < capacity THEN capacity \div 2
  ELSE capacity

StreamPool_Return(s) ==
  /\ aCapacity' = Resized(Len(aArray), aCapacity)
  /\ aArray' = Append(aArray, s)
  /\ uArray' = IF s \in ToSet(uArray) THEN RemoveAt(uArray, CHOOSE i \in DOMAIN uArray :
                   uArray[i] = s /\ \A j \in 1..(i - 1) : uArray[j] # s) ELSE uArray
  /\ UNCHANGED refs

\* Stream_Release up to the unlock; the caller returns the stream if it is 0.
Decrement(s) ==
  /\ refs' = [refs EXCEPT ![s] = (@ - 1) % CountModulus]
  /\ UNCHANGED <<aArray, aCapacity, uArray>>

LastReference(s) == (refs[s] - 1) % CountModulus = 0

\* The stream that transport_new takes.
FirstStream == CHOOSE s \in Streams : TRUE

PathInit ==
  /\ aArray = <<>> /\ aCapacity = PoolCapacity
  /\ uArray = <<FirstStream>> /\ ReceiveBuffer = FirstStream
  /\ refs = [s \in Streams |-> IF s = FirstStream THEN 1 ELSE 0]
  /\ sender = [t \in SendThreads |-> "idle"]
  /\ stream = [t \in SendThreads |-> NoStream]
  /\ prepared = [t \in SendThreads |-> [bytes |-> 0, flags |-> {}]]
  /\ receiver = "read" /\ received = NoStream
  /\ sec_flags = {} /\ do_crypt = FALSE /\ do_crypt_license = FALSE
  /\ header = [reserved |-> 0, written |-> 0]

----------------------------------------------------------------------------
(* Sending.                                                                *)

Step(t, p) == sender' = [sender EXCEPT ![t] = p]

\* rdp_security_stream_init: room for the header, and the flags that it sets.
\* With FIPS the header of an encrypted packet has 4 bytes more, here and there.
HeaderRoom(crypt, flags) == IF crypt THEN 12 ELSE IF flags # {} THEN 4 ELSE 0

\* Mutated form of FlagsBefore: license_send_stream_init adds its flags.
FlagsBeforeOr(kind) ==
  CASE kind = "info" -> sec_flags \cup {"info"}
    [] kind = "license" -> sec_flags \cup {"license"}
    [] OTHER -> sec_flags

\* rdp_send_client_info adds SEC_INFO_PKT, license_send_stream_init starts again
\* from SEC_LICENSE_PKT, the others do not look.
FlagsBefore(kind) ==
  CASE kind = "info" -> sec_flags \cup {"info"}
    [] kind = "license" -> {"license"}
    [] OTHER -> sec_flags

\* rdp_send_stream_init, rdp_message_channel_pdu_init (whose caller has flags of
\* its own) and license_send_stream_init (which may switch encryption off).
rdp_send_stream_init(t, s, kind) ==
  LET crypt == do_crypt /\ (kind = "license" => do_crypt_license)
      own   == IF kind = "message" THEN {"message"} ELSE {}
  IN /\ sender[t] = "idle"
     /\ StreamPool_Take(s)
     /\ stream' = [stream EXCEPT ![t] = s]
     /\ prepared' = [prepared EXCEPT ![t] =
          [bytes |-> HeaderRoom(crypt, FlagsBefore(kind) \cup own), flags |-> own]]
     /\ sec_flags' = FlagsBefore(kind) \cup (IF crypt THEN {"encrypt"} ELSE {})
     /\ Step(t, "prepared")
     /\ UNCHANGED <<recvState, do_crypt, do_crypt_license, header>>

\* The caller drops the stream after an error, or the security header fails: the
\* flags stay.
Abandon(t) ==
  /\ sender[t] = "prepared"
  /\ Decrement(stream[t])
  /\ Step(t, IF LastReference(stream[t]) THEN "return" ELSE "idle")
  /\ UNCHANGED <<stream, prepared, recvState, secState>>

HeaderSize(flags) == IF "encrypt" \in flags THEN 12 ELSE IF flags # {} THEN 4 ELSE 0

rdp_security_stream_out(t) ==
  LET flags == sec_flags \cup prepared[t].flags
  IN /\ sender[t] = "prepared"
     /\ header' = [reserved |-> prepared[t].bytes, written |-> HeaderSize(flags)]
     /\ sec_flags' = {}
     /\ Step(t, "write")
     /\ UNCHANGED <<poolState, stream, prepared, recvState, do_crypt, do_crypt_license>>

\* transport_write: the packet, then Stream_Release; last says that the caller
\* does not release the stream itself (rdp_send_pdu).
transport_write_release(t, last) ==
  /\ sender[t] = "write"
  /\ Decrement(stream[t])
  /\ Step(t, IF LastReference(stream[t])
               THEN IF last THEN "return" ELSE "return, release"
               ELSE IF last THEN "idle" ELSE "release")
  /\ UNCHANGED <<stream, prepared, recvState, secState>>

\* Its StreamPool_Return.
ReturnStream(t) ==
  /\ sender[t] \in {"return", "return, release"}
  /\ StreamPool_Return(stream[t])
  /\ Step(t, IF sender[t] = "return" THEN "idle" ELSE "release")
  /\ UNCHANGED <<stream, prepared, recvState, secState>>

\* The Stream_Release of rdp_send, rdp_send_data_pdu and the others.
rdp_send_release(t) ==
  /\ sender[t] = "release"
  /\ Decrement(stream[t])
  /\ Step(t, IF LastReference(stream[t]) THEN "return" ELSE "idle")
  /\ UNCHANGED <<stream, prepared, recvState, secState>>

\* rdp_client_establish_keys and rdp_server_establish_keys, between two packets:
\* the server encrypts licensing packets if the client's flags say so.
rdp_establish_keys ==
  /\ sender[Receiver] = "idle" /\ ~do_crypt
  /\ do_crypt' = TRUE /\ do_crypt_license' \in BOOLEAN
  /\ UNCHANGED <<poolState, sendState, recvState, sec_flags, header>>

----------------------------------------------------------------------------
(* transport_check_fds.                                                    *)

\* A PDU is complete: the stream that has it is replaced.
TakeReceiveBuffer(s) ==
  /\ receiver = "read" /\ sender[Receiver] = "idle"
  /\ StreamPool_Take(s)
  /\ received' = ReceiveBuffer /\ ReceiveBuffer' = s
  /\ receiver' = "callback"
  /\ UNCHANGED <<sendState, secState>>

\* ReceiveCallback, which may send, has returned.
ReleaseReceived ==
  /\ receiver = "callback" /\ sender[Receiver] = "idle"
  /\ Decrement(received)
  /\ receiver' = IF LastReference(received) THEN "returning" ELSE "read"
  /\ UNCHANGED <<sendState, ReceiveBuffer, received, secState>>

ReturnReceived ==
  /\ receiver = "returning"
  /\ StreamPool_Return(received)
  /\ receiver' = "read"
  /\ UNCHANGED <<sendState, ReceiveBuffer, received, secState>>

SendStep(t) ==
  \/ \E s \in Streams, kind \in {"pdu", "info", "license", "message"} :
       rdp_send_stream_init(t, s, kind)
  \/ Abandon(t) \/ rdp_security_stream_out(t)
  \/ \E last \in BOOLEAN : transport_write_release(t, last)
  \/ ReturnStream(t) \/ rdp_send_release(t)

PathNext ==
  \/ \E t \in SendThreads : (t = Receiver => receiver # "returning") /\ SendStep(t)
  \/ rdp_establish_keys
  \/ \E s \in Streams : TakeReceiveBuffer(s)
  \/ ReleaseReceived \/ ReturnReceived

PathSpec == PathInit /\ [][PathNext]_pathVars

----------------------------------------------------------------------------
(* Properties.                                                             *)

\* The counter of a stream stays that of an unsigned DWORD (Stream_Release), and
\* pool and threads hold streams.
PathTypeOK ==
  /\ aArray \in Seq(Streams) /\ uArray \in Seq(Streams) /\ aCapacity \in Nat
  /\ refs \in [Streams -> 0..(CountModulus - 1)]
  /\ stream \in [SendThreads -> Streams \cup {NoStream}]
  /\ ReceiveBuffer \in Streams /\ received \in Streams \cup {NoStream}
  /\ receiver \in {"read", "callback", "returning"}
  /\ sec_flags \subseteq {"encrypt", "info", "license"} /\ do_crypt \in BOOLEAN

\* The streams in which somebody's data is: the one that is received into, the
\* one whose PDU is handled, those that are being sent.
InUse ==
  {ReceiveBuffer} \cup (IF receiver = "callback" THEN {received} ELSE {})
    \cup {stream[t] : t \in {u \in SendThreads : sender[u] \in {"prepared", "write"}}}

\* The note at transport_check_fds: ReceiveBuffer is always a stream that
\* nobody else uses and that the pool will give to nobody else.
FreshReceiveBuffer ==
  /\ ReceiveBuffer \notin ToSet(aArray)
  /\ receiver = "callback" => received # ReceiveBuffer
  /\ \A t \in SendThreads : sender[t] \in {"prepared", "write"} => stream[t] # ReceiveBuffer

\* A stream in use is not in the pool, and a stream is in the pool once, although
\* most senders release a stream that transport_write has released before.
PoolHasOnlyReturned ==
  /\ InUse \cap ToSet(aArray) = {}
  /\ Cardinality(ToSet(aArray)) = Len(aArray)
  /\ InUse \subseteq ToSet(uArray)

\* The array of the pool is never smaller than its content.
PoolFits == Len(aArray) <= aCapacity

\* The bytes that the stream left free at its start are those that the security
\* header takes: otherwise header or data is overwritten.
HeaderFits == header.reserved = header.written
=============================================================================
