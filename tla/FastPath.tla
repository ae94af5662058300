----------------------------- MODULE FastPath ------------------------------
(***************************************************************************)
(* Fast-path updates (fastpath.c): the server cuts an update into          *)
(* fragments, the client puts them together.  Before, the two have agreed  *)
(* on the largest update (the multifragment capability sets of             *)
(* capabilities.c).  The bytes of an update are pairs: its number and      *)
(* their place in it.                                                      *)
(***************************************************************************)
EXTENDS Integers, Sequences

CONSTANTS
  MaxPacket,     \* FASTPATH_MAX_PACKET_SIZE, 0x3FFF
  SafeSize,      \* FASTPATH_FRAGMENT_SAFE_SIZE, 0x3F80
  MaxLength,     \* FASTPATH_MAX_PACKET_SIZE - 20
  MaxCompressed, \* the maxLength of 8K compression, 8192 - 20
  Announced,     \* bound: values of MultifragMaxRequestSize before the exchange
  MaxUpdate,     \* bound: the longest update a caller asks for
  MaxInFlight,   \* bound: fragments on their way to the client
  Updates        \* bound: updates are numbered modulo this

ASSUME FastPathAssumption ==
  /\ {MaxPacket, SafeSize, MaxLength, MaxCompressed, MaxInFlight, Updates} \subseteq Nat \ {0}
  /\ SafeSize <= MaxLength /\ MaxLength < MaxPacket
  /\ MaxUpdate \in Nat
  /\ Announced \subseteq Nat /\ \A a \in Announced : a >= SafeSize

VARIABLES
  serverMax,      \* settings->MultifragMaxRequestSize of the server
  clientMax,      \* ... and of the client
  update,         \* the update that is sent: number, totalLength, what is left of it,
  total,
  left,
  fragment,       \* fragment: the index of the next fragment, or -1 between updates
  compress,       \* CompressionEnabled && !skipCompression, with 8K compression
  pdus,           \* fragments on their way to the client
  fragmentation,  \* fastpath->fragmentation
  updateData,     \* fastpath->updateData, up to its position
  rejected,       \* fastpath_recv_update_data returned -1: the client disconnects
  garbled         \* the client got an update that was not sent (observed)

serverSide == <<update, total, left, fragment, compress>>
clientSide == <<fragmentation, updateData, rejected, garbled>>
fpVars == <<serverMax, clientMax, serverSide, pdus, clientSide>>

----------------------------------------------------------------------------
(* rdp_read_multifragment_update_capability_set.                           *)

\* The client gets the value of the server in the Demand Active PDU ...
ClientReads(server, client) == IF server > client THEN server ELSE client

\* ... and the server what the client announces in the Confirm Active PDU.
ServerReads(server, client, remoteFx) ==
  LET announced == IF client < MaxPacket THEN SafeSize ELSE client
  IN  IF remoteFx /\ announced >= server THEN server ELSE announced

FastPathInit ==
  /\ serverMax = 0 /\ clientMax = 0 /\ compress = FALSE   \* before the exchange
  /\ update = 0 /\ total = 0 /\ left = 0 /\ fragment = -1
  /\ pdus = <<>>
  /\ fragmentation = "none"   \* -1, fastpath_new
  /\ updateData = <<>>
  /\ rejected = FALSE /\ garbled = FALSE

Exchange ==
  /\ clientMax = 0
  /\ \E s, c \in Announced, remoteFx \in BOOLEAN :
       /\ clientMax' = ClientReads(s, c)
       /\ serverMax' = ServerReads(s, ClientReads(s, c), remoteFx)
  /\ compress' \in BOOLEAN
  /\ UNCHANGED <<update, total, left, fragment, pdus, clientSide>>

----------------------------------------------------------------------------
(* fastpath_send_update_pdu.                                               *)

\* The checks before the loop; a longer update is refused, and the caller told.
fastpath_send_update_pdu(length) ==
  /\ clientMax > 0 /\ fragment = -1 /\ ~rejected
  /\ length <= serverMax
  /\ update' = (update + 1) % Updates
  /\ total' = length /\ left' = length /\ fragment' = 0
  /\ UNCHANGED <<serverMax, clientMax, compress, pdus, clientSide>>

maxLength == IF compress THEN MaxCompressed ELSE MaxLength

Fragmentation(size) ==
  IF left - size = 0
    THEN IF fragment = 0 THEN "SINGLE" ELSE "LAST"
    ELSE IF fragment = 0 THEN "FIRST" ELSE "NEXT"

\* One round of the loop: at least one, also for an empty update.
SendFragment ==
  /\ fragment # -1 /\ Len(pdus) < MaxInFlight
  /\ LET size == IF left > maxLength THEN maxLength ELSE left IN
     /\ pdus' = Append(pdus,
          [fragmentation |-> Fragmentation(size), update |-> update, whole |-> total,
           data |-> [i \in 1..size |-> <<update, (total - left) + i>>]])
     /\ left' = left - size
     /\ fragment' = IF left' = 0 THEN -1 ELSE fragment + 1
  /\ UNCHANGED <<serverMax, clientMax, update, total, compress, clientSide>>

----------------------------------------------------------------------------
(* fastpath_recv_update_data.                                              *)

\* A fragment that does not belong here, or that makes the update too long.
Unexpected(f, size) ==
  \/ f \in {"SINGLE", "FIRST"} /\ fragmentation # "none"
  \/ f \in {"NEXT", "LAST"} /\ fragmentation = "none"
  \/ f # "SINGLE" /\ size > clientMax

\* Mutated form of Position: the data of the last update is kept.
PositionKept(f, data) == data

\* The position of updateData: back at the start once fastpath_recv_update has
\* had the update.
Position(f, data) == IF f \in {"SINGLE", "LAST"} THEN <<>> ELSE data

fastpath_recv_update_data ==
  /\ pdus # <<>> /\ ~rejected
  /\ LET pdu  == Head(pdus)
         data == updateData \o pdu.data
         bad  == Unexpected(pdu.fragmentation, Len(data))
     IN  /\ rejected' = bad
         /\ updateData' = IF bad THEN data ELSE Position(pdu.fragmentation, data)
         /\ fragmentation' =
              IF bad THEN fragmentation
              ELSE IF pdu.fragmentation \in {"FIRST", "NEXT"} THEN pdu.fragmentation
              ELSE "none"
         /\ garbled' =
              (garbled \/ (~bad /\ pdu.fragmentation \in {"SINGLE", "LAST"}
                            /\ data # [i \in 1..pdu.whole |-> <<pdu.update, i>>]))
  /\ pdus' = Tail(pdus)
  /\ UNCHANGED <<serverMax, clientMax, serverSide>>

FastPathNext ==
  \/ Exchange
  \/ \E length \in 0..MaxUpdate : fastpath_send_update_pdu(length)
  \/ SendFragment
  \/ fastpath_recv_update_data

FastPathSpec == FastPathInit /\ [][FastPathNext]_fpVars

----------------------------------------------------------------------------
(* Properties.                                                             *)

\* The client handles the updates that the server was asked to send, byte for
\* byte: no fragment of one is left in the data of the next.
UpdatesIntact == ~garbled

\* The client takes everything that the server sends within the size on which
\* they have agreed.
NeverRejected == ~rejected

\* The claim at FASTPATH_FRAGMENT_SAFE_SIZE, where it holds: an update of that
\* size or less is not cut into fragments, unless it is compressed.
SafeIsUnfragmented ==
  \A i \in 1..Len(pdus) :
    ~compress /\ pdus[i].whole <= SafeSize => pdus[i].fragmentation = "SINGLE"

\* The data that the client holds back belongs to the update that it is in:
\* outside of one there is none.
HeldBackOfOneUpdate ==
  ~rejected =>
    /\ fragmentation = "none" => updateData = <<>>
    /\ \A i \in 1..Len(updateData) : updateData[i] = <<updateData[1][1], i>>
=============================================================================
