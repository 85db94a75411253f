------------------------------- MODULE RingBuffer -------------------------------
(***************************************************************************)
(* RingBufferQueue: the blocks of one buffer of a cache entry, written once  *)
(* each by the entry's producer and read by any number of consumers on other *)
(* threads, without a lock.  A block has a version, even while it may not be *)
(* read and odd afterwards, to which each reader adds two.  One action per   *)
(* access to an atomic or to the bytes of a block.                           *)
(*                                                                         *)
(* The code orders the accesses with acquire and release, so a reader that   *)
(* has loaded an odd version sees what was stored before it: interleaving    *)
(* single accesses covers what the build can do.  Blocks count from 1.       *)
(***************************************************************************)
EXTENDS Naturals, Sequences

CONSTANTS
    Readers,   \* consumers of the entry
    Sizes,     \* MessageSize
    Bytes,     \* what writeBlockCb may copy into a block
    Capacity,  \* ring_buffer_capacity_
    HalfModulus, \* 2^31: half the number of values of a BlockVersion
    Nil        \* no read yet

ASSUME RingAssumption ==
    /\ Capacity \in Nat \ {0}
    /\ HalfModulus \in Nat \ {0}

Modulus == 2 * HalfModulus

Messages == [size : Sizes, bytes : Bytes]

VARIABLES
    block_counter, \* header_.block_counter_
    version,       \* version_ of each block
    size,          \* size_
    data,          \* data_
    \* the producer, in write()
    wpc,           \* the access it makes next
    message,       \* the size and the bytes it writes
    newVersion,    \* currentVersion
    \* the readers, in read()
    rpc,           \* the access each makes next
    blockIndex,
    readVersion,   \* version, as loaded
    readSize,      \* size, as loaded
    got            \* the block and the message of its last read

blockVars  == <<block_counter, version, size, data>>
writerVars == <<wpc, message, newVersion>>
readerVars == <<rpc, blockIndex, readVersion, readSize, got>>
vars == <<blockVars, writerVars, readerVars>>

Blocks == 1..Capacity

\* The contents of data_ that write() has not touched yet.
NoBytes == <<>>

Init ==
    /\ block_counter = 0
    /\ version = [b \in Blocks |-> 0]
    /\ size = [b \in Blocks |-> 0]
    /\ data = [b \in Blocks |-> NoBytes]
    /\ wpc = "idle"
    /\ message \in Messages
    /\ newVersion = 0
    /\ rpc = [r \in Readers |-> "idle"]
    /\ blockIndex = [r \in Readers |-> 1]
    /\ readVersion = [r \in Readers |-> 0]
    /\ readSize = [r \in Readers |-> 0]
    /\ got = [r \in Readers |-> Nil]

Odd(v) == v % 2 = 1

----------------------------------------------------------------------------
(* write(): the block it has reserved is the last one counted               *)

\* Mutation: one block too many.
RoomAtCapacity(n) == n <= Capacity
Room(n) == n < Capacity

\* The producer is the only writer: its load and fetch_add of the counter are
\* one step.  Where there is no room, write() returns false and changes nothing.
Reserve(m) ==
    /\ wpc = "idle"
    /\ Room(block_counter)
    /\ block_counter' = block_counter + 1
    /\ message' = m
    /\ wpc' = "version"
    /\ UNCHANGED <<version, size, data, newVersion, readerVars>>

\* A block that has been written before is made unreadable first.
LoadVersion ==
    /\ wpc = "version"
    /\ LET next == (version[block_counter] + 1) % Modulus IN
       IF Odd(version[block_counter])
       THEN /\ version' = [version EXCEPT ![block_counter] = next]
            /\ newVersion' = (next + 1) % Modulus
       ELSE /\ newVersion' = next
            /\ UNCHANGED version
    /\ wpc' = "size"
    /\ UNCHANGED <<block_counter, size, data, message, readerVars>>

StoreSize ==
    /\ wpc = "size"
    /\ size' = [size EXCEPT ![block_counter] = message.size]
    /\ wpc' = "data"
    /\ UNCHANGED <<block_counter, version, data, message, newVersion, readerVars>>

\* writeBlockCb.
CopyIn ==
    /\ wpc = "data"
    /\ data' = [data EXCEPT ![block_counter] = message.bytes]
    /\ wpc' = "publish"
    /\ UNCHANGED <<block_counter, version, size, message, newVersion, readerVars>>

PublishVersion ==
    /\ wpc = "publish"
    /\ version' = [version EXCEPT ![block_counter] = newVersion]
    /\ wpc' = "idle"
    /\ UNCHANGED <<block_counter, size, data, message, newVersion, readerVars>>

----------------------------------------------------------------------------
(* read()                                                                   *)

\* Mutation: a block is read whatever its version.
AlwaysReadable(v) == TRUE
Readable(v) == Odd(v)

\* An unreadable block makes read() return false, and its caller try again.
BeginRead(r, b) ==
    /\ rpc[r] = "idle"
    /\ Readable(version[b])
    /\ blockIndex' = [blockIndex EXCEPT ![r] = b]
    /\ readVersion' = [readVersion EXCEPT ![r] = version[b]]
    /\ rpc' = [rpc EXCEPT ![r] = "size"]
    /\ UNCHANGED <<readSize, got, blockVars, writerVars>>

LoadSize(r) ==
    /\ rpc[r] = "size"
    /\ readSize' = [readSize EXCEPT ![r] = size[blockIndex[r]]]
    /\ rpc' = [rpc EXCEPT ![r] = "data"]
    /\ UNCHANGED <<blockIndex, readVersion, got, blockVars, writerVars>>

CopyOut(r) ==
    /\ rpc[r] = "data"
    /\ got' = [got EXCEPT ![r] =
                  [index |-> blockIndex[r],
                   message |-> [size |-> readSize[r], bytes |-> data[blockIndex[r]]]]]
    /\ rpc' = [rpc EXCEPT ![r] = "mark"]
    /\ UNCHANGED <<blockIndex, readVersion, readSize, blockVars, writerVars>>

\* Mutation: a read adds one.
MarkedOnce(v) == (v + 1) % Modulus
Marked(v) == (v + 2) % Modulus

\* The new version is that of r's own load: marks of other readers are lost.
MarkRead(r) ==
    /\ rpc[r] = "mark"
    /\ version' = [version EXCEPT ![blockIndex[r]] = Marked(readVersion[r])]
    /\ rpc' = [rpc EXCEPT ![r] = "idle"]
    /\ UNCHANGED <<block_counter, size, data, writerVars, blockIndex, readVersion,
                   readSize, got>>

----------------------------------------------------------------------------

Next ==
    \/ \E m \in Messages : Reserve(m)
    \/ LoadVersion
    \/ StoreSize
    \/ CopyIn
    \/ PublishVersion
    \/ \E r \in Readers, b \in Blocks : BeginRead(r, b)
    \/ \E r \in Readers : LoadSize(r) \/ CopyOut(r) \/ MarkRead(r)

Spec == Init /\ [][Next]_vars

----------------------------------------------------------------------------
(* Properties                                                               *)

Versions == 0..(Modulus - 1)

TypeOK ==
    /\ block_counter \in 0..Capacity
    /\ version \in [Blocks -> Versions]
    /\ size \in [Blocks -> Sizes \union {0}]
    /\ data \in [Blocks -> Bytes \union {NoBytes}]
    /\ wpc \in {"idle", "version", "size", "data", "publish"}
    /\ message \in Messages
    /\ newVersion \in Versions
    /\ rpc \in [Readers -> {"idle", "size", "data", "mark"}]
    /\ blockIndex \in [Readers -> Blocks]
    /\ readVersion \in [Readers -> Versions]
    /\ readSize \in [Readers -> Sizes \union {0}]
    /\ got \in [Readers -> [index : Blocks, message : Messages] \union {Nil}]

\* ring_buffer.cc:50-53 copies the bytes of a block without a lock, while
\* ring_buffer.cc:37 may be writing those of another: never of the same one.
NoRacyCopy ==
    \A r \in Readers : rpc[r] # "idle" /\ wpc # "idle" => blockIndex[r] # block_counter

\* The number of blocks that can be read.
Published == IF wpc = "idle" THEN block_counter ELSE block_counter - 1

BL == INSTANCE BlockLog WITH
          log  <- [b \in 1..Published |-> [size |-> size[b], bytes |-> data[b]]],
          seen <- got

\* See BlockLog.
BlockLogSpec == BL!Spec

\* A block can be read exactly if it has been published, however often it was
\* read before: its version stays odd through lost marks and through overflow.
PublishedReadable ==
    \A b \in Blocks : Odd(version[b]) <=> b <= Published
=================================================================================
