---------------------------- MODULE RingBufferProofs ----------------------------
(***************************************************************************)
(* Proofs about RingBuffer: for every capacity, number of readers and width  *)
(* of a version, a block can be read exactly when it has been published, no  *)
(* reader copies the bytes the producer is writing, and the buffer is the    *)
(* append-only log of BlockLog.                                             *)
(***************************************************************************)
EXTENDS RingBuffer, SequenceTheorems, TLAPS

----------------------------------------------------------------------------
(* Versions                                                                 *)

LEMMA ModulusNat == Modulus \in Nat \ {0} /\ 0 \in Versions /\ 1 \in Versions
BY RingAssumption, SMTT(30) DEF Modulus, Versions

LEMMA ModSmall ==
    ASSUME NEW m \in Nat \ {0}, NEW x \in 0..(m - 1)
    PROVE  x % m = x /\ (x + m) % m = x
BY SMTT(30)

\* The first version of a block that is published.
LEMMA FirstVersion == ~Odd(0) /\ (0 + 1) % Modulus = 1 /\ Odd(1)
<1>1. (0 + 1) % Modulus = 1
  BY ModulusNat, ModSmall DEF Versions
<1> QED BY <1>1, SMTT(30) DEF Odd

\* A mark leaves an odd version odd, through an overflow too.
LEMMA MarkedOdd ==
    ASSUME NEW v \in Versions, Odd(v)
    PROVE  Marked(v) \in Versions /\ Odd(Marked(v))
<1>1. v + 2 < Modulus \/ v + 2 = 1 + Modulus
  BY RingAssumption, SMTT(30) DEF Modulus, Odd, Versions
<1>2. CASE v + 2 < Modulus
  <2>1. Marked(v) = v + 2
    BY <1>2, ModulusNat, ModSmall DEF Marked, Versions
  <2>2. Odd(v + 2)
    BY SMTT(30) DEF Odd, Versions
  <2> QED BY <1>2, <2>1, <2>2, ModulusNat DEF Versions
<1>3. CASE v + 2 = 1 + Modulus
  <2>1. Marked(v) = 1
    BY <1>3, ModulusNat, ModSmall DEF Marked, Versions
  <2> QED BY <2>1, ModulusNat, FirstVersion
<1> QED BY <1>1, <1>2, <1>3

----------------------------------------------------------------------------
(* The inductive invariant                                                  *)

\* A block that is not published has never been written: its version is 0.
Unwritten == \A b \in Blocks : b > Published => version[b] = 0

PublishedOdd == \A b \in Blocks : b <= Published => Odd(version[b])

\* Between reserve and publication the producer has a block, an odd version to
\* give it from the second access on, and then its size and its bytes in place.
Writing ==
    /\ wpc # "idle" => block_counter \in Blocks
    /\ wpc \in {"size", "data", "publish"} => newVersion = 1
    /\ wpc \in {"data", "publish"} => size[block_counter] = message.size
    /\ wpc = "publish" => data[block_counter] = message.bytes

\* A reader in read() has found a published block with an odd version, and its
\* size is that of the block.
Reading ==
    \A r \in Readers : rpc[r] # "idle" =>
        /\ blockIndex[r] <= Published
        /\ Odd(readVersion[r])
        /\ rpc[r] \in {"data", "mark"} => readSize[r] = size[blockIndex[r]]

\* What has been published is a message.
Contents ==
    \A b \in Blocks : b <= Published => size[b] \in Sizes /\ data[b] \in Bytes

IInv == TypeOK /\ Unwritten /\ PublishedOdd /\ Writing /\ Reading /\ Contents

LEMMA PublishedType == ASSUME IInv PROVE Published \in 0..Capacity
BY RingAssumption DEF IInv, TypeOK, Writing, Published, Blocks

LEMMA InitIInv == ASSUME Init PROVE IInv
<1>1. Published = 0
  BY DEF Init, Published
<1>2. 1 \in Blocks
  BY RingAssumption DEF Blocks
<1>3. TypeOK
  BY <1>2, ModulusNat, RingAssumption DEF Init, TypeOK
<1>4. Unwritten /\ PublishedOdd /\ Contents
  BY <1>1, RingAssumption DEF Init, Unwritten, PublishedOdd, Contents, Blocks
<1>5. Writing /\ Reading
  BY DEF Init, Writing, Reading
<1> QED BY <1>3, <1>4, <1>5 DEF IInv

LEMMA NextIInv == ASSUME IInv, [Next]_vars PROVE IInv'
<1> USE RingAssumption, ModulusNat DEF IInv
<1>1. CASE UNCHANGED vars
  BY <1>1 DEF vars, blockVars, writerVars, readerVars, TypeOK, Unwritten, Published,
              PublishedOdd, Writing, Reading, Contents
<1>2. ASSUME NEW m \in Messages, Reserve(m) PROVE IInv'
  <2>1. Published' = Published
    BY <1>2 DEF Reserve, Published, TypeOK
  <2>2. TypeOK'
    BY <1>2 DEF Reserve, readerVars, TypeOK, Room
  <2>3. Unwritten' /\ PublishedOdd' /\ Contents'
    BY <1>2, <2>1 DEF Reserve, Unwritten, PublishedOdd, Contents
  <2>4. Writing'
    BY <1>2 DEF Reserve, Writing, Room, TypeOK, Blocks
  <2>5. Reading'
    BY <1>2, <2>1 DEF Reserve, readerVars, Reading
  <2> QED BY <2>2, <2>3, <2>4, <2>5
<1>3. CASE LoadVersion
  <2>1. block_counter \in Blocks /\ version[block_counter] = 0
    BY <1>3 DEF LoadVersion, Writing, Unwritten, Published, TypeOK, Blocks
  <2>2. newVersion' = 1 /\ UNCHANGED version
    BY <1>3, <2>1, FirstVersion DEF LoadVersion
  <2>3. Published' = Published
    BY <1>3 DEF LoadVersion, Published
  <2>4. TypeOK'
    BY <1>3, <2>2 DEF LoadVersion, readerVars, TypeOK
  <2>5. Unwritten' /\ PublishedOdd' /\ Contents'
    BY <1>3, <2>2, <2>3 DEF LoadVersion, Unwritten, PublishedOdd, Contents
  <2>6. Writing'
    BY <1>3, <2>1, <2>2 DEF LoadVersion, Writing
  <2>7. Reading'
    BY <1>3, <2>3 DEF LoadVersion, readerVars, Reading
  <2> QED BY <2>4, <2>5, <2>6, <2>7
<1>4. CASE StoreSize
  <2>1. Published' = Published /\ block_counter \in Blocks /\ block_counter > Published
    BY <1>4 DEF StoreSize, Published, Writing, Blocks
  <2>2. \A b \in Blocks : b <= Published => size'[b] = size[b]
    BY <1>4, <2>1, PublishedType DEF StoreSize, TypeOK, Blocks
  <2>3. TypeOK'
    BY <1>4 DEF StoreSize, readerVars, TypeOK, Messages
  <2>4. Unwritten' /\ PublishedOdd'
    BY <1>4, <2>1 DEF StoreSize, Unwritten, PublishedOdd
  <2>5. Contents'
    BY <1>4, <2>1, <2>2 DEF StoreSize, Contents
  <2>6. Writing'
    BY <1>4, <2>1 DEF StoreSize, Writing, TypeOK
  <2>7. Reading'
    BY <1>4, <2>1, <2>2 DEF StoreSize, readerVars, Reading, TypeOK
  <2> QED BY <2>3, <2>4, <2>5, <2>6, <2>7
<1>5. CASE CopyIn
  <2>1. Published' = Published /\ block_counter \in Blocks /\ block_counter > Published
    BY <1>5 DEF CopyIn, Published, Writing, Blocks
  <2>2. \A b \in Blocks : b <= Published => data'[b] = data[b]
    BY <1>5, <2>1, PublishedType DEF CopyIn, TypeOK, Blocks
  <2>3. TypeOK'
    BY <1>5 DEF CopyIn, readerVars, TypeOK, Messages
  <2>4. Unwritten' /\ PublishedOdd'
    BY <1>5, <2>1 DEF CopyIn, Unwritten, PublishedOdd
  <2>5. Contents'
    BY <1>5, <2>1, <2>2 DEF CopyIn, Contents
  <2>6. Writing'
    BY <1>5, <2>1 DEF CopyIn, Writing, TypeOK
  <2>7. Reading'
    BY <1>5, <2>1 DEF CopyIn, readerVars, Reading
  <2> QED BY <2>3, <2>4, <2>5, <2>6, <2>7
<1>6. CASE PublishVersion
  <2>1. /\ Published = block_counter - 1 /\ Published' = block_counter
        /\ block_counter \in Blocks /\ block_counter \in Nat
    BY <1>6 DEF PublishVersion, Published, Writing, Blocks
  <2>2. version' = [version EXCEPT ![block_counter] = 1]
    BY <1>6 DEF PublishVersion, Writing
  <2>3. TypeOK'
    <3>1. version' \in [Blocks -> Versions]
      BY <1>6 DEF PublishVersion, TypeOK
    <3> QED BY <1>6, <3>1 DEF PublishVersion, readerVars, TypeOK
  <2>4. Unwritten'
    BY <2>1, <2>2 DEF Unwritten, TypeOK, Blocks
  <2>5. PublishedOdd'
    <3> SUFFICES ASSUME NEW b \in Blocks, b <= block_counter PROVE Odd(version'[b])
      BY <2>1 DEF PublishedOdd
    <3>1. CASE b = block_counter
      BY <2>1, <2>2, <3>1, FirstVersion DEF TypeOK
    <3>2. CASE b # block_counter
      <4>1. b <= Published
        BY <2>1, <3>2 DEF Blocks
      <4> QED BY <2>2, <3>2, <4>1 DEF TypeOK, PublishedOdd
    <3> QED BY <3>1, <3>2
  <2>6. Contents'
    BY <1>6, <2>1 DEF PublishVersion, Contents, Writing, TypeOK, Messages, Blocks
  <2>7. Writing'
    BY <1>6 DEF PublishVersion, Writing
  <2>8. Reading'
    BY <1>6, <2>1 DEF PublishVersion, readerVars, Reading, TypeOK, Blocks
  <2> QED BY <2>3, <2>4, <2>5, <2>6, <2>7, <2>8
<1>7. ASSUME NEW r \in Readers, NEW b \in Blocks, BeginRead(r, b) PROVE IInv'
  <2>1. b <= Published
    BY <1>7, FirstVersion DEF BeginRead, Readable, Unwritten, Published, TypeOK, Blocks
  <2>2. Published' = Published
    BY <1>7 DEF BeginRead, blockVars, writerVars, Published
  <2>3. TypeOK'
    BY <1>7 DEF BeginRead, blockVars, writerVars, TypeOK
  <2>4. Unwritten' /\ PublishedOdd' /\ Contents'
    BY <1>7, <2>2 DEF BeginRead, blockVars, Unwritten, PublishedOdd, Contents
  <2>5. Writing'
    BY <1>7 DEF BeginRead, blockVars, writerVars, Writing
  <2>6. Reading'
    BY <1>7, <2>1, <2>2 DEF BeginRead, blockVars, Reading, TypeOK, Readable
  <2> QED BY <2>3, <2>4, <2>5, <2>6
<1>8. ASSUME NEW r \in Readers, LoadSize(r) PROVE IInv'
  <2>1. Published' = Published
    BY <1>8 DEF LoadSize, blockVars, writerVars, Published
  <2>2. TypeOK'
    BY <1>8 DEF LoadSize, blockVars, writerVars, TypeOK
  <2>3. Unwritten' /\ PublishedOdd' /\ Contents' /\ Writing'
    BY <1>8, <2>1 DEF LoadSize, blockVars, writerVars, Unwritten, PublishedOdd,
                      Contents, Writing
  <2>4. Reading'
    BY <1>8, <2>1 DEF LoadSize, blockVars, Reading, TypeOK
  <2> QED BY <2>2, <2>3, <2>4
<1>9. ASSUME NEW r \in Readers, CopyOut(r) PROVE IInv'
  <2>1. Published' = Published
    BY <1>9 DEF CopyOut, blockVars, writerVars, Published
  <2>2. TypeOK'
    <3> DEFINE m == [size |-> readSize[r], bytes |-> data[blockIndex[r]]]
    <3>1. m \in Messages
      BY <1>9 DEF CopyOut, Reading, Contents, TypeOK, Messages
    <3>2. got' = [got EXCEPT ![r] = [index |-> blockIndex[r], message |-> m]]
      BY <1>9 DEF CopyOut
    <3> HIDE DEF m
    <3>3. got' \in [Readers -> [index : Blocks, message : Messages] \union {Nil}]
      BY <3>1, <3>2 DEF TypeOK
    <3> QED BY <1>9, <3>3 DEF CopyOut, blockVars, writerVars, TypeOK
  <2>3. Unwritten' /\ PublishedOdd' /\ Contents' /\ Writing'
    BY <1>9, <2>1 DEF CopyOut, blockVars, writerVars, Unwritten, PublishedOdd,
                      Contents, Writing
  <2>4. Reading'
    BY <1>9, <2>1 DEF CopyOut, blockVars, Reading, TypeOK
  <2> QED BY <2>2, <2>3, <2>4
<1>10. ASSUME NEW r \in Readers, MarkRead(r) PROVE IInv'
  <2>1. Published' = Published
    BY <1>10 DEF MarkRead, writerVars, Published
  <2>2. blockIndex[r] \in Blocks /\ blockIndex[r] <= Published
    BY <1>10 DEF MarkRead, Reading, TypeOK
  <2>3. Marked(readVersion[r]) \in Versions /\ Odd(Marked(readVersion[r]))
    BY <1>10, MarkedOdd DEF MarkRead, Reading, TypeOK
  <2>4. TypeOK'
    BY <1>10, <2>3 DEF MarkRead, writerVars, TypeOK
  <2>5. Unwritten'
    BY <1>10, <2>1, <2>2, PublishedType DEF MarkRead, Unwritten, TypeOK, Blocks
  <2>6. PublishedOdd'
    BY <1>10, <2>1, <2>3 DEF MarkRead, PublishedOdd, TypeOK
  <2>7. Contents' /\ Writing'
    BY <1>10, <2>1 DEF MarkRead, writerVars, Contents, Writing
  <2>8. Reading'
    BY <1>10, <2>1 DEF MarkRead, Reading, TypeOK
  <2> QED BY <2>4, <2>5, <2>6, <2>7, <2>8
<1> QED BY <1>1, <1>2, <1>3, <1>4, <1>5, <1>6, <1>7, <1>8, <1>9, <1>10 DEF Next

LEMMA Invariance == Spec => []IInv
BY InitIInv, NextIInv, PTL DEF Spec

----------------------------------------------------------------------------
(* Safety                                                                   *)

\* The state of the buffer is well-typed.
THEOREM TypeCorrect == Spec => []TypeOK
<1>1. IInv => TypeOK
  BY DEF IInv
<1> QED BY <1>1, Invariance, PTL

\* read() returns a block exactly when write() has published it: no number of
\* reads, lost marks or overflows of a version takes it away.
THEOREM ReadableExactly == Spec => []PublishedReadable
<1>1. IInv => PublishedReadable
  <2> SUFFICES ASSUME IInv, NEW b \in Blocks
               PROVE  Odd(version[b]) <=> b <= Published
    BY DEF PublishedReadable
  <2>1. b <= Published \/ b > Published
    BY DEF IInv, TypeOK, Published, Blocks
  <2> QED BY <2>1, FirstVersion DEF IInv, Unwritten, PublishedOdd
<1> QED BY <1>1, Invariance, PTL

\* The two memcpys of ring_buffer.cc never touch the same block at one time.
THEOREM CopiesDisjoint == Spec => []NoRacyCopy
<1>1. IInv => NoRacyCopy
  BY DEF IInv, TypeOK, Reading, NoRacyCopy, Published, Blocks
<1> QED BY <1>1, Invariance, PTL

----------------------------------------------------------------------------
(* Refinement                                                               *)

Log == [b \in 1..Published |-> [size |-> size[b], bytes |-> data[b]]]

LEMMA LogSeq ==
    ASSUME IInv
    PROVE  Published \in 0..Capacity /\ Log \in Seq(Messages) /\ Len(Log) = Published
<1>1. Published \in 0..Capacity
  BY PublishedType
<1>2. \A b \in 1..Published : [size |-> size[b], bytes |-> data[b]] \in Messages
  BY <1>1, RingAssumption DEF IInv, Contents, Messages, Blocks
<1>3. Log \in [1..Published -> Messages]
  BY <1>2 DEF Log
<1>4. Log \in Seq(Messages)
  BY <1>1, <1>3
<1> QED BY <1>1, <1>3, <1>4

\* A step that leaves the number of published blocks and what is in them alone
\* leaves the log alone.
LEMMA LogSame ==
    ASSUME Published' = Published,
           \A b \in 1..Published : size'[b] = size[b] /\ data'[b] = data[b]
    PROVE  Log' = Log
BY DEF Log

LEMMA StepRefines ==
    ASSUME IInv, IInv', [Next]_vars
    PROVE  [BL!Next]_<<Log, got>>
<1> USE RingAssumption
<1>1. CASE UNCHANGED vars
  BY <1>1 DEF vars, blockVars, writerVars, readerVars, Log, Published
<1>2. ASSUME NEW m \in Messages, Reserve(m) PROVE UNCHANGED <<Log, got>>
  <2>1. Published' = Published
    BY <1>2 DEF Reserve, Published, IInv, TypeOK
  <2> QED BY <1>2, <2>1, LogSame DEF Reserve, readerVars
<1>3. CASE LoadVersion
  <2>1. Published' = Published
    BY <1>3 DEF LoadVersion, Published
  <2> QED BY <1>3, <2>1, LogSame DEF LoadVersion, readerVars
<1>4. CASE StoreSize
  <2>1. Published' = Published /\ block_counter \notin 1..Published
    BY <1>4 DEF StoreSize, Published, IInv, TypeOK
  <2>2. \A b \in 1..Published : size'[b] = size[b]
    BY <1>4, <2>1, LogSeq DEF StoreSize, IInv, TypeOK, Blocks
  <2> QED BY <1>4, <2>1, <2>2, LogSame DEF StoreSize, readerVars
<1>5. CASE CopyIn
  <2>1. Published' = Published /\ block_counter \notin 1..Published
    BY <1>5 DEF CopyIn, Published, IInv, TypeOK
  <2>2. \A b \in 1..Published : data'[b] = data[b]
    BY <1>5, <2>1, LogSeq DEF CopyIn, IInv, TypeOK, Blocks
  <2> QED BY <1>5, <2>1, <2>2, LogSame DEF CopyIn, readerVars
<1>6. ASSUME PublishVersion PROVE BL!Next
  <2>1. Published = block_counter - 1 /\ Published' = Published + 1
        /\ block_counter \in 1..Capacity
    BY <1>6 DEF PublishVersion, Published, IInv, TypeOK, Writing, Blocks
  <2>2. [size |-> size[block_counter], bytes |-> data[block_counter]] = message
    BY <1>6 DEF PublishVersion, IInv, TypeOK, Writing, Messages
  <2>3. Len(Log) = Published /\ Log \in Seq(Messages)
    BY LogSeq
  <2>4. Log' = Append(Log, message)
    <3>1. Log' = [b \in 1..(Published + 1) |-> [size |-> size[b], bytes |-> data[b]]]
      BY <1>6, <2>1 DEF PublishVersion, Log
    <3>2. Append(Log, message) = [b \in 1..(Published + 1) |->
                                    IF b <= Published THEN Log[b] ELSE message]
      <4>1. Published \in Nat
        BY LogSeq
      <4>2. message \in Messages
        BY DEF IInv, TypeOK
      <4> DEFINE s == Append(Log, message)
      <4>3. /\ s \in Seq(Messages) /\ Len(s) = Published + 1
            /\ \A b \in 1..(Published + 1) :
                  s[b] = IF b <= Published THEN Log[b] ELSE message
        BY <2>3, <4>1, <4>2, AppendProperties
      <4>4. s = [b \in 1..(Published + 1) |-> s[b]]
        BY <4>3, LenProperties
      <4> HIDE DEF s
      <4>5. s = [b \in 1..(Published + 1) |->
                    IF b <= Published THEN Log[b] ELSE message]
        BY <4>3, <4>4
      <4> QED BY <4>5 DEF s
    <3>3. \A b \in 1..(Published + 1) :
             [size |-> size[b], bytes |-> data[b]]
                 = IF b <= Published THEN Log[b] ELSE message
      BY <2>1, <2>2 DEF Log
    <3> QED BY <3>1, <3>2, <3>3
  <2>5. PICK m \in Messages : m = message
    BY DEF IInv, TypeOK
  <2>6. BL!Write(m)
    BY <1>6, <2>1, <2>3, <2>4, <2>5 DEF PublishVersion, readerVars, BL!Write, Log
  <2> QED BY <2>6 DEF BL!Next
<1>7. ASSUME NEW r \in Readers, NEW b \in Blocks, BeginRead(r, b)
      PROVE  UNCHANGED <<Log, got>>
  BY <1>7 DEF BeginRead, blockVars, writerVars, Log, Published
<1>8. ASSUME NEW r \in Readers, LoadSize(r) PROVE UNCHANGED <<Log, got>>
  BY <1>8 DEF LoadSize, blockVars, writerVars, Log, Published
<1>9. ASSUME NEW r \in Readers, CopyOut(r) PROVE BL!Next
  <2> DEFINE i == blockIndex[r]
  <2>1. i \in 1..Published /\ i \in 1..Capacity /\ readSize[r] = size[i]
    BY <1>9 DEF CopyOut, IInv, Reading, TypeOK, Blocks, Published
  <2>2. DOMAIN Log = 1..Published /\ Log[i] = [size |-> size[i], bytes |-> data[i]]
    BY <2>1 DEF Log
  <2>3. Log' = Log
    BY <1>9 DEF CopyOut, blockVars, writerVars, Log, Published
  <2>4. BL!Read(r, i)
    BY <1>9, <2>1, <2>2, <2>3 DEF CopyOut, BL!Read, Log
  <2> QED BY <2>1, <2>4 DEF BL!Next
<1>10. ASSUME NEW r \in Readers, MarkRead(r) PROVE UNCHANGED <<Log, got>>
  BY <1>10 DEF MarkRead, writerVars, Log, Published
<1> QED BY <1>1, <1>2, <1>3, <1>4, <1>5, <1>6, <1>7, <1>8, <1>9, <1>10 DEF Next

\* The buffer is an append-only log: what read() returns is, whole, the message
\* that write() published at that place.
THEOREM LogImplemented == Spec => BlockLogSpec
<1>1. Init => BL!Init
  BY DEF Init, BL!Init, Published
<1>2. IInv /\ IInv' /\ [Next]_vars => [BL!Next]_<<Log, got>>
  BY StepRefines
<1> QED BY <1>1, <1>2, Invariance, PTL DEF Spec, BlockLogSpec, BL!Spec, Log
=================================================================================
