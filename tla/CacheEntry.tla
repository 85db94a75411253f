------------------------------- MODULE CacheEntry -------------------------------
(***************************************************************************)
(* A cache entry while it is written and read: CacheEntryProducer turns the  *)
(* encode callbacks of one response into blocks, in one section of the entry *)
(* for headers, one for data and one for trailers; any number of             *)
(* CacheEntryConsumers turn the blocks back into calls on their own streams,  *)
(* at the same time or later.  A section is a list of buffers of             *)
(* single_buffer_blocks_capacity_ blocks each; a buffer is the append-only    *)
(* log that RingBuffer implements, so one step writes or reads a block.      *)
(*                                                                         *)
(* A string is a sequence of bytes, of which the code tells two apart: One    *)
(* (0xFF), and Zero, of which the array of ones consists until a consumer's  *)
(* constructor fills it.  A block holds at most BlockSize bytes.  A header   *)
(* or trailer map is a sequence of fields [key, value].                     *)
(***************************************************************************)
EXTENDS Integers, Sequences, SequencesExt

CONSTANTS
    Consumers,  \* CacheEntryConsumers, one in each filter
    Founder,    \* the one in the filter of the producer
    Bytes,      \* what strings consist of
    Responses,  \* what the origin may send: records [headers, data, trailers]
    Capacities, \* the values of single_buffer_blocks_capacity_
    BlockSize,  \* BLOCK_SIZE_BYTES
    One,        \* the byte 0xFF
    Zero,       \* the byte 0
    MaxCount,   \* UINT32_MAX, for a number of blocks that is not known yet
    Nil         \* a response without trailers

Strings == Seq(Bytes)
Fields == [key : Strings, value : Strings]

ASSUME EntryAssumption ==
    /\ BlockSize \in Nat \ {0}
    /\ Capacities \subseteq Nat \ {0}
    /\ MaxCount \in Nat
    /\ Founder \in Consumers
    /\ One \in Bytes /\ Zero \in Bytes /\ One # Zero
    /\ \A response \in Responses :
          /\ response.headers \in Seq(Fields)
          /\ response.data \in Seq(Strings)
          /\ response.trailers \in Seq(Fields) \union {Nil}

VARIABLES
    capacity, \* single_buffer_blocks_capacity_ of the entry
    calls,    \* the encode callbacks the producer's filter has still to get
    \* the entry
    buffers,  \* headers_buffers_, data_buffers_ and trailers_buffers_
    count,    \* headers_block_count_ and data_block_count_
    \* the producer
    section,  \* the section buffers_ points to
    todo,     \* the strings and delimiters the current write call has to write
    first_write, \* whether no block of the first of them is written
    data_offset, \* how much of it is
    current_block_count,
    headers_write_complete,
    data_write_complete,
    complete, \* whether writeComplete() has run
    \* the consumers
    block_with_ones, \* what consumers compare blocks with, static
    is_block_with_ones_initialized,
    reader,   \* the state of each CacheEntryConsumer
    out,      \* the calls it has made on the stream it serves
    sent      \* history: the response

stringVars == <<todo, first_write, data_offset>>
producerVars == <<section, stringVars, current_block_count, headers_write_complete,
                  data_write_complete, complete>>
onesVars == <<block_with_ones, is_block_with_ones_initialized>>
consumerVars == <<onesVars, reader, out>>
vars == <<capacity, calls, buffers, count, producerVars, consumerVars, sent>>

Sections == {"headers", "data", "trailers"}

----------------------------------------------------------------------------
(* Calls                                                                    *)

Call(s, content, end) == [section |-> s, content |-> content, end |-> end]

\* The encode callbacks that Envoy makes for a response; the last one ends the
\* stream, trailers always do.
CallsOf(response) ==
    LET n == Len(response.data)
        last == response.trailers = Nil
    IN <<Call("headers", response.headers, n = 0 /\ last)>>
       \o [i \in 1..n |-> Call("data", response.data[i], i = n /\ last)]
       \o IF last THEN <<>> ELSE <<Call("trailers", response.trailers, TRUE)>>

----------------------------------------------------------------------------
(* Framing: what writeStringToBuffer() and writeDelimiterBlock() write       *)

Ones == [i \in 1..BlockSize |-> One]
Zeros == [i \in 1..BlockSize |-> Zero]

Delimiter(end) == IF end THEN Ones ELSE <<>>

\* An item a write call has to write.
Item(bytes, delimiter) == [bytes |-> bytes, delimiter |-> delimiter]

\* collectAndWriteHeadersCb, for every field: its key and its value.
MapItems(map) ==
    [i \in 1..(2 * Len(map)) |->
        Item(IF i % 2 = 1 THEN map[(i + 1) \div 2].key ELSE map[i \div 2].value, FALSE)]

\* What one call of writeHeaders, writeData or writeTrailers writes; trailers
\* are delimited as if more were to come.
CallItems(call) ==
    CASE call.section = "headers" ->
            MapItems(call.content) \o <<Item(Delimiter(call.end), TRUE)>>
      [] call.section = "data" ->
            <<Item(call.content, FALSE), Item(Delimiter(call.end), TRUE)>>
      [] call.section = "trailers" ->
            MapItems(call.content) \o <<Item(Delimiter(FALSE), TRUE)>>

\* writeToBlock() fills a block from the string at the offset ...
FullBlock(string) ==
    /\ ~string.delimiter
    /\ first_write \/ data_offset # 0
    /\ Len(string.bytes) - data_offset >= BlockSize

\* ... and the offset is then behind that block, or 0 if the string ends there.
\* Mutation: it is not reset when the string ends with a full block.
OffsetKept(string) == data_offset + BlockSize
OffsetAfter(string) ==
    IF Len(string.bytes) - data_offset > BlockSize THEN data_offset + BlockSize ELSE 0

\* The block behind the loop: what it left in the block, if anything.
Remainder(string) ==
    IF first_write \/ data_offset # 0
    THEN SubSeq(string.bytes, data_offset + 1, Len(string.bytes))
    ELSE <<>>

\* The next block of the first item, and how the item goes on.
NextBlock ==
    IF FullBlock(Head(todo))
    THEN [block  |-> SubSeq(Head(todo).bytes, data_offset + 1, data_offset + BlockSize),
          offset |-> OffsetAfter(Head(todo)), over |-> FALSE]
    ELSE [block  |-> IF Head(todo).delimiter THEN Head(todo).bytes ELSE Remainder(Head(todo)),
          offset |-> 0, over |-> TRUE]

----------------------------------------------------------------------------

NewReader ==
    [section |-> "unborn", waiting |-> TRUE, read_block_count |-> 0, buffer_index |-> 1,
     block_index |-> 1, text |-> <<>>, data |-> <<>>, key_length |-> 0, key_read_done |-> FALSE,
     fields |-> <<>>, batch_complete |-> FALSE, end_stream |-> FALSE]

Init ==
    /\ capacity \in Capacities
    /\ sent \in Responses
    /\ calls = CallsOf(sent)
    /\ buffers = [s \in Sections |-> <<>>]
    /\ count = [s \in {"headers", "data"} |-> MaxCount]
    /\ section = "headers"
    /\ todo = <<>>
    /\ first_write = TRUE
    /\ data_offset = 0
    /\ current_block_count = 0
    /\ headers_write_complete = FALSE
    /\ data_write_complete = FALSE
    /\ complete = FALSE
    /\ is_block_with_ones_initialized \in BOOLEAN
    /\ block_with_ones = IF is_block_with_ones_initialized THEN Ones ELSE Zeros
    /\ reader = [c \in Consumers |-> NewReader]
    /\ out = [c \in Consumers |-> <<>>]

----------------------------------------------------------------------------
(* The producer, in the filter's encode callbacks                           *)

\* The next callback is for section s; what its write call writes is to do.
NextCall(s) ==
    /\ todo = <<>>
    /\ calls # <<>>
    /\ Head(calls).section = s
    /\ todo' = CallItems(Head(calls))
    /\ calls' = Tail(calls)
    /\ section' = s
    /\ UNCHANGED <<capacity, buffers, first_write, data_offset, complete, consumerVars, sent>>

\* The filter that owns the producer, and creates the entry, is there, with its
\* consumer.
FounderThere == reader[Founder].section \notin {"unborn", "fill"}

EncodeHeaders ==
    /\ FounderThere
    /\ NextCall("headers")
    /\ UNCHANGED <<count, current_block_count, headers_write_complete,
                   data_write_complete>>

\* What current_block_count_ is after headersWriteComplete().
\* Mutation: the reset is missing.
CountKept(n) == n
CountReset(n) == 0

\* The first data stores the number of header blocks: headersWriteComplete().
EncodeData ==
    /\ NextCall("data")
    /\ IF headers_write_complete
       THEN UNCHANGED <<count, current_block_count, headers_write_complete>>
       ELSE /\ count' = [count EXCEPT !["headers"] = current_block_count]
            /\ current_block_count' = CountReset(current_block_count)
            /\ headers_write_complete' = TRUE
    /\ UNCHANGED data_write_complete

\* Trailers store the number of data blocks: dataWriteComplete().
EncodeTrailers ==
    /\ NextCall("trailers")
    /\ count' = [count EXCEPT !["data"] = current_block_count]
    /\ data_write_complete' = TRUE
    /\ UNCHANGED <<current_block_count, headers_write_complete>>

\* Whether the last buffer of the section takes no more blocks.
LastFull == buffers[section] # <<>> => Len(Last(buffers[section])) >= capacity

\* writeBlockToBuffer() puts a new buffer in place, under the section's lock ...
EmplaceBuffer ==
    /\ todo # <<>>
    /\ LastFull
    /\ buffers' = [buffers EXCEPT ![section] = Append(@, <<>>)]
    /\ UNCHANGED <<capacity, calls, count, producerVars, consumerVars, sent>>

\* ... and writes the block to the last one.
WriteBlock ==
    /\ todo # <<>>
    /\ ~LastFull
    /\ buffers' = [buffers EXCEPT ![section][Len(buffers[section])] = Append(@, NextBlock.block)]
    /\ todo' = IF NextBlock.over THEN Tail(todo) ELSE todo
    /\ first_write' = NextBlock.over
    /\ data_offset' = NextBlock.offset
    /\ current_block_count' = current_block_count + 1
    /\ UNCHANGED <<capacity, calls, count, section, headers_write_complete,
                   data_write_complete, complete, consumerVars, sent>>

\* encodeComplete(): writeComplete() stores the count that is missing, or writes
\* the block that ends the trailers.
WriteComplete ==
    /\ todo = <<>>
    /\ calls = <<>>
    /\ ~complete
    /\ complete' = TRUE
    /\ IF ~headers_write_complete
       THEN count' = [count EXCEPT !["headers"] = current_block_count] /\ UNCHANGED todo
       ELSE IF ~data_write_complete
       THEN count' = [count EXCEPT !["data"] = current_block_count] /\ UNCHANGED todo
       ELSE todo' = <<Item(Delimiter(TRUE), TRUE)>> /\ UNCHANGED count
    /\ UNCHANGED <<capacity, calls, buffers, section, first_write, data_offset,
                   current_block_count, headers_write_complete, data_write_complete,
                   consumerVars, sent>>

----------------------------------------------------------------------------
(* The parser of a consumer: the state c that a block b makes of it, with the *)
(* call it makes on the stream, if any.                                     *)

Silent(c) == [state |-> c, call |-> <<>>]

AddField(c) ==
    [c EXCEPT !.fields = Append(@, [key   |-> SubSeq(c.text, 1, c.key_length),
                                    value |-> SubSeq(c.text, c.key_length + 1, Len(c.text))]),
              !.text = <<>>, !.key_length = 0, !.key_read_done = FALSE]

\* The fields so far go to the stream; encodeTrailers() has no end_stream, it
\* always ends the stream.
EncodeFields(c, end) ==
    [state |-> [c EXCEPT !.fields = <<>>, !.end_stream = @ \/ end],
     call  |-> <<Call(c.section, c.fields, c.section = "trailers" \/ end)>>]

\* isDataBlockIndicatingEndStream().
IndicatesEnd(b) == b = block_with_ones

\* parseAndEncodeHeaders() and parseAndEncodeTrailers().
ParseField(c, b) ==
    LET longer == [c EXCEPT !.text = @ \o b] IN
    CASE c.key_length = 0 /\ IndicatesEnd(b) -> EncodeFields(c, TRUE)
      [] c.key_length = 0 /\ b = <<>> -> EncodeFields(c, FALSE)
      [] c.key_read_done /\ Len(b) < BlockSize -> Silent(AddField(longer))
      [] c.key_read_done /\ Len(b) = BlockSize -> Silent(longer)
      [] OTHER ->
            Silent([longer EXCEPT !.key_length = @ + Len(b),
                                  !.key_read_done = Len(b) < BlockSize])

EncodeBatch(c, end) ==
    [state |-> [c EXCEPT !.data = <<>>, !.batch_complete = FALSE, !.end_stream = @ \/ end],
     call  |-> <<Call("data", c.data, end)>>]

\* Whether a block ends the stream, to parseAndEncodeData().
\* Mutation: data of that content are taken for the end, too.
EndsAnywhere(c, b) == IndicatesEnd(b)
EndsData(c, b) == c.batch_complete /\ IndicatesEnd(b)

ParseData(c, b) ==
    CASE EndsData(c, b) -> EncodeBatch(c, TRUE)
      [] c.batch_complete /\ b = <<>> -> EncodeBatch(c, FALSE)
      [] OTHER ->
            Silent([c EXCEPT !.data = @ \o b,
                             !.batch_complete = @ \/ Len(b) < BlockSize])

Parse(c, b) == IF c.section = "data" THEN ParseData(c, b) ELSE ParseField(c, b)

----------------------------------------------------------------------------
(* The consumers                                                            *)

\* The constructor: the first one sets the flag, and then fills the array.
Construct(r) ==
    /\ reader[r].section = "unborn"
    /\ is_block_with_ones_initialized' = TRUE
    /\ reader' = [reader EXCEPT ![r].section =
                      IF is_block_with_ones_initialized THEN "idle" ELSE "fill"]
    /\ UNCHANGED <<capacity, calls, buffers, count, producerVars, block_with_ones, out, sent>>

FillOnes(r) ==
    /\ reader[r].section = "fill"
    /\ block_with_ones' = Ones
    /\ reader' = [reader EXCEPT ![r].section = "idle"]
    /\ UNCHANGED <<capacity, calls, buffers, count, producerVars,
                   is_block_with_ones_initialized, out, sent>>

\* serveHeaders(), serveData() or serveTrailers() begins.
\* Mutation: it goes on at the index of the section before.
EnterMidway(c, s) ==
    [c EXCEPT !.section = s, !.waiting = TRUE, !.fields = <<>>,
              !.read_block_count = IF s = "trailers" THEN @ ELSE 0]
Enter(c, s) == [c EXCEPT !.section = s, !.waiting = TRUE, !.fields = <<>>,
                         !.read_block_count = IF s = "trailers" THEN @ ELSE 0,
                         !.buffer_index = 1, !.block_index = 1]

\* What serveHeaders() resets of the stream before.
\* Mutation: nothing.
StaleStart(c) == c
FreshStart(c) == [c EXCEPT !.end_stream = FALSE]

\* A founder's consumer serves one stream after the other.
ServeCachedResponse(r) ==
    /\ FounderThere
    /\ reader[r].section \in {"idle", "done"}
    /\ reader' = [reader EXCEPT ![r] = Enter(FreshStart(@), "headers")]
    /\ out' = [out EXCEPT ![r] = <<>>]
    /\ UNCHANGED <<capacity, calls, buffers, count, producerVars, onesVars, sent>>

\* Whether c has read as many blocks as its section has.
ReadAll(c) ==
    /\ c.section \in {"headers", "data"}
    /\ c.read_block_count >= count[c.section]

\* busyWaitToGetNext...Buffer() finds the next buffer in place.
GetBuffer(r) ==
    /\ reader[r].section \in Sections
    /\ reader[r].waiting
    /\ ~ReadAll(reader[r])
    /\ reader[r].buffer_index <= Len(buffers[reader[r].section])
    /\ reader' = [reader EXCEPT ![r].waiting = FALSE]
    /\ UNCHANGED <<capacity, calls, buffers, count, producerVars, onesVars, out, sent>>

\* Only headers and data are counted.
Counted(c) == [c EXCEPT !.read_block_count = IF c.section = "trailers" THEN @ ELSE @ + 1]

\* The indices after a block; at the end of a buffer the next one is needed.
\* Mutation: the reader stays in its buffer.
SameBuffer(c) == [Counted(c) EXCEPT !.block_index = @ + 1]
Advanced(c) ==
    IF c.block_index = capacity
    THEN [Counted(c) EXCEPT !.block_index = 1, !.buffer_index = @ + 1, !.waiting = TRUE]
    ELSE [Counted(c) EXCEPT !.block_index = @ + 1]

\* A block that has been written is read and parsed.  Trailers end the loop as
\* soon as the end is read, headers and data only by their count.
ReadBlock(r) ==
    LET c == reader[r] IN
    /\ c.section \in Sections
    /\ ~c.waiting
    /\ ~ReadAll(c)
    /\ c.block_index \in DOMAIN buffers[c.section][c.buffer_index]
    /\ LET parsed == Parse(c, buffers[c.section][c.buffer_index][c.block_index])
           ended  == c.section = "trailers" /\ parsed.state.end_stream
       IN /\ reader' = [reader EXCEPT ![r] = IF ended THEN Enter(parsed.state, "done")
                                             ELSE Advanced(parsed.state)]
          /\ out' = [out EXCEPT ![r] = @ \o parsed.call]
    /\ UNCHANGED <<capacity, calls, buffers, count, producerVars, onesVars, sent>>

\* What serveCachedResponse() does after the section of c.
After(c) == IF c.end_stream THEN "done" ELSE IF c.section = "headers" THEN "data"
                                                                      ELSE "trailers"

LeaveSection(r) ==
    /\ ReadAll(reader[r])
    /\ reader' = [reader EXCEPT ![r] = Enter(@, After(@))]
    /\ UNCHANGED <<capacity, calls, buffers, count, producerVars, onesVars, out, sent>>

----------------------------------------------------------------------------

ProducerStep ==
    \/ EncodeHeaders
    \/ EncodeData
    \/ EncodeTrailers
    \/ EmplaceBuffer
    \/ WriteBlock
    \/ WriteComplete

ConsumerStep(r) ==
    \/ FillOnes(r)
    \/ GetBuffer(r)
    \/ ReadBlock(r)
    \/ LeaveSection(r)

Next ==
    \/ ProducerStep
    \/ \E r \in Consumers : Construct(r) \/ ServeCachedResponse(r) \/ ConsumerStep(r)

Spec == Init /\ [][Next]_vars

\* The origin goes on with its response, and a consumer that can go on does so;
\* nothing makes a filter come or a consumer serve a stream.
Fairness == WF_vars(ProducerStep) /\ \A r \in Consumers : WF_vars(ConsumerStep(r))

FairSpec == Spec /\ Fairness

----------------------------------------------------------------------------
(* Properties                                                               *)

\* How many blocks section s holds, its buffers but the last being full.
Blocks(s) ==
    IF buffers[s] = <<>> THEN 0
    ELSE (Len(buffers[s]) - 1) * capacity + Len(Last(buffers[s]))

ReaderStates ==
    [section : Sections \union {"unborn", "fill", "idle", "done"}, waiting : BOOLEAN,
     read_block_count : Nat, buffer_index : Nat \ {0}, block_index : 1..capacity,
     text : Strings, data : Strings, key_length : Nat, key_read_done : BOOLEAN,
     fields : Seq(Fields), batch_complete : BOOLEAN, end_stream : BOOLEAN]

\* The callbacks that are left, as an Envoy stream makes them.
CallSet ==
    [section : {"headers", "trailers"}, content : Seq(Fields), end : BOOLEAN]
        \union [section : {"data"}, content : Strings, end : BOOLEAN]

TypeOK ==
    /\ capacity \in Capacities
    /\ sent \in Responses
    /\ calls \in Seq(CallSet)
    /\ buffers \in [Sections -> Seq(Seq(Strings))]
    /\ count \in [{"headers", "data"} -> Nat]
    /\ section \in Sections
    /\ todo \in Seq([bytes : Strings, delimiter : BOOLEAN])
    /\ first_write \in BOOLEAN
    /\ data_offset \in Nat
    /\ current_block_count \in Nat
    /\ headers_write_complete \in BOOLEAN
    /\ data_write_complete \in BOOLEAN
    /\ complete \in BOOLEAN
    /\ is_block_with_ones_initialized \in BOOLEAN
    /\ block_with_ones \in {Ones, Zeros}
    /\ reader \in [Consumers -> ReaderStates]

\* writeToBlock() subtracts the offset from the length of a string and takes it
\* for a position in it: an offset is never left over from the string before,
\* nor behind the end of this one (size_t would wrap).
OffsetInString ==
    data_offset # 0 =>
        /\ todo # <<>>
        /\ ~Head(todo).delimiter
        /\ ~first_write
        /\ data_offset < Len(Head(todo).bytes)

\* Once a count is stored it is the number of blocks of the section, for good.
CountsExact ==
    \A s \in {"headers", "data"} : count[s] # MaxCount => count[s] = Blocks(s)

\* The number of blocks of its section in front of a consumer's indices.
Position(c) == (c.buffer_index - 1) * capacity + c.block_index - 1

\* However far the producer is, a consumer stands at the block it has counted,
\* never behind what is written, and in a buffer of its section: the block it
\* waits for is the one that the producer writes next.
Behind(c) ==
    c.section \in Sections =>
        /\ Position(c) <= Blocks(c.section)
        /\ c.section # "trailers" => c.read_block_count = Position(c)
        /\ ~c.waiting => c.buffer_index \in DOMAIN buffers[c.section]
ReadersBehind == \A r \in Consumers : Behind(reader[r])

\* Whether a loop of c finds what it waits for: its count, a buffer, or a block.
CanGoOn(c) ==
    \/ ReadAll(c)
    \/ c.waiting /\ c.buffer_index \in DOMAIN buffers[c.section]
    \/ ~c.waiting /\ c.block_index \in DOMAIN buffers[c.section][c.buffer_index]

\* serveCachedResponse() spins on counts, buffers and blocks.  Once the producer has
\* written its last block, no consumer spins on one that never comes, in whatever
\* section it is.
NeverStuck ==
    complete /\ todo = <<>> =>
        \A r \in Consumers : reader[r].section \in Sections => CanGoOn(reader[r])

\* The calls a consumer makes for a response: those of the origin, and, after
\* trailers, a second encodeTrailers() with none, for the block that ends them.
Streamed(response) ==
    CallsOf(response)
        \o IF response.trailers = Nil THEN <<>> ELSE <<Call("trailers", <<>>, TRUE)>>

Live == INSTANCE LiveEntry WITH
    Readers  <- Consumers,
    Scripts  <- {Streamed(response) : response \in Responses},
    script   <- Streamed(sent),
    made     <- IF complete THEN Len(Streamed(sent)) ELSE Len(CallsOf(sent)) - Len(calls),
    over     <- complete,
    phase    <- [r \in Consumers |->
                    CASE reader[r].section \in Sections -> "serving"
                      [] reader[r].section = "done"    -> "done"
                      [] OTHER                         -> "idle"]

\* README.md:22, "stream the response real-time": framing, buffers and parser
\* amount to calls that reach each stream as the origin made them, content and
\* end_stream alike, in order, none before the origin made it, and
\* serveCachedResponse() returns only when the response is complete and served.
LiveEntrySpec == Live!Spec

\* A consumer that has begun is done in the end.
ServeReturns ==
    \A r \in Consumers : reader[r].section \in Sections ~> reader[r].section = "done"
=================================================================================
