---------------------------- MODULE CacheEntryProofs ----------------------------
(***************************************************************************)
(* Proofs about CacheEntry: its types, the offset that the producer keeps    *)
(* into the string it writes, the counts it stores for the consumers, and    *)
(* where these stand.  That the consumers make the calls of the origin is     *)
(* proved in CacheEntryRefinement, from what is proved here.                 *)
(***************************************************************************)
EXTENDS CacheEntry, SequenceTheorems, TLAPS

----------------------------------------------------------------------------
(* Data                                                                     *)

Items == [bytes : Strings, delimiter : BOOLEAN]

LEMMA OnesAndZeros ==
    /\ Ones \in Strings
    /\ Zeros \in Strings
    /\ \A end \in BOOLEAN : Delimiter(end) \in Strings
  BY EntryAssumption DEF Ones, Zeros, Delimiter, Strings

LEMMA MapItemsType ==
    ASSUME NEW map \in Seq(Fields)
    PROVE  MapItems(map) \in Seq(Items)
  <1> DEFINE item(i) ==
               Item(IF i % 2 = 1 THEN map[(i + 1) \div 2].key ELSE map[i \div 2].value, FALSE)
  <1>1. Len(map) \in Nat /\ \A i \in 1..Len(map) : map[i] \in Fields
    BY LenProperties, ElementOfSeq
  <1>2. ASSUME NEW i \in 1..(2 * Len(map))
        PROVE  item(i) \in Items
    <2>1. CASE i % 2 = 1
      <3>1. (i + 1) \div 2 \in 1..Len(map)
        BY <1>1, <2>1
      <3> QED
        BY <1>1, <2>1, <3>1 DEF Item, Items, Fields
    <2>2. CASE i % 2 # 1
      <3>1. i \div 2 \in 1..Len(map)
        BY <1>1, <2>2
      <3> QED
        BY <1>1, <2>2, <3>1 DEF Item, Items, Fields
    <2> QED
      BY <2>1, <2>2
  <1>3. MapItems(map) = [i \in 1..(2 * Len(map)) |-> item(i)]
    BY DEF MapItems
  <1> HIDE DEF item
  <1>4. [i \in 1..(2 * Len(map)) |-> item(i)] \in Seq(Items)
    BY <1>1, <1>2
  <1> QED
    BY <1>3, <1>4

\* What a call writes is a sequence of items.
LEMMA CallItemsType ==
    ASSUME NEW call \in CallSet
    PROVE  CallItems(call) \in Seq(Items)
  <1>1. ASSUME NEW end \in BOOLEAN
        PROVE  <<Item(Delimiter(end), TRUE)>> \in Seq(Items)
    BY OnesAndZeros DEF Item, Items
  <1>2. CASE call.section = "data"
    <2>1. call.content \in Strings /\ call.end \in BOOLEAN
      BY <1>2 DEF CallSet
    <2> QED
      BY <1>2, <2>1, OnesAndZeros DEF CallItems, Item, Items
  <1>3. CASE call.section # "data"
    <2>1. call.content \in Seq(Fields) /\ call.end \in BOOLEAN
          /\ call.section \in {"headers", "trailers"}
      BY <1>3 DEF CallSet
    <2>2. MapItems(call.content) \in Seq(Items)
      BY <2>1, MapItemsType
    <2>3. \A end \in BOOLEAN :
            MapItems(call.content) \o <<Item(Delimiter(end), TRUE)>> \in Seq(Items)
      BY <1>1, <2>2, ConcatProperties
    <2> QED
      BY <1>3, <2>1, <2>3 DEF CallItems
  <1> QED
    BY <1>2, <1>3

LEMMA CallType ==
    ASSUME NEW end \in BOOLEAN
    PROVE  /\ \A map \in Seq(Fields) :
                /\ Call("headers", map, end) \in CallSet
                /\ Call("trailers", map, end) \in CallSet
           /\ \A string \in Strings : Call("data", string, end) \in CallSet
           /\ \A s, content : Call(s, content, end).section = s
  BY DEF CallSet, Call

\* The callbacks of a response: headers, as many data as it has, and trailers.
LEMMA CallsOfShape ==
    ASSUME NEW response \in Responses
    PROVE  /\ CallsOf(response) \in Seq(CallSet)
           /\ CallsOf(response) # <<>>
           /\ \A i \in 1..Len(CallsOf(response)) :
                /\ CallsOf(response)[i].section = "headers" => i = 1
                /\ CallsOf(response)[i].section = "trailers" =>
                      /\ response.trailers # Nil
                      /\ i = Len(CallsOf(response))
                      /\ response.data # <<>> =>
                            \E j \in 1..(i - 1) : CallsOf(response)[j].section = "data"
  <1> DEFINE n == Len(response.data)
             last == response.trailers = Nil
             e(i) == i = n /\ last
             d(i) == Call("data", response.data[i], e(i))
             first == <<Call("headers", response.headers, e(0))>>
             middle == [i \in 1..n |-> d(i)]
             end == IF last THEN <<>> ELSE <<Call("trailers", response.trailers, TRUE)>>
             begin == first \o middle
  <1>0. /\ response.headers \in Seq(Fields)
        /\ response.data \in Seq(Strings)
        /\ response.trailers \in Seq(Fields) \union {Nil}
    BY EntryAssumption
  <1>1. n \in Nat /\ \A i \in 1..n : response.data[i] \in Strings
    BY <1>0, LenProperties, ElementOfSeq
  <1>a. \A i : e(i) \in BOOLEAN
    OBVIOUS
  <1>5. CallsOf(response) = begin \o end
    BY DEF CallsOf
  <1> HIDE DEF e
  <1>b. Call("headers", response.headers, e(0)) \in CallSet
        /\ Call("headers", response.headers, e(0)).section = "headers"
    BY <1>0, <1>a, CallType
  <1>2. first \in Seq(CallSet) /\ Len(first) = 1 /\ first[1].section = "headers"
    BY <1>b
  <1>c. \A i \in 1..n : d(i) \in CallSet /\ d(i).section = "data"
    BY <1>1, <1>a, CallType
  <1> HIDE DEF d, n
  <1>3. middle \in Seq(CallSet) /\ Len(middle) = n
        /\ \A i \in 1..n : middle[i].section = "data"
    BY <1>1, <1>c
  <1> HIDE DEF last
  <1>d. ~last => /\ Call("trailers", response.trailers, TRUE) \in CallSet
                 /\ Call("trailers", response.trailers, TRUE).section = "trailers"
    BY <1>0, CallType DEF last
  <1>4. end \in Seq(CallSet) /\ Len(end) = (IF last THEN 0 ELSE 1)
        /\ (~last => end[1].section = "trailers")
    <2>1. CASE last
      BY <2>1
    <2>2. CASE ~last
      <3>1. end = <<Call("trailers", response.trailers, TRUE)>>
        BY <2>2
      <3> DEFINE call == Call("trailers", response.trailers, TRUE)
      <3>2. call \in CallSet /\ call.section = "trailers" /\ end = <<call>>
        BY <1>d, <2>2, <3>1
      <3> HIDE DEF call, end
      <3> QED
        BY <2>2, <3>2
    <2> QED
      BY <2>1, <2>2
  <1> HIDE DEF first, middle, end
  <1>e. \A s, t \in Seq(CallSet) :
            /\ s \o t \in Seq(CallSet)
            /\ Len(s \o t) = Len(s) + Len(t)
            /\ \A i \in 1..(Len(s) + Len(t)) :
                  (s \o t)[i] = IF i <= Len(s) THEN s[i] ELSE t[i - Len(s)]
    BY ConcatProperties
  <1>6. begin \in Seq(CallSet) /\ Len(begin) = 1 + n
        /\ \A i \in 1..(1 + n) : begin[i] = IF i <= 1 THEN first[i] ELSE middle[i - 1]
    <2>1. Len(first) + Len(middle) = 1 + n
      BY <1>1, <1>2, <1>3
    <2>2. /\ begin \in Seq(CallSet)
          /\ Len(begin) = Len(first) + Len(middle)
          /\ \A i \in 1..(Len(first) + Len(middle)) :
                begin[i] = IF i <= Len(first) THEN first[i] ELSE middle[i - Len(first)]
      BY <1>2, <1>3, <1>e
    <2> QED
      BY <1>2, <2>1, <2>2
  <1> HIDE DEF begin
  <1>7. begin \o end \in Seq(CallSet) /\ Len(begin \o end) = 1 + n + Len(end)
        /\ \A i \in 1..(1 + n + Len(end)) :
              (begin \o end)[i] = IF i <= 1 + n THEN begin[i] ELSE end[i - (1 + n)]
    BY <1>4, <1>6, <1>e
  <1> DEFINE all == begin \o end
  <1>8. all # <<>>
    BY <1>1, <1>4, <1>7
  <1>9. ASSUME NEW i \in 1..Len(all)
        PROVE  all[i].section = IF i = 1 THEN "headers"
                                ELSE IF i <= 1 + n THEN "data" ELSE "trailers"
    <2>1. CASE i <= 1 + n
      <3>1. all[i] = begin[i] /\ i \in 1..(1 + n)
        BY <1>1, <1>4, <1>7, <2>1
      <3>2. i # 1 => i - 1 \in 1..n
        BY <1>1, <3>1
      <3>3. begin[i] = IF i = 1 THEN first[1] ELSE middle[i - 1]
        BY <1>1, <1>6, <3>1
      <3> QED
        BY <1>2, <1>3, <2>1, <3>1, <3>2, <3>3
    <2>2. CASE ~(i <= 1 + n)
      <3>1. i = 1 + n + 1 /\ ~last
        BY <1>1, <1>4, <1>7, <2>2
      <3> QED
        BY <1>1, <1>4, <1>7, <2>2, <3>1
    <2> QED
      BY <2>1, <2>2
  <1>10. ASSUME NEW i \in 1..Len(all), all[i].section = "trailers"
         PROVE  /\ response.trailers # Nil
                /\ i = Len(all)
                /\ response.data # <<>> => \E j \in 1..(i - 1) : all[j].section = "data"
    <2>1. i > 1 + n /\ ~last
      BY <1>1, <1>4, <1>7, <1>9, <1>10
    <2>2. i = Len(all)
      BY <1>1, <1>4, <1>7, <2>1
    <2>3. ASSUME response.data # <<>>
          PROVE  \E j \in 1..(i - 1) : all[j].section = "data"
      <3>1. n >= 1
        <4>1. Len(response.data) \in Nat \ {0}
          BY <1>0, <2>3, EmptySeq
        <4> QED
          BY <4>1 DEF n
      <3>2. 2 \in 1..(i - 1) /\ 2 \in 1..Len(all) /\ 2 <= 1 + n
        BY <1>1, <2>1, <2>2, <3>1
      <3>3. all[2].section = "data"
        BY <1>9, <3>2
      <3> QED
        BY <3>2, <3>3
    <2>4. response.trailers # Nil
      BY <2>1 DEF last
    <2> QED
      BY <2>2, <2>3, <2>4
  <1> HIDE DEF all, n, last
  <1>11. CallsOf(response) = all
    BY <1>5 DEF all
  <1> QED
    BY <1>7, <1>8, <1>9, <1>10, <1>11 DEF all

----------------------------------------------------------------------------
(* The parser                                                               *)

\* The key is the front of the text: substr(key_length_) has a text that long.
KeyInText == \A r \in Consumers : reader[r].key_length <= Len(reader[r].text)

\* c parsed to d: the indices and the section stay.
Parsed(c, d) ==
    /\ d \in ReaderStates
    /\ d.key_length <= Len(d.text)
    /\ d.section = c.section
    /\ d.waiting = c.waiting
    /\ d.read_block_count = c.read_block_count
    /\ d.buffer_index = c.buffer_index
    /\ d.block_index = c.block_index

LEMMA TextUpdate ==
    ASSUME NEW c \in ReaderStates,
           NEW text \in Strings, NEW length \in Nat, length <= Len(text),
           NEW done \in BOOLEAN, NEW fields \in Seq(Fields)
    PROVE  /\ Parsed(c, [c EXCEPT !.fields = fields, !.text = text, !.key_length = length,
                                  !.key_read_done = done])
           /\ length = c.key_length => Parsed(c, [c EXCEPT !.text = text])
  BY DEF Parsed, ReaderStates

LEMMA AddFieldType ==
    ASSUME NEW c \in ReaderStates, c.key_length <= Len(c.text)
    PROVE  Parsed(c, AddField(c))
  <1> DEFINE field == [key   |-> SubSeq(c.text, 1, c.key_length),
                       value |-> SubSeq(c.text, c.key_length + 1, Len(c.text))]
  <1>1. c.text \in Seq(Bytes) /\ c.key_length \in Nat /\ c.fields \in Seq(Fields)
    BY DEF ReaderStates, Strings
  <1>2. Len(c.text) \in Nat /\ \A i \in 1..Len(c.text) : c.text[i] \in Bytes
    BY <1>1, LenProperties, ElementOfSeq
  <1>3. SubSeq(c.text, 1, c.key_length) \in Seq(Bytes)
    BY <1>1, <1>2, SubSeqProperties
  <1>4. SubSeq(c.text, c.key_length + 1, Len(c.text)) \in Seq(Bytes)
    BY <1>1, <1>2, SubSeqProperties
  <1>5. field \in Fields
    BY <1>3, <1>4 DEF Fields, Strings
  <1>6. AddField(c) = [c EXCEPT !.fields = Append(@, field),
                                !.text = <<>>, !.key_length = 0, !.key_read_done = FALSE]
    BY DEF AddField
  <1> HIDE DEF field
  <1>7. Append(c.fields, field) \in Seq(Fields)
    BY <1>1, <1>5
  <1>8. <<>> \in Strings /\ Len(<<>>) = 0
    BY DEF Strings
  <1>9. AddField(c) = [c EXCEPT !.fields = Append(c.fields, field),
                                !.text = <<>>, !.key_length = 0, !.key_read_done = FALSE]
    BY <1>6
  <1> DEFINE fields == Append(c.fields, field)
             empty == <<>>
  <1>10. /\ empty \in Strings /\ 0 <= Len(empty) /\ fields \in Seq(Fields)
         /\ AddField(c) = [c EXCEPT !.fields = fields, !.text = empty, !.key_length = 0,
                                    !.key_read_done = FALSE]
    BY <1>7, <1>8, <1>9
  <1> HIDE DEF fields, empty
  <1>11. Parsed(c, [c EXCEPT !.fields = fields, !.text = empty, !.key_length = 0,
                             !.key_read_done = FALSE])
    BY <1>10, TextUpdate
  <1> QED
    BY <1>10, <1>11

LEMMA LongerType ==
    ASSUME NEW c \in ReaderStates, c.key_length <= Len(c.text), NEW b \in Strings
    PROVE  LET longer == [c EXCEPT !.text = @ \o b] IN
           /\ Parsed(c, longer)
           /\ Parsed(c, [longer EXCEPT !.key_length = @ + Len(b),
                                       !.key_read_done = Len(b) < BlockSize])
  <1>1. c.text \in Strings /\ c.key_length \in Nat
    BY DEF ReaderStates
  <1>2. /\ c.text \o b \in Strings
        /\ Len(c.text) \in Nat
        /\ Len(b) \in Nat
        /\ Len(c.text \o b) = Len(c.text) + Len(b)
    BY <1>1, ConcatProperties, LenProperties DEF Strings
  <1> DEFINE short == Len(b) < BlockSize
  <1>3. short \in BOOLEAN
    OBVIOUS
  <1> HIDE DEF short
  <1>4. Parsed(c, [c EXCEPT !.text = c.text \o b])
    <2>1. c.key_length <= Len(c.text \o b) /\ c.fields \in Seq(Fields)
      BY <1>1, <1>2 DEF ReaderStates
    <2> QED
      BY <1>1, <1>2, <2>1, TextUpdate
  <1>5. Parsed(c, [[c EXCEPT !.text = c.text \o b] EXCEPT !.key_length = @ + Len(b),
                                                           !.key_read_done = short])
    <2> DEFINE text == c.text \o b
               length == c.key_length + Len(b)
               longest == [c EXCEPT !.fields = c.fields, !.text = text, !.key_length = length,
                                    !.key_read_done = short]
    <2>1. text \in Strings /\ length \in Nat /\ length <= Len(text)
      BY <1>1, <1>2
    <2>2. c.fields \in Seq(Fields)
      BY DEF ReaderStates
    <2>3. [[c EXCEPT !.text = text] EXCEPT !.key_length = @ + Len(b), !.key_read_done = short]
            = [c EXCEPT !.text = text, !.key_length = length, !.key_read_done = short]
      BY DEF ReaderStates
    <2>4. [c EXCEPT !.text = text, !.key_length = length, !.key_read_done = short] = longest
      BY DEF ReaderStates
    <2> HIDE DEF text, length
    <2>5. Parsed(c, longest)
      BY <1>3, <2>1, <2>2, TextUpdate
    <2> QED
      BY <2>3, <2>4, <2>5 DEF text
  <1> QED
    BY <1>4, <1>5 DEF short

\* A block leaves a consumer in a state it can be in, with its indices.
LEMMA ParseType ==
    ASSUME NEW c \in ReaderStates, c.key_length <= Len(c.text), NEW b \in Strings
    PROVE  Parsed(c, Parse(c, b).state)
  <1> DEFINE longer == [c EXCEPT !.text = @ \o b]
  <1>1. Parsed(c, c)
    BY DEF Parsed
  <1>2. ASSUME NEW end \in BOOLEAN
        PROVE  /\ Parsed(c, EncodeFields(c, end).state)
               /\ Parsed(c, EncodeBatch(c, end).state)
    <2> DEFINE ends == c.end_stream \/ end
    <2>1. ends \in BOOLEAN /\ <<>> \in Seq(Fields) /\ <<>> \in Strings
      BY DEF Strings
    <2>2. /\ EncodeFields(c, end).state = [c EXCEPT !.fields = <<>>, !.end_stream = ends]
          /\ EncodeBatch(c, end).state =
                [c EXCEPT !.data = <<>>, !.batch_complete = FALSE, !.end_stream = ends]
      BY DEF EncodeFields, EncodeBatch, ReaderStates
    <2> HIDE DEF ends
    <2>3. Parsed(c, EncodeFields(c, end).state)
      BY <2>1, <2>2 DEF Parsed, ReaderStates
    <2>4. Parsed(c, EncodeBatch(c, end).state)
      BY <2>1, <2>2 DEF Parsed, ReaderStates
    <2> QED
      BY <2>3, <2>4
  <1>3. /\ Parsed(c, longer)
        /\ Parsed(c, [longer EXCEPT !.key_length = @ + Len(b),
                                    !.key_read_done = Len(b) < BlockSize])
    BY LongerType
  <1>4. Parsed(c, AddField(longer))
    <2>1. longer \in ReaderStates /\ longer.key_length <= Len(longer.text)
      BY <1>3 DEF Parsed
    <2> HIDE DEF longer
    <2> QED
      BY <1>3, <2>1, AddFieldType DEF Parsed
  <1>5. Parsed(c, ParseField(c, b).state)
    <2> HIDE DEF longer
    <2>1. ParseField(c, b).state \in
             {EncodeFields(c, TRUE).state, EncodeFields(c, FALSE).state, AddField(longer),
              longer, [longer EXCEPT !.key_length = @ + Len(b),
                                     !.key_read_done = Len(b) < BlockSize]}
      BY DEF ParseField, Silent, longer
    <2> QED
      BY <1>2, <1>3, <1>4, <2>1
  <1>6. Parsed(c, ParseData(c, b).state)
    <2> DEFINE over == c.batch_complete \/ Len(b) < BlockSize
               more == [c EXCEPT !.data = c.data \o b, !.batch_complete = over]
    <2>1. c.data \o b \in Strings /\ over \in BOOLEAN
      BY ConcatProperties DEF Strings, ReaderStates
    <2>2. Parsed(c, more)
      <3> HIDE DEF over
      <3> QED
        BY <2>1 DEF Parsed, ReaderStates
    <2>3. ParseData(c, b).state \in
             {EncodeBatch(c, TRUE).state, EncodeBatch(c, FALSE).state, more}
      BY DEF ParseData, Silent
    <2> HIDE DEF more
    <2> QED
      BY <1>2, <2>2, <2>3
  <1> QED
    BY <1>5, <1>6 DEF Parse

----------------------------------------------------------------------------
(* Types, and the offset                                                    *)

TypeInv == TypeOK /\ KeyInText /\ OffsetInString

LEMMA InitTypes == Init => TypeInv
  <1> SUFFICES ASSUME Init PROVE TypeInv
    OBVIOUS
  <1>1. calls \in Seq(CallSet)
    BY CallsOfShape DEF Init
  <1>2. capacity \in Nat \ {0}
    BY EntryAssumption DEF Init
  <1>3. NewReader \in ReaderStates /\ NewReader.key_length <= Len(NewReader.text)
    BY <1>2 DEF NewReader, ReaderStates, Strings
  <1>4. reader = [c \in Consumers |-> NewReader]
    BY DEF Init
  <1>5. reader \in [Consumers -> ReaderStates] /\ KeyInText
    <2> HIDE DEF NewReader
    <2> QED
      BY <1>3, <1>4 DEF KeyInText
  <1>6. block_with_ones \in {Ones, Zeros}
    BY DEF Init
  <1>7. buffers \in [Sections -> Seq(Seq(Strings))]
    BY DEF Init
  <1>8. count \in [{"headers", "data"} -> Nat]
    BY EntryAssumption DEF Init
  <1>9. OffsetInString
    BY DEF Init, OffsetInString
  <1>10. /\ capacity \in Capacities /\ sent \in Responses /\ section \in Sections
         /\ todo \in Seq(Items) /\ first_write \in BOOLEAN /\ data_offset \in Nat
         /\ current_block_count \in Nat /\ is_block_with_ones_initialized \in BOOLEAN
    BY DEF Init, Sections
  <1>11. /\ headers_write_complete \in BOOLEAN /\ data_write_complete \in BOOLEAN
         /\ complete \in BOOLEAN
    BY DEF Init
  <1> QED
    BY <1>1, <1>5, <1>6, <1>7, <1>8, <1>9, <1>10, <1>11 DEF TypeInv, TypeOK, Items

\* What NextBlock makes of an item that is not empty or too far read.
LEMMA NextBlockType ==
    ASSUME TypeInv, todo # <<>>
    PROVE  /\ NextBlock.block \in Strings
           /\ NextBlock.offset \in Nat
           /\ NextBlock.over \in BOOLEAN
           /\ NextBlock.offset # 0 =>
                /\ ~NextBlock.over
                /\ ~Head(todo).delimiter
                /\ NextBlock.offset < Len(Head(todo).bytes)
           /\ Tail(todo) \in Seq(Items)
  <1> DEFINE item == Head(todo)
             s == item.bytes
  <1>1. item \in Items /\ Tail(todo) \in Seq(Items)
    BY HeadTailProperties DEF TypeInv, TypeOK, Items
  <1>2. /\ s \in Strings /\ Len(s) \in Nat /\ BlockSize \in Nat \ {0} /\ data_offset \in Nat
        /\ \A i \in 1..Len(s) : s[i] \in Bytes
    BY <1>1, EntryAssumption, LenProperties, ElementOfSeq DEF Items, Strings, TypeInv, TypeOK
  <1>3. CASE FullBlock(item)
    <2>1. Len(s) - data_offset >= BlockSize /\ ~item.delimiter
      BY <1>3 DEF FullBlock
    <2>2. SubSeq(s, data_offset + 1, data_offset + BlockSize) \in Strings
      BY <1>2, <2>1, SubSeqProperties DEF Strings
    <2>3. NextBlock = [block  |-> SubSeq(s, data_offset + 1, data_offset + BlockSize),
                       offset |-> OffsetAfter(item), over |-> FALSE]
      BY <1>3 DEF NextBlock
    <2>4. OffsetAfter(item) \in Nat /\ (OffsetAfter(item) # 0 => OffsetAfter(item) < Len(s))
      BY <1>2, <2>1 DEF OffsetAfter
    <2> HIDE DEF item, s
    <2>5. /\ NextBlock.block \in Strings /\ NextBlock.over = FALSE
          /\ NextBlock.offset \in Nat /\ (NextBlock.offset # 0 => NextBlock.offset < Len(s))
      BY <2>2, <2>3, <2>4
    <2> QED
      BY <1>1, <2>1, <2>5 DEF item, s
  <1>4. CASE ~FullBlock(item)
    <2>1. Remainder(item) \in Strings
      <3>1. SubSeq(s, data_offset + 1, Len(s)) \in Strings
        BY <1>2, SubSeqProperties DEF Strings
      <3> QED
        BY <3>1 DEF Remainder, Strings
    <2>2. NextBlock = [block  |-> IF item.delimiter THEN s ELSE Remainder(item),
                       offset |-> 0, over |-> TRUE]
      BY <1>4 DEF NextBlock
    <2> HIDE DEF item, s
    <2>3. NextBlock.block \in Strings /\ NextBlock.offset = 0
      BY <1>2, <2>1, <2>2
    <2>4. NextBlock.over \in BOOLEAN
      BY <2>2
    <2> QED
      BY <1>1, <2>3, <2>4
  <1> QED
    BY <1>3, <1>4

LEMMA NextCallTypes ==
    ASSUME TypeInv, NEW s \in Sections, NextCall(s)
    PROVE  /\ todo' \in Seq(Items)
           /\ calls' \in Seq(CallSet)
           /\ section' \in Sections
           /\ data_offset = 0
  <1>1. calls # <<>> /\ calls \in Seq(CallSet)
    BY DEF NextCall, TypeInv, TypeOK
  <1>2. Head(calls) \in CallSet /\ Tail(calls) \in Seq(CallSet)
    BY <1>1, HeadTailProperties
  <1>3. CallItems(Head(calls)) \in Seq(Items)
    BY <1>2, CallItemsType
  <1> QED
    BY <1>2, <1>3 DEF NextCall, TypeInv, OffsetInString

\* What the producer leaves alone of the consumers' types.
LEMMA ConsumersKept ==
    ASSUME TypeInv, UNCHANGED <<capacity, consumerVars>>
    PROVE  /\ block_with_ones' \in {Ones, Zeros}
           /\ is_block_with_ones_initialized' \in BOOLEAN
           /\ reader' \in [Consumers -> ReaderStates']
           /\ KeyInText'
  BY DEF TypeInv, TypeOK, consumerVars, onesVars, ReaderStates, KeyInText

LEMMA EncodeTypes ==
    ASSUME TypeInv, EncodeHeaders \/ EncodeData \/ EncodeTrailers
    PROVE  TypeInv'
  <1>1. /\ todo' \in Seq(Items)
        /\ calls' \in Seq(CallSet)
        /\ section' \in Sections
        /\ data_offset = 0
    BY NextCallTypes DEF EncodeHeaders, EncodeData, EncodeTrailers, Sections
  <1>2. UNCHANGED <<capacity, buffers, first_write, data_offset, complete, consumerVars, sent>>
    BY DEF EncodeHeaders, EncodeData, EncodeTrailers, NextCall
  <1>3. /\ block_with_ones' \in {Ones, Zeros}
        /\ is_block_with_ones_initialized' \in BOOLEAN
        /\ reader' \in [Consumers -> ReaderStates']
        /\ KeyInText'
    BY <1>2, ConsumersKept
  <1>4. count' \in [{"headers", "data"} -> Nat] /\ current_block_count' \in Nat
    BY DEF EncodeHeaders, EncodeData, EncodeTrailers, CountReset, TypeInv, TypeOK
  <1>5. headers_write_complete' \in BOOLEAN /\ data_write_complete' \in BOOLEAN
    BY DEF EncodeHeaders, EncodeData, EncodeTrailers, TypeInv, TypeOK
  <1>6. OffsetInString'
    BY <1>1, <1>2 DEF OffsetInString
  <1> QED
    BY <1>1, <1>2, <1>3, <1>4, <1>5, <1>6 DEF TypeInv, TypeOK, Items

LEMMA EmplaceTypes ==
    ASSUME TypeInv, EmplaceBuffer
    PROVE  TypeInv'
  <1>1. UNCHANGED <<capacity, calls, count, producerVars, consumerVars, sent>>
    BY DEF EmplaceBuffer
  <1>2. buffers' \in [Sections -> Seq(Seq(Strings))]
    <2>1. <<>> \in Seq(Strings)
      OBVIOUS
    <2>2. section \in Sections /\ buffers \in [Sections -> Seq(Seq(Strings))]
      BY DEF TypeInv, TypeOK
    <2>3. Append(buffers[section], <<>>) \in Seq(Seq(Strings))
      BY <2>1, <2>2
    <2>4. buffers' = [buffers EXCEPT ![section] = Append(buffers[section], <<>>)]
      BY DEF EmplaceBuffer
    <2> QED
      BY <2>2, <2>3, <2>4
  <1>3. /\ block_with_ones' \in {Ones, Zeros}
        /\ is_block_with_ones_initialized' \in BOOLEAN
        /\ reader' \in [Consumers -> ReaderStates']
        /\ KeyInText'
    BY <1>1, ConsumersKept
  <1> QED
    BY <1>1, <1>2, <1>3 DEF TypeInv, TypeOK, OffsetInString, producerVars, stringVars

LEMMA WriteTypes ==
    ASSUME TypeInv, WriteBlock
    PROVE  TypeInv'
  <1>1. UNCHANGED <<capacity, calls, count, section, headers_write_complete,
                    data_write_complete, complete, consumerVars, sent>>
    BY DEF WriteBlock
  <1>2. /\ NextBlock.block \in Strings
        /\ NextBlock.offset \in Nat
        /\ NextBlock.over \in BOOLEAN
        /\ NextBlock.offset # 0 =>
              /\ ~NextBlock.over
              /\ ~Head(todo).delimiter
              /\ NextBlock.offset < Len(Head(todo).bytes)
        /\ Tail(todo) \in Seq(Items)
    BY NextBlockType DEF WriteBlock
  <1>3. buffers' \in [Sections -> Seq(Seq(Strings))]
    <2> DEFINE list == buffers[section]
               n == Len(list)
    <2>1. section \in Sections /\ buffers \in [Sections -> Seq(Seq(Strings))]
      BY DEF TypeInv, TypeOK
    <2>2. list \in Seq(Seq(Strings)) /\ list # <<>>
      BY <2>1 DEF WriteBlock, LastFull
    <2>3. n \in 1..Len(list) /\ list[n] \in Seq(Strings)
      BY <2>2, EmptySeq, LenProperties, ElementOfSeq
    <2>4. Append(list[n], NextBlock.block) \in Seq(Strings)
      BY <1>2, <2>3
    <2>5. [list EXCEPT ![n] = Append(list[n], NextBlock.block)] \in Seq(Seq(Strings))
      BY <2>2, <2>3, <2>4, ExceptSeq
    <2>6. buffers' = [buffers EXCEPT ![section] =
                        [list EXCEPT ![n] = Append(list[n], NextBlock.block)]]
      BY <2>1 DEF WriteBlock
    <2> QED
      BY <2>1, <2>5, <2>6
  <1>4. /\ block_with_ones' \in {Ones, Zeros}
        /\ is_block_with_ones_initialized' \in BOOLEAN
        /\ reader' \in [Consumers -> ReaderStates']
        /\ KeyInText'
    BY <1>1, ConsumersKept
  <1>5. /\ todo # <<>>
        /\ todo' = IF NextBlock.over THEN Tail(todo) ELSE todo
        /\ first_write' = NextBlock.over
        /\ data_offset' = NextBlock.offset
        /\ current_block_count' = current_block_count + 1
    BY DEF WriteBlock
  <1> HIDE DEF NextBlock
  <1>6. OffsetInString'
    BY <1>2, <1>5 DEF OffsetInString
  <1>7. /\ todo' \in Seq(Items) /\ first_write' \in BOOLEAN /\ data_offset' \in Nat
        /\ current_block_count' \in Nat
    BY <1>2, <1>5 DEF TypeInv, TypeOK, Items
  <1> QED
    BY <1>1, <1>3, <1>4, <1>6, <1>7 DEF TypeInv, TypeOK, Items

LEMMA CompleteTypes ==
    ASSUME TypeInv, WriteComplete
    PROVE  TypeInv'
  <1>1. UNCHANGED <<capacity, calls, buffers, section, first_write, data_offset,
                    current_block_count, headers_write_complete, data_write_complete,
                    consumerVars, sent>>
    BY DEF WriteComplete
  <1>2. /\ block_with_ones' \in {Ones, Zeros}
        /\ is_block_with_ones_initialized' \in BOOLEAN
        /\ reader' \in [Consumers -> ReaderStates']
        /\ KeyInText'
    BY <1>1, ConsumersKept
  <1>3. todo' \in Seq(Items)
    <2> DEFINE item == Item(Delimiter(TRUE), TRUE)
    <2>1. item \in Items
      <3>1. Delimiter(TRUE) \in Strings
        BY OnesAndZeros
      <3> HIDE DEF Strings
      <3> QED
        BY <3>1 DEF Item, Items
    <2>2. todo' = todo \/ todo' = <<item>>
      BY DEF WriteComplete
    <2>3. todo \in Seq(Items)
      BY DEF TypeInv, TypeOK, Items
    <2> HIDE DEF item
    <2>4. <<item>> \in Seq(Items)
      BY <2>1
    <2> QED
      BY <2>2, <2>3, <2>4
  <1>4. count' \in [{"headers", "data"} -> Nat]
    BY DEF WriteComplete, TypeInv, TypeOK
  <1>5. data_offset' = 0
    BY <1>1 DEF WriteComplete, TypeInv, OffsetInString
  <1>6. OffsetInString'
    BY <1>5 DEF OffsetInString
  <1>7. complete' \in BOOLEAN
    BY DEF WriteComplete
  <1> QED
    BY <1>1, <1>2, <1>3, <1>4, <1>6, <1>7 DEF TypeInv, TypeOK, Items

\* What a consumer's step leaves alone of the others' types.
LEMMA ProducerKept ==
    ASSUME TypeInv, UNCHANGED <<capacity, calls, buffers, count, producerVars, sent>>,
           block_with_ones' \in {Ones, Zeros}, is_block_with_ones_initialized' \in BOOLEAN,
           NEW r \in Consumers, NEW d \in ReaderStates, d.key_length <= Len(d.text),
           reader' = [reader EXCEPT ![r] = d]
    PROVE  TypeInv'
  <1>1. reader \in [Consumers -> ReaderStates] /\ ReaderStates' = ReaderStates
    BY DEF TypeInv, TypeOK, ReaderStates
  <1>2. reader' \in [Consumers -> ReaderStates']
    BY <1>1
  <1>3. KeyInText'
    BY <1>1 DEF KeyInText, TypeInv
  <1>4. OffsetInString'
    BY DEF TypeInv, OffsetInString, producerVars, stringVars
  <1> QED
    BY <1>2, <1>3, <1>4 DEF TypeInv, TypeOK, producerVars, stringVars

\* Entering a section, and going on after a block.
LEMMA EnterType ==
    ASSUME capacity \in Nat \ {0}, NEW c \in ReaderStates,
           NEW s \in Sections \union {"done"}
    PROVE  /\ Enter(c, s) \in ReaderStates
           /\ Enter(c, s).key_length = c.key_length
           /\ Enter(c, s).text = c.text
           /\ Enter(c, s).section = s
           /\ Enter(c, s).waiting = TRUE
           /\ Enter(c, s).buffer_index = 1
           /\ Enter(c, s).block_index = 1
           /\ s # "trailers" => Enter(c, s).read_block_count = 0
  <1> DEFINE m == IF s = "trailers" THEN c.read_block_count ELSE 0
             none == <<>>
  <1>1. m \in Nat /\ none \in Seq(Fields) /\ (s # "trailers" => m = 0)
    BY DEF ReaderStates
  <1>2. Enter(c, s) = [c EXCEPT !.section = s, !.waiting = TRUE, !.fields = none,
                                !.read_block_count = m, !.buffer_index = 1, !.block_index = 1]
    BY DEF Enter
  <1> DEFINE e == [c EXCEPT !.section = s, !.waiting = TRUE, !.fields = none,
                           !.read_block_count = m, !.buffer_index = 1, !.block_index = 1]
  <1>f. 1 \in 1..capacity /\ 1 \in Nat \ {0}
        /\ s \in Sections \union {"unborn", "fill", "idle", "done"}
    OBVIOUS
  <1> HIDE DEF m, none
  <1>3. e \in ReaderStates
    <2> HIDE DEF Sections
    <2> QED
      BY <1>1, <1>f DEF ReaderStates
  <1>4. /\ e.key_length = c.key_length /\ e.text = c.text /\ e.section = s
        /\ e.waiting = TRUE /\ e.buffer_index = 1 /\ e.block_index = 1
        /\ e.read_block_count = m
    BY DEF ReaderStates
  <1> HIDE DEF e
  <1>5. Enter(c, s) = e
    BY <1>2 DEF e
  <1> QED
    BY <1>1, <1>3, <1>4, <1>5

LEMMA CountedType ==
    ASSUME NEW c \in ReaderStates
    PROVE  /\ Counted(c) \in ReaderStates
           /\ Counted(c) = [c EXCEPT !.read_block_count = Counted(c).read_block_count]
           /\ c.section # "trailers" => Counted(c).read_block_count = c.read_block_count + 1
  <1> DEFINE m == IF c.section = "trailers" THEN c.read_block_count ELSE c.read_block_count + 1
  <1>1. m \in Nat /\ (c.section # "trailers" => m = c.read_block_count + 1)
    BY DEF ReaderStates
  <1>2. Counted(c) = [c EXCEPT !.read_block_count = m]
    BY DEF Counted
  <1> HIDE DEF m
  <1> QED
    BY <1>1, <1>2 DEF ReaderStates

LEMMA AdvancedType ==
    ASSUME capacity \in Nat \ {0}, NEW c \in ReaderStates
    PROVE  LET full == c.block_index = capacity IN
           /\ Advanced(c) \in ReaderStates
           /\ Advanced(c).key_length = c.key_length
           /\ Advanced(c).text = c.text
           /\ Advanced(c).section = c.section
           /\ full => Advanced(c).waiting = TRUE
           /\ ~full => Advanced(c).waiting = c.waiting
           /\ Advanced(c).buffer_index = IF full THEN c.buffer_index + 1 ELSE c.buffer_index
           /\ Advanced(c).block_index = IF full THEN 1 ELSE c.block_index + 1
           /\ c.section # "trailers" =>
                 Advanced(c).read_block_count = c.read_block_count + 1
  <1> DEFINE k == Counted(c)
  <1>1. /\ k \in ReaderStates
        /\ k = [c EXCEPT !.read_block_count = k.read_block_count]
        /\ c.section # "trailers" => k.read_block_count = c.read_block_count + 1
    BY CountedType
  <1>2. /\ k.section = c.section /\ k.waiting = c.waiting /\ k.buffer_index = c.buffer_index
        /\ k.block_index = c.block_index /\ k.text = c.text /\ k.key_length = c.key_length
    BY <1>1 DEF ReaderStates
  <1>3. CASE c.block_index = capacity
    <2>1. Advanced(c) = [k EXCEPT !.block_index = 1, !.buffer_index = k.buffer_index + 1,
                                  !.waiting = TRUE]
      BY <1>3 DEF Advanced
    <2> DEFINE e == [k EXCEPT !.block_index = 1, !.buffer_index = k.buffer_index + 1,
                             !.waiting = TRUE]
    <2>f. 1 \in 1..capacity /\ k.buffer_index + 1 \in Nat \ {0}
      BY <1>1 DEF ReaderStates
    <2> HIDE DEF k
    <2>2. e \in ReaderStates
      BY <1>1, <2>f DEF ReaderStates
    <2>3. /\ e.key_length = k.key_length /\ e.text = k.text /\ e.section = k.section
          /\ e.waiting = TRUE /\ e.buffer_index = k.buffer_index + 1 /\ e.block_index = 1
          /\ e.read_block_count = k.read_block_count
      BY <1>1 DEF ReaderStates
    <2> HIDE DEF e
    <2>4. Advanced(c) = e
      BY <2>1 DEF e
    <2> QED
      BY <1>1, <1>2, <1>3, <2>2, <2>3, <2>4
  <1>4. CASE c.block_index # capacity
    <2>1. Advanced(c) = [k EXCEPT !.block_index = k.block_index + 1]
      BY <1>4 DEF Advanced
    <2>2. c.block_index + 1 \in 1..capacity
      BY <1>4 DEF ReaderStates
    <2> DEFINE e == [k EXCEPT !.block_index = k.block_index + 1]
    <2>3. k.block_index + 1 \in 1..capacity
      BY <1>2, <2>2
    <2> HIDE DEF k
    <2>4. e \in ReaderStates
      BY <1>1, <2>3 DEF ReaderStates
    <2>5. /\ e.key_length = k.key_length /\ e.text = k.text /\ e.section = k.section
          /\ e.waiting = k.waiting /\ e.buffer_index = k.buffer_index
          /\ e.block_index = k.block_index + 1 /\ e.read_block_count = k.read_block_count
      BY <1>1 DEF ReaderStates
    <2>6. Advanced(c) = e
      BY <2>1
    <2> HIDE DEF e
    <2> QED
      BY <1>1, <1>2, <1>4, <2>4, <2>5, <2>6
  <1> QED
    BY <1>3, <1>4

\* A block that a consumer finds is a string.
LEMMA BlockType ==
    ASSUME TypeInv, NEW s \in Sections, NEW i \in DOMAIN buffers[s],
           NEW j \in DOMAIN buffers[s][i]
    PROVE  buffers[s][i][j] \in Strings
  <1>1. buffers[s] \in Seq(Seq(Strings))
    BY DEF TypeInv, TypeOK
  <1>2. buffers[s][i] \in Seq(Strings)
    BY <1>1, LenProperties, ElementOfSeq
  <1> QED
    BY <1>2, LenProperties, ElementOfSeq

LEMMA ConsumerTypes ==
    ASSUME TypeInv, NEW r \in Consumers,
           Construct(r) \/ ServeCachedResponse(r) \/ FillOnes(r) \/ GetBuffer(r)
               \/ LeaveSection(r)
    PROVE  TypeInv'
  <1> DEFINE c == reader[r]
  <1>1. /\ capacity \in Nat \ {0} /\ c \in ReaderStates /\ c.key_length <= Len(c.text)
        /\ block_with_ones \in {Ones, Zeros} /\ is_block_with_ones_initialized \in BOOLEAN
    BY EntryAssumption DEF TypeInv, TypeOK, KeyInText
  <1>2. CASE Construct(r)
    <2> DEFINE s == IF is_block_with_ones_initialized THEN "idle" ELSE "fill"
    <2>1. /\ [c EXCEPT !.section = s] \in ReaderStates
          /\ [c EXCEPT !.section = s].key_length = c.key_length
          /\ [c EXCEPT !.section = s].text = c.text
      BY <1>1 DEF ReaderStates
    <2>2. reader' = [reader EXCEPT ![r] = [c EXCEPT !.section = s]]
      BY <1>2 DEF Construct
    <2>3. UNCHANGED <<capacity, calls, buffers, count, producerVars, sent, block_with_ones>>
          /\ is_block_with_ones_initialized' \in BOOLEAN
      BY <1>2 DEF Construct
    <2> QED
      BY <1>1, <2>1, <2>2, <2>3, ProducerKept
  <1>3. CASE FillOnes(r)
    <2>1. /\ [c EXCEPT !.section = "idle"] \in ReaderStates
          /\ [c EXCEPT !.section = "idle"].key_length = c.key_length
          /\ [c EXCEPT !.section = "idle"].text = c.text
      BY <1>1 DEF ReaderStates
    <2>2. /\ reader' = [reader EXCEPT ![r] = [c EXCEPT !.section = "idle"]]
          /\ block_with_ones' \in {Ones, Zeros}
          /\ UNCHANGED <<capacity, calls, buffers, count, producerVars, sent,
                         is_block_with_ones_initialized>>
      BY <1>3 DEF FillOnes
    <2> QED
      BY <1>1, <2>1, <2>2, ProducerKept
  <1>4. CASE ServeCachedResponse(r)
    <2> DEFINE fresh == [c EXCEPT !.end_stream = FALSE]
    <2>1. fresh \in ReaderStates /\ fresh.key_length = c.key_length /\ fresh.text = c.text
      BY <1>1 DEF ReaderStates
    <2>2. reader' = [reader EXCEPT ![r] = Enter(fresh, "headers")]
      BY <1>4 DEF ServeCachedResponse, FreshStart
    <2>3. UNCHANGED <<capacity, calls, buffers, count, producerVars, sent, onesVars>>
      BY <1>4 DEF ServeCachedResponse
    <2> HIDE DEF fresh
    <2>4. /\ Enter(fresh, "headers") \in ReaderStates
          /\ Enter(fresh, "headers").key_length = fresh.key_length
          /\ Enter(fresh, "headers").text = fresh.text
      BY <1>1, <2>1, EnterType DEF Sections
    <2> QED
      BY <1>1, <2>1, <2>2, <2>3, <2>4, ProducerKept DEF onesVars
  <1>5. CASE GetBuffer(r)
    <2>1. /\ [c EXCEPT !.waiting = FALSE] \in ReaderStates
          /\ [c EXCEPT !.waiting = FALSE].key_length = c.key_length
          /\ [c EXCEPT !.waiting = FALSE].text = c.text
      BY <1>1 DEF ReaderStates
    <2>2. /\ reader' = [reader EXCEPT ![r] = [c EXCEPT !.waiting = FALSE]]
          /\ UNCHANGED <<capacity, calls, buffers, count, producerVars, sent, onesVars>>
      BY <1>5 DEF GetBuffer
    <2> QED
      BY <1>1, <2>1, <2>2, ProducerKept DEF onesVars
  <1>6. CASE LeaveSection(r)
    <2>1. After(c) \in Sections \union {"done"}
      BY DEF After, Sections
    <2>2. /\ reader' = [reader EXCEPT ![r] = Enter(c, After(c))]
          /\ UNCHANGED <<capacity, calls, buffers, count, producerVars, sent, onesVars>>
      BY <1>6 DEF LeaveSection
    <2>3. /\ Enter(c, After(c)) \in ReaderStates
          /\ Enter(c, After(c)).key_length = c.key_length
          /\ Enter(c, After(c)).text = c.text
      BY <1>1, <2>1, EnterType
    <2> QED
      BY <1>1, <2>2, <2>3, ProducerKept DEF onesVars
  <1> QED
    BY <1>2, <1>3, <1>4, <1>5, <1>6

\* A consumer that does not wait for a buffer has one: vector::at() finds it.
Holding ==
    \A r \in Consumers :
        reader[r].section \in Sections /\ ~reader[r].waiting =>
            reader[r].buffer_index \in DOMAIN buffers[reader[r].section]

\* What reading a block is: the block is parsed, and the consumer goes on.
LEMMA ReadStep ==
    ASSUME TypeInv, Holding, NEW r \in Consumers, ReadBlock(r)
    PROVE  \E b \in Strings, d \in ReaderStates :
              /\ Parsed(reader[r], d)
              /\ reader' = [reader EXCEPT ![r] =
                              IF d.section = "trailers" /\ d.end_stream THEN Enter(d, "done")
                                                                        ELSE Advanced(d)]
              /\ d.section \in Sections
              /\ ~d.waiting
              /\ d.buffer_index \in DOMAIN buffers[d.section]
              /\ d.block_index \in DOMAIN buffers[d.section][d.buffer_index]
              /\ UNCHANGED <<capacity, calls, buffers, count, producerVars, onesVars, sent>>
  <1> DEFINE c == reader[r]
             b == buffers[c.section][c.buffer_index][c.block_index]
             d == Parse(c, b).state
  <1>1. c \in ReaderStates /\ c.key_length <= Len(c.text)
    BY DEF TypeInv, TypeOK, KeyInText
  <1>2. /\ c.section \in Sections
        /\ ~c.waiting
        /\ c.block_index \in DOMAIN buffers[c.section][c.buffer_index]
        /\ reader' = [reader EXCEPT ![r] =
                        IF c.section = "trailers" /\ d.end_stream THEN Enter(d, "done")
                                                                  ELSE Advanced(d)]
        /\ UNCHANGED <<capacity, calls, buffers, count, producerVars, onesVars, sent>>
    BY DEF ReadBlock
  <1>3. c.buffer_index \in DOMAIN buffers[c.section]
    BY <1>2 DEF Holding
  <1>4. b \in Strings
    BY <1>2, <1>3, BlockType
  <1> HIDE DEF b
  <1>5. Parsed(c, d)
    BY <1>1, <1>4, ParseType
  <1> HIDE DEF d
  <1>6. /\ d \in ReaderStates
        /\ d.section = c.section
        /\ d.waiting = c.waiting
        /\ d.buffer_index = c.buffer_index
        /\ d.block_index = c.block_index
    BY <1>5 DEF Parsed
  <1> QED
    BY <1>2, <1>3, <1>4, <1>5, <1>6

LEMMA ReadTypes ==
    ASSUME TypeInv, Holding, NEW r \in Consumers, ReadBlock(r)
    PROVE  TypeInv'
  <1>1. capacity \in Nat \ {0}
        /\ block_with_ones \in {Ones, Zeros} /\ is_block_with_ones_initialized \in BOOLEAN
    BY EntryAssumption DEF TypeInv, TypeOK
  <1>2. PICK d \in ReaderStates :
           /\ Parsed(reader[r], d)
           /\ reader' = [reader EXCEPT ![r] =
                           IF d.section = "trailers" /\ d.end_stream THEN Enter(d, "done")
                                                                     ELSE Advanced(d)]
           /\ UNCHANGED <<capacity, calls, buffers, count, producerVars, onesVars, sent>>
    BY ReadStep
  <1> DEFINE e == IF d.section = "trailers" /\ d.end_stream THEN Enter(d, "done")
                                                            ELSE Advanced(d)
  <1>3. e \in ReaderStates /\ e.key_length = d.key_length /\ e.text = d.text
    BY <1>1, EnterType, AdvancedType
  <1>4. d.key_length <= Len(d.text)
    BY <1>2 DEF Parsed
  <1>5. reader' = [reader EXCEPT ![r] = e]
    BY <1>2
  <1> HIDE DEF e
  <1> QED
    BY <1>1, <1>2, <1>3, <1>4, <1>5, ProducerKept DEF onesVars

----------------------------------------------------------------------------
(* Buffers                                                                  *)

\* Every buffer of a list but the last is full, with n blocks.
AllFull(list, n) ==
    \A i \in DOMAIN list :
        /\ Len(list[i]) <= n
        /\ i < Len(list) => Len(list[i]) = n

\* How many blocks such a list has.
InList(list, n) == IF list = <<>> THEN 0 ELSE (Len(list) - 1) * n + Len(list[Len(list)])

LEMMA Times ==
    ASSUME NEW a \in Nat, NEW b \in Nat, NEW c \in Nat
    PROVE  /\ a * c \in Nat
           /\ (a + 1) * c = a * c + c
           /\ a <= b => a * c <= b * c
  <1>1. a * c \in Nat /\ (a + 1) * c = a * c + c
    OBVIOUS
  <1>2. ASSUME a <= b PROVE a * c <= b * c
    <2>1. PICK d \in Nat : b = a + d
      <3>1. b - a \in Nat /\ b = a + (b - a)
        BY <1>2
      <3> QED
        BY <3>1
    <2>2. b * c = a * c + d * c /\ d * c \in Nat /\ a * c \in Nat
      BY <2>1
    <2> QED
      BY <2>2
  <1> QED
    BY <1>1, <1>2

LEMMA ListType ==
    ASSUME NEW list \in Seq(Seq(Strings))
    PROVE  /\ Len(list) \in Nat
           /\ DOMAIN list = 1..Len(list)
           /\ \A i \in 1..Len(list) : /\ list[i] \in Seq(Strings)
                                     /\ Len(list[i]) \in Nat
                                     /\ DOMAIN list[i] = 1..Len(list[i])
           /\ list # <<>> <=> Len(list) >= 1
  <1>1. /\ Len(list) \in Nat
        /\ DOMAIN list = 1..Len(list)
        /\ list # <<>> <=> Len(list) >= 1
    BY EmptySeq, LenProperties
  <1>2. \A i \in 1..Len(list) : /\ list[i] \in Seq(Strings)
                               /\ Len(list[i]) \in Nat
                               /\ DOMAIN list[i] = 1..Len(list[i])
    BY ElementOfSeq, LenProperties
  <1> QED
    BY <1>1, <1>2

LEMMA InListType ==
    ASSUME NEW list \in Seq(Seq(Strings)), NEW n \in Nat
    PROVE  InList(list, n) \in Nat
  <1>1. CASE list # <<>>
    <2> DEFINE p == (Len(list) - 1) * n
               q == Len(list[Len(list)])
    <2>1. Len(list) - 1 \in Nat /\ Len(list) \in 1..Len(list)
      BY <1>1, ListType
    <2>2. p \in Nat /\ q \in Nat
      BY <2>1, Times, ListType
    <2>3. InList(list, n) = p + q
      BY <1>1 DEF InList
    <2> HIDE DEF p, q
    <2> QED
      BY <2>2, <2>3
  <1>2. CASE list = <<>>
    BY <1>2 DEF InList
  <1> QED
    BY <1>1, <1>2

\* A new buffer goes behind full ones, and holds no block.
LEMMA EmplaceList ==
    ASSUME NEW n \in Nat \ {0}, NEW list \in Seq(Seq(Strings)), AllFull(list, n),
           list # <<>> => Len(list[Len(list)]) >= n
    PROVE  /\ AllFull(Append(list, <<>>), n)
           /\ InList(Append(list, <<>>), n) = InList(list, n)
           /\ Len(Append(list, <<>>)) = Len(list) + 1
           /\ Append(list, <<>>) \in Seq(Seq(Strings))
  <1> DEFINE new == Append(list, <<>>)
             m == Len(list)
  <1>1. /\ m \in Nat /\ DOMAIN list = 1..m /\ (list # <<>> <=> m >= 1)
        /\ \A i \in 1..m : Len(list[i]) \in Nat
    BY ListType
  <1>2. ASSUME NEW i \in 1..m PROVE Len(list[i]) = n
    <2>1. Len(list[i]) <= n /\ (i < m => Len(list[i]) = n)
      BY <1>1 DEF AllFull
    <2>2. i = m => Len(list[i]) >= n
      BY <1>1
    <2> HIDE DEF m
    <2> QED
      BY <1>1, <2>1, <2>2
  <1>3. /\ new \in Seq(Seq(Strings)) /\ Len(new) = m + 1 /\ new[m + 1] = <<>>
        /\ \A i \in 1..m : new[i] = list[i]
    <2>1. <<>> \in Seq(Strings)
      OBVIOUS
    <2> QED
      BY <1>1, <2>1
  <1>4. DOMAIN new = 1..(m + 1) /\ new # <<>>
    <2> HIDE DEF new, m
    <2> QED
      BY <1>1, <1>3, ListType
  <1> HIDE DEF new, m
  <1>5. Len(<<>>) = 0
    OBVIOUS
  <1>6. AllFull(new, n)
    <2> SUFFICES ASSUME NEW i \in 1..(m + 1)
                 PROVE  Len(new[i]) <= n /\ (i < m + 1 => Len(new[i]) = n)
      BY <1>3, <1>4 DEF AllFull
    <2>1. CASE i = m + 1
      BY <1>1, <1>3, <1>5, <2>1
    <2>2. CASE i # m + 1
      <3>1. i \in 1..m
        BY <1>1, <2>2
      <3>2. new[i] = list[i] /\ Len(list[i]) = n
        BY <1>2, <1>3, <3>1
      <3> QED
        BY <3>2
    <2> QED
      BY <2>1, <2>2
  <1>7. InList(new, n) = m * n
    <2>1. InList(new, n) = (Len(new) - 1) * n + Len(new[Len(new)])
      BY <1>4 DEF InList
    <2>2. Len(new) - 1 = m /\ Len(new[Len(new)]) = 0 /\ m * n \in Nat
      BY <1>1, <1>3, <1>5, Times
    <2> QED
      BY <2>1, <2>2
  <1>8. InList(list, n) = m * n
    <2>1. CASE list = <<>>
      BY <1>1, <2>1 DEF InList
    <2>2. CASE list # <<>>
      <3>1. m - 1 \in Nat /\ m \in 1..m
        BY <1>1, <2>2
      <3>2. (m - 1 + 1) * n = (m - 1) * n + n
        BY <3>1, Times
      <3> QED
        BY <1>1, <1>2, <2>2, <3>1, <3>2 DEF InList, m
    <2> QED
      BY <2>1, <2>2
  <1> QED
    BY <1>3, <1>6, <1>7, <1>8 DEF new, m

\* A block goes to the last buffer, if it has room.
LEMMA WriteList ==
    ASSUME NEW n \in Nat \ {0}, NEW list \in Seq(Seq(Strings)), AllFull(list, n),
           list # <<>>, Len(list[Len(list)]) < n, NEW b \in Strings
    PROVE  LET new == [list EXCEPT ![Len(list)] = Append(@, b)] IN
           /\ AllFull(new, n)
           /\ InList(new, n) = InList(list, n) + 1
           /\ Len(new) = Len(list)
           /\ new \in Seq(Seq(Strings))
  <1> DEFINE m == Len(list)
             longer == Append(list[m], b)
             new == [list EXCEPT ![m] = longer]
  <1>1. /\ m \in Nat /\ m >= 1 /\ m \in 1..m /\ DOMAIN list = 1..m
        /\ list[m] \in Seq(Strings)
        /\ \A i \in 1..m : Len(list[i]) \in Nat
    <2>1. m \in Nat /\ m >= 1 /\ DOMAIN list = 1..m
      BY ListType
    <2>2. m \in 1..m
      BY <2>1
    <2> QED
      BY <2>1, <2>2, ListType
  <1>2. longer \in Seq(Strings) /\ Len(longer) = Len(list[m]) + 1
    BY <1>1
  <1> HIDE DEF longer
  <1>3. /\ new \in Seq(Seq(Strings)) /\ Len(new) = m
        /\ \A i \in 1..m : new[i] = IF i = m THEN longer ELSE list[i]
    BY <1>1, <1>2, ExceptSeq
  <1>4. DOMAIN new = 1..m /\ new # <<>>
    BY <1>1, <1>3, ListType
  <1> HIDE DEF new
  <1>5. AllFull(new, n)
    <2> SUFFICES ASSUME NEW i \in 1..m
                 PROVE  Len(new[i]) <= n /\ (i < m => Len(new[i]) = n)
      BY <1>3, <1>4 DEF AllFull
    <2>1. i # m => Len(list[i]) <= n /\ (i < m => Len(list[i]) = n)
      BY <1>1 DEF AllFull
    <2>2. Len(longer) <= n
      BY <1>1, <1>2
    <2> QED
      BY <1>3, <2>1, <2>2
  <1>6. InList(list, n) = (m - 1) * n + Len(list[m])
    BY DEF InList
  <1>7. InList(new, n) = (m - 1) * n + Len(longer)
    BY <1>1, <1>3, <1>4 DEF InList
  <1>8. (m - 1) * n \in Nat
    BY <1>1, Times
  <1>9. InList(new, n) = InList(list, n) + 1
    BY <1>1, <1>2, <1>6, <1>7, <1>8
  <1> QED
    BY <1>3, <1>5, <1>9 DEF new, longer

\* The place of a block is not behind the number of blocks.
LEMMA PlaceInList ==
    ASSUME NEW n \in Nat \ {0}, NEW list \in Seq(Seq(Strings)), AllFull(list, n),
           NEW i \in DOMAIN list, NEW j \in DOMAIN list[i]
    PROVE  /\ j \in 1..n
           /\ (i - 1) * n \in Nat
           /\ i * n = (i - 1) * n + n
           /\ (i - 1) * n + j <= InList(list, n)
  <1> DEFINE m == Len(list)
  <1>1. /\ m \in Nat /\ i \in 1..m /\ list # <<>>
        /\ \A k \in 1..m : Len(list[k]) \in Nat /\ DOMAIN list[k] = 1..Len(list[k])
    <2>1. DOMAIN list = 1..m
      BY ListType
    <2>2. i \in 1..m
      BY <2>1
    <2> QED
      BY <2>2, ListType
  <1>2. j \in 1..Len(list[i]) /\ Len(list[i]) <= n
    BY <1>1 DEF AllFull
  <1>3. i - 1 \in Nat /\ m - 1 \in Nat /\ m \in 1..m
    BY <1>1
  <1>4. /\ (i - 1) * n \in Nat /\ (m - 1) * n \in Nat
        /\ (i - 1 + 1) * n = (i - 1) * n + n
        /\ i <= m - 1 => i * n <= (m - 1) * n
    <2>1. n \in Nat /\ i \in Nat
      BY <1>1
    <2> HIDE DEF m
    <2>2. (i - 1) * n \in Nat /\ (i - 1 + 1) * n = (i - 1) * n + n
      BY <1>3, <2>1, Times
    <2>3. (m - 1) * n \in Nat
      BY <1>3, <2>1, Times
    <2>4. i <= m - 1 => i * n <= (m - 1) * n
      BY <1>3, <2>1, Times
    <2> QED
      BY <2>2, <2>3, <2>4
  <1>5. i - 1 + 1 = i
    BY <1>1
  <1>6. InList(list, n) = (m - 1) * n + Len(list[m])
    BY <1>1 DEF InList
  <1>7. ASSUME i = m PROVE (i - 1) * n + j <= InList(list, n)
    BY <1>2, <1>3, <1>4, <1>6, <1>7, <1>1
  <1>8. ASSUME i # m PROVE (i - 1) * n + j <= InList(list, n)
    <2> DEFINE p == (i - 1) * n
               q == (m - 1) * n
    <2>1. i <= m - 1
      BY <1>1, <1>8
    <2>2. p + n <= q /\ p \in Nat /\ q \in Nat
      BY <1>4, <1>5, <2>1
    <2>3. InList(list, n) = q + Len(list[m]) /\ Len(list[m]) \in Nat
      BY <1>1, <1>3, <1>6
    <2> HIDE DEF p, q
    <2>4. p + j <= InList(list, n)
      BY <1>1, <1>2, <2>2, <2>3
    <2> QED
      BY <2>4 DEF p
  <1> QED
    BY <1>1, <1>2, <1>4, <1>5, <1>7, <1>8

----------------------------------------------------------------------------
(* The consumers' indices                                                   *)

Filled == \A s \in Sections : AllFull(buffers[s], capacity)

LEMMA ListsType ==
    ASSUME TypeInv, NEW s \in Sections
    PROVE  capacity \in Nat \ {0} /\ buffers[s] \in Seq(Seq(Strings))
  BY EntryAssumption DEF TypeInv, TypeOK

\* What the producer's steps do to the buffers.
LEMMA EmplaceStep ==
    ASSUME TypeInv, Filled, EmplaceBuffer
    PROVE  /\ Filled'
           /\ \A s \in Sections : /\ Blocks(s)' = Blocks(s)
                                 /\ DOMAIN buffers[s] \subseteq DOMAIN (buffers'[s])
  <1> DEFINE list == buffers[section]
  <1>1. /\ section \in Sections
        /\ buffers \in [Sections -> Seq(Seq(Strings))]
        /\ capacity' = capacity
        /\ buffers' = [buffers EXCEPT ![section] = Append(list, <<>>)]
        /\ list # <<>> => Len(list[Len(list)]) >= capacity
    BY DEF TypeInv, TypeOK, EmplaceBuffer, LastFull, Last
  <1>2. capacity \in Nat \ {0} /\ list \in Seq(Seq(Strings)) /\ AllFull(list, capacity)
    BY <1>1, ListsType DEF Filled
  <1> HIDE DEF list
  <1>3. /\ AllFull(Append(list, <<>>), capacity)
        /\ InList(Append(list, <<>>), capacity) = InList(list, capacity)
        /\ Len(Append(list, <<>>)) = Len(list) + 1
        /\ Append(list, <<>>) \in Seq(Seq(Strings))
    BY <1>1, <1>2, EmplaceList
  <1> DEFINE new == Append(list, <<>>)
  <1>4. \A s \in Sections : buffers'[s] = IF s = section THEN new ELSE buffers[s]
    BY <1>1
  <1> HIDE DEF new
  <1>5. DOMAIN list \subseteq DOMAIN new
    BY <1>2, <1>3, ListType DEF new
  <1>6. \A s \in Sections : AllFull(buffers'[s], capacity')
    BY <1>1, <1>3, <1>4 DEF new, Filled
  <1>7. Filled'
    BY <1>6 DEF Filled
  <1>8. ASSUME NEW s \in Sections
        PROVE  Blocks(s)' = Blocks(s) /\ DOMAIN buffers[s] \subseteq DOMAIN (buffers'[s])
    <2>1. Blocks(s) = InList(buffers[s], capacity) /\ Blocks(s)' = InList(buffers'[s], capacity')
      BY DEF Blocks, InList, Last
    <2> QED
      BY <1>1, <1>3, <1>4, <1>5, <2>1 DEF new, list
  <1> QED
    BY <1>7, <1>8

LEMMA WriteStep ==
    ASSUME TypeInv, Filled, WriteBlock
    PROVE  /\ Filled'
           /\ \A s \in Sections :
                 /\ Blocks(s)' = IF s = section THEN Blocks(s) + 1 ELSE Blocks(s)
                 /\ DOMAIN buffers[s] \subseteq DOMAIN (buffers'[s])
  <1> DEFINE list == buffers[section]
             b == NextBlock.block
             new == [list EXCEPT ![Len(list)] = Append(@, b)]
  <1>1. /\ section \in Sections
        /\ buffers \in [Sections -> Seq(Seq(Strings))]
        /\ capacity' = capacity
        /\ buffers' = [buffers EXCEPT ![section] = new]
        /\ list # <<>>
        /\ ~(Len(list[Len(list)]) >= capacity)
    BY DEF TypeInv, TypeOK, WriteBlock, LastFull, Last
  <1>2. capacity \in Nat \ {0} /\ list \in Seq(Seq(Strings)) /\ AllFull(list, capacity)
    BY <1>1, ListsType DEF Filled
  <1>3. b \in Strings
    BY NextBlockType DEF WriteBlock
  <1> HIDE DEF list, b
  <1>4. Len(list[Len(list)]) < capacity
    <2>1. Len(list[Len(list)]) \in Nat
      BY <1>1, <1>2, ListType
    <2> QED
      BY <1>1, <1>2, <2>1
  <1>5. /\ AllFull(new, capacity)
        /\ InList(new, capacity) = InList(list, capacity) + 1
        /\ Len(new) = Len(list)
        /\ new \in Seq(Seq(Strings))
    BY <1>1, <1>2, <1>3, <1>4, WriteList
  <1>6. \A s \in Sections : buffers'[s] = IF s = section THEN new ELSE buffers[s]
    BY <1>1
  <1> HIDE DEF new
  <1>7. DOMAIN list \subseteq DOMAIN new
    BY <1>2, <1>5, ListType
  <1>8. \A s \in Sections : AllFull(buffers'[s], capacity')
    BY <1>1, <1>5, <1>6 DEF Filled
  <1>9. Filled'
    BY <1>8 DEF Filled
  <1>10. ASSUME NEW s \in Sections
         PROVE  /\ Blocks(s)' = IF s = section THEN Blocks(s) + 1 ELSE Blocks(s)
                /\ DOMAIN buffers[s] \subseteq DOMAIN (buffers'[s])
    <2>1. Blocks(s) = InList(buffers[s], capacity) /\ Blocks(s)' = InList(buffers'[s], capacity')
      BY DEF Blocks, InList, Last
    <2> QED
      BY <1>1, <1>5, <1>6, <1>7, <2>1 DEF list
  <1> QED
    BY <1>9, <1>10

LEMMA BehindKept ==
    ASSUME TypeInv, ReadersBehind, UNCHANGED <<capacity, reader>>,
           \A s \in Sections : /\ Blocks(s) \in Nat
                               /\ Blocks(s)' \in Nat
                               /\ Blocks(s)' >= Blocks(s)
                               /\ DOMAIN buffers[s] \subseteq DOMAIN (buffers'[s])
    PROVE  ReadersBehind'
  <1> SUFFICES ASSUME NEW r \in Consumers, reader[r].section \in Sections
               PROVE  Behind(reader[r])'
    BY DEF ReadersBehind, Behind
  <1> DEFINE c == reader[r]
  <1>1. reader'[r] = c /\ capacity' = capacity
    OBVIOUS
  <1>2. /\ Position(c) <= Blocks(c.section)
        /\ c.section # "trailers" => c.read_block_count = Position(c)
        /\ ~c.waiting => c.buffer_index \in DOMAIN buffers[c.section]
    BY DEF ReadersBehind, Behind
  <1>3. Position(reader[r])' = Position(c)
    BY <1>1 DEF Position
  <1>4. Position(c) \in Int
    <2>1. c \in ReaderStates /\ capacity \in Nat
      BY EntryAssumption DEF TypeInv, TypeOK
    <2>2. c.buffer_index - 1 \in Nat /\ c.block_index \in Nat
      BY <2>1 DEF ReaderStates
    <2>3. (c.buffer_index - 1) * capacity \in Nat
      BY <2>1, <2>2, Times
    <2> QED
      BY <2>2, <2>3 DEF Position
  <1>5. Position(c) <= Blocks(c.section)'
    BY <1>2, <1>4
  <1> QED
    BY <1>1, <1>2, <1>3, <1>5 DEF Behind

LEMMA BehindMoved ==
    ASSUME ReadersBehind, UNCHANGED <<capacity, buffers>>,
           reader \in [Consumers -> ReaderStates],
           NEW r \in Consumers, NEW d, Behind(d), reader' = [reader EXCEPT ![r] = d]
    PROVE  ReadersBehind'
  <1> SUFFICES ASSUME NEW q \in Consumers PROVE Behind(reader[q])'
    BY DEF ReadersBehind
  <1>1. reader'[q] = IF q = r THEN d ELSE reader[q]
    OBVIOUS
  <1>2. Behind(reader'[q])
    BY <1>1 DEF ReadersBehind
  <1> QED
    BY <1>2 DEF Behind, Position, Blocks, Last

\* A section is entered in front of its blocks.
LEMMA EnterBehind ==
    ASSUME TypeInv, NEW c \in ReaderStates, NEW s \in Sections \union {"done"}
    PROVE  Behind(Enter(c, s))
  <1> DEFINE e == Enter(c, s)
  <1>1. /\ e.section = s /\ e.waiting = TRUE /\ e.buffer_index = 1 /\ e.block_index = 1
        /\ s # "trailers" => e.read_block_count = 0
    <2>1. capacity \in Nat \ {0}
      BY EntryAssumption DEF TypeInv, TypeOK
    <2> QED
      BY <2>1, EnterType
  <1>2. capacity \in Nat
    BY EntryAssumption DEF TypeInv, TypeOK
  <1> HIDE DEF e
  <1>3. Position(e) = 0
    BY <1>1, <1>2 DEF Position
  <1>4. s \in Sections => Blocks(s) \in Nat
    BY ListsType, InListType DEF Blocks, InList, Last
  <1> QED
    BY <1>1, <1>3, <1>4 DEF Behind, e

LEMMA ReadBehind ==
    ASSUME TypeInv, Filled, ReadersBehind, NEW r \in Consumers, ReadBlock(r)
    PROVE  ReadersBehind'
  <1>1. Holding
    BY DEF ReadersBehind, Behind, Holding
  <1>2. PICK d \in ReaderStates :
           /\ Parsed(reader[r], d)
           /\ reader' = [reader EXCEPT ![r] =
                           IF d.section = "trailers" /\ d.end_stream THEN Enter(d, "done")
                                                                     ELSE Advanced(d)]
           /\ d.section \in Sections
           /\ ~d.waiting
           /\ d.buffer_index \in DOMAIN buffers[d.section]
           /\ d.block_index \in DOMAIN buffers[d.section][d.buffer_index]
           /\ UNCHANGED <<capacity, calls, buffers, count, producerVars, onesVars, sent>>
    BY <1>1, ReadStep
  <1> DEFINE e == Advanced(d)
             s == d.section
             i == d.buffer_index
             j == d.block_index
             full == j = capacity
  <1>3. capacity \in Nat \ {0} /\ reader \in [Consumers -> ReaderStates]
    BY EntryAssumption DEF TypeInv, TypeOK
  <1>4. /\ j \in 1..capacity
        /\ (i - 1) * capacity \in Nat
        /\ i * capacity = (i - 1) * capacity + capacity
        /\ (i - 1) * capacity + j <= Blocks(s)
    <2>1. buffers[s] \in Seq(Seq(Strings)) /\ AllFull(buffers[s], capacity)
      BY <1>2, ListsType DEF Filled
    <2>2. Blocks(s) = InList(buffers[s], capacity)
      BY DEF Blocks, InList, Last
    <2> QED
      BY <1>2, <1>3, <2>1, <2>2, PlaceInList
  <1>5. /\ e.section = s
        /\ full => e.waiting = TRUE
        /\ ~full => e.waiting = d.waiting
        /\ e.buffer_index = IF full THEN i + 1 ELSE i
        /\ e.block_index = IF full THEN 1 ELSE j + 1
        /\ s # "trailers" => e.read_block_count = d.read_block_count + 1
    BY <1>3, AdvancedType
  <1>6. s # "trailers" => d.read_block_count = (i - 1) * capacity + j - 1
    <2>1. Behind(reader[r]) /\ Parsed(reader[r], d)
      BY <1>2 DEF ReadersBehind
    <2> QED
      BY <1>2, <2>1 DEF Behind, Parsed, Position
  <1>7. i \in Nat
    BY DEF ReaderStates
  <1> DEFINE p == (i - 1) * capacity
  <1>8. Position(e) = p + j
    <2>1. CASE full
      <3> DEFINE k == e.buffer_index - 1
                 q == i * capacity
      <3>1. k = i /\ e.block_index = 1
        BY <1>5, <1>7, <2>1
      <3>2. Position(e) = k * capacity + e.block_index - 1
        BY DEF Position
      <3>3. q = p + capacity /\ p \in Nat /\ j = capacity
        BY <1>4, <2>1
      <3> HIDE DEF e, k, p, j
      <3>4. Position(e) = q + 1 - 1
        BY <3>1, <3>2
      <3> HIDE DEF q
      <3> QED
        BY <1>3, <3>3, <3>4
    <2>2. CASE ~full
      <3>1. e.buffer_index = i /\ e.block_index = j + 1
        BY <1>5, <2>2
      <3>2. Position(e) = p + (j + 1) - 1
        BY <3>1 DEF Position
      <3>3. p \in Nat /\ j \in Nat
        BY <1>3, <1>4
      <3> HIDE DEF p, e
      <3> QED
        BY <3>2, <3>3
    <2> QED
      BY <2>1, <2>2
  <1> HIDE DEF e
  <1>9. Behind(e)
    <2>1. Position(e) <= Blocks(s)
      BY <1>4, <1>8
    <2>2. s # "trailers" => e.read_block_count = Position(e)
      <3>1. p \in Nat /\ j \in Nat
        BY <1>3, <1>4
      <3>2. s # "trailers" => e.read_block_count = p + j - 1 + 1
        BY <1>5, <1>6
      <3> HIDE DEF p
      <3> QED
        BY <1>8, <3>1, <3>2
    <2>3. ~e.waiting => e.buffer_index \in DOMAIN buffers[s]
      BY <1>2, <1>5
    <2> QED
      BY <1>5, <2>1, <2>2, <2>3 DEF Behind
  <1>10. CASE d.section = "trailers" /\ d.end_stream
    <2>1. Behind(Enter(d, "done"))
      BY EnterBehind
    <2> QED
      BY <1>2, <1>3, <1>10, <2>1, BehindMoved
  <1>11. CASE ~(d.section = "trailers" /\ d.end_stream)
    <2>1. reader' = [reader EXCEPT ![r] = e]
      BY <1>2, <1>11 DEF e
    <2> QED
      BY <1>2, <1>3, <1>9, <2>1, BehindMoved
  <1> QED
    BY <1>10, <1>11

LEMMA BlocksType ==
    TypeInv => \A s \in Sections : Blocks(s) \in Nat
  BY ListsType, InListType DEF Blocks, InList, Last

\* The other steps of a consumer.
LEMMA ConsumerBehind ==
    ASSUME TypeInv, ReadersBehind, NEW r \in Consumers,
           Construct(r) \/ ServeCachedResponse(r) \/ FillOnes(r) \/ GetBuffer(r)
               \/ LeaveSection(r)
    PROVE  ReadersBehind'
  <1> DEFINE c == reader[r]
  <1>1. /\ c \in ReaderStates /\ Behind(c) /\ reader \in [Consumers -> ReaderStates]
        /\ UNCHANGED <<capacity, buffers>>
    BY DEF TypeInv, TypeOK, ReadersBehind, Construct, ServeCachedResponse, FillOnes,
           GetBuffer, LeaveSection
  <1>2. CASE Construct(r)
    <2> DEFINE s == IF is_block_with_ones_initialized THEN "idle" ELSE "fill"
               d == [c EXCEPT !.section = s]
    <2>1. d.section \notin Sections
      BY <1>1 DEF Sections, ReaderStates
    <2>2. Behind(d)
      BY <2>1 DEF Behind
    <2>3. reader' = [reader EXCEPT ![r] = d]
      BY <1>2 DEF Construct
    <2> QED
      BY <1>1, <2>2, <2>3, BehindMoved
  <1>3. CASE FillOnes(r)
    <2> DEFINE d == [c EXCEPT !.section = "idle"]
    <2>1. d.section \notin Sections
      BY <1>1 DEF Sections, ReaderStates
    <2>2. Behind(d)
      BY <2>1 DEF Behind
    <2>3. reader' = [reader EXCEPT ![r] = d]
      BY <1>3 DEF FillOnes
    <2> QED
      BY <1>1, <2>2, <2>3, BehindMoved
  <1>4. CASE ServeCachedResponse(r)
    <2> DEFINE fresh == [c EXCEPT !.end_stream = FALSE]
    <2>1. fresh \in ReaderStates
      BY <1>1 DEF ReaderStates
    <2>2. reader' = [reader EXCEPT ![r] = Enter(fresh, "headers")]
      BY <1>4 DEF ServeCachedResponse, FreshStart
    <2> HIDE DEF fresh
    <2>3. Behind(Enter(fresh, "headers"))
      BY <2>1, EnterBehind DEF Sections
    <2> QED
      BY <1>1, <2>2, <2>3, BehindMoved
  <1>5. CASE GetBuffer(r)
    <2> DEFINE d == [c EXCEPT !.waiting = FALSE]
    <2>1. /\ d.section = c.section /\ d.buffer_index = c.buffer_index
          /\ d.block_index = c.block_index /\ d.read_block_count = c.read_block_count
      BY <1>1 DEF ReaderStates
    <2>2. c.section \in Sections /\ c.buffer_index \in DOMAIN buffers[c.section]
      <3>1. c.section \in Sections /\ c.buffer_index <= Len(buffers[c.section])
        BY <1>5 DEF GetBuffer
      <3>2. DOMAIN buffers[c.section] = 1..Len(buffers[c.section])
            /\ Len(buffers[c.section]) \in Nat
        BY <3>1, ListsType, ListType
      <3>3. c.buffer_index \in Nat \ {0}
        BY <1>1 DEF ReaderStates
      <3> QED
        BY <3>1, <3>2, <3>3
    <2>3. Behind(d)
      BY <1>1, <2>1, <2>2 DEF Behind, Position
    <2>4. reader' = [reader EXCEPT ![r] = d]
      BY <1>5 DEF GetBuffer
    <2> QED
      BY <1>1, <2>3, <2>4, BehindMoved
  <1>6. CASE LeaveSection(r)
    <2>1. After(c) \in Sections \union {"done"}
      BY DEF After, Sections
    <2>2. reader' = [reader EXCEPT ![r] = Enter(c, After(c))]
      BY <1>6 DEF LeaveSection
    <2>3. Behind(Enter(c, After(c)))
      BY <1>1, <2>1, EnterBehind
    <2> QED
      BY <1>1, <2>2, <2>3, BehindMoved
  <1> QED
    BY <1>2, <1>3, <1>4, <1>5, <1>6

----------------------------------------------------------------------------
(* The invariant                                                            *)

EntryInv == TypeInv /\ Filled /\ ReadersBehind

LEMMA InitEntry == Init => EntryInv
  <1> SUFFICES ASSUME Init PROVE EntryInv
    OBVIOUS
  <1>1. TypeInv
    BY InitTypes
  <1>2. \A s \in Sections : buffers[s] = <<>>
    BY DEF Init
  <1>3. Filled
    BY <1>2 DEF Filled, AllFull
  <1>4. \A r \in Consumers : reader[r].section = "unborn"
    BY DEF Init, NewReader
  <1>5. ReadersBehind
    BY <1>4 DEF ReadersBehind, Behind, Sections
  <1> QED
    BY <1>1, <1>3, <1>5 DEF EntryInv

LEMMA NextEntry == EntryInv /\ [Next]_vars => EntryInv'
  <1> SUFFICES ASSUME EntryInv, [Next]_vars PROVE EntryInv'
    OBVIOUS
  <1>1. TypeInv /\ Filled /\ ReadersBehind /\ \A s \in Sections : Blocks(s) \in Nat
    BY BlocksType DEF EntryInv
  <1>2. ASSUME TypeInv' PROVE \A s \in Sections : Blocks(s)' \in Nat
    <2>1. ASSUME NEW s \in Sections PROVE Blocks(s)' \in Nat
      <3>1. capacity' \in Nat \ {0} /\ buffers'[s] \in Seq(Seq(Strings))
        BY <1>2, EntryAssumption DEF TypeInv, TypeOK
      <3>2. Blocks(s)' = InList(buffers'[s], capacity')
        BY DEF Blocks, InList, Last
      <3> QED
        BY <3>1, <3>2, InListType
    <2> QED
      BY <2>1
  <1>3. ASSUME TypeInv', UNCHANGED <<capacity, buffers, reader>> PROVE EntryInv'
    <2>1. Filled'
      BY <1>1, <1>3 DEF Filled
    <2>2. ASSUME NEW s \in Sections
          PROVE  Blocks(s)' = Blocks(s) /\ DOMAIN buffers[s] \subseteq DOMAIN (buffers'[s])
      BY <1>3 DEF Blocks, Last
    <2>3. ReadersBehind'
      BY <1>1, <1>2, <1>3, <2>2, BehindKept
    <2> QED
      BY <1>3, <2>1, <2>3 DEF EntryInv
  <1>4. ASSUME EncodeHeaders \/ EncodeData \/ EncodeTrailers PROVE EntryInv'
    <2>1. UNCHANGED <<capacity, buffers, reader>>
      BY <1>4 DEF EncodeHeaders, EncodeData, EncodeTrailers, NextCall, consumerVars
    <2> QED
      BY <1>1, <1>3, <1>4, <2>1, EncodeTypes
  <1>5. ASSUME WriteComplete PROVE EntryInv'
    <2>1. UNCHANGED <<capacity, buffers, reader>>
      BY <1>5 DEF WriteComplete, consumerVars
    <2> QED
      BY <1>1, <1>3, <1>5, <2>1, CompleteTypes
  <1>6. ASSUME EmplaceBuffer PROVE EntryInv'
    <2>1. TypeInv'
      BY <1>1, <1>6, EmplaceTypes
    <2>2. /\ Filled'
          /\ \A s \in Sections : /\ Blocks(s)' = Blocks(s)
                                /\ DOMAIN buffers[s] \subseteq DOMAIN (buffers'[s])
      BY <1>1, <1>6, EmplaceStep
    <2>3. UNCHANGED <<capacity, reader>>
      BY <1>6 DEF EmplaceBuffer, consumerVars
    <2>4. ReadersBehind'
      BY <1>1, <1>2, <2>1, <2>2, <2>3, BehindKept
    <2> QED
      BY <2>1, <2>2, <2>4 DEF EntryInv
  <1>7. ASSUME WriteBlock PROVE EntryInv'
    <2>1. TypeInv'
      BY <1>1, <1>7, WriteTypes
    <2>2. /\ Filled'
          /\ \A s \in Sections :
                /\ Blocks(s)' = IF s = section THEN Blocks(s) + 1 ELSE Blocks(s)
                /\ DOMAIN buffers[s] \subseteq DOMAIN (buffers'[s])
      BY <1>1, <1>7, WriteStep
    <2>3. UNCHANGED <<capacity, reader>>
      BY <1>7 DEF WriteBlock, consumerVars
    <2>4. \A s \in Sections : Blocks(s)' >= Blocks(s)
      BY <1>1, <2>2
    <2>5. ReadersBehind'
      BY <1>1, <1>2, <2>1, <2>2, <2>3, <2>4, BehindKept
    <2> QED
      BY <2>1, <2>2, <2>5 DEF EntryInv
  <1>8. ASSUME NEW r \in Consumers,
               Construct(r) \/ ServeCachedResponse(r) \/ FillOnes(r) \/ GetBuffer(r)
                   \/ LeaveSection(r)
        PROVE  EntryInv'
    <2>1. TypeInv' /\ ReadersBehind'
      BY <1>1, <1>8, ConsumerTypes, ConsumerBehind
    <2>2. UNCHANGED <<capacity, buffers>>
      BY <1>8 DEF Construct, ServeCachedResponse, FillOnes, GetBuffer, LeaveSection
    <2> QED
      BY <1>1, <2>1, <2>2 DEF EntryInv, Filled
  <1>9. ASSUME NEW r \in Consumers, ReadBlock(r) PROVE EntryInv'
    <2>1. Holding
      BY <1>1 DEF ReadersBehind, Behind, Holding
    <2>2. TypeInv' /\ ReadersBehind'
      BY <1>1, <1>9, <2>1, ReadTypes, ReadBehind
    <2>3. UNCHANGED <<capacity, buffers>>
      BY <1>9 DEF ReadBlock
    <2> QED
      BY <1>1, <2>2, <2>3 DEF EntryInv, Filled
  <1>10. ASSUME UNCHANGED vars PROVE EntryInv'
    <2>1. TypeInv'
      BY <1>1, <1>10 DEF vars, producerVars, stringVars, consumerVars, onesVars, TypeInv,
            TypeOK, KeyInText, OffsetInString, ReaderStates
    <2> QED
      BY <1>3, <1>10, <2>1 DEF vars, consumerVars
  <1> QED
    BY <1>4, <1>5, <1>6, <1>7, <1>8, <1>9, <1>10 DEF Next, ProducerStep, ConsumerStep

THEOREM EntryInvariant == Spec => []EntryInv
  BY InitEntry, NextEntry, PTL DEF Spec

\* Every variable of an entry, its producer and its consumers keeps its type.
THEOREM TypeCorrect == Spec => []TypeOK
  <1>1. EntryInv => TypeOK
    BY DEF EntryInv, TypeInv
  <1> QED
    BY <1>1, EntryInvariant, PTL

\* The offset of the producer is always inside the string it is writing.
THEOREM OffsetSafe == Spec => []OffsetInString
  <1>1. EntryInv => OffsetInString
    BY DEF EntryInv, TypeInv
  <1> QED
    BY <1>1, EntryInvariant, PTL

\* However many consumers read whatever response is written, with buffers of any
\* size, none reads a block that is not there, skips one, or reads one twice.
THEOREM NeverAhead == Spec => []ReadersBehind
  <1>1. EntryInv => ReadersBehind
    BY DEF EntryInv
  <1> QED
    BY <1>1, EntryInvariant, PTL

----------------------------------------------------------------------------
(* The counts                                                               *)

\* Every response with trailers has data; the code needs that of its origins,
\* as headersWriteComplete() is called with the first data only.
DataFirst == \A response \in Responses : response.trailers # Nil => response.data # <<>>

\* While section s is written, its count is not stored, unless all is complete.
StoredLast(s) == count[s] # MaxCount => complete = TRUE /\ count[s] = current_block_count

\* The callbacks that are left are in order, and data come before trailers.
InOrder ==
    \A i \in 1..Len(calls) :
        /\ calls[i].section = "headers" => i = 1 /\ section = "headers"
        /\ calls[i].section = "trailers" =>
              /\ i = Len(calls)
              /\ \/ headers_write_complete = TRUE
                 \/ \E j \in 1..(i - 1) : calls[j].section = "data"

\* Where the producer is decides which counts are stored, and what
\* current_block_count_ counts.
InHeaders ==
    section = "headers" =>
        /\ headers_write_complete = FALSE /\ data_write_complete = FALSE
        /\ current_block_count = Blocks("headers")
        /\ Blocks("data") = 0
        /\ count["data"] = MaxCount
        /\ StoredLast("headers")
InData ==
    section = "data" =>
        /\ headers_write_complete = TRUE /\ data_write_complete = FALSE
        /\ current_block_count = Blocks("data")
        /\ count["headers"] = Blocks("headers")
        /\ StoredLast("data")
InTrailers ==
    section = "trailers" =>
        /\ headers_write_complete = TRUE /\ data_write_complete = TRUE
        /\ count["headers"] = Blocks("headers")
        /\ count["data"] = Blocks("data")
        /\ calls = <<>>
AtTheEnd == complete = TRUE => calls = <<>> /\ (section # "trailers" => todo = <<>>)

Counting == InOrder /\ InHeaders /\ InData /\ InTrailers /\ AtTheEnd

LEMMA CountingExact == EntryInv /\ Counting => CountsExact
  <1> SUFFICES ASSUME EntryInv, Counting, NEW s \in {"headers", "data"}, count[s] # MaxCount
               PROVE  count[s] = Blocks(s)
    BY DEF CountsExact
  <1>1. section \in Sections
    BY DEF EntryInv, TypeInv, TypeOK
  <1> QED
    BY <1>1 DEF Counting, InHeaders, InData, InTrailers, StoredLast, Sections

LEMMA InitCounting ==
    ASSUME DataFirst, Init
    PROVE  Counting
  <1>1. /\ \A s \in Sections : Blocks(s) = 0
        /\ \A s \in {"headers", "data"} : count[s] = MaxCount
        /\ section = "headers" /\ current_block_count = 0 /\ complete = FALSE
        /\ headers_write_complete = FALSE /\ data_write_complete = FALSE
    BY DEF Init, Blocks
  <1>2. sent \in Responses /\ calls = CallsOf(sent)
    BY DEF Init
  <1>3. \A i \in 1..Len(calls) :
          /\ calls[i].section = "headers" => i = 1
          /\ calls[i].section = "trailers" =>
                /\ sent.trailers # Nil
                /\ i = Len(calls)
                /\ sent.data # <<>> => \E j \in 1..(i - 1) : calls[j].section = "data"
    BY <1>2, CallsOfShape
  <1>4. InOrder
    BY <1>1, <1>2, <1>3 DEF InOrder, DataFirst
  <1>5. InHeaders /\ InData /\ InTrailers /\ AtTheEnd
    BY <1>1 DEF InHeaders, InData, InTrailers, AtTheEnd, StoredLast, Sections
  <1> QED
    BY <1>4, <1>5 DEF Counting

\* The next callback leaves the rest in order.
LEMMA NextInOrder ==
    ASSUME TypeInv, InOrder, NEW s \in Sections, NextCall(s),
           headers_write_complete = TRUE => headers_write_complete' = TRUE,
           s = "data" => headers_write_complete' = TRUE
    PROVE  /\ InOrder'
           /\ s = "headers" => section = "headers"
           /\ s = "trailers" => headers_write_complete = TRUE /\ calls' = <<>>
  <1>1. /\ calls # <<>> /\ calls \in Seq(CallSet)
        /\ calls' = Tail(calls) /\ Head(calls).section = s /\ section' = s
    BY DEF NextCall, TypeInv, TypeOK
  <1>2. /\ Len(calls) \in Nat \ {0}
        /\ calls[1].section = s
        /\ Len(calls') = Len(calls) - 1
        /\ \A i \in 1..Len(calls') : calls'[i] = calls[i + 1]
        /\ calls' \in Seq(CallSet)
    BY <1>1, HeadTailProperties, EmptySeq, LenProperties
  <1>3. s = "headers" => section = "headers"
    BY <1>2 DEF InOrder
  <1>4. s = "trailers" => headers_write_complete = TRUE /\ Len(calls) = 1
    BY <1>2 DEF InOrder
  <1>5. s = "trailers" => calls' = <<>>
    <2> DEFINE rest == Tail(calls)
    <2>1. calls' = rest /\ rest \in Seq(CallSet) /\ Len(rest) = Len(calls) - 1
      BY <1>1, <1>2
    <2> HIDE DEF rest
    <2>2. Len(calls) - 1 = 0 => rest = <<>>
      BY <2>1, EmptySeq
    <2> QED
      BY <1>4, <2>1, <2>2
  <1>6. ASSUME NEW i \in 1..Len(calls'), calls'[i].section = "headers"
        PROVE  FALSE
    <2>1. i + 1 \in 1..Len(calls) /\ i + 1 # 1 /\ calls[i + 1].section = "headers"
      BY <1>2, <1>6
    <2> QED
      BY <2>1 DEF InOrder
  <1>7. ASSUME NEW i \in 1..Len(calls'), calls'[i].section = "trailers"
        PROVE  /\ i = Len(calls')
               /\ \/ headers_write_complete' = TRUE
                  \/ \E j \in 1..(i - 1) : calls'[j].section = "data"
    <2>1. i + 1 = Len(calls)
          /\ \/ headers_write_complete = TRUE
             \/ \E j \in 1..i : calls[j].section = "data"
      BY <1>2, <1>7 DEF InOrder
    <2>2. CASE headers_write_complete' = TRUE
      BY <1>2, <2>1, <2>2
    <2>3. CASE headers_write_complete' # TRUE
      <3>1. PICK j \in 1..i : calls[j].section = "data"
        BY <2>1, <2>3
      <3>2. j # 1
        BY <1>2, <2>3, <3>1
      <3>3. j - 1 \in 1..(i - 1) /\ calls'[j - 1].section = "data"
        <4> DEFINE k == j - 1
        <4>1. k \in 1..(i - 1) /\ k \in 1..Len(calls') /\ k + 1 = j
          BY <1>2, <1>7, <2>1, <3>1, <3>2
        <4> HIDE DEF k
        <4>2. calls'[k] = calls[j]
          BY <1>2, <4>1
        <4> QED
          BY <3>1, <4>1, <4>2 DEF k
      <3> QED
        BY <1>2, <2>1, <3>3
    <2> QED
      BY <2>2, <2>3
  <1> QED
    BY <1>3, <1>4, <1>5, <1>6, <1>7 DEF InOrder

LEMMA EncodeCounting ==
    ASSUME EntryInv, Counting, EncodeHeaders \/ EncodeData \/ EncodeTrailers
    PROVE  Counting'
  <1>1. /\ TypeInv /\ InOrder /\ section \in Sections
        /\ UNCHANGED <<capacity, buffers, complete>>
        /\ calls # <<>> /\ complete # TRUE
        /\ count \in [{"headers", "data"} -> Nat]
    BY DEF EntryInv, TypeInv, TypeOK, Counting, AtTheEnd, EncodeHeaders, EncodeData,
           EncodeTrailers, NextCall
  <1>2. Blocks("headers")' = Blocks("headers") /\ Blocks("data")' = Blocks("data")
    BY <1>1 DEF Blocks, Last
  <1>3. AtTheEnd'
    BY <1>1 DEF AtTheEnd
  <1>4. CASE EncodeHeaders
    <2>1. NextCall("headers") /\ section' = "headers"
          /\ UNCHANGED <<count, current_block_count, headers_write_complete,
                         data_write_complete>>
      BY <1>4 DEF EncodeHeaders, NextCall
    <2>2. InOrder' /\ section = "headers"
      BY <1>1, <2>1, NextInOrder DEF Sections
    <2>3. InHeaders'
      BY <1>1, <1>2, <2>1, <2>2 DEF Counting, InHeaders, StoredLast
    <2> QED
      BY <1>3, <2>1, <2>2, <2>3 DEF Counting, InData, InTrailers
  <1>5. CASE EncodeData
    <2>1. NextCall("data") /\ section' = "data" /\ UNCHANGED data_write_complete
      BY <1>5 DEF EncodeData, NextCall
    <2>2. headers_write_complete' = TRUE
      BY <1>5 DEF EncodeData
    <2>3. InOrder'
      BY <1>1, <2>1, <2>2, NextInOrder DEF Sections
    <2>4. CASE headers_write_complete = TRUE
      <3>1. UNCHANGED <<count, current_block_count>>
        BY <1>5, <2>4 DEF EncodeData
      <3>2. section = "data"
        BY <1>1, <2>4 DEF Counting, InHeaders, InTrailers, Sections
      <3>3. InData'
        BY <1>1, <1>2, <2>1, <2>2, <3>1, <3>2 DEF Counting, InData, StoredLast
      <3> QED
        BY <1>3, <2>1, <2>3, <3>3 DEF Counting, InHeaders, InTrailers
    <2>5. CASE headers_write_complete # TRUE
      <3>1. count' = [count EXCEPT !["headers"] = current_block_count]
            /\ current_block_count' = 0
        BY <1>5, <2>5 DEF EncodeData, CountReset
      <3>2. section = "headers"
        BY <1>1, <2>5 DEF Counting, InData, InTrailers, Sections
      <3>3. count'["headers"] = current_block_count /\ count'["data"] = count["data"]
        BY <1>1, <3>1
      <3>4. InData'
        BY <1>1, <1>2, <2>1, <2>2, <3>1, <3>2, <3>3 DEF Counting, InHeaders, InData, StoredLast
      <3> QED
        BY <1>3, <2>1, <2>3, <3>4 DEF Counting, InHeaders, InTrailers
    <2> QED
      BY <2>4, <2>5
  <1>6. CASE EncodeTrailers
    <2>1. /\ NextCall("trailers") /\ section' = "trailers"
          /\ count' = [count EXCEPT !["data"] = current_block_count]
          /\ data_write_complete' = TRUE
          /\ UNCHANGED headers_write_complete
      BY <1>6 DEF EncodeTrailers, NextCall
    <2>2. InOrder' /\ headers_write_complete = TRUE /\ calls' = <<>>
      BY <1>1, <2>1, NextInOrder DEF Sections
    <2>3. section = "data"
      BY <1>1, <2>2 DEF Counting, InHeaders, InTrailers, Sections
    <2>4. count'["data"] = current_block_count /\ count'["headers"] = count["headers"]
      BY <1>1, <2>1
    <2>5. InTrailers'
      BY <1>2, <2>1, <2>2, <2>3, <2>4 DEF Counting, InData, InTrailers
    <2> QED
      BY <1>3, <2>1, <2>2, <2>5 DEF Counting, InHeaders, InData
  <1> QED
    BY <1>4, <1>5, <1>6

\* A buffer in place, or a block in the section that is written.
LEMMA BlockCounting ==
    ASSUME EntryInv, Counting, EmplaceBuffer \/ WriteBlock
    PROVE  Counting'
  <1>1. /\ TypeInv /\ Filled /\ section \in Sections
        /\ todo # <<>>
        /\ UNCHANGED <<calls, count, section, headers_write_complete, data_write_complete,
                       complete>>
    BY DEF EntryInv, TypeInv, TypeOK, EmplaceBuffer, WriteBlock, producerVars
  <1>2. section # "trailers" => complete # TRUE
    BY <1>1 DEF Counting, AtTheEnd
  <1>3. InOrder'
    BY <1>1 DEF Counting, InOrder
  <1>4. CASE EmplaceBuffer
    <2>1. \A s \in Sections : Blocks(s)' = Blocks(s)
      BY <1>1, <1>4, EmplaceStep
    <2>2. UNCHANGED <<current_block_count, todo>>
      BY <1>4 DEF EmplaceBuffer, producerVars, stringVars
    <2>3. InHeaders' /\ InData' /\ InTrailers' /\ AtTheEnd'
      BY <1>1, <2>1, <2>2 DEF Counting, InHeaders, InData, InTrailers, AtTheEnd, StoredLast,
            Sections
    <2> QED
      BY <1>3, <2>3 DEF Counting
  <1>5. CASE WriteBlock
    <2>1. \A s \in Sections : Blocks(s)' = IF s = section THEN Blocks(s) + 1 ELSE Blocks(s)
      BY <1>1, <1>5, WriteStep
    <2>2. current_block_count' = current_block_count + 1
      BY <1>5 DEF WriteBlock
    <2>3. CASE section = "headers"
      <3>1. InHeaders'
        BY <1>1, <1>2, <2>1, <2>2, <2>3 DEF Counting, InHeaders, StoredLast, Sections
      <3> QED
        BY <1>1, <1>2, <1>3, <2>3, <3>1 DEF Counting, InData, InTrailers, AtTheEnd
    <2>4. CASE section = "data"
      <3>1. InData'
        BY <1>1, <1>2, <2>1, <2>2, <2>4 DEF Counting, InData, StoredLast, Sections
      <3> QED
        BY <1>1, <1>2, <1>3, <2>4, <3>1 DEF Counting, InHeaders, InTrailers, AtTheEnd
    <2>5. CASE section = "trailers"
      <3>1. InTrailers' /\ AtTheEnd'
        BY <1>1, <2>1, <2>5 DEF Counting, InTrailers, AtTheEnd, Sections
      <3> QED
        BY <1>1, <1>3, <2>5, <3>1 DEF Counting, InHeaders, InData
    <2> QED
      BY <1>1, <2>3, <2>4, <2>5 DEF Sections
  <1> QED
    BY <1>4, <1>5

LEMMA CompleteCounting ==
    ASSUME EntryInv, Counting, WriteComplete
    PROVE  Counting'
  <1>1. /\ section \in Sections
        /\ todo = <<>> /\ calls = <<>> /\ complete # TRUE
        /\ complete' = TRUE
        /\ UNCHANGED <<capacity, calls, buffers, section, current_block_count,
                       headers_write_complete, data_write_complete>>
        /\ count \in [{"headers", "data"} -> Nat]
        /\ headers_write_complete \in BOOLEAN /\ data_write_complete \in BOOLEAN
    BY DEF EntryInv, TypeInv, TypeOK, WriteComplete
  <1>2. Blocks("headers")' = Blocks("headers") /\ Blocks("data")' = Blocks("data")
    BY <1>1 DEF Blocks, Last
  <1>3. InOrder'
    BY <1>1 DEF Counting, InOrder
  <1>4. CASE section = "headers"
    <2>1. count' = [count EXCEPT !["headers"] = current_block_count] /\ todo' = todo
      BY <1>4 DEF Counting, InHeaders, WriteComplete
    <2>2. count'["headers"] = current_block_count /\ count'["data"] = count["data"]
      BY <1>1, <2>1
    <2>3. InHeaders' /\ AtTheEnd'
      BY <1>1, <1>2, <1>4, <2>1, <2>2 DEF Counting, InHeaders, AtTheEnd, StoredLast
    <2> QED
      BY <1>1, <1>3, <1>4, <2>3 DEF Counting, InData, InTrailers
  <1>5. CASE section = "data"
    <2>1. count' = [count EXCEPT !["data"] = current_block_count] /\ todo' = todo
      BY <1>5 DEF Counting, InData, WriteComplete
    <2>2. count'["data"] = current_block_count /\ count'["headers"] = count["headers"]
      BY <1>1, <2>1
    <2>3. InData' /\ AtTheEnd'
      BY <1>1, <1>2, <1>5, <2>1, <2>2 DEF Counting, InData, AtTheEnd, StoredLast
    <2> QED
      BY <1>1, <1>3, <1>5, <2>3 DEF Counting, InHeaders, InTrailers
  <1>6. CASE section = "trailers"
    <2>1. count' = count
      BY <1>6 DEF Counting, InTrailers, WriteComplete
    <2>2. InTrailers' /\ AtTheEnd'
      BY <1>1, <1>2, <1>6, <2>1 DEF Counting, InTrailers, AtTheEnd
    <2> QED
      BY <1>1, <1>3, <1>6, <2>2 DEF Counting, InHeaders, InData
  <1> QED
    BY <1>1, <1>4, <1>5, <1>6 DEF Sections

LEMMA NextCounting == EntryInv /\ Counting /\ [Next]_vars => Counting'
  <1> SUFFICES ASSUME EntryInv, Counting, [Next]_vars PROVE Counting'
    OBVIOUS
  <1>1. CASE ProducerStep
    BY <1>1, EncodeCounting, BlockCounting, CompleteCounting DEF ProducerStep
  <1>2. CASE UNCHANGED <<capacity, calls, buffers, count, producerVars>>
    <2>1. Blocks("headers")' = Blocks("headers") /\ Blocks("data")' = Blocks("data")
      BY <1>2 DEF Blocks, Last
    <2>2. UNCHANGED <<calls, count, section, todo, current_block_count,
                      headers_write_complete, data_write_complete, complete>>
      BY <1>2 DEF producerVars, stringVars
    <2>3. InOrder'
      BY <2>2 DEF Counting, InOrder
    <2> QED
      BY <2>1, <2>2, <2>3 DEF Counting, InHeaders, InData, InTrailers, AtTheEnd, StoredLast
  <1>3. ASSUME NEW r \in Consumers,
               Construct(r) \/ ServeCachedResponse(r) \/ ConsumerStep(r)
        PROVE  UNCHANGED <<capacity, calls, buffers, count, producerVars>>
    BY <1>3 DEF Construct, ServeCachedResponse, ConsumerStep, FillOnes, GetBuffer, ReadBlock,
          LeaveSection
  <1> QED
    BY <1>1, <1>2, <1>3 DEF Next, vars

\* If every response with trailers has data, too, then a stored count is the
\* number of blocks of its section, whatever the length of its strings, and
\* nothing is written to that section afterwards.
THEOREM CountsAreExact ==
    ASSUME DataFirst
    PROVE  Spec => []CountsExact
  <1>1. Init => EntryInv /\ Counting
    BY InitEntry, InitCounting
  <1>2. EntryInv /\ Counting /\ [Next]_vars => (EntryInv /\ Counting)'
    BY NextEntry, NextCounting
  <1>3. EntryInv /\ Counting => CountsExact
    BY CountingExact
  <1> QED
    BY <1>1, <1>2, <1>3, PTL DEF Spec
=================================================================================
