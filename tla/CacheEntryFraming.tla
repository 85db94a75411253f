--------------------------- MODULE CacheEntryFraming ---------------------------
(***************************************************************************)
(* Framing, cut into blocks, and the parser that takes it apart again.      *)
(*                                                                          *)
(* A mark is a point in the response as it is framed: how many calls are    *)
(* complete, which item of the next one is due, and how many bytes of it are *)
(* behind the mark.  BlockAt is the block that is due at a mark, Succ the mark *)
(* behind it.  Two lemmas say what that is for: a producer at a mark writes *)
(* the block that is due and gets to the next mark (WriteAt), and a parser at *)
(* a mark that is given the block that is due gets to the next one and makes the *)
(* call of the origin when that block is a delimiter (ParseAt).  Each is about *)
(* one block, whatever the length of the strings it is cut from.            *)
(***************************************************************************)
EXTENDS CacheEntryProofs

----------------------------------------------------------------------------
(* What is assumed                                                          *)

\* The names of header and trailer fields are tokens: not empty, and without
\* 0xFF.  A key is told from a delimiter by that alone.
Named(map) ==
    \A i \in 1..Len(map) :
        /\ map[i].key # <<>>
        /\ \A j \in 1..Len(map[i].key) : map[i].key[j] # One
NamesAreTokens ==
    \A response \in Responses :
        Named(response.headers) /\ (response.trailers # Nil => Named(response.trailers))

----------------------------------------------------------------------------
(* Scripts and marks                                                        *)

\* The section of call n + 1 of a response with d data.
SectionAt(d, n) == IF n = 0 THEN "headers" ELSE IF n <= d THEN "data" ELSE "trailers"

\* How many calls there are before a section, and when it is over.
Before(d, s) == CASE s = "headers" -> 0 [] s = "data" -> 1 [] OTHER -> d + 1
Until(d, s) == CASE s = "headers" -> 1 [] s = "data" -> d + 1 [] OTHER -> d + 3

\* The calls of a response with d data.
Script(w, d) ==
    /\ w \in Seq(CallSet)
    /\ d \in Nat
    /\ Len(w) = d + 1 \/ Len(w) = d + 3
    /\ \A n \in 1..Len(w) :
          /\ w[n].section = SectionAt(d, n - 1)
          /\ w[n].end <=> w[n].section = "trailers" \/ n = Len(w)
          /\ w[n].section # "data" => Named(w[n].content)

\* What is written for call n + 1: only the last delimiter is one of ones.
Text(bytes) == Item(bytes, FALSE)
Stop(w, n) == Item(Delimiter(n + 1 = Len(w)), TRUE)
Frame(w, n) ==
    (IF w[n + 1].section = "data" THEN <<Text(w[n + 1].content)>>
                                  ELSE MapItems(w[n + 1].content)) \o <<Stop(w, n)>>

Mark(n, i, done) == [n |-> n, i |-> i, done |-> done]
Marks == [n : Nat, i : Nat \ {0}, done : Nat]

\* A mark at which there is something to write.
Due(w, l) ==
    /\ l \in Marks
    /\ l.n < Len(w)
    /\ l.i <= Len(Frame(w, l.n))
    /\ LET item == Frame(w, l.n)[l.i] IN
          l.done <= IF item.delimiter THEN 0 ELSE Len(item.bytes)

\* The end of the block that is due, its bytes, and the mark behind it.
Reach(w, l) ==
    LET length == Len(Frame(w, l.n)[l.i].bytes)
    IN IF length - l.done >= BlockSize THEN l.done + BlockSize ELSE length
BlockAt(w, l) ==
    LET item == Frame(w, l.n)[l.i]
    IN IF item.delimiter THEN item.bytes ELSE SubSeq(item.bytes, l.done + 1, Reach(w, l))
Succ(w, l) ==
    LET item == Frame(w, l.n)[l.i]
    IN IF item.delimiter THEN Mark(l.n + 1, 1, 0)
       ELSE IF Len(item.bytes) - l.done >= BlockSize THEN Mark(l.n, l.i, l.done + BlockSize)
       ELSE Mark(l.n, l.i + 1, 0)

----------------------------------------------------------------------------
(* The parser at a mark                                                     *)

NoField(c) == c.text = <<>> /\ c.key_length = 0 /\ c.key_read_done = FALSE
Clean(c) == NoField(c) /\ c.fields = <<>> /\ c.data = <<>> /\ c.batch_complete = FALSE

InBatch(w, l, c) ==
    /\ c.data = IF l.i = 1 THEN SubSeq(w[l.n + 1].content, 1, l.done) ELSE w[l.n + 1].content
    /\ c.batch_complete <=> l.i # 1
    /\ NoField(c)
    /\ c.fields = <<>>

\* f fields are complete; the item that is due is a key, or the delimiter, or the
\* value of field f + 1.
InMap(w, l, c) ==
    /\ c.data = <<>>
    /\ c.batch_complete = FALSE
    /\ \A f \in Nat :
          /\ l.i = 2 * f + 1 =>
                /\ c.fields = SubSeq(w[l.n + 1].content, 1, f)
                /\ c.text = SubSeq(Frame(w, l.n)[l.i].bytes, 1, l.done)
                /\ c.key_length = l.done
                /\ c.key_read_done = FALSE
          /\ l.i = 2 * f + 2 =>
                LET field == w[l.n + 1].content[f + 1] IN
                /\ c.fields = SubSeq(w[l.n + 1].content, 1, f)
                /\ c.text = field.key \o SubSeq(field.value, 1, l.done)
                /\ c.key_length = Len(field.key)
                /\ c.key_read_done = TRUE

\* Between two calls nothing is kept.
Keeps(w, l, c) ==
    IF l.i = 1 /\ l.done = 0 THEN Clean(c)
    ELSE /\ l.n < Len(w)
         /\ IF w[l.n + 1].section = "data" THEN InBatch(w, l, c) ELSE InMap(w, l, c)

\* How much of the first item of todo is written.
Done == IF data_offset # 0 THEN data_offset
        ELSE IF first_write THEN 0 ELSE Len(Head(todo).bytes)

----------------------------------------------------------------------------
(* Frames                                                                   *)

LEMMA AppendOne ==
    ASSUME NEW S, NEW head \in Seq(S), NEW e \in S
    PROVE  /\ head \o <<e>> \in Seq(S)
           /\ Len(head) \in Nat
           /\ Len(head \o <<e>>) = Len(head) + 1
           /\ \A i \in 1..Len(head) : head[i] \in S /\ (head \o <<e>>)[i] = head[i]
           /\ (head \o <<e>>)[Len(head) + 1] = e
  <1> DEFINE last == <<e>>
  <1>1. last \in Seq(S) /\ Len(last) = 1 /\ last[1] = e
    OBVIOUS
  <1>2. Len(head) \in Nat /\ \A i \in 1..Len(head) : head[i] \in S
    BY LenProperties, ElementOfSeq
  <1> HIDE DEF last
  <1>3. /\ head \o last \in Seq(S)
        /\ Len(head \o last) = Len(head) + 1
        /\ \A i \in 1..(Len(head) + 1) :
              (head \o last)[i] = IF i <= Len(head) THEN head[i] ELSE last[i - Len(head)]
    <2>1. Len(last) = 1 /\ \A i \in 1..Len(last) : last[i] \in S
      BY <1>1
    <2>2. /\ head \o last \in Seq(S)
          /\ Len(head \o last) = Len(head) + Len(last)
          /\ \A i \in 1..(Len(head) + Len(last)) :
                (head \o last)[i] = IF i <= Len(head) THEN head[i] ELSE last[i - Len(head)]
      BY <1>1, ConcatProperties, Zenon
    <2> QED
      BY <2>1, <2>2
  <1> QED
    BY <1>1, <1>2, <1>3 DEF last

LEMMA TextAndStop ==
    /\ \A bytes : Text(bytes).bytes = bytes /\ ~Text(bytes).delimiter
    /\ \A bytes \in Strings : Text(bytes) \in Items
    /\ \A w, n : /\ Stop(w, n).bytes = Delimiter(n + 1 = Len(w))
                 /\ Stop(w, n).delimiter
                 /\ Stop(w, n) \in Items
  <1>1. \A w, n : Delimiter(n + 1 = Len(w)) \in Strings
    BY OnesAndZeros
  <1> QED
    BY <1>1 DEF Text, Stop, Item, Items

LEMMA ItemsOfMap ==
    ASSUME NEW map \in Seq(Fields)
    PROVE  /\ MapItems(map) \in Seq(Items)
           /\ Len(MapItems(map)) = 2 * Len(map)
           /\ \A f \in Nat : f < Len(map) =>
                 /\ MapItems(map)[2 * f + 1] = Text(map[f + 1].key)
                 /\ MapItems(map)[2 * f + 2] = Text(map[f + 1].value)
  <1> DEFINE item(i) ==
               Text(IF i % 2 = 1 THEN map[(i + 1) \div 2].key ELSE map[i \div 2].value)
  <1>1. Len(map) \in Nat
    BY LenProperties
  <1>2. MapItems(map) = [i \in 1..(2 * Len(map)) |-> item(i)]
    BY DEF MapItems, Text
  <1>3. MapItems(map) \in Seq(Items)
    BY MapItemsType
  <1>4. Len(MapItems(map)) = 2 * Len(map)
    <2>1. DOMAIN MapItems(map) = 1..(2 * Len(map))
      BY <1>2
    <2> HIDE DEF item
    <2> QED
      BY <1>1, <1>3, <2>1, LenProperties
  <1>5. ASSUME NEW f \in Nat, f < Len(map)
        PROVE  /\ MapItems(map)[2 * f + 1] = Text(map[f + 1].key)
               /\ MapItems(map)[2 * f + 2] = Text(map[f + 1].value)
    <2>1. 2 * f + 1 \in 1..(2 * Len(map)) /\ 2 * f + 2 \in 1..(2 * Len(map))
      BY <1>1, <1>5
    <2>2. /\ (2 * f + 1) % 2 = 1 /\ (2 * f + 1 + 1) \div 2 = f + 1
          /\ (2 * f + 2) % 2 # 1 /\ (2 * f + 2) \div 2 = f + 1
      OBVIOUS
    <2>3. item(2 * f + 1) = Text(map[f + 1].key) /\ item(2 * f + 2) = Text(map[f + 1].value)
      BY <2>2
    <2> HIDE DEF item
    <2>4. MapItems(map)[2 * f + 1] = item(2 * f + 1) /\ MapItems(map)[2 * f + 2] = item(2 * f + 2)
      BY <1>2, <2>1
    <2> QED
      BY <2>3, <2>4
  <1> QED
    BY <1>3, <1>4, <1>5

\* What calls and fields are made of.
LEMMA CallParts ==
    ASSUME NEW call \in CallSet
    PROVE  /\ call = Call(call.section, call.content, call.end)
           /\ call.end \in BOOLEAN
           /\ call.section = "data" => call.content \in Strings
           /\ call.section # "data" => /\ call.content \in Seq(Fields)
                                       /\ call.section \in {"headers", "trailers"}
  BY DEF CallSet, Call

LEMMA ScriptCall ==
    ASSUME NEW w, NEW d, Script(w, d), NEW n \in Nat, n < Len(w)
    PROVE  /\ Len(w) \in Nat
           /\ n + 1 \in 1..Len(w)
           /\ w[n + 1] \in CallSet
           /\ w[n + 1].section = SectionAt(d, n)
           /\ w[n + 1].end <=> w[n + 1].section = "trailers" \/ n + 1 = Len(w)
           /\ w[n + 1].section # "data" => Named(w[n + 1].content)
  <1>1. Len(w) \in Nat /\ n + 1 \in 1..Len(w) /\ (n + 1) - 1 = n
    BY LenProperties DEF Script
  <1>2. w[n + 1] \in CallSet
    BY <1>1, ElementOfSeq DEF Script
  <1> QED
    BY <1>1, <1>2 DEF Script

\* The items of a frame; the delimiter is the last one.
LEMMA FrameShape ==
    ASSUME NEW w, NEW d, Script(w, d), NEW n \in Nat, n < Len(w)
    PROVE  /\ Frame(w, n) \in Seq(Items)
           /\ Len(Frame(w, n)) \in Nat \ {0}
           /\ \A i \in 1..Len(Frame(w, n)) :
                 /\ Frame(w, n)[i] \in Items
                 /\ Frame(w, n)[i].delimiter <=> i = Len(Frame(w, n))
           /\ Frame(w, n)[Len(Frame(w, n))] = Stop(w, n)
           /\ w[n + 1].section = "data" =>
                 /\ w[n + 1].content \in Strings
                 /\ Len(Frame(w, n)) = 2
                 /\ Frame(w, n)[1] = Text(w[n + 1].content)
           /\ w[n + 1].section # "data" =>
                 /\ w[n + 1].content \in Seq(Fields)
                 /\ Len(w[n + 1].content) \in Nat
                 /\ Len(Frame(w, n)) = 2 * Len(w[n + 1].content) + 1
                 /\ \A f \in Nat : f < Len(w[n + 1].content) =>
                       /\ Frame(w, n)[2 * f + 1] = Text(w[n + 1].content[f + 1].key)
                       /\ Frame(w, n)[2 * f + 2] = Text(w[n + 1].content[f + 1].value)
  <1> DEFINE call == w[n + 1]
             text == <<Text(call.content)>>
             head == IF call.section = "data" THEN text ELSE MapItems(call.content)
  <1>1. call \in CallSet
    BY ScriptCall
  <1>2. Frame(w, n) = head \o <<Stop(w, n)>>
    BY DEF Frame
  <1>3. Stop(w, n) \in Items /\ Stop(w, n).delimiter
    BY TextAndStop
  <1>4. CASE call.section = "data"
    <2>1. call.content \in Strings
      BY <1>1, <1>4, CallParts
    <2>2. Text(call.content) \in Items /\ ~Text(call.content).delimiter
      BY <2>1, TextAndStop
    <2>3. text \in Seq(Items) /\ Len(text) = 1 /\ text[1] = Text(call.content)
      BY <2>2
    <2>4. Frame(w, n) = text \o <<Stop(w, n)>>
      BY <1>2, <1>4
    <2> HIDE DEF text
    <2>5. /\ Frame(w, n) \in Seq(Items)
          /\ Len(Frame(w, n)) = 2
          /\ Frame(w, n)[1] = Text(call.content)
          /\ Frame(w, n)[2] = Stop(w, n)
      BY <1>3, <2>3, <2>4, AppendOne
    <2> QED
      BY <1>3, <1>4, <2>1, <2>2, <2>5
  <1>5. CASE call.section # "data"
    <2> DEFINE map == call.content
    <2>1. map \in Seq(Fields) /\ Len(map) \in Nat
      BY <1>1, <1>5, CallParts, LenProperties
    <2>2. /\ MapItems(map) \in Seq(Items)
          /\ Len(MapItems(map)) = 2 * Len(map)
          /\ \A f \in Nat : f < Len(map) => /\ MapItems(map)[2 * f + 1] = Text(map[f + 1].key)
                                            /\ MapItems(map)[2 * f + 2] = Text(map[f + 1].value)
      BY <2>1, ItemsOfMap
    <2>3. Frame(w, n) = MapItems(map) \o <<Stop(w, n)>>
      BY <1>2, <1>5
    <2>4. /\ Frame(w, n) \in Seq(Items)
          /\ Len(Frame(w, n)) = 2 * Len(map) + 1
          /\ \A i \in 1..(2 * Len(map)) : Frame(w, n)[i] = MapItems(map)[i] /\ Frame(w, n)[i] \in Items
          /\ Frame(w, n)[2 * Len(map) + 1] = Stop(w, n)
      <3> DEFINE m == MapItems(map)
      <3>1. m \in Seq(Items) /\ Len(m) = 2 * Len(map) /\ Frame(w, n) = m \o <<Stop(w, n)>>
        BY <2>2, <2>3
      <3> HIDE DEF m
      <3>2. /\ m \o <<Stop(w, n)>> \in Seq(Items)
            /\ Len(m \o <<Stop(w, n)>>) = Len(m) + 1
            /\ \A i \in 1..Len(m) : m[i] \in Items /\ (m \o <<Stop(w, n)>>)[i] = m[i]
            /\ (m \o <<Stop(w, n)>>)[Len(m) + 1] = Stop(w, n)
        <4> DEFINE e == Stop(w, n)
        <4>1. m \in Seq(Items) /\ e \in Items
          BY <1>3, <3>1
        <4> HIDE DEF e
        <4>2. /\ m \o <<e>> \in Seq(Items)
              /\ Len(m \o <<e>>) = Len(m) + 1
              /\ \A i \in 1..Len(m) : m[i] \in Items /\ (m \o <<e>>)[i] = m[i]
              /\ (m \o <<e>>)[Len(m) + 1] = e
          BY <4>1, AppendOne
        <4> QED
          BY <4>2 DEF e
      <3>3. /\ Frame(w, n) \in Seq(Items)
            /\ Len(Frame(w, n)) = Len(m) + 1
            /\ \A i \in 1..Len(m) : m[i] \in Items /\ Frame(w, n)[i] = m[i]
            /\ Frame(w, n)[Len(m) + 1] = Stop(w, n)
        BY <3>1, <3>2
      <3> QED
        BY <3>1, <3>3 DEF m
    <2>5. ASSUME NEW f \in Nat, f < Len(map)
          PROVE  /\ Frame(w, n)[2 * f + 1] = Text(map[f + 1].key)
                 /\ Frame(w, n)[2 * f + 2] = Text(map[f + 1].value)
      <3>1. 2 * f + 1 \in 1..(2 * Len(map)) /\ 2 * f + 2 \in 1..(2 * Len(map))
        BY <2>1, <2>5
      <3> QED
        BY <2>2, <2>4, <2>5, <3>1
    <2>6. ASSUME NEW i \in 1..(2 * Len(map))
          PROVE  ~Frame(w, n)[i].delimiter
      <3>1. PICK f \in Nat : i = 2 * f + 1 \/ i = 2 * f + 2
        <4>1. (i - 1) \div 2 \in Nat /\ (i = 2 * ((i - 1) \div 2) + 1 \/ i = 2 * ((i - 1) \div 2) + 2)
          BY <2>1
        <4> QED
          BY <4>1
      <3>2. f < Len(map)
        BY <2>1, <3>1
      <3> HIDE DEF map
      <3>3. Frame(w, n)[i] = Text(map[f + 1].key) \/ Frame(w, n)[i] = Text(map[f + 1].value)
        BY <2>5, <3>1, <3>2
      <3> QED
        BY <3>3, TextAndStop
    <2> HIDE DEF map
    <2>7. \A i \in 1..Len(Frame(w, n)) :
            /\ Frame(w, n)[i] \in Items
            /\ Frame(w, n)[i].delimiter <=> i = Len(Frame(w, n))
      <3> SUFFICES ASSUME NEW i \in 1..Len(Frame(w, n))
                   PROVE  /\ Frame(w, n)[i] \in Items
                          /\ Frame(w, n)[i].delimiter <=> i = Len(Frame(w, n))
        OBVIOUS
      <3>1. CASE i = 2 * Len(map) + 1
        BY <1>3, <2>4, <3>1
      <3>2. CASE i # 2 * Len(map) + 1
        <4>1. i \in 1..(2 * Len(map))
          BY <2>1, <2>4, <3>2
        <4> QED
          BY <2>4, <2>6, <3>2, <4>1
      <3> QED
        BY <3>1, <3>2
    <2>8. /\ Frame(w, n) \in Seq(Items)
          /\ Len(Frame(w, n)) = 2 * Len(map) + 1
          /\ Len(Frame(w, n)) \in Nat \ {0}
          /\ Frame(w, n)[Len(Frame(w, n))] = Stop(w, n)
      BY <2>1, <2>4
    <2>9. \A f \in Nat : f < Len(map) =>
              /\ Frame(w, n)[2 * f + 1] = Text(map[f + 1].key)
              /\ Frame(w, n)[2 * f + 2] = Text(map[f + 1].value)
      BY <2>5
    <2> QED
      BY <1>5, <2>1, <2>7, <2>8, <2>9, Zenon DEF map
  <1> QED
    BY <1>4, <1>5

\* The frame of a map has a key and a value for each field.
LEMMA MapFrame ==
    ASSUME NEW w, NEW d, Script(w, d), NEW n \in Nat, n < Len(w), w[n + 1].section # "data",
           NEW f \in Nat, f < Len(w[n + 1].content)
    PROVE  /\ w[n + 1].content \in Seq(Fields)
           /\ Len(w[n + 1].content) \in Nat
           /\ Frame(w, n)[2 * f + 1] = Text(w[n + 1].content[f + 1].key)
           /\ Frame(w, n)[2 * f + 2] = Text(w[n + 1].content[f + 1].value)
  <1> DEFINE map == w[n + 1].content
             frame == Frame(w, n)
  <1>1. /\ map \in Seq(Fields)
        /\ Len(map) \in Nat
        /\ \A g \in Nat : g < Len(map) =>
              /\ frame[2 * g + 1] = Text(map[g + 1].key)
              /\ frame[2 * g + 2] = Text(map[g + 1].value)
    BY FrameShape
  <1> HIDE DEF map, frame
  <1>2. f < Len(map)
    BY DEF map
  <1>3. /\ map \in Seq(Fields) /\ Len(map) \in Nat
        /\ frame[2 * f + 1] = Text(map[f + 1].key)
        /\ frame[2 * f + 2] = Text(map[f + 1].value)
    BY <1>1, <1>2
  <1> QED
    BY <1>3 DEF map, frame

----------------------------------------------------------------------------
(* The script of a response                                                 *)

LEMMA ConcatTwo ==
    ASSUME NEW S, NEW s \in Seq(S), NEW t \in Seq(S)
    PROVE  /\ s \o t \in Seq(S)
           /\ Len(s) \in Nat /\ Len(t) \in Nat
           /\ Len(s \o t) = Len(s) + Len(t)
           /\ \A i \in 1..Len(s) : (s \o t)[i] = s[i]
           /\ \A i \in 1..Len(t) : (s \o t)[Len(s) + i] = t[i]
  <1>1. Len(s) \in Nat /\ Len(t) \in Nat
    BY LenProperties
  <1>2. /\ s \o t \in Seq(S)
        /\ Len(s \o t) = Len(s) + Len(t)
        /\ \A i \in 1..(Len(s) + Len(t)) :
              (s \o t)[i] = IF i <= Len(s) THEN s[i] ELSE t[i - Len(s)]
    BY ConcatProperties
  <1>3. ASSUME NEW i \in 1..Len(t) PROVE (s \o t)[Len(s) + i] = t[i]
    <2>1. Len(s) + i \in 1..(Len(s) + Len(t)) /\ ~(Len(s) + i <= Len(s)) /\ (Len(s) + i) - Len(s) = i
      BY <1>1
    <2> QED
      BY <1>2, <2>1
  <1> QED
    BY <1>1, <1>2, <1>3

LEMMA CallIs ==
    ASSUME NEW s, NEW content, NEW end
    PROVE  /\ Call(s, content, end).section = s
           /\ Call(s, content, end).content = content
           /\ Call(s, content, end).end = end
  BY DEF Call

\* The last of the calls of the origin ends the stream, and no other one.
LEMMA OriginCalls ==
    ASSUME NamesAreTokens, NEW response \in Responses
    PROVE  LET n == Len(response.data)
               w == CallsOf(response)
           IN /\ n \in Nat
              /\ w \in Seq(CallSet)
              /\ Len(w) \in Nat
              /\ Len(w) = IF response.trailers = Nil THEN n + 1 ELSE n + 2
              /\ \A i \in 1..Len(w) :
                    /\ w[i].section = SectionAt(n, i - 1)
                    /\ w[i].end <=> i = Len(w)
                    /\ w[i].section # "data" => Named(w[i].content)
  <1> DEFINE n == Len(response.data)
             last == response.trailers = Nil
             e(i) == i = n /\ last
             d(i) == Call("data", response.data[i], e(i))
             h == Call("headers", response.headers, e(0))
             t == Call("trailers", response.trailers, TRUE)
             middle == [i \in 1..n |-> d(i)]
             end == IF last THEN <<>> ELSE <<t>>
             w == CallsOf(response)
  <1>1. /\ response.headers \in Seq(Fields) /\ Named(response.headers)
        /\ response.data \in Seq(Strings)
        /\ ~last => response.trailers \in Seq(Fields) /\ Named(response.trailers)
    BY EntryAssumption DEF NamesAreTokens
  <1>2. n \in Nat /\ \A i \in 1..n : response.data[i] \in Strings
    BY <1>1, LenProperties, ElementOfSeq
  <1>3. w = (<<h>> \o middle) \o end
    BY DEF CallsOf
  <1>4. \A i : e(i) \in BOOLEAN
    OBVIOUS
  <1>5. /\ h \in CallSet /\ h.section = "headers" /\ Named(h.content)
        /\ h.end <=> n = 0 /\ last
    <2>1. e(0) <=> n = 0 /\ last
      BY <1>2
    <2> HIDE DEF e
    <2> QED
      BY <1>1, <1>4, <2>1, CallType, CallIs
  <1>6. \A i \in 1..n : /\ d(i) \in CallSet /\ d(i).section = "data"
                        /\ d(i).end <=> i = n /\ last
    <2>1. \A i : e(i) <=> i = n /\ last
      OBVIOUS
    <2> HIDE DEF e
    <2> QED
      BY <1>2, <1>4, <2>1, CallType, CallIs
  <1>7. ~last => t \in CallSet /\ t.section = "trailers" /\ Named(t.content) /\ t.end
    BY <1>1 DEF Call, CallSet
  <1> HIDE DEF h, d, t, n, e
  <1>8. middle \in Seq(CallSet) /\ Len(middle) = n /\ \A i \in 1..n : middle[i] = d(i)
    BY <1>2, <1>6
  <1>9. <<h>> \in Seq(CallSet) /\ Len(<<h>>) = 1 /\ <<h>>[1] = h
    BY <1>5
  <1> HIDE DEF last
  <1>10. /\ end \in Seq(CallSet)
         /\ Len(end) = IF last THEN 0 ELSE 1
         /\ ~last => end[1] = t
    <2>1. CASE last
      BY <2>1
    <2>2. CASE ~last
      <3>1. t \in CallSet /\ end = <<t>>
        BY <1>7, <2>2
      <3> HIDE DEF end
      <3> QED
        BY <2>2, <3>1
    <2> QED
      BY <2>1, <2>2
  <1> DEFINE first == <<h>>
             begin == first \o middle
  <1>11. w = begin \o end
    BY <1>3
  <1>12. first \in Seq(CallSet) /\ Len(first) = 1 /\ first[1] = h
    BY <1>9
  <1> HIDE DEF first, middle, end
  <1>13. /\ begin \in Seq(CallSet)
         /\ Len(begin) = n + 1
         /\ begin[1] = h
         /\ \A i \in 1..n : begin[1 + i] = d(i)
    <2>0. begin = first \o middle
      OBVIOUS
    <2> HIDE DEF begin
    <2>1. /\ begin \in Seq(CallSet)
          /\ Len(begin) = Len(first) + Len(middle)
          /\ \A i \in 1..Len(first) : begin[i] = first[i]
          /\ \A i \in 1..Len(middle) : begin[Len(first) + i] = middle[i]
      <3>1. first \in Seq(CallSet) /\ middle \in Seq(CallSet)
        BY <1>8, <1>12
      <3>2. \A s, u \in Seq(CallSet) :
              /\ s \o u \in Seq(CallSet)
              /\ Len(s \o u) = Len(s) + Len(u)
              /\ \A i \in 1..Len(s) : (s \o u)[i] = s[i]
              /\ \A i \in 1..Len(u) : (s \o u)[Len(s) + i] = u[i]
        BY ConcatTwo
      <3> QED
        BY <2>0, <3>1, <3>2
    <2> QED
      BY <1>2, <1>8, <1>12, <2>1
  <1> HIDE DEF begin, w
  <1>14. /\ w \in Seq(CallSet)
         /\ Len(w) = n + 1 + Len(end)
         /\ \A i \in 1..(n + 1) : w[i] = begin[i]
         /\ \A i \in 1..Len(end) : w[n + 1 + i] = end[i]
    BY <1>10, <1>11, <1>13, ConcatTwo
  <1>15. Len(w) \in Nat /\ Len(w) = IF last THEN n + 1 ELSE n + 2
    BY <1>2, <1>10, <1>14
  <1>16. ASSUME NEW i \in 1..Len(w)
         PROVE  /\ w[i].section = SectionAt(n, i - 1)
                /\ w[i].end <=> i = Len(w)
                /\ w[i].section # "data" => Named(w[i].content)
    <2>1. CASE i = 1
      <3>1. w[i] = h
        BY <1>2, <1>13, <1>14, <2>1
      <3> QED
        BY <1>2, <1>5, <1>15, <2>1, <3>1 DEF SectionAt
    <2>2. CASE i \in 2..(n + 1)
      <3>1. i - 1 \in 1..n /\ i = 1 + (i - 1) /\ i \in 1..(n + 1)
        BY <1>2, <2>2
      <3>2. w[i] = d(i - 1)
        BY <1>13, <1>14, <3>1
      <3> QED
        BY <1>2, <1>6, <1>15, <2>2, <3>1, <3>2 DEF SectionAt
    <2>3. CASE i > n + 1
      <3>1. i = n + 1 + 1 /\ ~last
        BY <1>2, <1>15, <2>3
      <3>2. w[i] = t
        BY <1>10, <1>14, <3>1
      <3> QED
        BY <1>2, <1>7, <1>15, <3>1, <3>2 DEF SectionAt
    <2> QED
      BY <1>2, <1>15, <2>1, <2>2, <2>3
  <1> QED
    BY <1>2, <1>14, <1>15, <1>16 DEF n, w, last

\* The script is made of the origin's calls and, after trailers, one without
\* fields; what the producer writes for each is its frame.
LEMMA ScriptOf ==
    ASSUME NamesAreTokens, NEW response \in Responses
    PROVE  LET n == Len(response.data)
               c == CallsOf(response)
               w == Streamed(response)
           IN /\ Script(w, n)
              /\ Len(c) \in Nat \ {0} /\ c \in Seq(CallSet)
              /\ Len(w) = IF response.trailers = Nil THEN Len(c) ELSE Len(c) + 1
              /\ Len(c) = IF response.trailers = Nil THEN n + 1 ELSE n + 2
              /\ \A i \in 1..Len(c) : w[i] = c[i] /\ CallItems(c[i]) = Frame(w, i - 1)
              /\ response.trailers # Nil =>
                    Frame(w, Len(c)) = <<Item(Delimiter(TRUE), TRUE)>>
  <1> DEFINE n == Len(response.data)
             c == CallsOf(response)
             w == Streamed(response)
             t == Call("trailers", <<>>, TRUE)
  <1>1. /\ n \in Nat
        /\ c \in Seq(CallSet)
        /\ Len(c) \in Nat
        /\ Len(c) = IF response.trailers = Nil THEN n + 1 ELSE n + 2
        /\ \A i \in 1..Len(c) :
              /\ c[i].section = SectionAt(n, i - 1)
              /\ c[i].end <=> i = Len(c)
              /\ c[i].section # "data" => Named(c[i].content)
    BY OriginCalls
  <1> DEFINE last == response.trailers = Nil
  <1>2. w = c \o IF last THEN <<>> ELSE <<t>>
    BY DEF Streamed
  <1>3. /\ t \in CallSet /\ t.section = "trailers" /\ t.end /\ t.content = <<>>
        /\ Named(t.content)
    BY DEF Call, CallSet, Named
  <1> HIDE DEF c, t
  <1>4. /\ w \in Seq(CallSet)
        /\ Len(w) = IF last THEN Len(c) ELSE Len(c) + 1
        /\ \A i \in 1..Len(c) : w[i] = c[i]
        /\ ~last => w[Len(c) + 1] = t
    <2>1. CASE last
      <3>1. w = c
        BY <1>1, <1>2, <2>1, ConcatEmptySeq
      <3> QED
        BY <1>1, <2>1, <3>1
    <2>2. CASE ~last
      <3>1. w = c \o <<t>>
        BY <1>2, <2>2
      <3>2. /\ c \o <<t>> \in Seq(CallSet)
            /\ Len(c \o <<t>>) = Len(c) + 1
            /\ \A i \in 1..Len(c) : c[i] \in CallSet /\ (c \o <<t>>)[i] = c[i]
            /\ (c \o <<t>>)[Len(c) + 1] = t
        BY <1>1, <1>3, AppendOne
      <3> HIDE DEF w
      <3> QED
        BY <2>2, <3>1, <3>2
    <2> QED
      BY <2>1, <2>2
  <1> HIDE DEF n, w
  <1>5. ~last => SectionAt(n, n + 1) = "trailers" /\ SectionAt(n, n + 2) = "trailers"
    BY <1>1 DEF SectionAt
  <1>6. ASSUME NEW i \in 1..Len(w)
        PROVE  /\ w[i].section = SectionAt(n, i - 1)
               /\ w[i].end <=> w[i].section = "trailers" \/ i = Len(w)
               /\ w[i].section # "data" => Named(w[i].content)
    <2>1. CASE i \in 1..Len(c)
      <3>1. w[i].section = SectionAt(n, i - 1) /\ (w[i].end <=> i = Len(c))
            /\ (w[i].section # "data" => Named(w[i].content))
        BY <1>1, <1>4, <2>1
      <3>2. w[i].section = "trailers" <=> ~last /\ i = Len(c)
        BY <1>1, <2>1, <3>1 DEF SectionAt
      <3> QED
        BY <1>1, <1>4, <2>1, <3>1, <3>2
    <2>2. CASE i \notin 1..Len(c)
      <3>1. i = Len(c) + 1 /\ ~last /\ w[i] = t /\ i - 1 = n + 2
        BY <1>1, <1>4, <2>2
      <3> QED
        BY <1>3, <1>5, <3>1
    <2> QED
      BY <2>1, <2>2
  <1>7. Script(w, n)
    BY <1>1, <1>4, <1>6 DEF Script
  <1>8. ASSUME NEW i \in 1..Len(c)
        PROVE  CallItems(c[i]) = Frame(w, i - 1)
    <2> DEFINE call == c[i]
    <2>1. call \in CallSet /\ w[i] = call /\ (i - 1) + 1 = i
      BY <1>1, <1>4, ElementOfSeq
    <2>2. call.end \in BOOLEAN /\ call.section \in Sections
      BY <2>1 DEF CallSet, Sections
    <2>3. call.section = "trailers" <=> ~last /\ i = Len(c)
      BY <1>1 DEF SectionAt
    <2>4. Delimiter(i = Len(w)) = IF call.section = "trailers" THEN Delimiter(FALSE)
                                                              ELSE Delimiter(call.end)
      BY <1>1, <1>4, <2>2, <2>3 DEF Delimiter
    <2>5. Frame(w, i - 1) =
            (IF call.section = "data" THEN <<Item(call.content, FALSE)>> ELSE MapItems(call.content))
                \o <<Item(Delimiter(i = Len(w)), TRUE)>>
      BY <2>1 DEF Frame, Text, Stop
    <2> HIDE DEF call
    <2>6. CASE call.section = "data"
      <3>1. ASSUME NEW x \in Items, NEW y \in Items PROVE <<x>> \o <<y>> = <<x, y>>
        <4> DEFINE first == <<x>>
                   both == <<x, y>>
        <4>1. /\ first \in Seq(Items) /\ Len(first) = 1 /\ first[1] = x
              /\ both \in Seq(Items) /\ Len(both) = 2 /\ both[1] = x /\ both[2] = y
          OBVIOUS
        <4> HIDE DEF first, both
        <4>a. /\ first \o <<y>> \in Seq(Items)
              /\ Len(first \o <<y>>) = Len(first) + 1
              /\ \A j \in 1..Len(first) : (first \o <<y>>)[j] = first[j]
              /\ (first \o <<y>>)[Len(first) + 1] = y
          <5>1. \A h \in Seq(Items), e \in Items :
                  /\ h \o <<e>> \in Seq(Items)
                  /\ Len(h \o <<e>>) = Len(h) + 1
                  /\ \A j \in 1..Len(h) : (h \o <<e>>)[j] = h[j]
                  /\ (h \o <<e>>)[Len(h) + 1] = e
            BY AppendOne
          <5>2. first \in Seq(Items) /\ y \in Items
            BY <4>1
          <5> QED
            BY <5>1, <5>2
        <4>2. /\ first \o <<y>> \in Seq(Items)
              /\ Len(first \o <<y>>) = 2
              /\ (first \o <<y>>)[1] = x
              /\ (first \o <<y>>)[2] = y
          BY <4>1, <4>a
        <4> DEFINE joined == first \o <<y>>
        <4>3. joined \in Seq(Items) /\ Len(joined) = Len(both) /\ \A j \in 1..Len(both) : joined[j] = both[j]
          BY <4>1, <4>2
        <4> HIDE DEF joined
        <4>4. joined = both
          BY <4>1, <4>3, SeqEqual
        <4> QED
          BY <4>4 DEF joined, first, both
      <3>2. Frame(w, i - 1) = <<Item(call.content, FALSE)>> \o <<Item(Delimiter(call.end), TRUE)>>
        BY <2>4, <2>5, <2>6
      <3> DEFINE x == Item(call.content, FALSE)
                 y == Item(Delimiter(call.end), TRUE)
      <3>a. x \in Items /\ y \in Items
        BY <2>1, <2>2, <2>6, CallParts, OnesAndZeros DEF Item, Items, call
      <3>3. CallItems(call) = <<x, y>>
        BY <2>6 DEF CallItems
      <3>4. Frame(w, i - 1) = <<x>> \o <<y>>
        BY <3>2
      <3> HIDE DEF x, y
      <3> QED
        BY <3>a, <3>1, <3>3, <3>4 DEF call
    <2>7. CASE call.section = "headers"
      BY <2>4, <2>5, <2>7 DEF CallItems, call
    <2>8. CASE call.section = "trailers"
      BY <2>4, <2>5, <2>8 DEF CallItems, call
    <2> QED
      BY <2>2, <2>6, <2>7, <2>8 DEF Sections
  <1>9. ~last => Frame(w, Len(c)) = <<Item(Delimiter(TRUE), TRUE)>>
    <2> SUFFICES ASSUME ~last PROVE Frame(w, Len(c)) = <<Item(Delimiter(TRUE), TRUE)>>
      OBVIOUS
    <2>1. MapItems(<<>>) = <<>>
      <3>1. Len(<<>>) = 0 /\ 2 * 0 = 0 /\ 1..0 = {}
        OBVIOUS
      <3>2. <<>> \in Seq(Fields)
        OBVIOUS
      <3>3. MapItems(<<>>) \in Seq(Items) /\ Len(MapItems(<<>>)) = 0
        BY <3>1, <3>2, ItemsOfMap
      <3> QED
        BY <3>3, EmptySeq
    <2>2. (Len(c) + 1 = Len(w)) = TRUE
      BY <1>4
    <2>3. Frame(w, Len(c)) = <<>> \o <<Item(Delimiter(TRUE), TRUE)>>
      BY <1>3, <1>4, <2>1, <2>2 DEF Frame, Stop
    <2> DEFINE e == Item(Delimiter(TRUE), TRUE)
    <2>4. e \in Items
      BY OnesAndZeros DEF Item, Items
    <2> HIDE DEF e
    <2>5. <<>> \o <<e>> = <<e>>
      BY <2>4
    <2> QED
      BY <2>3, <2>5 DEF e
  <1> QED
    <2>1. Len(c) \in Nat \ {0}
      BY <1>1
    <2> HIDE DEF last
    <2>2. /\ Script(w, n)
          /\ Len(c) \in Nat \ {0} /\ c \in Seq(CallSet)
          /\ Len(w) = IF last THEN Len(c) ELSE Len(c) + 1
          /\ Len(c) = IF last THEN n + 1 ELSE n + 2
          /\ \A i \in 1..Len(c) : w[i] = c[i] /\ CallItems(c[i]) = Frame(w, i - 1)
          /\ ~last => Frame(w, Len(c)) = <<Item(Delimiter(TRUE), TRUE)>>
      BY <1>1, <1>4, <1>7, <1>8, <1>9, <2>1 DEF last
    <2> QED
      BY <2>2 DEF n, c, w, last

----------------------------------------------------------------------------
(* Parts of sequences                                                       *)

LEMMA Parts ==
    ASSUME NEW S, NEW s \in Seq(S), NEW a \in Nat, NEW b \in Nat, a <= b, b <= Len(s)
    PROVE  /\ SubSeq(s, 1, a) \in Seq(S)
           /\ Len(SubSeq(s, 1, a)) = a
           /\ SubSeq(s, a + 1, b) \in Seq(S)
           /\ Len(SubSeq(s, a + 1, b)) = b - a
           /\ \A i \in 1..(b - a) : SubSeq(s, a + 1, b)[i] = s[a + i]
           /\ SubSeq(s, 1, a) \o SubSeq(s, a + 1, b) = SubSeq(s, 1, b)
  <1>1. Len(s) \in Nat /\ \A i \in 1..Len(s) : s[i] \in S
    BY LenProperties, ElementOfSeq
  <1>2. SubSeq(s, 1, a) \in Seq(S) /\ Len(SubSeq(s, 1, a)) = a
    <2>1. \A i \in 1..a : s[i] \in S
      BY <1>1
    <2>2. SubSeq(s, 1, a) \in Seq(S) /\ Len(SubSeq(s, 1, a)) = IF 1 <= a THEN a - 1 + 1 ELSE 0
      BY <2>1, SubSeqProperties
    <2> QED
      BY <2>2
  <1>3. /\ SubSeq(s, a + 1, b) \in Seq(S)
        /\ Len(SubSeq(s, a + 1, b)) = b - a
        /\ \A i \in 1..(b - a) : SubSeq(s, a + 1, b)[i] = s[a + i]
    <2> DEFINE m == a + 1
    <2>1. m \in Int /\ \A i \in m..b : s[i] \in S
      BY <1>1
    <2>2. b - m + 1 = b - a /\ \A i \in 1..(b - a) : m + i - 1 = a + i
      OBVIOUS
    <2>3. /\ SubSeq(s, m, b) \in Seq(S)
          /\ Len(SubSeq(s, m, b)) = IF m <= b THEN b - m + 1 ELSE 0
          /\ \A i \in 1..(b - m + 1) : SubSeq(s, m, b)[i] = s[m + i - 1]
      <3> HIDE DEF m
      <3> QED
        BY <2>1, SubSeqProperties
    <2>4. Len(SubSeq(s, m, b)) = b - a
      BY <2>3
    <2>5. \A i \in 1..(b - a) : SubSeq(s, m, b)[i] = s[a + i]
      BY <2>2, <2>3
    <2> QED
      BY <2>3, <2>4, <2>5
  <1>4. SubSeq(s, 1, a) \o SubSeq(s, a + 1, b) = SubSeq(s, 1, b)
    <2>1. 1 \in 1..(Len(s) + 1) /\ a \in (1 - 1)..Len(s) /\ b \in a..Len(s)
      BY <1>1
    <2> QED
      BY <2>1, ConcatAdjacentSubSeq
  <1> QED
    BY <1>2, <1>3, <1>4

LEMMA WholeAndNone ==
    ASSUME NEW S, NEW s \in Seq(S)
    PROVE  /\ SubSeq(s, 1, Len(s)) = s
           /\ SubSeq(s, 1, 0) = <<>>
           /\ SubSeq(s, Len(s) + 1, Len(s)) = <<>>
  <1>1. Len(s) \in Nat
    BY LenProperties
  <1>2. SubSeq(s, 1, 0) = <<>>
    BY SubSeqEmpty
  <1>3. SubSeq(s, Len(s) + 1, Len(s)) = <<>>
    BY <1>1, SubSeqEmpty
  <1> QED
    BY <1>2, <1>3, SubSeqFull

LEMMA OneMore ==
    ASSUME NEW S, NEW s \in Seq(S), NEW a \in Nat, a < Len(s)
    PROVE  /\ s[a + 1] \in S
           /\ Append(SubSeq(s, 1, a), s[a + 1]) = SubSeq(s, 1, a + 1)
           /\ SubSeq(s, 1, a) \o <<s[a + 1]>> = SubSeq(s, 1, a + 1)
  <1>1. Len(s) \in Nat
    BY LenProperties
  <1>2. a + 1 \in 1..Len(s) /\ 1 \in 1..Len(s) /\ (a + 1) - 1 = a
    BY <1>1
  <1>3. s[a + 1] \in S
    BY <1>2, ElementOfSeq
  <1>4. SubSeq(s, 1, a) \in Seq(S)
    BY <1>1, Parts
  <1>5. SubSeq(s, 1, a) \o <<s[a + 1]>> = SubSeq(s, 1, a + 1)
    BY <1>2, SubSeqRecursiveSecond
  <1> QED
    BY <1>3, <1>4, <1>5, AppendIsConcat

LEMMA Divided ==
    ASSUME NEW S, NEW s \in Seq(S), NEW t \in Seq(S)
    PROVE  /\ SubSeq(s \o t, 1, Len(s)) = s
           /\ SubSeq(s \o t, Len(s) + 1, Len(s \o t)) = t
  <1> DEFINE all == s \o t
             a == Len(s)
             b == Len(all)
             front == SubSeq(all, 1, a)
             rest == SubSeq(all, a + 1, b)
  <1>1. /\ all \in Seq(S)
        /\ a \in Nat /\ Len(t) \in Nat
        /\ b = a + Len(t)
        /\ \A i \in 1..a : all[i] = s[i]
        /\ \A i \in 1..Len(t) : all[a + i] = t[i]
    BY ConcatTwo
  <1> HIDE DEF all, a
  <1>2. /\ front \in Seq(S) /\ Len(front) = a
        /\ rest \in Seq(S) /\ Len(rest) = b - a
        /\ \A i \in 1..(b - a) : rest[i] = all[a + i]
    BY <1>1, Parts
  <1>3. \A i \in 1..a : front[i] = all[i]
    <2>1. \A i \in 1..a : all[i] \in S
      BY <1>1, ElementOfSeq
    <2>2. \A i \in 1..(a - 1 + 1) : front[i] = all[1 + i - 1]
      BY <1>1, <2>1, SubSeqProperties
    <2>3. a - 1 + 1 = a /\ \A i \in 1..a : 1 + i - 1 = i
      BY <1>1
    <2> HIDE DEF front
    <2> QED
      BY <2>2, <2>3
  <1> HIDE DEF front, rest, b
  <1>4. front = s
    <2>1. Len(front) = Len(s) /\ \A i \in 1..Len(front) : front[i] = s[i]
      BY <1>1, <1>2, <1>3 DEF a
    <2> QED
      BY <1>2, <2>1, SeqEqual
  <1>5. rest = t
    <2>1. Len(rest) = Len(t)
      BY <1>1, <1>2
    <2>2. \A i \in 1..Len(rest) : rest[i] = t[i]
      BY <1>1, <1>2
    <2> QED
      BY <1>2, <2>1, <2>2, SeqEqual
  <1> QED
    BY <1>4, <1>5 DEF front, rest, all, a, b

----------------------------------------------------------------------------
(* Blocks and marks                                                         *)

LEMMA MarkIs ==
    ASSUME NEW n, NEW i, NEW done
    PROVE  /\ Mark(n, i, done).n = n
           /\ Mark(n, i, done).i = i
           /\ Mark(n, i, done).done = done
           /\ n \in Nat /\ i \in Nat \ {0} /\ done \in Nat => Mark(n, i, done) \in Marks
  BY DEF Mark, Marks

\* The block that is due: a delimiter, a full block of a string, or what is left
\* of it, which is shorter.
LEMMA DueShape ==
    ASSUME NEW w, NEW d, Script(w, d), NEW l, Due(w, l)
    PROVE  LET item == Frame(w, l.n)[l.i]
               s == item.bytes
           IN /\ l.n \in Nat /\ l.i \in Nat \ {0} /\ l.done \in Nat
              /\ l.n < Len(w)
              /\ item \in Items
              /\ l.i \in 1..Len(Frame(w, l.n))
              /\ item.delimiter <=> l.i = Len(Frame(w, l.n))
              /\ s \in Strings /\ Len(s) \in Nat
              /\ BlockAt(w, l) \in Strings
              /\ Succ(w, l) \in Marks
              /\ item.delimiter =>
                    /\ l.done = 0
                    /\ s = Delimiter(l.n + 1 = Len(w))
                    /\ BlockAt(w, l) = s
                    /\ Succ(w, l) = Mark(l.n + 1, 1, 0)
              /\ ~item.delimiter =>
                    /\ l.done <= Len(s)
                    /\ Len(s) - l.done >= BlockSize =>
                          /\ BlockAt(w, l) = SubSeq(s, l.done + 1, l.done + BlockSize)
                          /\ Len(BlockAt(w, l)) = BlockSize
                          /\ Succ(w, l) = Mark(l.n, l.i, l.done + BlockSize)
                    /\ Len(s) - l.done < BlockSize =>
                          /\ BlockAt(w, l) = SubSeq(s, l.done + 1, Len(s))
                          /\ Len(BlockAt(w, l)) = Len(s) - l.done
                          /\ Succ(w, l) = Mark(l.n, l.i + 1, 0)
  <1> DEFINE frame == Frame(w, l.n)
             item == frame[l.i]
             s == item.bytes
  <1>1. /\ l.n \in Nat /\ l.i \in Nat \ {0} /\ l.done \in Nat
        /\ l.n < Len(w)
        /\ l.i <= Len(frame)
        /\ l.done <= IF item.delimiter THEN 0 ELSE Len(s)
    BY DEF Due, Marks
  <1>2. /\ Len(frame) \in Nat \ {0}
        /\ \A i \in 1..Len(frame) : frame[i] \in Items /\ (frame[i].delimiter <=> i = Len(frame))
        /\ frame[Len(frame)] = Stop(w, l.n)
    BY <1>1, FrameShape
  <1>3. l.i \in 1..Len(frame)
    BY <1>1, <1>2
  <1>4. item \in Items /\ (item.delimiter <=> l.i = Len(frame))
    BY <1>2, <1>3
  <1>5. s \in Strings /\ Len(s) \in Nat
    <2>1. s \in Strings
      BY <1>4 DEF Items
    <2> QED
      BY <2>1, LenProperties DEF Strings
  <1>6. item.delimiter => s = Delimiter(l.n + 1 = Len(w))
    BY <1>2, <1>4, TextAndStop
  <1>7. BlockSize \in Nat \ {0}
    BY EntryAssumption
  <1>8. /\ Reach(w, l) = IF Len(s) - l.done >= BlockSize THEN l.done + BlockSize ELSE Len(s)
        /\ BlockAt(w, l) = IF item.delimiter THEN s ELSE SubSeq(s, l.done + 1, Reach(w, l))
        /\ Succ(w, l) = IF item.delimiter THEN Mark(l.n + 1, 1, 0)
                        ELSE IF Len(s) - l.done >= BlockSize THEN Mark(l.n, l.i, l.done + BlockSize)
                        ELSE Mark(l.n, l.i + 1, 0)
    BY DEF Reach, BlockAt, Succ
  <1> HIDE DEF frame, item, s
  <1>9. CASE item.delimiter
    <2>1. BlockAt(w, l) = s /\ Succ(w, l) = Mark(l.n + 1, 1, 0)
      BY <1>8, <1>9
    <2>2. Succ(w, l) \in Marks
      BY <1>1, <2>1, MarkIs
    <2> QED
      BY <1>1, <1>3, <1>4, <1>5, <1>6, <1>9, <2>1, <2>2 DEF frame, item, s
  <1>10. CASE ~item.delimiter
    <2>1. l.done <= Len(s) /\ BlockAt(w, l) = SubSeq(s, l.done + 1, Reach(w, l))
      BY <1>1, <1>8, <1>10
    <2>2. Reach(w, l) \in Nat /\ l.done <= Reach(w, l) /\ Reach(w, l) <= Len(s)
      BY <1>1, <1>5, <1>7, <1>8, <2>1
    <2>3. BlockAt(w, l) \in Strings /\ Len(BlockAt(w, l)) = Reach(w, l) - l.done
      BY <1>1, <1>5, <2>1, <2>2, Parts DEF Strings
    <2>a. Succ(w, l) = IF Len(s) - l.done >= BlockSize THEN Mark(l.n, l.i, l.done + BlockSize)
                       ELSE Mark(l.n, l.i + 1, 0)
      BY <1>8, <1>10, Zenon
    <2>4. Succ(w, l) \in Marks
      <3>1. l.i + 1 \in Nat \ {0} /\ l.done + BlockSize \in Nat /\ 0 \in Nat
        BY <1>1, <1>7
      <3> QED
        BY <1>1, <2>a, <3>1, MarkIs
    <2>5. Len(s) - l.done >= BlockSize =>
             /\ BlockAt(w, l) = SubSeq(s, l.done + 1, l.done + BlockSize)
             /\ Len(BlockAt(w, l)) = BlockSize
             /\ Succ(w, l) = Mark(l.n, l.i, l.done + BlockSize)
      <3> SUFFICES ASSUME Len(s) - l.done >= BlockSize
                   PROVE  /\ BlockAt(w, l) = SubSeq(s, l.done + 1, l.done + BlockSize)
                          /\ Len(BlockAt(w, l)) = BlockSize
                          /\ Succ(w, l) = Mark(l.n, l.i, l.done + BlockSize)
        OBVIOUS
      <3>1. Reach(w, l) = l.done + BlockSize
        BY <1>8
      <3>2. Len(BlockAt(w, l)) = BlockSize
        BY <1>1, <1>7, <2>3, <3>1
      <3> QED
        BY <2>a, <2>1, <3>1, <3>2
    <2>6. Len(s) - l.done < BlockSize =>
             /\ BlockAt(w, l) = SubSeq(s, l.done + 1, Len(s))
             /\ Len(BlockAt(w, l)) = Len(s) - l.done
             /\ Succ(w, l) = Mark(l.n, l.i + 1, 0)
      <3> SUFFICES ASSUME Len(s) - l.done < BlockSize
                   PROVE  /\ BlockAt(w, l) = SubSeq(s, l.done + 1, Len(s))
                          /\ Len(BlockAt(w, l)) = Len(s) - l.done
                          /\ Succ(w, l) = Mark(l.n, l.i + 1, 0)
        OBVIOUS
      <3>1. ~(Len(s) - l.done >= BlockSize)
        BY <1>1, <1>5, <1>7
      <3>2. Reach(w, l) = Len(s)
        BY <1>8, <3>1
      <3> QED
        BY <2>a, <2>1, <2>3, <3>1, <3>2
    <2> QED
      BY <1>1, <1>3, <1>4, <1>5, <1>10, <2>1, <2>3, <2>4, <2>5, <2>6 DEF frame, item, s
  <1> QED
    BY <1>9, <1>10

----------------------------------------------------------------------------
(* The parser, block by block                                               *)

\* What a parser keeps, but for its end_stream.
State(d, fields, text, length, read, data, batch) ==
    /\ d.fields = fields
    /\ d.text = text
    /\ d.key_length = length
    /\ d.key_read_done <=> read
    /\ d.data = data
    /\ d.batch_complete <=> batch

LEMMA EncodeOutcome ==
    ASSUME NEW c \in ReaderStates, NEW end \in BOOLEAN
    PROVE  /\ State(EncodeFields(c, end).state, <<>>, c.text, c.key_length, c.key_read_done,
                    c.data, c.batch_complete)
           /\ EncodeFields(c, end).state.end_stream <=> c.end_stream \/ end
           /\ EncodeFields(c, end).call =
                 <<Call(c.section, c.fields, c.section = "trailers" \/ end)>>
           /\ State(EncodeBatch(c, end).state, c.fields, c.text, c.key_length, c.key_read_done,
                    <<>>, FALSE)
           /\ EncodeBatch(c, end).state.end_stream <=> c.end_stream \/ end
           /\ EncodeBatch(c, end).call = <<Call("data", c.data, end)>>
  <1> DEFINE ends == c.end_stream \/ end
             d == [c EXCEPT !.fields = <<>>, !.end_stream = ends]
             e == [c EXCEPT !.data = <<>>, !.batch_complete = FALSE, !.end_stream = ends]
  <1>1. /\ EncodeFields(c, end).state = d
        /\ EncodeBatch(c, end).state = e
        /\ EncodeFields(c, end).call = <<Call(c.section, c.fields, c.section = "trailers" \/ end)>>
        /\ EncodeBatch(c, end).call = <<Call("data", c.data, end)>>
    BY DEF EncodeFields, EncodeBatch, ReaderStates
  <1>2. ends \in BOOLEAN /\ (ends <=> c.end_stream \/ end)
    OBVIOUS
  <1> HIDE DEF ends
  <1>3. State(d, <<>>, c.text, c.key_length, c.key_read_done, c.data, c.batch_complete)
        /\ d.end_stream = ends
    BY <1>2 DEF State, ReaderStates
  <1>4. State(e, c.fields, c.text, c.key_length, c.key_read_done, <<>>, FALSE)
        /\ e.end_stream = ends
    BY <1>2 DEF State, ReaderStates
  <1> HIDE DEF d, e
  <1> QED
    BY <1>1, <1>2, <1>3, <1>4

\* Blocks that complete nothing.
LEMMA LongerOutcome ==
    ASSUME NEW c \in ReaderStates, NEW b \in Strings
    PROVE  LET longer == [c EXCEPT !.text = @ \o b]
               key == [longer EXCEPT !.key_length = @ + Len(b), !.key_read_done = Len(b) < BlockSize]
               more == [c EXCEPT !.data = @ \o b, !.batch_complete = @ \/ Len(b) < BlockSize]
           IN /\ State(longer, c.fields, c.text \o b, c.key_length, c.key_read_done,
                       c.data, c.batch_complete)
              /\ longer.end_stream = c.end_stream
              /\ State(key, c.fields, c.text \o b, c.key_length + Len(b), Len(b) < BlockSize,
                       c.data, c.batch_complete)
              /\ key.end_stream = c.end_stream
              /\ State(more, c.fields, c.text, c.key_length, c.key_read_done, c.data \o b,
                       c.batch_complete \/ Len(b) < BlockSize)
              /\ more.end_stream = c.end_stream
  <1> DEFINE short == Len(b) < BlockSize
             over == c.batch_complete \/ short
             text == c.text \o b
             data == c.data \o b
             longer == [c EXCEPT !.text = text]
             key == [longer EXCEPT !.key_length = @ + Len(b), !.key_read_done = short]
             more == [c EXCEPT !.data = data, !.batch_complete = over]
  <1>1. short \in BOOLEAN /\ over \in BOOLEAN /\ (over <=> c.batch_complete \/ short)
    OBVIOUS
  <1> HIDE DEF short, over, text, data
  <1>2. /\ State(longer, c.fields, text, c.key_length, c.key_read_done, c.data, c.batch_complete)
        /\ longer.end_stream = c.end_stream
    BY DEF State, ReaderStates
  <1>3. /\ State(key, c.fields, text, c.key_length + Len(b), short, c.data, c.batch_complete)
        /\ key.end_stream = c.end_stream
    BY <1>1 DEF State, ReaderStates
  <1>4. /\ State(more, c.fields, c.text, c.key_length, c.key_read_done, data, over)
        /\ more.end_stream = c.end_stream
    BY <1>1 DEF State, ReaderStates
  <1> QED
    BY <1>2, <1>3, <1>4 DEF short, over, text, data

\* The block that completes a value.
LEMMA AddOutcome ==
    ASSUME NEW c \in ReaderStates, NEW b \in Strings, NEW field \in Fields,
           c.key_length = Len(field.key), c.text \o b = field.key \o field.value
    PROVE  LET longer == [c EXCEPT !.text = @ \o b]
           IN /\ State(AddField(longer), Append(c.fields, field), <<>>, 0, FALSE,
                       c.data, c.batch_complete)
              /\ AddField(longer).end_stream = c.end_stream
  <1> DEFINE text == c.text \o b
             longer == [c EXCEPT !.text = text]
             found == [key   |-> SubSeq(text, 1, c.key_length),
                       value |-> SubSeq(text, c.key_length + 1, Len(text))]
             fields == Append(c.fields, found)
  <1>1. found = field
    <2>1. field.key \in Seq(Bytes) /\ field.value \in Seq(Bytes)
      BY DEF Fields, Strings
    <2>2. /\ SubSeq(field.key \o field.value, 1, Len(field.key)) = field.key
          /\ SubSeq(field.key \o field.value, Len(field.key) + 1, Len(field.key \o field.value))
                = field.value
      BY <2>1, Divided
    <2>3. SubSeq(text, 1, c.key_length) = field.key
          /\ SubSeq(text, c.key_length + 1, Len(text)) = field.value
      BY <2>2
    <2> HIDE DEF text
    <2>4. found = [key |-> field.key, value |-> field.value]
      BY <2>3
    <2> QED
      BY <2>4 DEF Fields
  <1>2. /\ longer.text = text /\ longer.fields = c.fields /\ longer.key_length = c.key_length
        /\ longer \in [DOMAIN c -> {longer[f] : f \in DOMAIN c}]
        /\ longer.data = c.data /\ longer.batch_complete = c.batch_complete
        /\ longer.end_stream = c.end_stream
    <2> HIDE DEF text
    <2> QED
      BY DEF ReaderStates
  <1>3. AddField(longer) = [longer EXCEPT !.fields = fields, !.text = <<>>, !.key_length = 0,
                                          !.key_read_done = FALSE]
    BY <1>2 DEF AddField
  <1> HIDE DEF found, text
  <1>4. AddField(longer) = [[c EXCEPT !.text = text] EXCEPT !.fields = fields, !.text = <<>>,
                                         !.key_length = 0, !.key_read_done = FALSE]
    BY <1>3
  <1> HIDE DEF fields
  <1>5. State(AddField(longer), fields, <<>>, 0, FALSE, c.data, c.batch_complete)
        /\ AddField(longer).end_stream = c.end_stream
    BY <1>4 DEF State, ReaderStates
  <1> QED
    BY <1>1, <1>5 DEF fields, text

LEMMA StringParts ==
    ASSUME NEW s \in Strings
    PROVE  /\ SubSeq(s, 1, Len(s)) = s
           /\ SubSeq(s, 1, 0) = <<>>
           /\ s \o <<>> = s
           /\ \A a, b \in Nat : a <= b /\ b <= Len(s) =>
                 /\ SubSeq(s, 1, a) \in Strings
                 /\ Len(SubSeq(s, 1, a)) = a
                 /\ Len(SubSeq(s, a + 1, b)) = b - a
                 /\ \A i \in 1..(b - a) : SubSeq(s, a + 1, b)[i] = s[a + i]
                 /\ SubSeq(s, 1, a) \o SubSeq(s, a + 1, b) = SubSeq(s, 1, b)
  <1>1. s \in Seq(Bytes)
    BY DEF Strings
  <1>2. \A a, b \in Nat : a <= b /\ b <= Len(s) =>
           /\ SubSeq(s, 1, a) \in Seq(Bytes)
           /\ Len(SubSeq(s, 1, a)) = a
           /\ Len(SubSeq(s, a + 1, b)) = b - a
           /\ \A i \in 1..(b - a) : SubSeq(s, a + 1, b)[i] = s[a + i]
           /\ SubSeq(s, 1, a) \o SubSeq(s, a + 1, b) = SubSeq(s, 1, b)
    BY <1>1, Parts
  <1> QED
    BY <1>1, <1>2, WholeAndNone, ConcatEmptySeq DEF Strings

LEMMA DelimiterIs ==
    /\ Ones # <<>>
    /\ Ones \in Strings
    /\ Len(Ones) = BlockSize
    /\ \A end \in BOOLEAN : /\ Delimiter(end) = Ones <=> end
                            /\ Delimiter(end) = <<>> <=> ~end
                            /\ Delimiter(end) \in {Ones, <<>>}
  <1>1. BlockSize \in Nat \ {0}
    BY EntryAssumption
  <1>2. Ones \in Strings /\ Len(Ones) = BlockSize
    <2>1. Ones \in Strings /\ DOMAIN Ones = 1..BlockSize
      BY OnesAndZeros DEF Ones
    <2> QED
      BY <1>1, <2>1, LenProperties DEF Strings
  <1>3. Ones # <<>>
    BY <1>1, <1>2
  <1> QED
    BY <1>2, <1>3 DEF Delimiter

\* What a parser keeps at a mark, whether or not a call begins there.
LEMMA KeepsIn ==
    ASSUME NEW w, NEW d, Script(w, d), NEW l, Due(w, l), NEW c \in ReaderStates
    PROVE  Keeps(w, l, c) <=>
              IF w[l.n + 1].section = "data" THEN InBatch(w, l, c) ELSE InMap(w, l, c)
  <1>1. /\ l.n \in Nat /\ l.i \in Nat \ {0} /\ l.done \in Nat /\ l.n < Len(w)
        /\ l.i \in 1..Len(Frame(w, l.n))
        /\ Frame(w, l.n)[l.i].bytes \in Strings
    BY DueShape
  <1>2. CASE ~(l.i = 1 /\ l.done = 0)
    BY <1>1, <1>2 DEF Keeps
  <1>3. CASE l.i = 1 /\ l.done = 0
    <2>1. Keeps(w, l, c) <=> Clean(c)
      BY <1>3 DEF Keeps
    <2>2. CASE w[l.n + 1].section = "data"
      <3>1. w[l.n + 1].content \in Strings
        BY <1>1, <2>2, FrameShape
      <3>2. SubSeq(w[l.n + 1].content, 1, 0) = <<>>
        BY <3>1, WholeAndNone DEF Strings
      <3>3. InBatch(w, l, c) <=> Clean(c)
        BY <1>3, <3>2 DEF InBatch, Clean, ReaderStates
      <3> QED
        BY <2>1, <2>2, <3>3
    <2>3. CASE w[l.n + 1].section # "data"
      <3>1. w[l.n + 1].content \in Seq(Fields)
        BY <1>1, <2>3, FrameShape
      <3>2. SubSeq(w[l.n + 1].content, 1, 0) = <<>> /\ SubSeq(Frame(w, l.n)[l.i].bytes, 1, 0) = <<>>
        BY <1>1, <3>1, WholeAndNone DEF Strings
      <3>3. \A f \in Nat : l.i = 2 * f + 1 <=> f = 0
        BY <1>3
      <3>4. \A f \in Nat : l.i # 2 * f + 2
        BY <1>3
      <3>5. InMap(w, l, c) <=> Clean(c)
        <4>1. ASSUME InMap(w, l, c) PROVE Clean(c)
          <5>1. 0 \in Nat /\ l.i = 2 * 0 + 1
            BY <1>3
          <5> QED
            BY <1>3, <3>2, <4>1, <5>1 DEF InMap, Clean, NoField
        <4>2. ASSUME Clean(c) PROVE InMap(w, l, c)
          BY <1>3, <3>2, <3>3, <3>4, <4>2 DEF InMap, Clean, NoField
        <4> QED
          BY <4>1, <4>2
      <3> QED
        BY <2>1, <2>3, <3>5
    <2> QED
      BY <2>2, <2>3
  <1> QED
    BY <1>2, <1>3

\* What a step of the parser from mark l has to achieve: p is its result.
Follows(w, l, c, p) ==
    /\ Keeps(w, Succ(w, l), p.state)
    /\ Succ(w, l).n = l.n => p.call = <<>> /\ (p.state.end_stream <=> c.end_stream)
    /\ Succ(w, l).n # l.n =>
          /\ Succ(w, l).n = l.n + 1
          /\ p.call = <<w[l.n + 1]>>
          /\ p.state.end_stream <=> c.end_stream \/ l.n + 1 = Len(w)

LEMMA ParseDataAt ==
    ASSUME NEW w, NEW d, Script(w, d), NEW l, Due(w, l), w[l.n + 1].section = "data",
           NEW c \in ReaderStates, Keeps(w, l, c), block_with_ones = Ones
    PROVE  Follows(w, l, c, ParseData(c, BlockAt(w, l)))
  <1> DEFINE call == w[l.n + 1]
             b == BlockAt(w, l)
             p == ParseData(c, b)
             next == Succ(w, l)
             item == Frame(w, l.n)[l.i]
             over == l.n + 1 = Len(w)
  <1>1. /\ l.n \in Nat /\ l.i \in Nat \ {0} /\ l.done \in Nat /\ l.n < Len(w)
        /\ l.i \in 1..Len(Frame(w, l.n))
        /\ item.delimiter <=> l.i = Len(Frame(w, l.n))
        /\ b \in Strings
        /\ BlockSize \in Nat \ {0}
    BY DueShape, EntryAssumption
  <1>2. /\ call.content \in Strings
        /\ Len(Frame(w, l.n)) = 2
        /\ Frame(w, l.n)[1] = Text(call.content)
        /\ call.end <=> over
        /\ call \in CallSet
    BY <1>1, FrameShape, ScriptCall
  <1>3. InBatch(w, l, c)
    BY KeepsIn
  <1>4. /\ c.text = <<>> /\ c.key_length = 0 /\ c.key_read_done = FALSE /\ c.fields = <<>>
        /\ c.data = IF l.i = 1 THEN SubSeq(call.content, 1, l.done) ELSE call.content
        /\ c.batch_complete <=> l.i # 1
    BY <1>3 DEF InBatch, NoField
  <1>5. CASE l.i = 2
    <2>1. l.done = 0 /\ b = Delimiter(over) /\ next = Mark(l.n + 1, 1, 0)
      BY <1>1, <1>2, <1>5, DueShape
    <2>2. p = EncodeBatch(c, over)
      <3>1. c.batch_complete
        BY <1>4, <1>5
      <3>2. CASE over
        <4>1. b = Ones
          BY <2>1, <3>2, DelimiterIs
        <4>a. EndsData(c, b)
          BY <3>1, <4>1 DEF EndsData, IndicatesEnd
        <4>2. p = EncodeBatch(c, TRUE)
          <5> DEFINE whole == EncodeBatch(c, TRUE)
          <5>1. ParseData(c, b) = CASE EndsData(c, b) -> whole
                                    [] c.batch_complete /\ b = <<>> -> EncodeBatch(c, FALSE)
                                    [] OTHER -> Silent([c EXCEPT !.data = @ \o b,
                                                  !.batch_complete = @ \/ Len(b) < BlockSize])
            BY DEF ParseData
          <5>2. b # <<>>
            BY <4>1, DelimiterIs
          <5> HIDE DEF b, whole
          <5>3. ParseData(c, b) = whole
            BY <4>a, <5>1, <5>2
          <5> QED
            BY <5>3 DEF whole
        <4>3. over = TRUE
          BY <3>2
        <4> QED
          BY <4>2, <4>3
      <3>3. CASE ~over
        <4>1. b = <<>> /\ b # block_with_ones
          BY <2>1, <3>3, DelimiterIs
        <4> QED
          BY <3>1, <3>3, <4>1 DEF ParseData, EndsData, IndicatesEnd
      <3> QED
        BY <3>2, <3>3
    <2> DEFINE end == over
    <2>3. /\ State(p.state, c.fields, c.text, c.key_length, c.key_read_done, <<>>, FALSE)
          /\ p.state.end_stream <=> c.end_stream \/ over
          /\ p.call = <<Call("data", c.data, over)>>
      <3>1. over \in BOOLEAN
        OBVIOUS
      <3> HIDE DEF over, p
      <3>2. /\ State(EncodeBatch(c, over).state, c.fields, c.text, c.key_length, c.key_read_done,
                     <<>>, FALSE)
            /\ EncodeBatch(c, over).state.end_stream <=> c.end_stream \/ over
            /\ EncodeBatch(c, over).call = <<Call("data", c.data, over)>>
        BY <3>1, EncodeOutcome
      <3> QED
        BY <2>2, <3>2
    <2>4. Clean(p.state)
      <3>1. p.state \in ReaderStates
        <4>1. over \in BOOLEAN
          OBVIOUS
        <4>2. EncodeBatch(c, over).state = [c EXCEPT !.data = <<>>, !.batch_complete = FALSE,
                                                      !.end_stream = c.end_stream \/ over]
          BY DEF EncodeBatch, ReaderStates
        <4> DEFINE ends == c.end_stream \/ over
        <4>3. ends \in BOOLEAN /\ <<>> \in Strings
          BY DEF Strings
        <4> HIDE DEF ends, p
        <4> QED
          BY <2>2, <4>2, <4>3 DEF ReaderStates, ends
      <3> QED
        BY <1>4, <2>3, <3>1 DEF State, Clean, NoField, ReaderStates
    <2>5. Call("data", c.data, over) = call
      <3>1. call = Call("data", call.content, call.end) /\ call.end \in BOOLEAN
        BY <1>2, CallParts
      <3>2. call.end = over
        BY <1>2, <3>1
      <3> QED
        BY <1>4, <1>5, <3>1, <3>2
    <2>6. Keeps(w, next, p.state)
      BY <2>1, <2>4, MarkIs DEF Keeps
    <2> HIDE DEF p
    <2> QED
      BY <1>1, <2>1, <2>3, <2>5, <2>6, MarkIs DEF Follows, p
  <1>6. CASE l.i = 1
    <2>1. item = Text(call.content) /\ item.bytes = call.content /\ ~item.delimiter
      BY <1>1, <1>2, <1>6, TextAndStop
    <2>2. /\ l.done <= Len(call.content)
          /\ Len(call.content) \in Nat
          /\ Len(call.content) - l.done >= BlockSize =>
                /\ b = SubSeq(call.content, l.done + 1, l.done + BlockSize)
                /\ Len(b) = BlockSize
                /\ next = Mark(l.n, 1, l.done + BlockSize)
          /\ Len(call.content) - l.done < BlockSize =>
                /\ b = SubSeq(call.content, l.done + 1, Len(call.content))
                /\ Len(b) = Len(call.content) - l.done
                /\ next = Mark(l.n, 2, 0)
      <3> DEFINE string == item.bytes
      <3>1. /\ l.done <= Len(string)
            /\ Len(string) \in Nat
            /\ Len(string) - l.done >= BlockSize =>
                  /\ b = SubSeq(string, l.done + 1, l.done + BlockSize)
                  /\ Len(b) = BlockSize
                  /\ next = Mark(l.n, l.i, l.done + BlockSize)
            /\ Len(string) - l.done < BlockSize =>
                  /\ b = SubSeq(string, l.done + 1, Len(string))
                  /\ Len(b) = Len(string) - l.done
                  /\ next = Mark(l.n, l.i + 1, 0)
        BY <2>1, DueShape
      <3>2. string = call.content /\ l.i = 1 /\ l.i + 1 = 2
        BY <1>6, <2>1
      <3> HIDE DEF string, b, next
      <3> QED
        BY <3>1, <3>2
    <2> DEFINE more == [c EXCEPT !.data = @ \o b, !.batch_complete = @ \/ Len(b) < BlockSize]
    <2>3. p = Silent(more)
      BY <1>4, <1>6 DEF ParseData, EndsData
    <2>4. /\ State(more, c.fields, c.text, c.key_length, c.key_read_done, c.data \o b,
                   c.batch_complete \/ Len(b) < BlockSize)
          /\ more.end_stream = c.end_stream
      BY <1>1, LongerOutcome
    <2> HIDE DEF more
    <2>5. p.state = more /\ p.call = <<>>
      BY <2>3 DEF Silent
    <2>6. NoField(more) /\ more.fields = <<>>
      <3>1. more.key_read_done \in BOOLEAN
        BY DEF more, ReaderStates
      <3> QED
        BY <1>4, <2>4, <3>1 DEF State, NoField
    <2>7. CASE Len(call.content) - l.done >= BlockSize
      <3>1. c.data \o b = SubSeq(call.content, 1, l.done + BlockSize)
        <4>1. l.done + BlockSize \in Nat /\ l.done <= l.done + BlockSize
              /\ l.done + BlockSize <= Len(call.content)
          <5>1. l.done \in Nat /\ Len(call.content) \in Nat /\ BlockSize \in Nat
            BY <1>1, EntryAssumption
          <5> DEFINE length == Len(call.content)
          <5>2. length - l.done >= BlockSize
            BY <2>7
          <5> HIDE DEF length
          <5>3. length \in Nat
            BY <5>1 DEF length
          <5>4. /\ l.done + BlockSize \in Nat /\ l.done <= l.done + BlockSize
                /\ l.done + BlockSize <= length
            BY <5>1, <5>2, <5>3
          <5> QED
            BY <5>4 DEF length
        <4>2. SubSeq(call.content, 1, l.done) \o SubSeq(call.content, l.done + 1, l.done + BlockSize)
                 = SubSeq(call.content, 1, l.done + BlockSize)
          <5> HIDE DEF call
          <5>1. \A a, e \in Nat : a <= e /\ e <= Len(call.content) =>
                   SubSeq(call.content, 1, a) \o SubSeq(call.content, a + 1, e)
                      = SubSeq(call.content, 1, e)
            BY <1>2, StringParts
          <5> QED
            BY <1>1, <4>1, <5>1
        <4> QED
          BY <1>4, <1>6, <2>2, <2>7, <4>2
      <3>2. next.n = l.n /\ next.i = 1 /\ next.done = l.done + BlockSize /\ next.done # 0
        BY <1>1, <2>2, <2>7, MarkIs
      <3>3. ~(Len(b) < BlockSize)
        BY <1>1, <2>2, <2>7
      <3>4. more.data = SubSeq(call.content, 1, l.done + BlockSize) /\ ~more.batch_complete
        BY <1>4, <1>6, <2>4, <3>1, <3>3 DEF State
      <3>5. InBatch(w, next, more)
        BY <2>6, <3>2, <3>4 DEF InBatch
      <3> QED
        BY <1>1, <2>4, <2>5, <3>2, <3>5 DEF Follows, Keeps
    <2>8. CASE Len(call.content) - l.done < BlockSize
      <3>1. c.data \o b = call.content
        <4>1. SubSeq(call.content, 1, l.done) \o SubSeq(call.content, l.done + 1, Len(call.content))
                 = SubSeq(call.content, 1, Len(call.content))
          <5> HIDE DEF call
          <5>1. \A a, e \in Nat : a <= e /\ e <= Len(call.content) =>
                   SubSeq(call.content, 1, a) \o SubSeq(call.content, a + 1, e)
                      = SubSeq(call.content, 1, e)
            BY <1>2, StringParts
          <5>2. /\ l.done \in Nat /\ Len(call.content) \in Nat
                /\ l.done <= Len(call.content) /\ Len(call.content) <= Len(call.content)
            BY <1>1, <2>2
          <5> QED
            BY <5>1, <5>2
        <4>2. SubSeq(call.content, 1, Len(call.content)) = call.content
          BY <1>2, StringParts
        <4> QED
          BY <1>4, <1>6, <2>2, <2>8, <4>1, <4>2
      <3>2. next.n = l.n /\ next.i = 2 /\ next.done = 0
        BY <2>2, <2>8, MarkIs
      <3>3. Len(b) < BlockSize
        BY <2>2, <2>8
      <3>4. more.data = call.content /\ more.batch_complete
        BY <2>4, <3>1, <3>3 DEF State
      <3>5. InBatch(w, next, more)
        BY <2>6, <3>2, <3>4 DEF InBatch
      <3> QED
        BY <1>1, <2>4, <2>5, <3>2, <3>5 DEF Follows, Keeps
    <2> QED
      BY <1>1, <2>2, <2>7, <2>8
  <1> QED
    BY <1>1, <1>2, <1>5, <1>6

\* An item of a map has one number of fields before it.
LEMMA InMapForms ==
    ASSUME NEW w, NEW l, NEW c, NEW f \in Nat
    PROVE  /\ l.i = 2 * f + 1 =>
                 (InMap(w, l, c) <=>
                     /\ c.data = <<>> /\ c.batch_complete = FALSE
                     /\ c.fields = SubSeq(w[l.n + 1].content, 1, f)
                     /\ c.text = SubSeq(Frame(w, l.n)[l.i].bytes, 1, l.done)
                     /\ c.key_length = l.done
                     /\ c.key_read_done = FALSE)
           /\ l.i = 2 * f + 2 =>
                 (InMap(w, l, c) <=>
                     LET field == w[l.n + 1].content[f + 1] IN
                     /\ c.data = <<>> /\ c.batch_complete = FALSE
                     /\ c.fields = SubSeq(w[l.n + 1].content, 1, f)
                     /\ c.text = field.key \o SubSeq(field.value, 1, l.done)
                     /\ c.key_length = Len(field.key)
                     /\ c.key_read_done = TRUE)
  <1>1. ASSUME l.i = 2 * f + 1
        PROVE  InMap(w, l, c) <=>
                  /\ c.data = <<>> /\ c.batch_complete = FALSE
                  /\ c.fields = SubSeq(w[l.n + 1].content, 1, f)
                  /\ c.text = SubSeq(Frame(w, l.n)[l.i].bytes, 1, l.done)
                  /\ c.key_length = l.done
                  /\ c.key_read_done = FALSE
    <2>1. \A g \in Nat : (l.i = 2 * g + 1 <=> g = f) /\ l.i # 2 * g + 2
      BY <1>1
    <2> QED
      BY <2>1 DEF InMap
  <1>2. ASSUME l.i = 2 * f + 2
        PROVE  InMap(w, l, c) <=>
                  LET field == w[l.n + 1].content[f + 1] IN
                  /\ c.data = <<>> /\ c.batch_complete = FALSE
                  /\ c.fields = SubSeq(w[l.n + 1].content, 1, f)
                  /\ c.text = field.key \o SubSeq(field.value, 1, l.done)
                  /\ c.key_length = Len(field.key)
                  /\ c.key_read_done = TRUE
    <2>1. \A g \in Nat : (l.i = 2 * g + 2 <=> g = f) /\ l.i # 2 * g + 1
      BY <1>2
    <2> QED
      BY <2>1 DEF InMap
  <1> QED
    BY <1>1, <1>2

\* The delimiter of a map: the fields so far go to the stream.
LEMMA ParseStopAt ==
    ASSUME NEW w, NEW d, Script(w, d), NEW l, Due(w, l), w[l.n + 1].section # "data",
           NEW c \in ReaderStates, c.section = w[l.n + 1].section, Keeps(w, l, c),
           block_with_ones = Ones, l.i = 2 * Len(w[l.n + 1].content) + 1
    PROVE  Follows(w, l, c, ParseField(c, BlockAt(w, l)))
  <1> DEFINE call == w[l.n + 1]
             b == BlockAt(w, l)
             p == ParseField(c, b)
             next == Succ(w, l)
             item == Frame(w, l.n)[l.i]
             over == l.n + 1 = Len(w)
             F == Len(call.content)
  <1>1. /\ l.n \in Nat /\ l.done \in Nat /\ l.n < Len(w)
        /\ item.delimiter <=> l.i = Len(Frame(w, l.n))
        /\ item.bytes \in Strings
    BY DueShape
  <1>2. /\ call.content \in Seq(Fields)
        /\ F \in Nat
        /\ Len(Frame(w, l.n)) = 2 * F + 1
        /\ call.end <=> call.section = "trailers" \/ over
        /\ call \in CallSet
    BY <1>1, FrameShape, ScriptCall
  <1>3. l.done = 0 /\ b = Delimiter(over) /\ next = Mark(l.n + 1, 1, 0)
    BY <1>1, <1>2, DueShape
  <1>4. /\ c.data = <<>> /\ c.batch_complete = FALSE
        /\ c.fields = call.content
        /\ c.text = <<>> /\ c.key_length = 0 /\ c.key_read_done = FALSE
    <2>1. InMap(w, l, c)
      BY KeepsIn
    <2>2. /\ c.data = <<>> /\ c.batch_complete = FALSE
          /\ c.fields = SubSeq(call.content, 1, F)
          /\ c.text = SubSeq(item.bytes, 1, l.done)
          /\ c.key_length = l.done
          /\ c.key_read_done = FALSE
      BY <1>2, <2>1, InMapForms
    <2>3. SubSeq(call.content, 1, F) = call.content /\ SubSeq(item.bytes, 1, 0) = <<>>
      BY <1>1, <1>2, WholeAndNone, StringParts
    <2> QED
      BY <1>3, <2>2, <2>3
  <1>5. p = EncodeFields(c, over)
    <2> DEFINE ends == c.key_length = 0 /\ IndicatesEnd(b)
               more == c.key_length = 0 /\ b = <<>>
               yes == EncodeFields(c, TRUE)
               no == EncodeFields(c, FALSE)
               longer == [c EXCEPT !.text = @ \o b]
               rest == Silent([longer EXCEPT !.key_length = @ + Len(b),
                                             !.key_read_done = Len(b) < BlockSize])
    <2>1. /\ ~c.key_read_done
          /\ p = CASE ends -> yes
                   [] more -> no
                   [] c.key_read_done /\ Len(b) < BlockSize -> Silent(AddField(longer))
                   [] c.key_read_done /\ Len(b) = BlockSize -> Silent(longer)
                   [] OTHER -> rest
      BY <1>4 DEF ParseField
    <2>2. CASE over
      <3>1. b = Ones /\ b # <<>> /\ over = TRUE
        BY <1>3, <2>2, DelimiterIs
      <3>2. ends /\ ~more
        BY <1>4, <3>1 DEF IndicatesEnd
      <3> HIDE DEF ends, more, yes, no, rest, longer, p
      <3>3. p = yes
        BY <2>1, <3>2
      <3> QED
        BY <3>1, <3>3 DEF yes
    <2>3. CASE ~over
      <3>1. b = <<>> /\ b # Ones /\ over = FALSE
        BY <1>3, <2>3, DelimiterIs
      <3>2. more /\ ~ends
        BY <1>4, <3>1 DEF IndicatesEnd
      <3> HIDE DEF ends, more, yes, no, rest, longer, p
      <3>3. p = no
        BY <2>1, <3>2
      <3> QED
        BY <3>1, <3>3 DEF no
    <2> QED
      BY <2>2, <2>3
  <1>6. over \in BOOLEAN
    OBVIOUS
  <1> HIDE DEF over, p
  <1>7. /\ State(p.state, <<>>, c.text, c.key_length, c.key_read_done, c.data, c.batch_complete)
        /\ p.state.end_stream <=> c.end_stream \/ over
        /\ p.call = <<Call(c.section, c.fields, c.section = "trailers" \/ over)>>
    <2>1. /\ State(EncodeFields(c, over).state, <<>>, c.text, c.key_length, c.key_read_done,
                   c.data, c.batch_complete)
          /\ EncodeFields(c, over).state.end_stream <=> c.end_stream \/ over
          /\ EncodeFields(c, over).call =
                <<Call(c.section, c.fields, c.section = "trailers" \/ over)>>
      BY <1>6, EncodeOutcome
    <2> QED
      BY <1>5, <2>1
  <1>8. p.state \in ReaderStates
    <2> DEFINE ends == c.end_stream \/ over
    <2>1. EncodeFields(c, over).state = [c EXCEPT !.fields = <<>>, !.end_stream = ends]
      BY DEF EncodeFields, ReaderStates
    <2>2. ends \in BOOLEAN /\ <<>> \in Seq(Fields)
      OBVIOUS
    <2> HIDE DEF ends
    <2> QED
      BY <1>5, <2>1, <2>2 DEF ReaderStates
  <1>9. Clean(p.state)
    BY <1>4, <1>7, <1>8 DEF State, Clean, NoField, ReaderStates
  <1>10. Call(c.section, c.fields, c.section = "trailers" \/ over) = call
    <2> DEFINE end == c.section = "trailers" \/ over
    <2>1. call = Call(call.section, call.content, call.end) /\ call.end \in BOOLEAN
      BY <1>2, CallParts
    <2>2. call.end = end
      BY <1>2, <2>1
    <2> HIDE DEF end
    <2> QED
      BY <1>4, <2>1, <2>2 DEF end
  <1>11. Keeps(w, next, p.state)
    BY <1>3, <1>9, MarkIs DEF Keeps
  <1> QED
    BY <1>1, <1>3, <1>7, <1>10, <1>11, MarkIs DEF Follows, p, over

\* A key: it has a first block, and that is no delimiter.
LEMMA ParseKeyAt ==
    ASSUME NEW w, NEW d, Script(w, d), NEW l, Due(w, l), w[l.n + 1].section # "data",
           NEW c \in ReaderStates, Keeps(w, l, c), block_with_ones = Ones,
           NEW f \in Nat, f < Len(w[l.n + 1].content), l.i = 2 * f + 1
    PROVE  Follows(w, l, c, ParseField(c, BlockAt(w, l)))
  <1> DEFINE call == w[l.n + 1]
             b == BlockAt(w, l)
             p == ParseField(c, b)
             next == Succ(w, l)
             item == Frame(w, l.n)[l.i]
             field == call.content[f + 1]
             key == field.key
             longer == [c EXCEPT !.text = @ \o b]
             more == [longer EXCEPT !.key_length = @ + Len(b), !.key_read_done = Len(b) < BlockSize]
  <1>1. /\ l.n \in Nat /\ l.done \in Nat /\ l.n < Len(w)
        /\ b \in Strings
        /\ BlockSize \in Nat \ {0}
    BY DueShape, EntryAssumption
  <1>2. /\ call.content \in Seq(Fields)
        /\ Len(call.content) \in Nat
        /\ item = Text(key)
        /\ Named(call.content)
    <2>1. /\ call.content \in Seq(Fields)
          /\ Len(call.content) \in Nat
          /\ Frame(w, l.n)[2 * f + 1] = Text(key)
      BY <1>1, MapFrame
    <2>2. Named(call.content)
      BY <1>1, ScriptCall
    <2> QED
      BY <2>1, <2>2
  <1>3. /\ field \in Fields
        /\ key \in Strings
        /\ key # <<>>
        /\ \A j \in 1..Len(key) : key[j] # One
    <2>1. f + 1 \in 1..Len(call.content)
      BY <1>2
    <2>2. field \in Fields /\ key # <<>> /\ \A j \in 1..Len(key) : key[j] # One
      BY <1>2, <2>1, ElementOfSeq DEF Named
    <2> QED
      BY <2>2 DEF Fields
  <1>4. Len(key) \in Nat \ {0}
    BY <1>3, EmptySeq DEF Strings
  <1>5. item.bytes = key /\ ~item.delimiter
    BY <1>2, TextAndStop
  <1>6. /\ l.done <= Len(key)
        /\ Len(key) - l.done >= BlockSize =>
              /\ b = SubSeq(key, l.done + 1, l.done + BlockSize)
              /\ Len(b) = BlockSize
              /\ next = Mark(l.n, l.i, l.done + BlockSize)
        /\ Len(key) - l.done < BlockSize =>
              /\ b = SubSeq(key, l.done + 1, Len(key))
              /\ Len(b) = Len(key) - l.done
              /\ next = Mark(l.n, l.i + 1, 0)
    <2> DEFINE string == item.bytes
    <2>1. /\ l.done <= Len(string)
          /\ Len(string) - l.done >= BlockSize =>
                /\ b = SubSeq(string, l.done + 1, l.done + BlockSize)
                /\ Len(b) = BlockSize
                /\ next = Mark(l.n, l.i, l.done + BlockSize)
          /\ Len(string) - l.done < BlockSize =>
                /\ b = SubSeq(string, l.done + 1, Len(string))
                /\ Len(b) = Len(string) - l.done
                /\ next = Mark(l.n, l.i + 1, 0)
      BY <1>5, DueShape
    <2>2. string = key
      BY <1>5
    <2> HIDE DEF string, b, next
    <2> QED
      BY <2>1, <2>2
  <1>7. /\ c.data = <<>> /\ c.batch_complete = FALSE
        /\ c.fields = SubSeq(call.content, 1, f)
        /\ c.text = SubSeq(key, 1, l.done)
        /\ c.key_length = l.done
        /\ c.key_read_done = FALSE
    <2>1. InMap(w, l, c)
      BY KeepsIn
    <2>2. /\ c.data = <<>> /\ c.batch_complete = FALSE
          /\ c.fields = SubSeq(call.content, 1, f)
          /\ c.text = SubSeq(item.bytes, 1, l.done)
          /\ c.key_length = l.done
          /\ c.key_read_done = FALSE
      BY <2>1, InMapForms
    <2> QED
      BY <1>5, <2>2
  <1> HIDE DEF key, b, next, field, call, item
  <1>8. \A a, e \in Nat : a <= e /\ e <= Len(key) =>
           /\ \A i \in 1..(e - a) : SubSeq(key, a + 1, e)[i] = key[a + i]
           /\ SubSeq(key, 1, a) \o SubSeq(key, a + 1, e) = SubSeq(key, 1, e)
    BY <1>3, StringParts
  <1>9. c.key_length = 0 => b # Ones /\ b # <<>>
    <2> SUFFICES ASSUME l.done = 0 PROVE b # Ones /\ b # <<>>
      BY <1>7
    <2> DEFINE e == IF Len(key) >= BlockSize THEN BlockSize ELSE Len(key)
    <2>1. e \in Nat /\ 1 <= e /\ e <= Len(key) /\ b = SubSeq(key, 0 + 1, e) /\ Len(b) = e
      BY <1>1, <1>4, <1>6
    <2>2. b[1] = key[1]
      <3>1. SubSeq(key, 0 + 1, e)[1] = key[0 + 1]
        <4> HIDE DEF e
        <4>1. \A i \in 1..(e - 0) : SubSeq(key, 0 + 1, e)[i] = key[0 + i]
          BY <1>8, <2>1
        <4> QED
          BY <2>1, <4>1
      <3> QED
        BY <2>1, <3>1
    <2>3. b[1] # One
      BY <1>3, <1>4, <2>2
    <2>4. Ones[1] = One
      BY <1>1 DEF Ones
    <2>5. b # <<>>
      BY <2>1
    <2> QED
      BY <2>3, <2>4, <2>5
  <1>10. p = Silent(more)
    <2> DEFINE yes == EncodeFields(c, TRUE)
               no == EncodeFields(c, FALSE)
               rest == Silent(more)
               ends == c.key_length = 0 /\ IndicatesEnd(b)
               none == c.key_length = 0 /\ b = <<>>
    <2>1. p = CASE ends -> yes
                [] none -> no
                [] c.key_read_done /\ Len(b) < BlockSize -> Silent(AddField(longer))
                [] c.key_read_done /\ Len(b) = BlockSize -> Silent(longer)
                [] OTHER -> rest
      BY DEF ParseField
    <2>2. ~ends /\ ~none /\ ~c.key_read_done
      BY <1>7, <1>9 DEF IndicatesEnd
    <2> HIDE DEF ends, none, yes, no, rest, longer, more, p
    <2>3. p = rest
      BY <2>1, <2>2
    <2> QED
      BY <2>3 DEF rest
  <1>11. /\ State(more, c.fields, c.text \o b, c.key_length + Len(b), Len(b) < BlockSize,
                  c.data, c.batch_complete)
         /\ more.end_stream = c.end_stream
         /\ more \in ReaderStates
    <2>1. more \in ReaderStates
      <3>1. c.key_length <= Len(c.text)
        <4>1. Len(SubSeq(key, 1, l.done)) = l.done
          <5>1. \A a, e \in Nat : a <= e /\ e <= Len(key) => Len(SubSeq(key, 1, a)) = a
            BY <1>3, StringParts
          <5>2. Len(key) \in Nat /\ Len(key) <= Len(key)
            BY <1>4
          <5> QED
            BY <1>1, <1>6, <5>1, <5>2
        <4> QED
          BY <1>1, <1>7, <4>1
      <3> QED
        BY <1>1, <3>1, LongerType DEF Parsed
    <2> QED
      BY <1>1, <2>1, LongerOutcome
  <1> HIDE DEF more, longer, p
  <1>12. p.state = more /\ p.call = <<>>
    BY <1>10 DEF Silent
  <1>13. more.data = <<>> /\ more.batch_complete = FALSE /\ more.fields = SubSeq(call.content, 1, f)
    BY <1>7, <1>11 DEF State, ReaderStates
  <1>14. CASE Len(key) - l.done >= BlockSize
    <2>1. next.n = l.n /\ next.i = 2 * f + 1 /\ next.done = l.done + BlockSize /\ next.done # 0
      BY <1>1, <1>6, <1>14, MarkIs
    <2>2. c.text \o b = SubSeq(key, 1, l.done + BlockSize)
      <3>1. l.done + BlockSize \in Nat /\ l.done <= l.done + BlockSize
            /\ l.done + BlockSize <= Len(key)
        BY <1>1, <1>4, <1>14
      <3> QED
        BY <1>1, <1>6, <1>7, <1>8, <1>14, <3>1
    <2>3. ~(Len(b) < BlockSize) /\ c.key_length + Len(b) = l.done + BlockSize
      BY <1>1, <1>6, <1>7, <1>14
    <2>4. /\ more.text = SubSeq(key, 1, next.done)
          /\ more.key_length = next.done
          /\ more.key_read_done = FALSE
      BY <1>11, <2>1, <2>2, <2>3 DEF State, ReaderStates
    <2>5. Frame(w, next.n)[next.i].bytes = key /\ w[next.n + 1].content = call.content
      BY <1>5, <2>1 DEF item, call
    <2>6. InMap(w, next, more)
      BY <1>13, <2>1, <2>4, <2>5, InMapForms
    <2>7. Keeps(w, next, more)
      BY <1>1, <2>1, <2>6 DEF Keeps
    <2> QED
      BY <1>11, <1>12, <2>1, <2>7 DEF Follows, next, p, b
  <1>15. CASE Len(key) - l.done < BlockSize
    <2>1. next.n = l.n /\ next.i = 2 * f + 2 /\ next.done = 0
      <3>1. next = Mark(l.n, l.i + 1, 0)
        BY <1>6, <1>15
      <3>2. next.n = l.n /\ next.i = l.i + 1 /\ next.done = 0
        BY <3>1, MarkIs
      <3> QED
        BY <3>2
    <2>2. c.text \o b = key
      <3>1. Len(key) \in Nat /\ Len(key) <= Len(key)
        BY <1>4
      <3>2. SubSeq(key, 1, Len(key)) = key
        BY <1>3, StringParts
      <3> QED
        BY <1>1, <1>6, <1>7, <1>8, <1>15, <3>1, <3>2
    <2>3. Len(b) < BlockSize /\ c.key_length + Len(b) = Len(key)
      BY <1>1, <1>4, <1>6, <1>7, <1>15
    <2>4. /\ more.text = key
          /\ more.key_length = Len(key)
          /\ more.key_read_done = TRUE
      BY <1>11, <2>2, <2>3 DEF State, ReaderStates
    <2>5. key \o SubSeq(field.value, 1, next.done) = key
      <3>1. SubSeq(field.value, 1, 0) = <<>>
        BY SubSeqEmpty
      <3> QED
        BY <1>3, <2>1, <3>1, StringParts
    <2>6. w[next.n + 1].content = call.content
      BY <2>1 DEF call
    <2>7. InMap(w, next, more)
      <3> DEFINE g == w[next.n + 1].content[f + 1]
      <3>1. g = field
        BY <2>6 DEF field
      <3>2. next.i = 2 * f + 2 =>
              (InMap(w, next, more) <=>
                  /\ more.data = <<>> /\ more.batch_complete = FALSE
                  /\ more.fields = SubSeq(w[next.n + 1].content, 1, f)
                  /\ more.text = g.key \o SubSeq(g.value, 1, next.done)
                  /\ more.key_length = Len(g.key)
                  /\ more.key_read_done = TRUE)
        BY InMapForms
      <3>3. g.key = key
        BY <3>1 DEF key
      <3> HIDE DEF g
      <3> QED
        BY <1>13, <2>1, <2>4, <2>5, <2>6, <3>1, <3>2, <3>3
    <2>8. next.i # 1 /\ next.n < Len(w)
      BY <1>1, <2>1
    <2>9. Keeps(w, next, more)
      BY <2>1, <2>7, <2>8 DEF Keeps
    <2> QED
      BY <1>11, <1>12, <2>1, <2>9 DEF Follows, next, p, b
  <1> QED
    BY <1>1, <1>4, <1>14, <1>15 DEF p, b

\* A value, behind its key.
LEMMA ParseValueAt ==
    ASSUME NEW w, NEW d, Script(w, d), NEW l, Due(w, l), w[l.n + 1].section # "data",
           NEW c \in ReaderStates, Keeps(w, l, c), block_with_ones = Ones,
           NEW f \in Nat, f < Len(w[l.n + 1].content), l.i = 2 * f + 2
    PROVE  Follows(w, l, c, ParseField(c, BlockAt(w, l)))
  <1> DEFINE call == w[l.n + 1]
             b == BlockAt(w, l)
             p == ParseField(c, b)
             next == Succ(w, l)
             item == Frame(w, l.n)[l.i]
             field == call.content[f + 1]
             key == field.key
             value == field.value
             longer == [c EXCEPT !.text = @ \o b]
             added == AddField(longer)
  <1>1. /\ l.n \in Nat /\ l.done \in Nat /\ l.n < Len(w)
        /\ b \in Strings
        /\ BlockSize \in Nat \ {0}
    BY DueShape, EntryAssumption
  <1>2. /\ call.content \in Seq(Fields)
        /\ Len(call.content) \in Nat
        /\ item = Text(value)
        /\ Named(call.content)
    <2>1. /\ call.content \in Seq(Fields)
          /\ Len(call.content) \in Nat
          /\ Frame(w, l.n)[2 * f + 2] = Text(value)
      BY <1>1, MapFrame
    <2>2. Named(call.content)
      BY <1>1, ScriptCall
    <2> QED
      BY <2>1, <2>2
  <1>3. field \in Fields /\ key \in Strings /\ value \in Strings /\ key # <<>>
    <2>1. f + 1 \in 1..Len(call.content)
      BY <1>2
    <2>2. field \in Fields /\ key # <<>>
      BY <1>2, <2>1, ElementOfSeq DEF Named
    <2> QED
      BY <2>2 DEF Fields
  <1>4. Len(key) \in Nat \ {0} /\ Len(value) \in Nat
    BY <1>3, EmptySeq, LenProperties DEF Strings
  <1>5. item.bytes = value /\ ~item.delimiter
    BY <1>2, TextAndStop
  <1>6. /\ l.done <= Len(value)
        /\ Len(value) - l.done >= BlockSize =>
              /\ b = SubSeq(value, l.done + 1, l.done + BlockSize)
              /\ Len(b) = BlockSize
              /\ next = Mark(l.n, l.i, l.done + BlockSize)
        /\ Len(value) - l.done < BlockSize =>
              /\ b = SubSeq(value, l.done + 1, Len(value))
              /\ Len(b) = Len(value) - l.done
              /\ next = Mark(l.n, l.i + 1, 0)
    <2> DEFINE string == item.bytes
    <2>1. /\ l.done <= Len(string)
          /\ Len(string) - l.done >= BlockSize =>
                /\ b = SubSeq(string, l.done + 1, l.done + BlockSize)
                /\ Len(b) = BlockSize
                /\ next = Mark(l.n, l.i, l.done + BlockSize)
          /\ Len(string) - l.done < BlockSize =>
                /\ b = SubSeq(string, l.done + 1, Len(string))
                /\ Len(b) = Len(string) - l.done
                /\ next = Mark(l.n, l.i + 1, 0)
      BY <1>5, DueShape
    <2>2. string = value
      BY <1>5
    <2> HIDE DEF string, b, next
    <2> QED
      BY <2>1, <2>2
  <1>7. /\ c.data = <<>> /\ c.batch_complete = FALSE
        /\ c.fields = SubSeq(call.content, 1, f)
        /\ c.text = key \o SubSeq(value, 1, l.done)
        /\ c.key_length = Len(key)
        /\ c.key_read_done = TRUE
    <2>1. InMap(w, l, c)
      BY KeepsIn
    <2> QED
      BY <2>1, InMapForms
  <1> HIDE DEF key, value, b, next, field, call, item
  \* The key and as much of the value as the block reaches.
  <1>8. \A e \in Nat : l.done <= e /\ e <= Len(value) =>
           c.text \o SubSeq(value, l.done + 1, e) = key \o SubSeq(value, 1, e)
    <2> SUFFICES ASSUME NEW e \in Nat, l.done <= e, e <= Len(value)
                 PROVE  c.text \o SubSeq(value, l.done + 1, e) = key \o SubSeq(value, 1, e)
      OBVIOUS
    <2> DEFINE front == SubSeq(value, 1, l.done)
               rest == SubSeq(value, l.done + 1, e)
    <2>1. front \in Seq(Bytes) /\ rest \in Seq(Bytes) /\ front \o rest = SubSeq(value, 1, e)
      <3>1. value \in Seq(Bytes)
        BY <1>3 DEF Strings
      <3>2. \A a, u \in Nat : a <= u /\ u <= Len(value) =>
               /\ SubSeq(value, 1, a) \in Seq(Bytes)
               /\ SubSeq(value, a + 1, u) \in Seq(Bytes)
               /\ SubSeq(value, 1, a) \o SubSeq(value, a + 1, u) = SubSeq(value, 1, u)
        BY <3>1, Parts
      <3> QED
        BY <1>1, <3>2
    <2>2. key \in Seq(Bytes)
      BY <1>3 DEF Strings
    <2>3. \A s, t, u \in Seq(Bytes) : (s \o t) \o u = s \o (t \o u)
      BY ConcatAssociative
    <2>4. c.text = key \o front
      BY <1>7
    <2>5. c.text \o rest = key \o (front \o rest)
      <3> HIDE DEF front, rest
      <3>1. (key \o front) \o rest = key \o (front \o rest)
        BY <2>1, <2>2, <2>3
      <3> QED
        BY <2>4, <3>1, Zenon
    <2> QED
      BY <2>1, <2>5
  <1>9. p = IF Len(b) < BlockSize THEN Silent(added) ELSE Silent(longer)
    <2> DEFINE yes == EncodeFields(c, TRUE)
               no == EncodeFields(c, FALSE)
               more == [longer EXCEPT !.key_length = @ + Len(b), !.key_read_done = Len(b) < BlockSize]
               rest == Silent(more)
               ends == c.key_length = 0 /\ IndicatesEnd(b)
               none == c.key_length = 0 /\ b = <<>>
               short == Silent(added)
               full == Silent(longer)
    <2>1. p = CASE ends -> yes
                [] none -> no
                [] c.key_read_done /\ Len(b) < BlockSize -> short
                [] c.key_read_done /\ Len(b) = BlockSize -> full
                [] OTHER -> rest
      BY DEF ParseField
    <2>2. ~ends /\ ~none /\ c.key_read_done
      BY <1>4, <1>7
    <2>3. Len(b) \in Nat /\ Len(b) <= BlockSize
      BY <1>1, <1>4, <1>6
    <2> HIDE DEF ends, none, yes, no, rest, short, full, longer, added, more, p
    <2>4. p = IF Len(b) < BlockSize THEN short ELSE full
      <3>1. CASE Len(b) < BlockSize
        BY <1>1, <2>1, <2>2, <2>3, <3>1
      <3>2. CASE Len(b) = BlockSize
        BY <1>1, <2>1, <2>2, <2>3, <3>2
      <3> QED
        BY <1>1, <2>3, <3>1, <3>2
    <2> QED
      BY <2>4 DEF short, full
  <1>10. CASE Len(value) - l.done >= BlockSize
    <2>1. next.n = l.n /\ next.i = 2 * f + 2 /\ next.done = l.done + BlockSize
      BY <1>1, <1>6, <1>10, MarkIs
    <2>2. c.text \o b = key \o SubSeq(value, 1, next.done)
      <3>1. l.done + BlockSize \in Nat /\ l.done <= l.done + BlockSize
            /\ l.done + BlockSize <= Len(value)
        BY <1>1, <1>4, <1>10
      <3> QED
        BY <1>6, <1>8, <1>10, <2>1, <3>1
    <2>3. /\ State(longer, c.fields, c.text \o b, c.key_length, c.key_read_done,
                   c.data, c.batch_complete)
          /\ longer.end_stream = c.end_stream
          /\ longer \in ReaderStates
      <3>1. c.text \o b \in Strings
        BY <1>1, ConcatProperties DEF Strings, ReaderStates
      <3>2. longer \in ReaderStates
        BY <3>1 DEF ReaderStates
      <3> QED
        BY <1>1, <3>2, LongerOutcome
    <2>4. ~(Len(b) < BlockSize)
      BY <1>1, <1>6, <1>10
    <2> HIDE DEF added, longer, p
    <2>5. p.state = longer /\ p.call = <<>>
      BY <1>9, <2>4 DEF Silent
    <2>6. /\ longer.data = <<>> /\ longer.batch_complete = FALSE
          /\ longer.fields = SubSeq(call.content, 1, f)
          /\ longer.text = key \o SubSeq(value, 1, next.done)
          /\ longer.key_length = Len(key)
          /\ longer.key_read_done = TRUE
      BY <1>7, <2>2, <2>3 DEF State, ReaderStates
    <2>7. InMap(w, next, longer)
      <3> DEFINE g == w[next.n + 1].content[f + 1]
      <3>1. g.key = key /\ g.value = value /\ w[next.n + 1].content = call.content
        BY <2>1 DEF key, value, field, call
      <3>2. next.i = 2 * f + 2 =>
              (InMap(w, next, longer) <=>
                  /\ longer.data = <<>> /\ longer.batch_complete = FALSE
                  /\ longer.fields = SubSeq(w[next.n + 1].content, 1, f)
                  /\ longer.text = g.key \o SubSeq(g.value, 1, next.done)
                  /\ longer.key_length = Len(g.key)
                  /\ longer.key_read_done = TRUE)
        BY InMapForms
      <3> HIDE DEF g
      <3> QED
        BY <2>1, <2>6, <3>1, <3>2
    <2>8. next.i # 1 /\ next.n < Len(w)
      BY <1>1, <2>1
    <2>9. Keeps(w, next, longer)
      BY <2>1, <2>7, <2>8 DEF Keeps
    <2> QED
      BY <2>1, <2>3, <2>5, <2>9 DEF Follows, next, p, b
  <1>11. CASE Len(value) - l.done < BlockSize
    <2>1. next.n = l.n /\ next.i = 2 * (f + 1) + 1 /\ next.done = 0 /\ f + 1 \in Nat
      <3>1. next = Mark(l.n, l.i + 1, 0)
        BY <1>6, <1>11
      <3>2. next.n = l.n /\ next.i = l.i + 1 /\ next.done = 0
        BY <3>1, MarkIs
      <3> QED
        BY <3>2
    <2>2. c.text \o b = key \o value
      <3>1. SubSeq(value, 1, Len(value)) = value
        BY <1>3, StringParts
      <3>2. Len(value) \in Nat /\ l.done <= Len(value) /\ Len(value) <= Len(value)
        BY <1>1, <1>4, <1>6
      <3> QED
        BY <1>6, <1>8, <1>11, <3>1, <3>2
    <2>3. /\ State(added, Append(c.fields, field), <<>>, 0, FALSE, c.data, c.batch_complete)
          /\ added.end_stream = c.end_stream
      <3>1. c.key_length = Len(field.key) /\ c.text \o b = field.key \o field.value
        BY <1>7, <2>2 DEF key, value
      <3> QED
        BY <1>1, <1>3, <3>1, AddOutcome
    <2>4. added \in ReaderStates
      <3>1. c.key_length <= Len(c.text)
        <4>1. /\ key \in Seq(Bytes) /\ SubSeq(value, 1, l.done) \in Seq(Bytes)
          <5>1. Len(value) \in Nat /\ Len(value) <= Len(value)
            BY <1>4
          <5> QED
            BY <1>1, <1>3, <1>6, <5>1, Parts DEF Strings
        <4>2. Len(c.text) = Len(key) + Len(SubSeq(value, 1, l.done))
              /\ Len(SubSeq(value, 1, l.done)) \in Nat
          BY <1>7, <4>1, ConcatTwo
        <4>3. Len(key) \in Nat /\ c.key_length = Len(key)
          BY <1>4, <1>7
        <4> DEFINE x == Len(c.text)
                   y == Len(SubSeq(value, 1, l.done))
                   z == Len(key)
        <4>4. x = z + y /\ y \in Nat /\ z \in Nat /\ c.key_length = z
          BY <4>2, <4>3
        <4> HIDE DEF x, y, z
        <4>5. c.key_length <= x
          BY <4>4
        <4> QED
          BY <4>5 DEF x
      <3>2. longer \in ReaderStates /\ longer.key_length <= Len(longer.text)
        BY <1>1, <3>1, LongerType DEF Parsed
      <3> HIDE DEF longer
      <3> QED
        BY <3>2, AddFieldType DEF Parsed
    <2>5. Len(b) < BlockSize
      BY <1>6, <1>11
    <2> HIDE DEF added, longer, p
    <2>6. p.state = added /\ p.call = <<>>
      BY <1>9, <2>5 DEF Silent
    <2>7. Append(c.fields, field) = SubSeq(call.content, 1, f + 1)
      BY <1>2, <1>7, OneMore DEF field
    <2>8. /\ added.data = <<>> /\ added.batch_complete = FALSE
          /\ added.fields = SubSeq(call.content, 1, f + 1)
          /\ added.text = <<>>
          /\ added.key_length = 0
          /\ added.key_read_done = FALSE
      BY <1>7, <2>3, <2>4, <2>7 DEF State, ReaderStates
    <2>9. SubSeq(Frame(w, next.n)[next.i].bytes, 1, next.done) = <<>>
      BY <2>1, SubSeqEmpty
    <2>10. w[next.n + 1].content = call.content
      BY <2>1 DEF call
    <2>11. InMap(w, next, added)
      <3> DEFINE g == f + 1
      <3>1. g \in Nat /\ next.i = 2 * g + 1
        BY <2>1
      <3>2. /\ added.data = <<>> /\ added.batch_complete = FALSE
            /\ added.fields = SubSeq(w[next.n + 1].content, 1, g)
            /\ added.text = SubSeq(Frame(w, next.n)[next.i].bytes, 1, next.done)
            /\ added.key_length = next.done
            /\ added.key_read_done = FALSE
        BY <2>1, <2>8, <2>9, <2>10
      <3> HIDE DEF g
      <3> QED
        BY <3>1, <3>2, InMapForms
    <2>12. next.i # 1 /\ next.n < Len(w)
      BY <1>1, <2>1
    <2>13. Keeps(w, next, added)
      BY <2>1, <2>11, <2>12 DEF Keeps
    <2> QED
      BY <2>1, <2>3, <2>6, <2>13 DEF Follows, next, p, b
  <1> QED
    BY <1>1, <1>4, <1>10, <1>11 DEF p, b

\* A parser in step with the marks stays so, and makes the call of each
\* delimiter.
LEMMA ParseAt ==
    ASSUME NEW w, NEW d, Script(w, d), NEW l, Due(w, l), NEW c \in ReaderStates,
           c.section = w[l.n + 1].section, Keeps(w, l, c), block_with_ones = Ones
    PROVE  Follows(w, l, c, Parse(c, BlockAt(w, l)))
  <1>1. l.n \in Nat /\ l.n < Len(w) /\ l.i \in 1..Len(Frame(w, l.n))
    BY DueShape
  <1>2. CASE c.section = "data"
    BY <1>2, ParseDataAt DEF Parse
  <1>3. CASE c.section # "data"
    <2> DEFINE F == Len(w[l.n + 1].content)
    <2>1. F \in Nat /\ Len(Frame(w, l.n)) = 2 * F + 1
      BY <1>1, <1>3, FrameShape
    <2>2. Parse(c, BlockAt(w, l)) = ParseField(c, BlockAt(w, l))
      BY <1>3 DEF Parse
    <2>3. \E f \in Nat : l.i = 2 * f + 1 \/ l.i = 2 * f + 2
      <3>0. l.i \in Nat \ {0}
        BY DueShape
      <3>1. (l.i - 1) \div 2 \in Nat
            /\ (l.i = 2 * ((l.i - 1) \div 2) + 1 \/ l.i = 2 * ((l.i - 1) \div 2) + 2)
        BY <3>0
      <3> QED
        BY <3>1
    <2>4. PICK f \in Nat : l.i = 2 * f + 1 \/ l.i = 2 * f + 2
      BY <2>3
    <2> HIDE DEF F
    <2>5. l.i = 2 * F + 1 \/ f < F
      BY <1>1, <2>1, <2>4
    <2> QED
      BY <1>3, <2>2, <2>4, <2>5, ParseStopAt, ParseKeyAt, ParseValueAt DEF F
  <1> QED
    BY <1>2, <1>3

----------------------------------------------------------------------------
(* The producer at a mark                                                   *)

LEMMA Rest ==
    ASSUME NEW S, NEW s \in Seq(S), NEW i \in 1..Len(s)
    PROVE  /\ SubSeq(s, i, Len(s)) # <<>>
           /\ Head(SubSeq(s, i, Len(s))) = s[i]
           /\ Tail(SubSeq(s, i, Len(s))) = SubSeq(s, i + 1, Len(s))
           /\ i = Len(s) => SubSeq(s, i + 1, Len(s)) = <<>>
           /\ i # Len(s) => i + 1 \in 1..Len(s) /\ SubSeq(s, i + 1, Len(s)) # <<>>
  <1>1. Len(s) \in Nat /\ \A j \in 1..Len(s) : s[j] \in S
    BY LenProperties, ElementOfSeq
  <1>2. ASSUME NEW j \in 1..Len(s) PROVE SubSeq(s, j, Len(s)) # <<>>
    <2>1. Len(SubSeq(s, j, Len(s))) = Len(s) - j + 1
      <3>1. j \in Int /\ Len(s) \in Int /\ j <= Len(s) /\ \A k \in j..Len(s) : s[k] \in S
        BY <1>1
      <3> QED
        BY <3>1, SubSeqProperties
    <2>2. Len(s) - j + 1 # 0
      BY <1>1
    <2> QED
      BY <2>1, <2>2, EmptySeq
  <1>3. /\ Head(SubSeq(s, i, Len(s))) = s[i]
        /\ Tail(SubSeq(s, i, Len(s))) = SubSeq(s, i + 1, Len(s))
    <2>1. Len(s) \in i..Len(s)
      BY <1>1
    <2> QED
      BY <2>1, HeadTailOfSubSeq
  <1>4. i = Len(s) => SubSeq(s, i + 1, Len(s)) = <<>>
    BY <1>1, SubSeqEmpty
  <1>5. i # Len(s) => i + 1 \in 1..Len(s)
    BY <1>1
  <1> QED
    BY <1>2, <1>3, <1>4, <1>5

\* The producer writes the block that is due at its mark, and gets to the next
\* mark.
LEMMA WriteAt ==
    ASSUME TypeInv, NEW w, NEW d, Script(w, d), NEW l, Due(w, l), WriteBlock,
           todo = SubSeq(Frame(w, l.n), l.i, Len(Frame(w, l.n))), l.done = Done,
           first_write = FALSE => ~Head(todo).delimiter
    PROVE  LET next == Succ(w, l)
               frame == Frame(w, l.n)
           IN /\ NextBlock.block = BlockAt(w, l)
              /\ todo' = <<>> => /\ next = Mark(l.n + 1, 1, 0)
                                 /\ first_write' = TRUE /\ data_offset' = 0
              /\ todo' # <<>> => /\ Due(w, next) /\ next.n = l.n
                                 /\ todo' = SubSeq(frame, next.i, Len(frame))
                                 /\ next.done = Done'
                                 /\ first_write' = FALSE => ~Head(todo').delimiter
  <1> DEFINE next == Succ(w, l)
             frame == Frame(w, l.n)
             item == frame[l.i]
             s == item.bytes
             b == BlockAt(w, l)
             rest == SubSeq(frame, l.i + 1, Len(frame))
  <1>1. /\ l.n \in Nat /\ l.n < Len(w)
        /\ frame \in Seq(Items) /\ l.i \in 1..Len(frame)
        /\ BlockSize \in Nat \ {0}
        /\ data_offset \in Nat /\ first_write \in BOOLEAN
    BY DueShape, FrameShape, EntryAssumption DEF TypeInv, TypeOK
  <1>2. /\ todo # <<>> /\ Head(todo) = item /\ Tail(todo) = rest
        /\ l.i = Len(frame) => rest = <<>>
        /\ l.i # Len(frame) => l.i + 1 \in 1..Len(frame) /\ rest # <<>>
    <2>1. todo = SubSeq(frame, l.i, Len(frame))
      OBVIOUS
    <2> HIDE DEF frame
    <2> QED
      BY <1>1, <2>1, Rest DEF frame
  <1>3. /\ todo' = IF NextBlock.over THEN rest ELSE todo
        /\ first_write' = NextBlock.over
        /\ data_offset' = NextBlock.offset
    BY <1>2 DEF WriteBlock
  <1>0. /\ s \in Strings /\ Len(s) \in Nat
        /\ l.i \in Nat \ {0} /\ l.done \in Nat
        /\ item.delimiter <=> l.i = Len(frame)
    BY DueShape
  <1>4. /\ item.delimiter => b = s /\ next = Mark(l.n + 1, 1, 0)
        /\ ~item.delimiter =>
              /\ l.done <= Len(s)
              /\ Len(s) - l.done >= BlockSize =>
                    /\ b = SubSeq(s, l.done + 1, l.done + BlockSize)
                    /\ next = Mark(l.n, l.i, l.done + BlockSize)
              /\ Len(s) - l.done < BlockSize =>
                    /\ b = SubSeq(s, l.done + 1, Len(s))
                    /\ next = Mark(l.n, l.i + 1, 0)
    <2>1. item.delimiter => b = s /\ next = Mark(l.n + 1, 1, 0)
      BY DueShape
    <2>2. ASSUME ~item.delimiter
          PROVE  /\ l.done <= Len(s)
                 /\ Len(s) - l.done >= BlockSize =>
                       /\ b = SubSeq(s, l.done + 1, l.done + BlockSize)
                       /\ next = Mark(l.n, l.i, l.done + BlockSize)
                 /\ Len(s) - l.done < BlockSize =>
                       /\ b = SubSeq(s, l.done + 1, Len(s))
                       /\ next = Mark(l.n, l.i + 1, 0)
      BY <2>2, DueShape
    <2> HIDE DEF item, s, b, next
    <2> QED
      BY <2>1, <2>2
  <1>5. l.done = IF data_offset # 0 THEN data_offset ELSE IF first_write THEN 0 ELSE Len(s)
    BY <1>2 DEF Done
  <1>6. data_offset # 0 => ~item.delimiter /\ ~first_write /\ data_offset < Len(s)
    BY <1>2 DEF TypeInv, OffsetInString
  <1>7. FullBlock(item) <=> ~item.delimiter /\ Len(s) - l.done >= BlockSize
    BY <1>1, <1>0, <1>4, <1>5 DEF FullBlock
  <1>8. NextBlock = IF FullBlock(item)
                    THEN [block  |-> SubSeq(s, data_offset + 1, data_offset + BlockSize),
                          offset |-> OffsetAfter(item), over |-> FALSE]
                    ELSE [block  |-> IF item.delimiter THEN s ELSE Remainder(item),
                          offset |-> 0, over |-> TRUE]
    BY <1>2 DEF NextBlock
  <1>9. /\ OffsetAfter(item) = IF Len(s) - data_offset > BlockSize
                               THEN data_offset + BlockSize ELSE 0
        /\ Remainder(item) = IF first_write \/ data_offset # 0
                             THEN SubSeq(s, data_offset + 1, Len(s)) ELSE <<>>
    BY DEF OffsetAfter, Remainder
  <1>10. ASSUME NEW i \in 1..Len(frame), NEW e \in Nat, e <= Len(frame[i].bytes) \/ e = 0,
                ~frame[i].delimiter \/ e = 0
         PROVE  Due(w, Mark(l.n, i, e))
    <2> DEFINE m == Mark(l.n, i, e)
    <2>0. i \in Nat \ {0}
      BY <1>1, LenProperties
    <2>1. m.n = l.n /\ m.i = i /\ m.done = e /\ m \in Marks
      <3>1. m.n = l.n /\ m.i = i /\ m.done = e
        BY MarkIs
      <3> HIDE DEF m
      <3>2. m \in Marks
        <4>1. l.n \in Nat /\ i \in Nat \ {0} /\ e \in Nat
          BY <1>1, <2>0
        <4> QED
          BY <4>1, MarkIs DEF m
      <3> QED
        BY <3>1, <3>2
    <2>2. Len(frame[i].bytes) \in Nat
      BY <1>1, ElementOfSeq, LenProperties DEF Items, Strings
    <2>3. i <= Len(Frame(w, l.n))
      BY <1>1, LenProperties
    <2> HIDE DEF m
    <2>4. m.done <= IF Frame(w, m.n)[m.i].delimiter THEN 0 ELSE Len(Frame(w, m.n)[m.i].bytes)
      BY <1>10, <2>1, <2>2
    <2> QED
      BY <1>1, <2>1, <2>3, <2>4 DEF Due, m
  <1>11. CASE item.delimiter
    <2>1. ~FullBlock(item)
      BY <1>7, <1>11
    <2>2. NextBlock = [block |-> s, offset |-> 0, over |-> TRUE]
      BY <1>8, <1>11, <2>1
    <2> HIDE DEF frame, item, s, b, next, rest
    <2>3. NextBlock.block = s /\ NextBlock.offset = 0 /\ NextBlock.over = TRUE
      BY <2>2
    <2>4. todo' = <<>> /\ first_write' = TRUE /\ data_offset' = 0
      BY <1>2, <1>3, <1>0, <1>4, <1>11, <2>3
    <2> QED
      BY <1>0, <1>4, <1>11, <2>3, <2>4 DEF frame, b, next
  <1>12. CASE ~item.delimiter /\ Len(s) - l.done >= BlockSize
    <2>1. FullBlock(item) /\ l.done = data_offset
      BY <1>1, <1>0, <1>4, <1>5, <1>7, <1>12
    <2>2. NextBlock = [block  |-> SubSeq(s, data_offset + 1, data_offset + BlockSize),
                       offset |-> OffsetAfter(item), over |-> FALSE]
      BY <1>8, <2>1
    <2>3. next.n = l.n /\ next.i = l.i /\ next.done = l.done + BlockSize
          /\ next = Mark(l.n, l.i, l.done + BlockSize)
      BY <1>0, <1>4, <1>12, MarkIs
    <2>4. Due(w, next)
      <3> DEFINE m == Len(s)
                 done == l.done
      <3>0. m \in Nat /\ done \in Nat /\ m - done >= BlockSize
        BY <1>0, <1>12
      <3> HIDE DEF m, done
      <3>2. done + BlockSize \in Nat /\ done + BlockSize <= m
        BY <1>1, <3>0
      <3>1. l.done + BlockSize \in Nat /\ l.done + BlockSize <= Len(s)
        BY <3>2 DEF m, done
      <3> QED
        BY <1>1, <1>10, <1>12, <2>3, <3>1
    <2> DEFINE after == OffsetAfter(item)
    <2>5. NextBlock.block = b /\ NextBlock.offset = after /\ NextBlock.over = FALSE
      BY <1>0, <1>4, <1>12, <2>1, <2>2
    <2>6. todo' = todo /\ first_write' = FALSE /\ data_offset' = after
      BY <1>3, <2>5
    <2>7. Head(todo') = item
      BY <1>2, <2>6
    <2>8. Done' = IF after # 0 THEN after ELSE Len(s)
      BY <2>6, <2>7 DEF Done
    <2>9. Done' = l.done + BlockSize
      <3> DEFINE m == Len(s)
      <3>1. /\ m \in Nat /\ m - data_offset >= BlockSize /\ l.done = data_offset
            /\ after = IF m - data_offset > BlockSize THEN data_offset + BlockSize ELSE 0
            /\ Done' = IF after # 0 THEN after ELSE m
        BY <1>0, <1>9, <1>12, <2>1, <2>8
      <3> HIDE DEF m, after
      <3> QED
        BY <1>1, <3>1
    <2>10. todo' = SubSeq(frame, next.i, Len(frame))
      BY <2>3, <2>6
    <2>11. ~Head(todo').delimiter
      BY <1>12, <2>7
    <2> HIDE DEF next, b, after, item, s
    <2> QED
      BY <1>2, <2>3, <2>4, <2>5, <2>6, <2>9, <2>10, <2>11 DEF next, b
  <1>13. CASE ~item.delimiter /\ Len(s) - l.done < BlockSize
    <2>1. ~FullBlock(item)
      <3> DEFINE m == Len(s)
      <3>1. m \in Nat /\ l.done \in Nat /\ m - l.done < BlockSize
        BY <1>0, <1>13
      <3>2. FullBlock(item) => m - l.done >= BlockSize
        BY <1>7
      <3> HIDE DEF m, item
      <3> QED
        BY <1>1, <3>1, <3>2
    <2>2. NextBlock = [block |-> Remainder(item), offset |-> 0, over |-> TRUE]
      BY <1>8, <1>13, <2>1
    <2>3. Remainder(item) = b
      <3>1. CASE first_write \/ data_offset # 0
        <4>1. l.done = data_offset
          BY <1>5, <1>6, <3>1
        <4> QED
          BY <1>0, <1>4, <1>9, <1>13, <3>1, <4>1
      <3>2. CASE ~(first_write \/ data_offset # 0)
        <4>1. l.done = Len(s)
          BY <1>5, <3>2
        <4>2. SubSeq(s, Len(s) + 1, Len(s)) = <<>>
          BY <1>0, <1>4, WholeAndNone DEF Strings
        <4> QED
          BY <1>0, <1>4, <1>9, <1>13, <3>2, <4>1, <4>2
      <3> QED
        BY <3>1, <3>2
    <2>4. next.n = l.n /\ next.i = l.i + 1 /\ next.done = 0 /\ next = Mark(l.n, l.i + 1, 0)
      BY <1>0, <1>4, <1>13, MarkIs
    <2>5. NextBlock.block = b /\ NextBlock.offset = 0 /\ NextBlock.over = TRUE
      BY <2>2, <2>3
    <2>6. todo' = rest /\ first_write' = TRUE /\ data_offset' = 0 /\ rest # <<>>
          /\ l.i + 1 \in 1..Len(frame)
      BY <1>2, <1>3, <1>0, <1>4, <1>13, <2>5
    <2>7. Done' = 0
      BY <2>6 DEF Done
    <2>8. Due(w, next)
      BY <1>10, <2>4, <2>6
    <2>9. todo' = SubSeq(frame, next.i, Len(frame))
      BY <2>4, <2>6
    <2> HIDE DEF next, b, rest, item, s
    <2> QED
      BY <2>4, <2>5, <2>6, <2>7, <2>8, <2>9 DEF next, b
  <1>14. Len(s) - l.done >= BlockSize \/ Len(s) - l.done < BlockSize
    BY <1>0, <1>1
  <1> QED
    BY <1>11, <1>12, <1>13, <1>14, Zenon

================================================================================
