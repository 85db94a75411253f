------------------------- MODULE CacheEntryRefinement --------------------------
(***************************************************************************)
(* Proof that framing, buffers and parser amount to LiveEntry: each stream  *)
(* gets the calls of the origin, content and end_stream alike, in order.    *)
(*                                                                          *)
(* Each position of a section has a mark: the block there is the one due at it *)
(* and leads to the mark of the next position.  The producer stands at the last *)
(* mark of its section, and what the parser of a consumer keeps follows from the *)
(* mark at its position.  The marks are not part of the state: the invariant says *)
(* that there are such.                                                     *)
(***************************************************************************)
EXTENDS CacheEntryFraming

----------------------------------------------------------------------------
(* What is assumed                                                          *)

\* The array of ones is there before a stream is served.
OnesFirst == \A r \in Consumers : reader[r].section \in Sections => block_with_ones = Ones

\* No section is as long as UINT32_MAX blocks.
Bounded == \A s \in {"headers", "data"} : Blocks(s) < MaxCount

----------------------------------------------------------------------------
(* The invariant                                                            *)

Told == Streamed(sent)
Made == IF complete THEN Len(Told) ELSE Len(CallsOf(sent)) - Len(calls)
Batches == Len(sent.data)

\* The calls that are left are the last ones of the origin.
Remaining ==
    LET c == CallsOf(sent) IN
    /\ Len(calls) <= Len(c)
    /\ \A i \in 1..Len(calls) : calls[i] = c[Len(c) - Len(calls) + i]

\* A block that is written is the one due at its mark.
Placed(m, s, i, j) ==
    LET p == (i - 1) * capacity + j - 1
        l == m[s][p]
    IN /\ Due(Told, l)
       /\ l.n < Made
       /\ SectionAt(Batches, l.n) = s
       /\ buffers[s][i][j] = BlockAt(Told, l)
       /\ m[s][p + 1] = Succ(Told, l)

\* What is to do is the rest of a call that the origin has made.
Writing(l) ==
    /\ l.i \in 1..Len(Frame(Told, l.n))
    /\ todo = SubSeq(Frame(Told, l.n), l.i, Len(Frame(Told, l.n)))
    /\ l.n + 1 = Made
    /\ l.done = Done
    /\ first_write = FALSE => ~Head(todo).delimiter

AtWork(m) ==
    LET l == m[section][Blocks(section)] IN
    /\ Made <= Until(Batches, section)
    /\ section # "headers" => Before(Batches, section) < Made
    /\ IF todo = <<>> THEN l = Mark(Made, 1, 0) /\ first_write = TRUE /\ data_offset = 0
                      ELSE Due(Told, l) /\ SectionAt(Batches, l.n) = section /\ Writing(l)

\* The sections before that of the producer are over, those after it empty.
Apart(m) ==
    /\ section # "headers" => m["headers"][Blocks("headers")] = Mark(1, 1, 0)
    /\ section = "trailers" => m["data"][Blocks("data")] = Mark(Batches + 1, 1, 0)
    /\ section = "headers" => Blocks("data") = 0
    /\ section # "trailers" => Blocks("trailers") = 0

Serving(m, c, o) ==
    LET l == m[c.section][Position(c)] IN
    /\ l.n \in 0..Len(Told)
    /\ o = SubSeq(Told, 1, l.n)
    /\ c.end_stream <=> l.n = Len(Told)
    /\ Keeps(Told, l, c)
    /\ c.section = "trailers" \/ Position(c) = 0 => ~c.end_stream

Reading(m, c, o) ==
    CASE c.section \in Sections -> Serving(m, c, o)
      [] c.section = "done" -> Clean(c) /\ o = Told /\ complete = TRUE
      [] OTHER -> Clean(c) /\ o = <<>>

Marked(m) ==
    /\ m \in [Sections -> [Nat -> Marks]]
    /\ \A s \in Sections : m[s][0] = Mark(Before(Batches, s), 1, 0)
    /\ \A s \in Sections : \A i \in DOMAIN buffers[s] : \A j \in DOMAIN buffers[s][i] :
          Placed(m, s, i, j)
    /\ AtWork(m)
    /\ Apart(m)
    /\ \A r \in Consumers : Reading(m, reader[r], out[r])

\* A count is stored for the section in which the response ends.
Ended == complete = TRUE /\ section # "trailers" => count[section] = Blocks(section)

FrameInv ==
    /\ EntryInv /\ Counting /\ Remaining /\ Ended
    /\ out \in [Consumers -> Seq(CallSet)]
    /\ \E m \in [Sections -> [Nat -> Marks]] : Marked(m)

----------------------------------------------------------------------------
(* Blocks and their positions                                               *)

\* A block that is new is behind all others.
LEMMA NewInList ==
    ASSUME NEW n \in Nat \ {0}, NEW list \in Seq(Seq(Strings)), AllFull(list, n),
           list # <<>>, Len(list[Len(list)]) < n, NEW b \in Strings,
           NEW i \in DOMAIN [list EXCEPT ![Len(list)] = Append(@, b)],
           NEW j \in DOMAIN [list EXCEPT ![Len(list)] = Append(@, b)][i]
    PROVE  LET new == [list EXCEPT ![Len(list)] = Append(@, b)] IN
           \/ /\ i \in DOMAIN list /\ j \in DOMAIN list[i] /\ new[i][j] = list[i][j]
              /\ (i - 1) * n + j <= InList(list, n)
           \/ /\ new[i][j] = b
              /\ (i - 1) * n + j = InList(list, n) + 1
  <1> DEFINE m == Len(list)
             longer == Append(list[m], b)
             new == [list EXCEPT ![m] = longer]
  <1>1. /\ m \in Nat /\ m >= 1 /\ m \in 1..m /\ DOMAIN list = 1..m
        /\ list[m] \in Seq(Strings)
        /\ \A k \in 1..m : Len(list[k]) \in Nat /\ DOMAIN list[k] = 1..Len(list[k])
    <2>1. m \in Nat /\ m >= 1 /\ DOMAIN list = 1..m
      BY ListType
    <2>2. m \in 1..m
      BY <2>1
    <2> QED
      BY <2>1, <2>2, ListType
  <1> DEFINE last == list[m]
             q == Len(last)
  <1>2. /\ longer \in Seq(Strings) /\ Len(longer) = q + 1 /\ q \in Nat
        /\ \A k \in 1..q : longer[k] = last[k]
        /\ longer[q + 1] = b
    BY <1>1, AppendProperties
  <1>3. DOMAIN longer = 1..(q + 1)
    BY <1>2, LenProperties
  <1>4. i \in DOMAIN new /\ j \in DOMAIN new[i]
    OBVIOUS
  <1> HIDE DEF longer
  <1>5. /\ new \in Seq(Seq(Strings)) /\ Len(new) = m
        /\ \A k \in 1..m : new[k] = IF k = m THEN longer ELSE list[k]
    BY <1>1, <1>2, ExceptSeq
  <1>6. i \in 1..m
    BY <1>4, <1>5, ListType
  <1>7. CASE i = m /\ j = q + 1
    <2>1. new[i][j] = b
      BY <1>2, <1>5, <1>6, <1>7
    <2>2. InList(list, n) = (m - 1) * n + q
      BY DEF InList
    <2>3. (m - 1) * n \in Nat
      BY <1>1, Times
    <2> DEFINE p == (m - 1) * n
    <2>4. (i - 1) * n = p /\ p \in Nat /\ InList(list, n) = p + q
      BY <1>7, <2>2, <2>3
    <2> HIDE DEF p, q, m, new
    <2>5. p + j = InList(list, n) + 1
      BY <1>2, <1>7, <2>4
    <2>6. (i - 1) * n + j = InList(list, n) + 1
      BY <2>4, <2>5
    <2> QED
      BY <2>1, <2>6 DEF new, longer, m
  <1>8. CASE ~(i = m /\ j = q + 1)
    <2>1. i \in DOMAIN list
      BY <1>1, <1>6
    <2>2. j \in DOMAIN list[i] /\ new[i][j] = list[i][j]
      <3>1. CASE i = m
        <4>1. new[i] = longer /\ j \in 1..(q + 1) /\ j # q + 1
          BY <1>3, <1>4, <1>5, <1>6, <1>8, <3>1
        <4>2. j \in 1..q
          BY <1>2, <4>1
        <4> QED
          BY <1>1, <1>2, <3>1, <4>1, <4>2
      <3>2. CASE i # m
        BY <1>4, <1>5, <1>6, <3>2
      <3> QED
        BY <3>1, <3>2
    <2>3. (i - 1) * n + j <= InList(list, n)
      BY <2>1, <2>2, PlaceInList
    <2> HIDE DEF new, m
    <2> QED
      BY <2>1, <2>2, <2>3 DEF new, longer, m
  <1> QED
    BY <1>7, <1>8

\* What is written stays where it is, and a new block is at the position that
\* was the number of blocks.
LEMMA BlocksKept ==
    ASSUME TypeInv, Filled, EmplaceBuffer \/ WriteBlock, NEW s \in Sections,
           NEW i \in DOMAIN (buffers'[s]), NEW j \in DOMAIN (buffers'[s][i])
    PROVE  \/ /\ i \in DOMAIN buffers[s] /\ j \in DOMAIN buffers[s][i]
              /\ buffers'[s][i][j] = buffers[s][i][j]
              /\ (i - 1) * capacity + j <= Blocks(s)
           \/ /\ WriteBlock /\ s = section
              /\ buffers'[s][i][j] = NextBlock.block
              /\ (i - 1) * capacity + j = Blocks(s) + 1
  <1> DEFINE list == buffers[s]
  <1>1. /\ section \in Sections
        /\ buffers \in [Sections -> Seq(Seq(Strings))]
    BY DEF TypeInv, TypeOK
  <1>2. capacity \in Nat \ {0} /\ list \in Seq(Seq(Strings)) /\ AllFull(list, capacity)
        /\ Blocks(s) = InList(list, capacity)
    BY <1>1, ListsType DEF Filled, Blocks, InList, Last
  <1>3. ASSUME i \in DOMAIN list, j \in DOMAIN list[i]
        PROVE  (i - 1) * capacity + j <= Blocks(s)
    BY <1>2, <1>3, PlaceInList
  <1>4. CASE EmplaceBuffer
    <2>1. buffers' = [buffers EXCEPT ![section] = Append(buffers[section], <<>>)]
      BY <1>4 DEF EmplaceBuffer
    <2>2. CASE s = section
      <3>1. buffers'[s] = Append(list, <<>>)
        BY <1>1, <2>1, <2>2
      <3> DEFINE new == Append(list, <<>>)
      <3>2. /\ new \in Seq(Seq(Strings)) /\ Len(new) = Len(list) + 1 /\ new[Len(list) + 1] = <<>>
            /\ \A k \in 1..Len(list) : new[k] = list[k]
        <4>1. <<>> \in Seq(Strings)
          OBVIOUS
        <4> QED
          BY <1>2, <4>1, AppendProperties
      <3>3. buffers'[s] = new
        BY <3>1
      <3> HIDE DEF new
      <3>4. i \in 1..(Len(list) + 1)
        BY <3>2, <3>3, ListType
      <3>5. i # Len(list) + 1
        <4>1. DOMAIN <<>> = {}
          OBVIOUS
        <4> QED
          BY <3>2, <3>3, <4>1
      <3>6. i \in 1..Len(list) /\ DOMAIN list = 1..Len(list)
        BY <1>2, <3>4, <3>5, ListType
      <3> QED
        BY <1>3, <3>2, <3>3, <3>6
    <2>3. CASE s # section
      <3>1. buffers'[s] = list
        BY <1>1, <2>1, <2>3
      <3> QED
        BY <1>3, <3>1
    <2> QED
      BY <2>2, <2>3
  <1>5. CASE WriteBlock
    <2>1. /\ buffers' = [buffers EXCEPT ![section] =
                            [buffers[section] EXCEPT ![Len(buffers[section])] =
                                Append(@, NextBlock.block)]]
          /\ buffers[section] # <<>>
          /\ ~(Len(buffers[section][Len(buffers[section])]) >= capacity)
          /\ todo # <<>>
      BY <1>1, <1>5 DEF WriteBlock, LastFull, Last
    <2>2. CASE s = section
      <3> DEFINE b == NextBlock.block
                 new == [list EXCEPT ![Len(list)] = Append(@, b)]
      <3>1. b \in Strings
        BY <2>1, NextBlockType
      <3>2. buffers'[s] = new
        BY <1>1, <2>1, <2>2
      <3>3. list # <<>> /\ Len(list[Len(list)]) < capacity
        <4>1. Len(list[Len(list)]) \in Nat
          BY <1>2, <2>1, <2>2, ListType
        <4> QED
          BY <1>2, <2>1, <2>2, <4>1
      <3> HIDE DEF b
      <3>4. i \in DOMAIN new /\ j \in DOMAIN new[i]
        BY <3>2
      <3>5. \/ /\ i \in DOMAIN list /\ j \in DOMAIN list[i] /\ new[i][j] = list[i][j]
               /\ (i - 1) * capacity + j <= InList(list, capacity)
            \/ /\ new[i][j] = b
               /\ (i - 1) * capacity + j = InList(list, capacity) + 1
        <4> HIDE DEF list
        <4> QED
          BY <1>2, <3>1, <3>3, <3>4, NewInList
      <3> HIDE DEF new
      <3> QED
        BY <1>2, <1>5, <2>2, <3>2, <3>5 DEF b
    <2>3. CASE s # section
      <3>1. buffers'[s] = list
        BY <1>1, <2>1, <2>3
      <3> QED
        BY <1>3, <3>1
    <2> QED
      BY <2>2, <2>3
  <1> QED
    BY <1>4, <1>5

----------------------------------------------------------------------------
(* What each step leaves alone                                              *)

\* The response, and how much of it is made.
LEMMA TheResponse ==
    ASSUME NamesAreTokens, TypeInv, Remaining
    PROVE  /\ Script(Told, Batches) /\ Batches \in Nat /\ Told \in Seq(CallSet)
           /\ Len(Told) \in Nat \ {0}
           /\ calls \in Seq(CallSet) /\ Len(calls) \in Nat
           /\ Len(CallsOf(sent)) \in Nat
           /\ \/ /\ sent.trailers = Nil
                 /\ Len(CallsOf(sent)) = Batches + 1 /\ Len(Told) = Batches + 1
              \/ /\ sent.trailers # Nil
                 /\ Len(CallsOf(sent)) = Batches + 2 /\ Len(Told) = Batches + 3
           /\ complete \in BOOLEAN
           /\ Made = IF complete THEN Len(Told) ELSE Len(CallsOf(sent)) - Len(calls)
           /\ Made \in Nat /\ Made <= Len(Told)
  <1>1. sent \in Responses /\ calls \in Seq(CallSet) /\ complete \in BOOLEAN
    BY DEF TypeInv, TypeOK
  <1>2. /\ Script(Told, Batches)
        /\ Len(CallsOf(sent)) \in Nat
        /\ Len(Told) = IF sent.trailers = Nil THEN Len(CallsOf(sent)) ELSE Len(CallsOf(sent)) + 1
        /\ Len(CallsOf(sent)) = IF sent.trailers = Nil THEN Batches + 1 ELSE Batches + 2
    BY <1>1, ScriptOf DEF Told, Batches
  <1>3. Told \in Seq(CallSet) /\ Batches \in Nat
    BY <1>2 DEF Script
  <1>4. Len(calls) \in Nat /\ Len(calls) <= Len(CallsOf(sent))
    BY <1>1, LenProperties DEF Remaining
  <1>5. Made = IF complete THEN Len(Told) ELSE Len(CallsOf(sent)) - Len(calls)
    BY DEF Made
  <1> QED
    BY <1>1, <1>2, <1>3, <1>4, <1>5

LEMMA PlacedKept ==
    ASSUME UNCHANGED <<capacity, sent>>, Made \in Nat, Made' \in Nat, Made <= Made',
           NEW s, NEW i, NEW j, buffers'[s][i][j] = buffers[s][i][j],
           NEW m, NEW k, Placed(m, s, i, j),
           k[s][(i - 1) * capacity + j - 1] = m[s][(i - 1) * capacity + j - 1],
           k[s][(i - 1) * capacity + j - 1 + 1] = m[s][(i - 1) * capacity + j - 1 + 1]
    PROVE  Placed(k, s, i, j)'
  <1> DEFINE p == (i - 1) * capacity + j - 1
             l == m[s][p]
  <1>1. /\ Due(Told, l)
        /\ l.n < Made
        /\ SectionAt(Batches, l.n) = s
        /\ buffers[s][i][j] = BlockAt(Told, l)
        /\ m[s][p + 1] = Succ(Told, l)
    BY DEF Placed
  <1>2. l.n \in Nat
    BY <1>1 DEF Due, Marks
  <1>3. Told' = Told /\ Batches' = Batches /\ p' = p /\ k[s][p'] = l /\ k[s][p' + 1] = m[s][p + 1]
    BY DEF Told, Batches
  <1>4. l.n < Made'
    BY <1>1, <1>2
  <1> HIDE DEF p, l
  <1>5. /\ Due(Told', k[s][p'])
        /\ k[s][p'].n < Made'
        /\ SectionAt(Batches', k[s][p'].n) = s
        /\ buffers'[s][i][j] = BlockAt(Told', k[s][p'])
        /\ k[s][p' + 1] = Succ(Told', k[s][p'])
    BY <1>1, <1>3, <1>4
  <1> QED
    BY <1>5 DEF Placed, p

LEMMA ReadingKept ==
    ASSUME UNCHANGED <<capacity, sent>>, complete = TRUE => complete' = TRUE,
           NEW r, reader'[r] = reader[r], out'[r] = out[r],
           NEW m, NEW k, Reading(m, reader[r], out[r]),
           reader[r].section \in Sections =>
               k[reader[r].section][Position(reader[r])] = m[reader[r].section][Position(reader[r])]
    PROVE  Reading(k, reader[r], out[r])'
  <1>1. Told' = Told /\ Position(reader[r])' = Position(reader[r])
    BY DEF Told, Position
  <1>2. CASE reader[r].section \in Sections
    <2>1. Serving(m, reader[r], out[r])
      BY <1>2 DEF Reading, Sections
    <2>2. Serving(k, reader[r], out[r])'
      BY <1>1, <1>2, <2>1 DEF Serving
    <2> QED
      BY <1>2, <2>2 DEF Reading, Sections
  <1>3. CASE reader[r].section = "done"
    BY <1>1, <1>3 DEF Reading, Sections, Clean, NoField
  <1>4. CASE reader[r].section \notin Sections /\ reader[r].section # "done"
    BY <1>1, <1>4 DEF Reading, Sections, Clean, NoField
  <1> QED
    BY <1>2, <1>3, <1>4

LEMMA ReadingMoved ==
    ASSUME UNCHANGED <<capacity, sent, complete>>,
           NEW r, NEW d, NEW o, reader'[r] = d, out'[r] = o,
           NEW m, Reading(m, d, o)
    PROVE  Reading(m, reader[r], out[r])'
  <1>1. Told' = Told /\ Position(reader[r])' = Position(d)
    BY DEF Told, Position
  <1>2. CASE d.section \in Sections
    <2>1. Serving(m, d, o)
      BY <1>2 DEF Reading, Sections
    <2>2. Serving(m, reader[r], out[r])'
      BY <1>1, <1>2, <2>1 DEF Serving
    <2> QED
      BY <1>2, <2>2 DEF Reading, Sections
  <1>3. CASE d.section = "done"
    BY <1>1, <1>3 DEF Reading, Sections, Clean, NoField
  <1>4. CASE d.section \notin Sections /\ d.section # "done"
    BY <1>1, <1>4 DEF Reading, Sections, Clean, NoField
  <1> QED
    BY <1>2, <1>3, <1>4

\* A step of one consumer, which leaves the producer alone.
LEMMA ConsumerMarked ==
    ASSUME TypeInv, out \in [Consumers -> Seq(CallSet)],
           UNCHANGED <<capacity, calls, buffers, count, producerVars, sent>>,
           NEW r \in Consumers, NEW d, NEW o,
           reader' = [reader EXCEPT ![r] = d], out' = [out EXCEPT ![r] = o],
           NEW m, Marked(m), Reading(m, d, o)
    PROVE  Marked(m)'
  <1>1. UNCHANGED <<section, todo, first_write, data_offset, complete>>
    BY DEF producerVars, stringVars
  <1>2. /\ Told' = Told /\ Batches' = Batches /\ Made' = Made /\ Done' = Done
        /\ \A s : Blocks(s)' = Blocks(s)
    BY <1>1 DEF Told, Batches, Made, Done, Blocks, Last
  <1>3. /\ \A s \in Sections : m[s][0] = Mark(Before(Batches, s), 1, 0)
        /\ \A s \in Sections : \A i \in DOMAIN buffers[s] : \A j \in DOMAIN buffers[s][i] :
              Placed(m, s, i, j)
        /\ AtWork(m) /\ Apart(m)
        /\ m \in [Sections -> [Nat -> Marks]]
    BY DEF Marked
  <1>4. \A s \in Sections : \A i \in DOMAIN buffers'[s] : \A j \in DOMAIN buffers'[s][i] :
           Placed(m, s, i, j)'
    BY <1>2, <1>3 DEF Placed
  <1>5. AtWork(m)'
    BY <1>1, <1>2, <1>3 DEF AtWork, Writing
  <1>6. Apart(m)'
    BY <1>1, <1>2, <1>3 DEF Apart
  <1>7. ASSUME NEW q \in Consumers PROVE Reading(m, reader[q], out[q])'
    <2>1. Reading(m, reader[q], out[q])
      BY DEF Marked
    <2>2. reader \in [Consumers -> ReaderStates]
      BY DEF TypeInv, TypeOK
    <2>3. CASE q = r
      <3>1. reader'[q] = d /\ out'[q] = o
        BY <2>2, <2>3
      <3> QED
        BY <1>1, <3>1, ReadingMoved
    <2>4. CASE q # r
      <3>1. reader'[q] = reader[q] /\ out'[q] = out[q]
        BY <2>2, <2>4
      <3> QED
        BY <1>1, <2>1, <3>1, ReadingKept
    <2> QED
      BY <2>3, <2>4
  <1> QED
    BY <1>2, <1>3, <1>4, <1>5, <1>6, <1>7 DEF Marked

----------------------------------------------------------------------------
(* The steps of the producer                                                *)

LEMMA WhichSection ==
    ASSUME NEW d \in Nat, NEW n \in Nat
    PROVE  /\ SectionAt(d, n) \in Sections
           /\ SectionAt(d, n) = "headers" <=> n = 0
           /\ SectionAt(d, n) = "data" <=> 1 <= n /\ n <= d
           /\ SectionAt(d, n) = "trailers" <=> 1 <= n /\ d < n
           /\ Before(d, "headers") = 0 /\ Until(d, "headers") = 1
           /\ Before(d, "data") = 1 /\ Until(d, "data") = d + 1
           /\ Before(d, "trailers") = d + 1 /\ Until(d, "trailers") = d + 3
  BY DEF SectionAt, Before, Until, Sections

\* The sections are written in order.
LEMMA Called ==
    ASSUME TypeInv, Counting, EncodeHeaders \/ EncodeData \/ EncodeTrailers
    PROVE  \E s \in Sections :
              /\ NextCall(s)
              /\ s = "headers" => section = "headers"
              /\ s = "trailers" => section = "data"
              /\ section # "trailers"
  <1>1. InOrder /\ section \in Sections
    BY DEF TypeInv, TypeOK, Counting
  <1>2. calls # <<>>
    BY DEF EncodeHeaders, EncodeData, EncodeTrailers, NextCall
  <1>3. section # "trailers"
    BY <1>2 DEF Counting, InTrailers
  <1>4. CASE EncodeHeaders
    <2>1. NextCall("headers") /\ UNCHANGED headers_write_complete
      BY <1>4 DEF EncodeHeaders
    <2>2. section = "headers"
      BY <1>1, <2>1, NextInOrder DEF Sections
    <2> QED
      BY <2>1, <2>2 DEF Sections
  <1>5. CASE EncodeData
    <2>1. NextCall("data")
      BY <1>5 DEF EncodeData
    <2> QED
      BY <1>3, <2>1 DEF Sections
  <1>6. CASE EncodeTrailers
    <2>1. NextCall("trailers") /\ UNCHANGED headers_write_complete
      BY <1>6 DEF EncodeTrailers
    <2>2. headers_write_complete = TRUE
      BY <1>1, <2>1, NextInOrder DEF Sections
    <2>3. section = "data"
      BY <1>1, <1>3, <2>2 DEF Counting, InHeaders, Sections
    <2> QED
      BY <2>1, <2>3 DEF Sections
  <1> QED
    BY <1>4, <1>5, <1>6

\* A step of the producer that writes no block leaves the marks of the blocks and
\* of the consumers alone.
LEMMA BlocksMarked ==
    ASSUME NEW m, Marked(m), UNCHANGED <<capacity, buffers, reader, out, sent>>,
           Made \in Nat, Made' \in Nat, Made <= Made', complete = TRUE => complete' = TRUE
    PROVE  /\ \A s : Blocks(s)' = Blocks(s)
           /\ Told' = Told /\ Batches' = Batches
           /\ AtWork(m)' /\ Apart(m)' => Marked(m)'
  <1>1. (\A s : Blocks(s)' = Blocks(s)) /\ Told' = Told /\ Batches' = Batches
    BY DEF Told, Batches, Blocks, Last
  <1>2. ASSUME NEW s \in Sections, NEW i \in DOMAIN (buffers'[s]), NEW j \in DOMAIN (buffers'[s][i])
        PROVE  Placed(m, s, i, j)'
    <2>1. Placed(m, s, i, j)
      BY DEF Marked
    <2> QED
      BY <2>1, PlacedKept
  <1>3. ASSUME NEW r \in Consumers PROVE Reading(m, reader[r], out[r])'
    <2>1. Reading(m, reader[r], out[r])
      BY DEF Marked
    <2> QED
      BY <2>1, ReadingKept
  <1> QED
    BY <1>1, <1>2, <1>3 DEF Marked

LEMMA MakeMarked ==
    ASSUME NamesAreTokens, TypeInv, Counting, Remaining, NEW m, Marked(m),
           EncodeHeaders \/ EncodeData \/ EncodeTrailers
    PROVE  /\ Marked(m)' /\ Remaining'
           /\ complete = FALSE /\ complete' = FALSE
           /\ Made < Len(Told) /\ Made' = Made + 1
           /\ UNCHANGED <<sent, reader, out>>
  <1> DEFINE c == CallsOf(sent)
  <1>0. PICK l : l = Mark(Made, 1, 0)
    OBVIOUS
  <1>1. PICK s \in Sections : /\ NextCall(s)
                              /\ s = "headers" => section = "headers"
                              /\ s = "trailers" => section = "data"
                              /\ section # "trailers"
    BY Called
  <1>2. /\ todo = <<>> /\ calls # <<>> /\ Head(calls).section = s
        /\ todo' = CallItems(Head(calls)) /\ calls' = Tail(calls) /\ section' = s
        /\ UNCHANGED <<capacity, buffers, first_write, data_offset, complete, reader, out, sent>>
    BY <1>1 DEF NextCall, consumerVars
  <1>3. /\ Script(Told, Batches) /\ Batches \in Nat
        /\ Len(Told) \in Nat
        /\ calls \in Seq(CallSet) /\ Len(calls) \in Nat
        /\ Len(c) \in Nat /\ Len(c) <= Len(Told) /\ Len(c) <= Batches + 2
        /\ complete \in BOOLEAN
        /\ Made = IF complete THEN Len(Told) ELSE Len(c) - Len(calls)
        /\ Made \in Nat
    BY TheResponse
  <1>4. complete = FALSE /\ complete' = FALSE /\ Made = Len(c) - Len(calls)
    <2>1. complete # TRUE
      BY <1>2 DEF Counting, AtTheEnd
    <2> QED
      BY <1>2, <1>3, <2>1
  <1>5. /\ Len(calls) \in Nat \ {0} /\ Head(calls) = calls[1]
        /\ Len(calls') = Len(calls) - 1
        /\ \A i \in 1..Len(calls') : calls'[i] = calls[i + 1]
    BY <1>2, <1>3, HeadTailProperties, EmptySeq
  <1>6. /\ Len(calls) <= Len(c)
        /\ \A i \in 1..Len(calls) : calls[i] = c[Len(c) - Len(calls) + i]
    BY DEF Remaining
  <1>7. Remaining'
    <2>1. CallsOf(sent)' = c
      BY <1>2
    <2>2. Len(calls') <= Len(c)
      BY <1>3, <1>5, <1>6
    <2>3. ASSUME NEW i \in 1..Len(calls') PROVE calls'[i] = c[Len(c) - Len(calls') + i]
      <3>1. i + 1 \in 1..Len(calls)
            /\ Len(c) - Len(calls) + (i + 1) = Len(c) - Len(calls') + i
        BY <1>3, <1>5
      <3>2. calls'[i] = c[Len(c) - Len(calls) + (i + 1)]
        BY <1>5, <1>6, <3>1
      <3> QED
        BY <3>1, <3>2
    <2> HIDE DEF c
    <2> QED
      BY <2>1, <2>2, <2>3 DEF Remaining, c
  <1>8. Made' = Made + 1 /\ Made < Len(c) /\ Made < Len(Told)
    <2>1. Made' = Len(c) - Len(calls')
      BY <1>2, <1>4 DEF Made
    <2> HIDE DEF c
    <2> QED
      BY <1>3, <1>4, <1>5, <1>6, <2>1
  <1>9. /\ Told[Made + 1].section = s
        /\ s = SectionAt(Batches, Made)
        /\ todo' = Frame(Told, Made)
    <2>1. Made + 1 \in 1..Len(c) /\ (Made + 1) - 1 = Made
      BY <1>3, <1>8
    <2>2. Head(calls) = c[Made + 1]
      <3>1. Len(c) - Len(calls) + 1 = Made + 1 /\ 1 \in 1..Len(calls)
        BY <1>4, <1>5
      <3> QED
        BY <1>5, <1>6, <3>1
    <2>3. Told[Made + 1] = c[Made + 1] /\ CallItems(c[Made + 1]) = Frame(Told, (Made + 1) - 1)
      <3>1. sent \in Responses
        BY DEF TypeInv, TypeOK
      <3>2. \A i \in 1..Len(c) : Told[i] = c[i] /\ CallItems(c[i]) = Frame(Told, i - 1)
        BY <3>1, ScriptOf DEF Told
      <3> HIDE DEF c
      <3> QED
        BY <2>1, <3>2
    <2>4. Told[Made + 1].section = SectionAt(Batches, Made)
      BY <1>3, <1>8, ScriptCall
    <2> QED
      BY <1>2, <2>1, <2>2, <2>3, <2>4
  <1>10. /\ m[section][Blocks(section)] = l
         /\ first_write = TRUE /\ data_offset = 0
         /\ Made <= Until(Batches, section)
         /\ section # "headers" => Before(Batches, section) < Made
    BY <1>0, <1>2 DEF Marked, AtWork
  <1>11. /\ s = "headers" <=> Made = 0
         /\ s = "data" <=> 1 <= Made /\ Made <= Batches
         /\ s = "trailers" <=> 1 <= Made /\ Batches < Made
         /\ Before(Batches, "headers") = 0 /\ Until(Batches, "headers") = 1
         /\ Before(Batches, "data") = 1 /\ Until(Batches, "data") = Batches + 1
         /\ Before(Batches, "trailers") = Batches + 1
         /\ Until(Batches, "trailers") = Batches + 3
    <2> DEFINE u == SectionAt(Batches, Made)
    <2>1. /\ u = "headers" <=> Made = 0
          /\ u = "data" <=> 1 <= Made /\ Made <= Batches
          /\ u = "trailers" <=> 1 <= Made /\ Batches < Made
      BY <1>3 DEF SectionAt
    <2>2. s = u
      BY <1>9
    <2>3. /\ Before(Batches, "headers") = 0 /\ Until(Batches, "headers") = 1
          /\ Before(Batches, "data") = 1 /\ Until(Batches, "data") = Batches + 1
          /\ Before(Batches, "trailers") = Batches + 1
          /\ Until(Batches, "trailers") = Batches + 3
      BY <1>3, WhichSection
    <2> HIDE DEF u
    <2> QED
      BY <2>1, <2>2, <2>3
  <1>12. section \in {"headers", "data"}
    BY <1>1 DEF TypeInv, TypeOK, Sections
  \* The first block of the call is due at the mark where the producer stands.
  <1>13. /\ m[s][Blocks(s)] = l
         /\ s # section => /\ Made = Before(Batches, s)
                           /\ \/ section = "headers" /\ s = "data"
                              \/ section = "data" /\ s = "trailers"
    <2>1. CASE s = section
      BY <1>10, <2>1
    <2>2. CASE s # section
      <3>1. \/ section = "headers" /\ s = "data"
            \/ section = "data" /\ s = "trailers"
        BY <1>1, <1>12, <2>2 DEF Sections
      <3>2. Made = Before(Batches, s)
        BY <1>3, <1>10, <1>11, <3>1
      <3>3. Blocks(s) = 0
        BY <3>1 DEF Marked, Apart
      <3>4. m[s][0] = Mark(Before(Batches, s), 1, 0)
        BY DEF Marked
      <3> QED
        BY <1>0, <3>1, <3>2, <3>3, <3>4
    <2> QED
      BY <2>1, <2>2
  <1>14. /\ Made' \in Nat /\ Made <= Made'
         /\ \A u : Blocks(u)' = Blocks(u)
         /\ Told' = Told /\ Batches' = Batches
         /\ AtWork(m)' /\ Apart(m)' => Marked(m)'
    <2>1. Made' \in Nat /\ Made <= Made'
      BY <1>3, <1>8
    <2> QED
      BY <1>2, <1>3, <2>1, BlocksMarked
  <1>15. AtWork(m)'
    <2>1. Made + 1 <= Until(Batches, s) /\ (s # "headers" => Before(Batches, s) < Made + 1)
      BY <1>1, <1>3, <1>8, <1>11 DEF Sections
    <2>2. /\ l.n = Made /\ l.i = 1 /\ l.done = 0 /\ l \in Marks
      <3>1. l.n = Made /\ l.i = 1 /\ l.done = 0
        BY <1>0, MarkIs
      <3>2. Made \in Nat /\ 1 \in Nat \ {0} /\ 0 \in Nat
        BY <1>3
      <3>3. l \in Marks
        BY <1>0, <3>2, MarkIs
      <3> QED
        BY <3>1, <3>3
    <2> DEFINE frame == Frame(Told, Made)
    <2>3. /\ frame \in Seq(Items) /\ Len(frame) \in Nat \ {0}
          /\ frame[1] \in Items
      <3>1. frame \in Seq(Items) /\ Len(frame) \in Nat \ {0}
        BY <1>3, <1>8, FrameShape
      <3>2. 1 \in 1..Len(frame)
        BY <3>1
      <3> QED
        BY <3>1, <3>2, ElementOfSeq
    <2>4. Due(Told, l)
      <3>1. Len(frame[1].bytes) \in Nat
        BY <2>3, LenProperties DEF Items, Strings
      <3>2. 0 <= IF frame[1].delimiter THEN 0 ELSE Len(frame[1].bytes)
        BY <3>1
      <3>3. 1 <= Len(frame)
        BY <2>3
      <3> QED
        BY <1>8, <2>2, <3>2, <3>3 DEF Due
    <2>5. todo' # <<>> /\ todo' = SubSeq(frame, 1, Len(frame)) /\ 1 \in 1..Len(frame)
      <3>1. SubSeq(frame, 1, Len(frame)) = frame
        BY <2>3, SubSeqFull
      <3>2. frame # <<>>
        BY <2>3, EmptySeq
      <3> QED
        BY <1>9, <2>3, <3>1, <3>2
    <2>6. Done' = 0 /\ first_write' = TRUE
      BY <1>2, <1>10 DEF Done
    <2> HIDE DEF frame
    <2>7. Writing(l)'
      <3>1. l.i \in 1..Len(frame) /\ l.n + 1 = Made' /\ l.done = Done'
        BY <1>8, <2>2, <2>5, <2>6
      <3>2. Frame(Told', l.n) = frame
        BY <1>14, <2>2 DEF frame
      <3>3. first_write' # FALSE
        BY <2>6
      <3>4. todo' = SubSeq(Frame(Told', l.n), l.i, Len(Frame(Told', l.n)))
        BY <2>2, <2>5, <3>2
      <3> QED
        BY <3>1, <3>2, <3>3, <3>4 DEF Writing
    <2>8. m[section'][Blocks(section)'] = l
      <3>1. Blocks(section)' = Blocks(s)'
        BY <1>2 DEF Blocks, Last
      <3> QED
        BY <1>2, <1>13, <1>14, <3>1
    <2>9. SectionAt(Batches, l.n) = section'
      BY <1>2, <1>9, <2>2
    <2>10. Made' <= Until(Batches', section')
           /\ (section' # "headers" => Before(Batches', section') < Made')
      BY <1>2, <1>8, <1>14, <2>1
    <2>11. Due(Told', l) /\ SectionAt(Batches', l.n) = section'
      BY <1>14, <2>4, <2>9
    <2> QED
      BY <2>5, <2>7, <2>8, <2>10, <2>11 DEF AtWork
  <1>16. Apart(m)'
    <2>1. Apart(m)
      BY DEF Marked
    <2>2. s # "headers" => m["headers"][Blocks("headers")] = Mark(1, 1, 0)
      BY <1>0, <1>1, <1>10, <1>11, <1>12, <1>13, <2>1 DEF Apart
    <2>3. s = "trailers" => m["data"][Blocks("data")] = Mark(Batches + 1, 1, 0)
      BY <1>0, <1>1, <1>10, <1>11, <1>13, <2>1 DEF Apart
    <2>4. s = "headers" => Blocks("data") = 0
      BY <1>1, <2>1 DEF Apart
    <2>5. Blocks("trailers") = 0
      BY <1>1, <2>1 DEF Apart
    <2> QED
      BY <1>2, <1>14, <2>2, <2>3, <2>4, <2>5 DEF Apart
  <1> QED
    BY <1>2, <1>4, <1>7, <1>8, <1>14, <1>15, <1>16

LEMMA PositionType ==
    ASSUME TypeInv, NEW c \in ReaderStates
    PROVE  Position(c) \in Nat
  <1>1. capacity \in Nat
    BY EntryAssumption DEF TypeInv, TypeOK
  <1>2. c.buffer_index - 1 \in Nat /\ c.block_index \in Nat \ {0}
    BY <1>1 DEF ReaderStates
  <1>3. (c.buffer_index - 1) * capacity \in Nat
    BY <1>1, <1>2, Times
  <1> DEFINE p == (c.buffer_index - 1) * capacity
  <1>4. Position(c) = p + c.block_index - 1
    BY DEF Position
  <1> HIDE DEF p
  <1> QED
    BY <1>2, <1>3, <1>4 DEF p

LEMMA EmplaceMarked ==
    ASSUME NamesAreTokens, TypeInv, Filled, Remaining, NEW m, Marked(m), EmplaceBuffer
    PROVE  /\ Marked(m)' /\ Remaining'
           /\ Made' = Made /\ UNCHANGED <<sent, complete, reader, out>>
  <1>1. UNCHANGED <<capacity, calls, section, todo, first_write, data_offset, complete, reader,
                    out, sent>>
    BY DEF EmplaceBuffer, producerVars, stringVars, consumerVars
  <1>2. \A s \in Sections : Blocks(s)' = Blocks(s)
    BY EmplaceStep
  <1>3. /\ Told' = Told /\ Batches' = Batches /\ Made' = Made /\ Done' = Done
        /\ section \in Sections /\ Made \in Nat
    BY <1>1, TheResponse DEF Told, Batches, Made, Done, TypeInv, TypeOK
  <1>4. ASSUME NEW s \in Sections, NEW i \in DOMAIN (buffers'[s]), NEW j \in DOMAIN (buffers'[s][i])
        PROVE  Placed(m, s, i, j)'
    <2>1. /\ i \in DOMAIN buffers[s] /\ j \in DOMAIN buffers[s][i]
          /\ buffers'[s][i][j] = buffers[s][i][j]
      <3>1. ~WriteBlock
        BY DEF EmplaceBuffer, WriteBlock
      <3> QED
        BY <3>1, BlocksKept
    <2>2. Placed(m, s, i, j)
      BY <2>1 DEF Marked
    <2>3. Made \in Nat /\ Made' \in Nat /\ Made <= Made'
      BY <1>3
    <2> QED
      BY <1>1, <2>1, <2>2, <2>3, PlacedKept
  <1>5. ASSUME NEW r \in Consumers PROVE Reading(m, reader[r], out[r])'
    <2>1. Reading(m, reader[r], out[r])
      BY DEF Marked
    <2> QED
      BY <1>1, <2>1, ReadingKept
  <1>6. Blocks(section)' = Blocks(section)
    <2>1. \A s \in Sections : s = section => Blocks(section)' = Blocks(s)'
      BY <1>1 DEF Blocks, Last
    <2> QED
      BY <1>2, <1>3, <2>1
  <1>7. AtWork(m)'
    <2>1. AtWork(m)
      BY DEF Marked
    <2> QED
      BY <1>1, <1>3, <1>6, <2>1 DEF AtWork, Writing
  <1>8. Apart(m)'
    <2>1. Apart(m)
      BY DEF Marked
    <2> QED
      BY <1>1, <1>2, <1>3, <2>1 DEF Apart, Sections
  <1>9. Remaining'
    BY <1>1 DEF Remaining
  <1> QED
    BY <1>1, <1>3, <1>4, <1>5, <1>7, <1>8, <1>9 DEF Marked

LEMMA WriteMarked ==
    ASSUME NamesAreTokens, EntryInv, Remaining, NEW m, Marked(m), WriteBlock
    PROVE  /\ \E k : Marked(k)'
           /\ Remaining'
           /\ Made' = Made /\ UNCHANGED <<sent, complete, reader, out>>
  <1>1. /\ TypeInv /\ Filled /\ ReadersBehind
        /\ UNCHANGED <<capacity, calls, section, complete, reader, out, sent>>
        /\ todo # <<>> /\ section \in Sections
        /\ buffers \in [Sections -> Seq(Seq(Strings))]
        /\ capacity \in Nat \ {0}
    BY EntryAssumption DEF EntryInv, TypeInv, TypeOK, WriteBlock, consumerVars
  <1>2. /\ Script(Told, Batches) /\ Batches \in Nat /\ Made \in Nat
    BY <1>1, TheResponse
  <1>3. Told' = Told /\ Batches' = Batches /\ Made' = Made
    BY <1>1 DEF Told, Batches, Made
  <1>4. /\ Blocks(section) \in Nat
        /\ \A s \in Sections :
              /\ Blocks(s)' = IF s = section THEN Blocks(s) + 1 ELSE Blocks(s)
              /\ Blocks(s) \in Nat
    BY <1>1, WriteStep, BlocksType
  <1>5. PICK l : l = m[section][Blocks(section)]
    OBVIOUS
  <1>6. PICK next : next = Succ(Told, l)
    OBVIOUS
  <1>7. PICK q \in Nat : q = Blocks(section)
    BY <1>4
  <1>8. PICK k : k = [m EXCEPT ![section] = [m[section] EXCEPT ![q + 1] = next]]
    OBVIOUS
  <1>9. /\ Due(Told, l) /\ SectionAt(Batches, l.n) = section /\ Writing(l)
        /\ Made <= Until(Batches, section)
        /\ section # "headers" => Before(Batches, section) < Made
    BY <1>1, <1>5 DEF Marked, AtWork
  <1>10. /\ l.n \in Nat /\ l.n + 1 = Made /\ next \in Marks
         /\ l.i \in 1..Len(Frame(Told, l.n))
    BY <1>2, <1>6, <1>9, DueShape DEF Writing
  <1>11. LET frame == Frame(Told, l.n) IN
         /\ NextBlock.block = BlockAt(Told, l)
         /\ todo' = <<>> => /\ next = Mark(l.n + 1, 1, 0)
                            /\ first_write' = TRUE /\ data_offset' = 0
         /\ todo' # <<>> => /\ Due(Told, next) /\ next.n = l.n
                            /\ todo' = SubSeq(frame, next.i, Len(frame))
                            /\ next.done = Done'
                            /\ first_write' = FALSE => ~Head(todo').delimiter
    <2>1. /\ todo = SubSeq(Frame(Told, l.n), l.i, Len(Frame(Told, l.n)))
          /\ l.done = Done
          /\ first_write = FALSE => ~Head(todo).delimiter
      BY <1>9 DEF Writing
    <2> QED
      BY <1>1, <1>2, <1>6, <1>9, <2>1, WriteAt
  <1>12. /\ k \in [Sections -> [Nat -> Marks]]
         /\ \A s \in Sections, p \in Nat :
               k[s][p] = IF s = section /\ p = q + 1 THEN next ELSE m[s][p]
    <2>1. m \in [Sections -> [Nat -> Marks]]
      BY DEF Marked
    <2> QED
      BY <1>1, <1>8, <1>10, <2>1
  <1>13. ASSUME NEW s \in Sections, NEW i \in DOMAIN (buffers'[s]), NEW j \in DOMAIN (buffers'[s][i])
         PROVE  Placed(k, s, i, j)'
    <2> DEFINE p == (i - 1) * capacity
    <2>1. p \in Nat /\ j \in Nat \ {0}
      <3>1. TypeInv' /\ Filled'
        BY <1>1, WriteTypes, WriteStep
      <3>2. buffers'[s] \in Seq(Seq(Strings)) /\ AllFull(buffers'[s], capacity)
        <4>1. buffers' \in [Sections -> Seq(Seq(Strings))] /\ capacity' = capacity
          BY <1>1, <3>1 DEF TypeInv, TypeOK
        <4> QED
          BY <3>1, <4>1 DEF Filled
      <3>3. capacity \in Nat \ {0}
        BY <1>1
      <3>4. (i - 1) * capacity \in Nat /\ j \in 1..capacity
        BY <3>2, <3>3, PlaceInList
      <3> QED
        BY <3>3, <3>4
    <2>2. \/ /\ i \in DOMAIN buffers[s] /\ j \in DOMAIN buffers[s][i]
             /\ buffers'[s][i][j] = buffers[s][i][j]
             /\ p + j <= Blocks(s)
          \/ /\ s = section
             /\ buffers'[s][i][j] = NextBlock.block
             /\ p + j = Blocks(s) + 1
      BY <1>1, BlocksKept
    <2>3. p + j - 1 \in Nat /\ p + j - 1 + 1 = p + j /\ p + j \in Nat
      BY <2>1
    <2>4. CASE /\ i \in DOMAIN buffers[s] /\ j \in DOMAIN buffers[s][i]
               /\ buffers'[s][i][j] = buffers[s][i][j]
               /\ p + j <= Blocks(s)
      <3>1. Placed(m, s, i, j)
        BY <2>4 DEF Marked
      <3>2. k[s][p + j - 1] = m[s][p + j - 1] /\ k[s][p + j] = m[s][p + j]
        <4> HIDE DEF p
        <4>1. s = section => p + j - 1 # q + 1 /\ p + j # q + 1
          BY <1>7, <2>1, <2>4
        <4> QED
          BY <1>12, <2>3, <4>1
      <3>3. k[s][p + j - 1 + 1] = m[s][p + j - 1 + 1]
        <4> HIDE DEF p
        <4> QED
          BY <2>3, <3>2
      <3>4. Made \in Nat /\ Made' \in Nat /\ Made <= Made'
        BY <1>2, <1>3
      <3>5. /\ k[s][(i - 1) * capacity + j - 1] = m[s][(i - 1) * capacity + j - 1]
            /\ k[s][(i - 1) * capacity + j - 1 + 1] = m[s][(i - 1) * capacity + j - 1 + 1]
        BY <3>2, <3>3
      <3>6. UNCHANGED <<capacity, sent>> /\ buffers'[s][i][j] = buffers[s][i][j]
        BY <1>1, <2>4
      <3> HIDE DEF p
      <3> QED
        BY <3>1, <3>4, <3>5, <3>6, PlacedKept
    <2>5. CASE /\ s = section
               /\ buffers'[s][i][j] = NextBlock.block
               /\ p + j = Blocks(s) + 1
      <3>1. k[s][p + j - 1] = l /\ k[s][p + j - 1 + 1] = next
        <4> HIDE DEF p
        <4>1. p + j - 1 = q /\ p + j = q + 1 /\ q # q + 1
          BY <1>7, <2>1, <2>5
        <4> QED
          BY <1>5, <1>7, <1>12, <2>3, <2>5, <4>1
      <3>2. p' = p
        BY <1>1
      <3>3. l.n < Made'
        BY <1>2, <1>3, <1>10
      <3> HIDE DEF p
      <3>4. /\ Due(Told', k[s][p' + j - 1])
            /\ k[s][p' + j - 1].n < Made'
            /\ SectionAt(Batches', k[s][p' + j - 1].n) = s
            /\ buffers'[s][i][j] = BlockAt(Told', k[s][p' + j - 1])
            /\ k[s][p' + j - 1 + 1] = Succ(Told', k[s][p' + j - 1])
        BY <1>3, <1>6, <1>9, <1>11, <2>5, <3>1, <3>2, <3>3
      <3> QED
        BY <3>4 DEF Placed, p
    <2> HIDE DEF p
    <2> QED
      BY <2>2, <2>4, <2>5
  <1>14. \A s \in Sections : k[s][0] = Mark(Before(Batches', s), 1, 0)
    <2>1. 0 # q + 1
      OBVIOUS
    <2> QED
      BY <1>3, <1>12, <2>1 DEF Marked
  <1>15. AtWork(k)'
    <2>1. k[section'][Blocks(section)'] = next
      <3>1. \A s \in Sections : s = section => Blocks(section)' = Blocks(s)'
        BY <1>1 DEF Blocks, Last
      <3>2. Blocks(section)' = q + 1
        BY <1>1, <1>4, <1>7, <3>1
      <3>3. q + 1 \in Nat
        BY <1>7
      <3>4. k[section][q + 1] = next
        BY <1>1, <1>12, <3>3
      <3> QED
        BY <1>1, <3>2, <3>4
    <2>2. Made' <= Until(Batches', section')
          /\ (section' # "headers" => Before(Batches', section') < Made')
      BY <1>1, <1>3, <1>9
    <2>3. CASE todo' = <<>>
      BY <1>3, <1>10, <1>11, <2>1, <2>2, <2>3 DEF AtWork
    <2>4. CASE todo' # <<>>
      <3>1. Due(Told', next) /\ SectionAt(Batches', next.n) = section'
        BY <1>1, <1>3, <1>9, <1>11, <2>4
      <3>2. Writing(next)'
        <4>1. next.i \in 1..Len(Frame(Told, next.n))
          BY <1>2, <1>3, <3>1, DueShape
        <4> QED
          BY <1>3, <1>10, <1>11, <2>4, <4>1 DEF Writing
      <3> QED
        BY <2>1, <2>2, <2>4, <3>1, <3>2 DEF AtWork
    <2> QED
      BY <2>3, <2>4
  <1>16. Apart(k)'
    <2>1. \A s \in Sections : s # section => Blocks(s)' = Blocks(s) /\ k[s][Blocks(s)] = m[s][Blocks(s)]
      BY <1>4, <1>12
    <2>2. Apart(m)
      BY DEF Marked
    <2> QED
      BY <1>1, <1>3, <2>1, <2>2 DEF Apart, Sections
  <1>17. ASSUME NEW r \in Consumers PROVE Reading(k, reader[r], out[r])'
    <2>1. Reading(m, reader[r], out[r])
      BY DEF Marked
    <2>2. ASSUME reader[r].section \in Sections
          PROVE  k[reader[r].section][Position(reader[r])] =
                    m[reader[r].section][Position(reader[r])]
      <3> DEFINE c == reader[r]
      <3>1. c \in ReaderStates /\ Behind(c)
        BY <1>1 DEF TypeInv, TypeOK, ReadersBehind
      <3>2. Position(c) \in Nat /\ Position(c) <= Blocks(c.section)
        BY <1>1, <2>2, <3>1, PositionType DEF Behind
      <3>3. c.section = section => Position(c) # q + 1
        BY <1>7, <3>2
      <3> HIDE DEF c
      <3> QED
        BY <1>12, <2>2, <3>2, <3>3 DEF c
    <2> QED
      BY <1>1, <2>1, <2>2, ReadingKept
  <1>18. Remaining'
    BY <1>1 DEF Remaining
  <1>19. Marked(k)'
    BY <1>12, <1>13, <1>14, <1>15, <1>16, <1>17 DEF Marked
  <1> QED
    BY <1>1, <1>3, <1>18, <1>19

LEMMA CompleteMarked ==
    ASSUME NamesAreTokens, EntryInv, Counting, Remaining, NEW m, Marked(m), WriteComplete
    PROVE  /\ Marked(m)' /\ Remaining' /\ Ended'
           /\ complete = FALSE /\ complete' = TRUE
           /\ Made >= Len(Told) - 1 /\ Made' = Len(Told)
           /\ UNCHANGED <<sent, reader, out>>
  <1> DEFINE c == CallsOf(sent)
  <1>1. /\ TypeInv /\ section \in Sections
        /\ todo = <<>> /\ calls = <<>> /\ complete = FALSE
        /\ complete' = TRUE
        /\ UNCHANGED <<capacity, calls, buffers, section, first_write, data_offset,
                       current_block_count, reader, out, sent>>
        /\ count \in [{"headers", "data"} -> Nat]
    BY DEF EntryInv, TypeInv, TypeOK, WriteComplete, consumerVars
  <1>2. /\ Script(Told, Batches) /\ Batches \in Nat
        /\ Len(Told) \in Nat
        /\ \/ sent.trailers = Nil /\ Len(c) = Batches + 1 /\ Len(Told) = Batches + 1
           \/ sent.trailers # Nil /\ Len(c) = Batches + 2 /\ Len(Told) = Batches + 3
        /\ Made \in Nat
    BY <1>1, TheResponse
  <1>3. Made = Len(c) /\ Made' = Len(Told) /\ Told' = Told
    <2>1. Len(calls) = 0
      BY <1>1
    <2>2. Len(c) \in Nat
      BY <1>2
    <2> HIDE DEF c
    <2>3. Len(c) - Len(calls) = Len(c)
      BY <2>1, <2>2
    <2> QED
      BY <1>1, <2>3 DEF Made, Told, c
  <1> HIDE DEF c
  <1>4. Remaining'
    BY <1>1 DEF Remaining
  <1>5. /\ AtWork(m) /\ Apart(m)
        /\ Made <= Until(Batches, section)
        /\ section # "headers" => Before(Batches, section) < Made
        /\ m[section][Blocks(section)] = Mark(Made, 1, 0)
        /\ first_write = TRUE /\ data_offset = 0
    BY <1>1 DEF Marked, AtWork
  <1>6. /\ \A s : Blocks(s)' = Blocks(s)
        /\ Batches' = Batches
        /\ AtWork(m)' /\ Apart(m)' => Marked(m)'
    <2>1. Made' \in Nat /\ Made <= Made'
      BY <1>2, <1>3
    <2> QED
      BY <1>1, <1>2, <2>1, BlocksMarked
  <1>7. Blocks(section)' = Blocks(section)
    BY <1>1 DEF Blocks, Last
  <1>8. Apart(m)'
    BY <1>1, <1>5, <1>6 DEF Apart
  <1>9. Made >= Len(Told) - 1
    BY <1>2, <1>3
  <1>10. CASE section # "trailers"
    <2>1. section \in {"headers", "data"}
      BY <1>1, <1>10 DEF Sections
    <2>2. /\ todo' = todo
          /\ count' = [count EXCEPT ![section] = current_block_count]
          /\ current_block_count = Blocks(section)
      BY <2>1 DEF Counting, InHeaders, InData, WriteComplete
    <2>3. Until(Batches, section) <= Batches + 1
      BY <1>2, <2>1 DEF Until
    <2>4. Made' = Made /\ Made \in Nat
      <3>1. Until(Batches, section) \in Nat
        BY <1>2, <2>1 DEF Until
      <3> QED
        BY <1>2, <1>3, <1>5, <2>3, <3>1
    <2>5. AtWork(m)'
      BY <1>1, <1>5, <1>6, <1>7, <2>2, <2>4 DEF AtWork
    <2>6. Ended'
      BY <1>1, <1>7, <2>1, <2>2 DEF Ended
    <2> QED
      BY <1>1, <1>3, <1>4, <1>6, <1>8, <1>9, <2>5, <2>6
  <1>11. CASE section = "trailers"
    <2>1. todo' = <<Item(Delimiter(TRUE), TRUE)>>
      BY <1>11 DEF Counting, InTrailers, WriteComplete
    <2>2. /\ sent.trailers # Nil /\ Made = Batches + 2 /\ Len(Told) = Batches + 3
          /\ Made' = Made + 1 /\ Made < Len(Told)
      <3>1. Before(Batches, section) = Batches + 1
        BY <1>2, <1>11, WhichSection
      <3> QED
        BY <1>2, <1>3, <1>5, <1>11, <3>1
    <2>3. Frame(Told, Made) = todo'
      <3>1. sent \in Responses
        BY <1>1 DEF TypeInv, TypeOK
      <3>2. Frame(Told, Len(c)) = <<Item(Delimiter(TRUE), TRUE)>>
        BY <2>2, <3>1, ScriptOf DEF Told, c
      <3> QED
        BY <1>3, <2>1, <3>2
    <2> DEFINE item == Item(Delimiter(TRUE), TRUE)
               frame == <<item>>
    <2>4. item.delimiter = TRUE
      BY DEF Item
    <2> HIDE DEF item
    <2>5. /\ Len(frame) = 1 /\ frame[1] = item /\ frame # <<>>
          /\ SubSeq(frame, 1, 1) = frame
      <3>1. frame \in Seq({item}) /\ Len(frame) = 1 /\ frame[1] = item /\ frame # <<>>
        OBVIOUS
      <3> HIDE DEF frame
      <3>2. SubSeq(frame, 1, Len(frame)) = frame
        BY <3>1, WholeAndNone
      <3> QED
        BY <3>1, <3>2
    <2>6. Frame(Told, Made) = frame /\ todo' = frame
      BY <2>1, <2>3 DEF item
    <2> HIDE DEF frame
    <2>7. PICK l : l = Mark(Made, 1, 0)
      OBVIOUS
    <2>8. l.n = Made /\ l.i = 1 /\ l.done = 0 /\ l \in Marks
      <3>1. 1 \in Nat \ {0} /\ 0 \in Nat
        OBVIOUS
      <3> QED
        BY <1>2, <2>7, <3>1, MarkIs
    <2>9. Due(Told, l)
      <3>1. l.i <= Len(Frame(Told, l.n)) /\ Frame(Told, l.n)[l.i] = item
        BY <2>5, <2>6, <2>8
      <3> QED
        BY <2>2, <2>4, <2>8, <3>1 DEF Due
    <2>10. SectionAt(Batches, l.n) = section
      <3>1. Made # 0 /\ ~(Made <= Batches)
        BY <1>2, <2>2
      <3> QED
        BY <1>11, <2>8, <3>1 DEF SectionAt
    <2>11. Done' = 0 /\ first_write' = TRUE
      BY <1>1, <1>5 DEF Done
    <2>12. Writing(l)'
      <3>1. l.i \in 1..Len(Frame(Told, l.n))
        BY <2>5, <2>6, <2>8
      <3>2. todo' = SubSeq(Frame(Told, l.n), l.i, Len(Frame(Told, l.n)))
        BY <2>5, <2>6, <2>8
      <3> QED
        BY <1>3, <2>2, <2>8, <2>11, <3>1, <3>2 DEF Writing
    <2>13. Made' <= Until(Batches, section) /\ Before(Batches, section) < Made'
      <3>1. Before(Batches, section) = Batches + 1 /\ Until(Batches, section) = Batches + 3
        BY <1>2, <1>11, WhichSection
      <3> QED
        BY <1>2, <2>2, <3>1
    <2>14. AtWork(m)'
      <3>1. m[section'][Blocks(section)'] = l
        BY <1>1, <1>5, <1>7, <2>7
      <3>2. todo' # <<>>
        BY <2>5, <2>6
      <3>3. Due(Told', l) /\ SectionAt(Batches', l.n) = section'
        BY <1>1, <1>3, <1>6, <2>9, <2>10
      <3>4. Made' <= Until(Batches', section') /\ Before(Batches', section') < Made'
        BY <1>1, <1>6, <2>13
      <3> QED
        BY <2>12, <3>1, <3>2, <3>3, <3>4 DEF AtWork
    <2>15. Ended'
      BY <1>1, <1>11 DEF Ended
    <2> QED
      BY <1>1, <1>3, <1>4, <1>6, <1>8, <1>9, <2>14, <2>15
  <1> QED
    BY <1>10, <1>11

----------------------------------------------------------------------------
(* The steps of the consumers                                               *)

\* c and d keep the same of the blocks they have parsed.
Alike(c, d) ==
    /\ d.text = c.text /\ d.key_length = c.key_length /\ d.key_read_done = c.key_read_done
    /\ d.fields = c.fields /\ d.data = c.data /\ d.batch_complete = c.batch_complete

LEMMA AlikeKeeps ==
    ASSUME NEW c, NEW d, Alike(c, d)
    PROVE  /\ Clean(c) => Clean(d)
           /\ \A w, l : Keeps(w, l, c) => Keeps(w, l, d)
  <1>1. Clean(c) => Clean(d)
    BY DEF Alike, Clean, NoField
  <1>2. ASSUME NEW w, NEW l, Keeps(w, l, c)
        PROVE  Keeps(w, l, d)
    <2>1. CASE l.i = 1 /\ l.done = 0
      BY <1>1, <1>2, <2>1 DEF Keeps
    <2>2. CASE ~(l.i = 1 /\ l.done = 0) /\ w[l.n + 1].section = "data"
      <3>1. l.n < Len(w) /\ InBatch(w, l, c)
        BY <1>2, <2>2 DEF Keeps
      <3>2. InBatch(w, l, d)
        BY <3>1 DEF InBatch, NoField, Alike
      <3> QED
        BY <2>2, <3>1, <3>2 DEF Keeps
    <2>3. CASE ~(l.i = 1 /\ l.done = 0) /\ w[l.n + 1].section # "data"
      <3>1. l.n < Len(w) /\ InMap(w, l, c)
        BY <1>2, <2>3 DEF Keeps
      <3>2. InMap(w, l, d)
        BY <3>1 DEF InMap, Alike
      <3> QED
        BY <2>3, <3>1, <3>2 DEF Keeps
    <2> QED
      BY <2>1, <2>2, <2>3
  <1> QED
    BY <1>1, <1>2

LEMMA EnterKeeps ==
    ASSUME TypeInv, NEW c \in ReaderStates, NEW s \in Sections \union {"done"}, Clean(c)
    PROVE  /\ Clean(Enter(c, s))
           /\ Enter(c, s).section = s
           /\ Enter(c, s).end_stream = c.end_stream
           /\ Position(Enter(c, s)) = 0
  <1> DEFINE m == IF s = "trailers" THEN c.read_block_count ELSE 0
             none == <<>>
  <1>1. Enter(c, s) = [c EXCEPT !.section = s, !.waiting = TRUE, !.fields = none,
                                !.read_block_count = m, !.buffer_index = 1, !.block_index = 1]
    BY DEF Enter
  <1> DEFINE e == [c EXCEPT !.section = s, !.waiting = TRUE, !.fields = none,
                           !.read_block_count = m, !.buffer_index = 1, !.block_index = 1]
  <1> HIDE DEF m, none
  <1>2. /\ e.key_length = c.key_length /\ e.text = c.text /\ e.section = s
        /\ e.key_read_done = c.key_read_done /\ e.fields = none /\ e.data = c.data
        /\ e.batch_complete = c.batch_complete /\ e.end_stream = c.end_stream
        /\ e.buffer_index = 1 /\ e.block_index = 1
    BY DEF ReaderStates
  <1> HIDE DEF e
  <1>3. Enter(c, s) = e
    BY <1>1 DEF e
  <1>4. Clean(e)
    BY <1>2 DEF Clean, NoField, none
  <1>5. Position(e) = 0
    <2>1. capacity \in Nat
      BY EntryAssumption DEF TypeInv, TypeOK
    <2> QED
      BY <1>2, <2>1 DEF Position
  <1> QED
    BY <1>2, <1>3, <1>4, <1>5

LEMMA AdvancedKeeps ==
    ASSUME TypeInv, NEW c \in ReaderStates
    PROVE  /\ Alike(c, Advanced(c))
           /\ Advanced(c).section = c.section
           /\ Advanced(c).end_stream = c.end_stream
           /\ Position(Advanced(c)) = Position(c) + 1
  <1> DEFINE k == Counted(c)
             e == Advanced(c)
  <1>0. capacity \in Nat \ {0}
    BY EntryAssumption DEF TypeInv, TypeOK
  <1>1. k \in ReaderStates /\ k = [c EXCEPT !.read_block_count = k.read_block_count]
    BY CountedType
  <1>2. /\ k.text = c.text /\ k.key_length = c.key_length /\ k.key_read_done = c.key_read_done
        /\ k.fields = c.fields /\ k.data = c.data /\ k.batch_complete = c.batch_complete
        /\ k.section = c.section /\ k.end_stream = c.end_stream
    BY <1>1 DEF ReaderStates
  <1> HIDE DEF k
  <1>3. /\ e.text = k.text /\ e.key_length = k.key_length /\ e.key_read_done = k.key_read_done
        /\ e.fields = k.fields /\ e.data = k.data /\ e.batch_complete = k.batch_complete
        /\ e.section = k.section /\ e.end_stream = k.end_stream
    <2>1. CASE c.block_index = capacity
      <3>1. e = [k EXCEPT !.block_index = 1, !.buffer_index = k.buffer_index + 1,
                          !.waiting = TRUE]
        BY <2>1 DEF Advanced, k
      <3> QED
        BY <1>1, <3>1 DEF ReaderStates
    <2>2. CASE c.block_index # capacity
      <3>1. e = [k EXCEPT !.block_index = k.block_index + 1]
        BY <2>2 DEF Advanced, k
      <3> QED
        BY <1>1, <3>1 DEF ReaderStates
    <2> QED
      BY <2>1, <2>2
  <1>4. LET full == c.block_index = capacity IN
        /\ e.buffer_index = IF full THEN c.buffer_index + 1 ELSE c.buffer_index
        /\ e.block_index = IF full THEN 1 ELSE c.block_index + 1
    BY <1>0, AdvancedType
  <1>5. c.buffer_index \in Nat \ {0} /\ c.block_index \in 1..capacity
    BY DEF ReaderStates
  <1> HIDE DEF e
  <1>6. Position(e) = Position(c) + 1
    <2> DEFINE i == c.buffer_index - 1
               p == i * capacity
    <2>1. i \in Nat /\ c.buffer_index - 1 = i /\ c.buffer_index + 1 - 1 = i + 1
      BY <1>5
    <2> HIDE DEF i
    <2>2. p \in Nat /\ (i + 1) * capacity = p + capacity
      BY <1>0, <2>1, Times
    <2>3. Position(c) = p + c.block_index - 1
      BY <2>1 DEF Position
    <2>4. CASE c.block_index = capacity
      <3> DEFINE q == (i + 1) * capacity
      <3>0. e.buffer_index - 1 = i + 1 /\ e.block_index = 1
        <4>1. e.buffer_index = c.buffer_index + 1 /\ e.block_index = 1
          BY <1>4, <2>4
        <4> QED
          BY <1>5, <2>1, <4>1
      <3>1. Position(e) = q + 1 - 1
        BY <3>0 DEF Position
      <3>2. q = p + capacity
        BY <2>2
      <3> HIDE DEF p, q
      <3> QED
        BY <1>0, <2>2, <2>3, <2>4, <3>1, <3>2
    <2>5. CASE c.block_index # capacity
      <3>1. Position(e) = p + (c.block_index + 1) - 1
        BY <1>4, <2>1, <2>5 DEF Position
      <3> HIDE DEF p
      <3> QED
        BY <1>5, <2>2, <2>3, <3>1
    <2> QED
      BY <2>4, <2>5
  <1> QED
    BY <1>2, <1>3, <1>6 DEF e, Alike

\* The steps of a consumer that read nothing.
LEMMA QuietMarked ==
    ASSUME NamesAreTokens, TypeInv, out \in [Consumers -> Seq(CallSet)],
           NEW m, Marked(m), NEW r \in Consumers,
           Construct(r) \/ FillOnes(r) \/ GetBuffer(r)
    PROVE  /\ Marked(m)'
           /\ out' = out
           /\ \E d : /\ reader' = [reader EXCEPT ![r] = d]
                     /\ d.section \in Sections <=> reader[r].section \in Sections
                     /\ d.section # "done" /\ reader[r].section # "done"
  <1> DEFINE c == reader[r]
  <1>1. /\ c \in ReaderStates /\ reader \in [Consumers -> ReaderStates]
        /\ UNCHANGED <<capacity, calls, buffers, count, producerVars, sent, out>>
    BY DEF TypeInv, TypeOK, Construct, FillOnes, GetBuffer
  <1>2. out' = [out EXCEPT ![r] = out[r]]
    BY <1>1
  <1>3. Reading(m, c, out[r])
    BY DEF Marked
  <1>4. CASE Construct(r) \/ FillOnes(r)
    <2>1. PICK s \in {"fill", "idle"} : reader' = [reader EXCEPT ![r].section = s]
      BY <1>4 DEF Construct, FillOnes
    <2>2. c.section \in {"unborn", "fill"}
      BY <1>4 DEF Construct, FillOnes
    <2> DEFINE d == [c EXCEPT !.section = s]
    <2>3. reader' = [reader EXCEPT ![r] = d]
      BY <2>1
    <2>4. Clean(c) /\ out[r] = <<>>
      BY <1>3, <2>2 DEF Reading, Sections
    <2>5. d.section = s /\ Alike(c, d)
      BY <1>1 DEF ReaderStates, Alike
    <2> HIDE DEF d
    <2>6. Clean(d)
      BY <2>4, <2>5, AlikeKeeps
    <2>7. Reading(m, d, out[r])
      BY <2>1, <2>4, <2>5, <2>6 DEF Reading, Sections
    <2>8. Marked(m)'
      BY <1>1, <1>2, <2>3, <2>7, ConsumerMarked
    <2>9. /\ d.section \in Sections <=> c.section \in Sections
          /\ d.section # "done" /\ c.section # "done"
      BY <2>1, <2>2, <2>5 DEF Sections
    <2> QED
      BY <1>1, <2>3, <2>8, <2>9
  <1>5. CASE GetBuffer(r)
    <2> DEFINE d == [c EXCEPT !.waiting = FALSE]
    <2>1. reader' = [reader EXCEPT ![r] = d] /\ c.section \in Sections
      BY <1>5 DEF GetBuffer
    <2>2. /\ d.section = c.section /\ Alike(c, d) /\ d.end_stream = c.end_stream
          /\ Position(d) = Position(c)
      BY <1>1 DEF ReaderStates, Alike, Position
    <2> HIDE DEF d
    <2>3. Serving(m, c, out[r])
      BY <1>3, <2>1 DEF Reading, Sections
    <2>4. Serving(m, d, out[r])
      BY <2>2, <2>3, AlikeKeeps DEF Serving
    <2>5. Reading(m, d, out[r])
      BY <2>1, <2>2, <2>4 DEF Reading, Sections
    <2>6. Marked(m)'
      BY <1>1, <1>2, <2>1, <2>5, ConsumerMarked
    <2>7. d.section \in Sections /\ d.section # "done" /\ c.section # "done"
      BY <2>1, <2>2 DEF Sections
    <2> QED
      BY <1>1, <2>1, <2>6, <2>7
  <1> QED
    BY <1>4, <1>5

LEMMA ServeMarked ==
    ASSUME NamesAreTokens, TypeInv, Remaining, out \in [Consumers -> Seq(CallSet)],
           NEW m, Marked(m), NEW r \in Consumers, ServeCachedResponse(r)
    PROVE  /\ Marked(m)'
           /\ reader[r].section \notin Sections
           /\ out' = [out EXCEPT ![r] = <<>>]
           /\ \E d : reader' = [reader EXCEPT ![r] = d] /\ d.section \in Sections
  <1> DEFINE c == reader[r]
             b == FreshStart(c)
             d == Enter(b, "headers")
  <1>1. /\ c \in ReaderStates /\ reader \in [Consumers -> ReaderStates]
        /\ UNCHANGED <<capacity, calls, buffers, count, producerVars, sent>>
        /\ c.section \in {"idle", "done"}
        /\ reader' = [reader EXCEPT ![r] = d]
        /\ out' = [out EXCEPT ![r] = <<>>]
    BY DEF TypeInv, TypeOK, ServeCachedResponse
  <1>2. Clean(c)
    <2>1. Reading(m, c, out[r])
      BY DEF Marked
    <2> QED
      BY <1>1, <2>1 DEF Reading, Sections
  <1>3. b \in ReaderStates /\ Alike(c, b) /\ b.end_stream = FALSE
    BY <1>1 DEF FreshStart, ReaderStates, Alike
  <1> HIDE DEF b
  <1>4. Clean(b)
    BY <1>2, <1>3, AlikeKeeps
  <1>5. Clean(d) /\ d.section = "headers" /\ d.end_stream = FALSE /\ Position(d) = 0
    BY <1>3, <1>4, EnterKeeps DEF Sections
  <1> HIDE DEF d
  <1>6. /\ Script(Told, Batches) /\ Batches \in Nat /\ Told \in Seq(CallSet)
        /\ Len(Told) \in Nat \ {0}
    BY TheResponse
  <1>7. PICK l : l = m["headers"][0]
    OBVIOUS
  <1>8. l.n = 0 /\ l.i = 1 /\ l.done = 0
    <2>1. l = Mark(0, 1, 0)
      BY <1>6, <1>7, WhichSection DEF Marked, Sections
    <2> QED
      BY <2>1, MarkIs
  <1>9. SubSeq(Told, 1, 0) = <<>>
    BY <1>6, WholeAndNone
  <1>10. Keeps(Told, l, d)
    BY <1>5, <1>8 DEF Keeps
  <1>11. Serving(m, d, <<>>)
    BY <1>5, <1>6, <1>7, <1>8, <1>9, <1>10 DEF Serving
  <1>12. Reading(m, d, <<>>)
    BY <1>5, <1>11 DEF Reading, Sections
  <1>13. Marked(m)'
    BY <1>1, <1>12, ConsumerMarked
  <1> QED
    BY <1>1, <1>5, <1>13 DEF Sections

\* A block that is read is the one due at the mark of the reader, and leads to the
\* mark of its next block; a call is made on the stream when the mark is in the next
\* one.
LEMMA ReadMarked ==
    ASSUME NamesAreTokens, EntryInv, Remaining, OnesFirst, out \in [Consumers -> Seq(CallSet)],
           NEW m, Marked(m), NEW r \in Consumers, ReadBlock(r)
    PROVE  /\ Marked(m)'
           /\ reader[r].section \in Sections
           /\ \E d : /\ reader' = [reader EXCEPT ![r] = d]
                     /\ \/ out' = out /\ d.section \in Sections
                        \/ /\ Len(out[r]) < Made
                           /\ out' = [out EXCEPT ![r] = Append(@, Told[Len(@) + 1])]
                           /\ \/ d.section \in Sections
                              \/ d.section = "done" /\ complete = TRUE /\ out'[r] = Told
  <1> DEFINE c == reader[r]
             s == c.section
             i == c.buffer_index
             j == c.block_index
             b == buffers[s][i][j]
             o == out[r]
  <1>1. /\ TypeInv /\ ReadersBehind
        /\ c \in ReaderStates /\ reader \in [Consumers -> ReaderStates]
        /\ c.key_length <= Len(c.text)
        /\ s \in Sections /\ ~c.waiting
        /\ UNCHANGED <<capacity, calls, buffers, count, producerVars, sent>>
    BY DEF EntryInv, TypeInv, TypeOK, KeyInText, ReadBlock
  <1>2. i \in DOMAIN buffers[s] /\ j \in DOMAIN buffers[s][i]
    BY <1>1 DEF ReadersBehind, Behind, ReadBlock
  <1>3. PICK parsed : parsed = Parse(c, b)
    OBVIOUS
  <1>4. /\ reader' = [reader EXCEPT ![r] =
                        IF s = "trailers" /\ parsed.state.end_stream
                        THEN Enter(parsed.state, "done") ELSE Advanced(parsed.state)]
        /\ out' = [out EXCEPT ![r] = o \o parsed.call]
    BY <1>3 DEF ReadBlock
  <1>5. PICK p : p = Position(c)
    OBVIOUS
  <1>6. p \in Nat
    BY <1>1, <1>5, PositionType
  <1>7. PICK l : l = m[s][p]
    OBVIOUS
  <1>8. PICK next : next = Succ(Told, l)
    OBVIOUS
  <1>9. /\ Due(Told, l)
        /\ l.n < Made
        /\ SectionAt(Batches, l.n) = s
        /\ b = BlockAt(Told, l)
        /\ m[s][p + 1] = next
    <2>1. Placed(m, s, i, j)
      BY <1>1, <1>2 DEF Marked
    <2>2. p = (i - 1) * capacity + j - 1
      BY <1>5 DEF Position
    <2> HIDE DEF s, i, j
    <2> QED
      BY <1>7, <1>8, <2>1, <2>2 DEF Placed
  <1>10. /\ l.n \in 0..Len(Told)
         /\ o = SubSeq(Told, 1, l.n)
         /\ c.end_stream <=> l.n = Len(Told)
         /\ Keeps(Told, l, c)
    <2>1. Reading(m, c, o)
      BY DEF Marked
    <2>2. Serving(m, c, o)
      BY <1>1, <2>1 DEF Reading, Sections
    <2> QED
      BY <1>5, <1>7, <2>2 DEF Serving
  <1>11. /\ Script(Told, Batches) /\ Batches \in Nat /\ Told \in Seq(CallSet)
         /\ Len(Told) \in Nat \ {0} /\ Made \in Nat /\ Made <= Len(Told)
    BY <1>1, TheResponse
  <1>12. l.n \in Nat /\ l.n < Len(Told) /\ Told[l.n + 1].section = s
    <2>1. l.n \in Nat /\ l.n < Len(Told)
      BY <1>9, <1>10, <1>11
    <2> QED
      BY <1>9, <1>11, <2>1, ScriptCall
  <1>13. c.end_stream = FALSE
    BY <1>1, <1>10, <1>12 DEF ReaderStates
  <1>14. Follows(Told, l, c, parsed)
    <2>1. block_with_ones = Ones
      BY <1>1 DEF OnesFirst
    <2> QED
      BY <1>1, <1>3, <1>9, <1>10, <1>11, <1>12, <2>1, ParseAt
  <1>15. parsed.state \in ReaderStates /\ parsed.state.section = s
         /\ Position(parsed.state) = p
    <2>1. b \in Strings
      BY <1>1, <1>2, BlockType
    <2>2. Parsed(c, parsed.state)
      <3> HIDE DEF b, c
      <3> QED
        BY <1>1, <1>3, <2>1, ParseType
    <2> QED
      BY <1>5, <2>2 DEF Parsed, Position
  <1> HIDE DEF c, s, i, j, b, o
  <1>16. PICK d : d = parsed.state
    OBVIOUS
  <1>17. /\ next \in Marks
         /\ Keeps(Told, next, d)
         /\ \/ next.n = l.n /\ parsed.call = <<>> /\ d.end_stream = FALSE
            \/ /\ next = Mark(l.n + 1, 1, 0)
               /\ parsed.call = <<Told[l.n + 1]>>
               /\ d.end_stream <=> l.n + 1 = Len(Told)
    <2>1. next \in Marks /\ (next = Mark(l.n + 1, 1, 0) \/ next.n = l.n)
      <3>1. \/ next = Mark(l.n + 1, 1, 0)
            \/ \E x, y : next = Mark(l.n, x, y)
        BY <1>8 DEF Succ
      <3>2. next \in Marks
        BY <1>8, <1>9, <1>11, DueShape
      <3> QED
        BY <3>1, <3>2, MarkIs
    <2>2. /\ Keeps(Told, next, d)
          /\ next.n = l.n => parsed.call = <<>> /\ (d.end_stream <=> c.end_stream)
          /\ next.n # l.n =>
                /\ parsed.call = <<Told[l.n + 1]>>
                /\ d.end_stream <=> c.end_stream \/ l.n + 1 = Len(Told)
      BY <1>8, <1>14, <1>16 DEF Follows
    <2>3. d.end_stream \in BOOLEAN
      BY <1>15, <1>16 DEF ReaderStates
    <2>4. CASE next.n = l.n
      BY <1>13, <2>1, <2>2, <2>3, <2>4
    <2>5. CASE next.n # l.n
      BY <1>13, <2>1, <2>2, <2>5
    <2> QED
      BY <2>4, <2>5
  <1>18. /\ l.n + 1 \in 0..Len(Told) /\ Len(o) = l.n
         /\ o \o <<Told[l.n + 1]>> = SubSeq(Told, 1, l.n + 1)
         /\ Append(o, Told[Len(o) + 1]) = SubSeq(Told, 1, l.n + 1)
         /\ o \o <<>> = o
         /\ SubSeq(Told, 1, Len(Told)) = Told
    <2>1. l.n + 1 \in 0..Len(Told)
      BY <1>11, <1>12
    <2>2. Len(o) = l.n
      BY <1>10, <1>11, <1>12, Parts
    <2>3. /\ o \o <<Told[l.n + 1]>> = SubSeq(Told, 1, l.n + 1)
          /\ Append(o, Told[Len(o) + 1]) = SubSeq(Told, 1, l.n + 1)
      BY <1>10, <1>11, <1>12, <2>2, OneMore
    <2>4. o \o <<>> = o
      <3>1. o \in Seq(CallSet)
        BY DEF o
      <3> QED
        BY <3>1
    <2>5. SubSeq(Told, 1, Len(Told)) = Told
      BY <1>11, WholeAndNone
    <2> QED
      BY <2>1, <2>2, <2>3, <2>4, <2>5
  <1>19. CASE s = "trailers" /\ d.end_stream
    <2>1. /\ next = Mark(l.n + 1, 1, 0) /\ parsed.call = <<Told[l.n + 1]>>
          /\ l.n + 1 = Len(Told)
      BY <1>17, <1>19
    <2>2. Clean(d)
      <3>1. next.i = 1 /\ next.done = 0
        BY <2>1, MarkIs
      <3> QED
        BY <1>17, <3>1 DEF Keeps
    <2> DEFINE e == Enter(d, "done")
    <2>3. Clean(e) /\ e.section = "done"
      BY <1>1, <1>15, <1>16, <2>2, EnterKeeps
    <2>4. complete = TRUE
      <3>1. Batches < l.n
        BY <1>9, <1>11, <1>12, <1>19 DEF SectionAt
      <3>2. /\ complete \in BOOLEAN
            /\ Made = IF complete THEN Len(Told) ELSE Len(CallsOf(sent)) - Len(calls)
            /\ Len(calls) \in Nat /\ Len(CallsOf(sent)) \in Nat
            /\ \/ Len(CallsOf(sent)) = Batches + 1 /\ Len(Told) = Batches + 1
               \/ Len(CallsOf(sent)) = Batches + 2 /\ Len(Told) = Batches + 3
        BY <1>1, TheResponse
      <3>3. Made = Len(Told)
        BY <1>9, <1>11, <1>12, <2>1
      <3>4. CASE complete = FALSE
        <4>1. Made <= Len(CallsOf(sent))
          BY <3>2, <3>4
        <4>2. Len(CallsOf(sent)) < Len(Told)
          BY <1>11, <1>12, <2>1, <3>1, <3>2
        <4> QED
          BY <1>11, <3>2, <3>3, <4>1, <4>2
      <3> QED
        BY <3>2, <3>4
    <2>5. /\ reader' = [reader EXCEPT ![r] = e]
          /\ out' = [out EXCEPT ![r] = Told]
      BY <1>4, <1>16, <1>18, <1>19, <2>1
    <2> HIDE DEF e
    <2>6. Reading(m, e, Told)
      BY <2>3, <2>4 DEF Reading, Sections
    <2>7. Marked(m)'
      BY <1>1, <2>5, <2>6, ConsumerMarked
    <2>8. /\ Len(out[r]) < Made /\ out'[r] = Told
          /\ out' = [out EXCEPT ![r] = Append(@, Told[Len(@) + 1])]
      BY <1>9, <1>18, <2>1, <2>5 DEF o
    <2> QED
      BY <1>1, <2>3, <2>4, <2>5, <2>7, <2>8 DEF s, c
  <1>20. CASE ~(s = "trailers" /\ d.end_stream)
    <2> DEFINE e == Advanced(d)
    <2>1. /\ Alike(d, e) /\ e.section = s /\ e.end_stream = d.end_stream
          /\ Position(e) = p + 1
      BY <1>1, <1>15, <1>16, AdvancedKeeps
    <2>2. reader' = [reader EXCEPT ![r] = e]
      BY <1>4, <1>16, <1>20
    <2> HIDE DEF e
    <2>3. Keeps(Told, next, e)
      BY <1>17, <2>1, AlikeKeeps
    <2>4. e.section = "trailers" \/ Position(e) = 0 => ~e.end_stream
      BY <1>6, <1>20, <2>1
    <2>5. CASE next.n = l.n /\ parsed.call = <<>> /\ d.end_stream = FALSE
      <3>1. out' = [out EXCEPT ![r] = o]
        BY <1>4, <1>18, <2>5
      <3>2. Serving(m, e, o)
        <4>1. next.n # Len(Told) /\ l.n # Len(Told)
          BY <1>11, <1>12, <2>5
        <4> QED
          BY <1>9, <1>10, <2>1, <2>3, <2>4, <2>5, <4>1 DEF Serving
      <3>3. Reading(m, e, o)
        BY <1>1, <2>1, <3>2 DEF Reading, Sections, s
      <3>4. Marked(m)'
        BY <1>1, <2>2, <3>1, <3>3, ConsumerMarked
      <3>5. out' = out
        BY <3>1 DEF o
      <3> QED
        BY <1>1, <2>1, <2>2, <3>4, <3>5 DEF s, c
    <2>6. CASE /\ next = Mark(l.n + 1, 1, 0)
               /\ parsed.call = <<Told[l.n + 1]>>
               /\ d.end_stream <=> l.n + 1 = Len(Told)
      <3>0. next.n = l.n + 1
        BY <2>6, MarkIs
      <3> DEFINE q == SubSeq(Told, 1, l.n + 1)
      <3>1. out' = [out EXCEPT ![r] = q]
        BY <1>4, <1>18, <2>6
      <3>2. Serving(m, e, q)
        BY <1>9, <1>18, <2>1, <2>3, <2>4, <2>6, <3>0 DEF Serving
      <3>3. out' = [out EXCEPT ![r] = Append(@, Told[Len(@) + 1])] /\ Len(out[r]) < Made
        BY <1>9, <1>18, <3>1 DEF o
      <3> HIDE DEF q
      <3>4. Reading(m, e, q)
        BY <1>1, <2>1, <3>2 DEF Reading, Sections, s
      <3>5. Marked(m)'
        BY <1>1, <2>2, <3>1, <3>4, ConsumerMarked
      <3> QED
        BY <1>1, <2>1, <2>2, <3>3, <3>5 DEF s, c
    <2> QED
      BY <1>17, <2>5, <2>6
  <1> QED
    BY <1>19, <1>20

\* A consumer leaves a section at the number of blocks it has: its mark is that of the
\* next section, or that of the end, and it knows which.
LEMMA LeaveMarked ==
    ASSUME NamesAreTokens, EntryInv, Counting, Remaining, Bounded,
           out \in [Consumers -> Seq(CallSet)],
           NEW m, Marked(m), NEW r \in Consumers, LeaveSection(r)
    PROVE  /\ Marked(m)'
           /\ reader[r].section \in Sections
           /\ out' = out
           /\ \E d : /\ reader' = [reader EXCEPT ![r] = d]
                     /\ \/ d.section \in Sections
                        \/ d.section = "done" /\ complete = TRUE /\ out[r] = Told
  <1> DEFINE c == reader[r]
             s == c.section
             o == out[r]
  <1>1. /\ TypeInv /\ ReadersBehind
        /\ c \in ReaderStates /\ reader \in [Consumers -> ReaderStates]
        /\ s \in {"headers", "data"} /\ s \in Sections /\ section \in Sections
        /\ c.read_block_count >= count[s]
        /\ count \in [{"headers", "data"} -> Nat]
        /\ reader' = [reader EXCEPT ![r] = Enter(c, After(c))]
        /\ UNCHANGED <<capacity, calls, buffers, count, producerVars, out, sent>>
    BY DEF EntryInv, TypeInv, TypeOK, LeaveSection, ReadAll, Sections
  <1>2. out' = [out EXCEPT ![r] = o]
    BY <1>1
  <1>3. Position(c) = Blocks(s) /\ count[s] = Blocks(s) /\ Blocks(s) < MaxCount
        /\ count[s] # MaxCount
    <2>1. Position(c) <= Blocks(s) /\ c.read_block_count = Position(c)
      BY <1>1 DEF ReadersBehind, Behind
    <2>2. Blocks(s) \in Nat /\ Position(c) \in Nat /\ MaxCount \in Nat /\ count[s] \in Nat
      BY <1>1, BlocksType, PositionType, EntryAssumption
    <2>3. Blocks(s) < MaxCount
      BY <1>1 DEF Bounded
    <2>4. count[s] # MaxCount
      BY <1>1, <2>1, <2>2, <2>3
    <2>5. count[s] = Blocks(s)
      BY <1>1, <2>4, CountingExact DEF CountsExact
    <2> QED
      BY <1>1, <2>1, <2>2, <2>3, <2>4, <2>5
  <1>4. PICK l : l = m[s][Blocks(s)]
    OBVIOUS
  <1>5. /\ l.n \in 0..Len(Told)
        /\ o = SubSeq(Told, 1, l.n)
        /\ c.end_stream <=> l.n = Len(Told)
        /\ Keeps(Told, l, c)
    <2>1. Reading(m, c, o)
      BY DEF Marked
    <2>2. Serving(m, c, o)
      BY <1>1, <2>1 DEF Reading, Sections
    <2> QED
      BY <1>3, <1>4, <2>2 DEF Serving
  <1>6. /\ Script(Told, Batches) /\ Batches \in Nat /\ Told \in Seq(CallSet)
        /\ Len(Told) \in Nat \ {0} /\ Made \in Nat /\ Made <= Len(Told)
    BY <1>1, TheResponse
  <1> DEFINE d == Enter(c, After(c))
  <1>7. ASSUME l.i = 1, l.done = 0
        PROVE  /\ Clean(d) /\ d.section = After(c) /\ d.end_stream = c.end_stream
               /\ Position(d) = 0
    <2>1. Clean(c)
      BY <1>5, <1>7 DEF Keeps
    <2>2. After(c) \in Sections \union {"done"}
      BY DEF After, Sections
    <2> QED
      BY <1>1, <2>1, <2>2, EnterKeeps
  <1>8. CASE s = section
    <2>1. complete = TRUE /\ todo = <<>>
      BY <1>1, <1>3, <1>8 DEF Counting, InHeaders, InData, StoredLast, AtTheEnd
    <2>2. l = Mark(Made, 1, 0) /\ Made = Len(Told)
      BY <1>4, <1>8, <2>1 DEF Marked, AtWork, Made
    <2>3. l.n = Len(Told) /\ l.i = 1 /\ l.done = 0
      BY <2>2, MarkIs
    <2>4. After(c) = "done" /\ o = Told
      <3>1. c.end_stream
        BY <1>5, <2>3
      <3>2. SubSeq(Told, 1, Len(Told)) = Told
        BY <1>6, WholeAndNone
      <3> QED
        BY <1>5, <2>3, <3>1, <3>2 DEF After
    <2>5. Clean(d) /\ d.section = "done"
      BY <1>7, <2>3, <2>4
    <2> HIDE DEF d
    <2>6. Reading(m, d, o)
      BY <2>1, <2>4, <2>5 DEF Reading, Sections
    <2>7. Marked(m)'
      BY <1>1, <1>2, <2>6, ConsumerMarked DEF d
    <2> QED
      BY <1>1, <2>1, <2>4, <2>5, <2>7 DEF d
  <1>9. CASE s # section
    <2>1. PICK u \in Sections :
             /\ u = IF s = "headers" THEN "data" ELSE "trailers"
             /\ u # "headers"
      BY DEF Sections
    <2>2. /\ l = Mark(Before(Batches, u), 1, 0)
          /\ Before(Batches, u) \in Nat
          /\ Before(Batches, u) < Made
      <3>1. /\ Before(Batches, "data") = 1 /\ Before(Batches, "trailers") = Batches + 1
        BY <1>6, WhichSection
      <3>2. AtWork(m) /\ Apart(m)
        BY DEF Marked
      <3>3. section # "headers" => Before(Batches, section) < Made
        BY <3>2 DEF AtWork
      <3>4. CASE s = "headers"
        <4>1. section \in {"data", "trailers"}
          BY <1>1, <1>9, <3>4 DEF Sections
        <4>2. l = Mark(1, 1, 0)
          BY <1>4, <3>2, <3>4, <4>1 DEF Apart
        <4>3. 1 < Made
          BY <1>6, <3>1, <3>3, <4>1
        <4> QED
          BY <2>1, <3>1, <3>4, <4>2, <4>3
      <3>5. CASE s = "data"
        <4>1. section # "headers"
          BY <1>3, <3>5 DEF Counting, InHeaders
        <4>2. section = "trailers"
          BY <1>1, <1>9, <3>5, <4>1 DEF Sections
        <4>3. l = Mark(Batches + 1, 1, 0)
          BY <1>4, <3>2, <3>5, <4>2 DEF Apart
        <4> QED
          BY <1>6, <2>1, <3>1, <3>3, <3>5, <4>2, <4>3
      <3> QED
        BY <1>1, <3>4, <3>5
    <2>3. l.n = Before(Batches, u) /\ l.i = 1 /\ l.done = 0
      BY <2>2, MarkIs
    <2>4. l.n # Len(Told) /\ ~c.end_stream /\ c.end_stream = FALSE
      <3>1. l.n # Len(Told)
        BY <1>6, <2>2, <2>3
      <3>2. c.end_stream \in BOOLEAN
        BY <1>1 DEF ReaderStates
      <3> QED
        BY <1>5, <3>1, <3>2
    <2>5. After(c) = u
      BY <1>1, <2>1, <2>4 DEF After
    <2>6. Clean(d) /\ d.section = u /\ d.end_stream = FALSE /\ Position(d) = 0
      BY <1>7, <2>3, <2>4, <2>5
    <2> HIDE DEF d
    <2>7. m[u][0] = l
      BY <2>1, <2>2 DEF Marked
    <2>8. Keeps(Told, l, d)
      BY <2>3, <2>6 DEF Keeps
    <2>9. Serving(m, d, o)
      BY <1>5, <2>4, <2>6, <2>7, <2>8 DEF Serving
    <2>10. Reading(m, d, o)
      BY <2>1, <2>6, <2>9 DEF Reading, Sections
    <2>11. Marked(m)'
      BY <1>1, <1>2, <2>10, ConsumerMarked DEF d
    <2> QED
      BY <1>1, <2>1, <2>6, <2>11 DEF d
  <1> QED
    BY <1>8, <1>9

----------------------------------------------------------------------------
(* The invariant holds, and every step is one of LiveEntry                   *)

PhaseOf(c) ==
    CASE c.section \in Sections -> "serving"
      [] c.section = "done"    -> "done"
      [] OTHER                 -> "idle"
Phase == [r \in Consumers |-> PhaseOf(reader[r])]

LEMMA Phases ==
    /\ \A c : c.section \in Sections => PhaseOf(c) = "serving"
    /\ \A c : c.section = "done" => PhaseOf(c) = "done"
    /\ \A c : c.section \notin Sections => PhaseOf(c) # "serving"
    /\ \A c : c.section \notin Sections /\ c.section # "done" => PhaseOf(c) = "idle"
  BY DEF PhaseOf, Sections

LEMMA PhaseMoved ==
    ASSUME reader \in [Consumers -> ReaderStates], NEW r \in Consumers, NEW d,
           reader' = [reader EXCEPT ![r] = d]
    PROVE  /\ Phase' = [Phase EXCEPT ![r] = PhaseOf(d)]
           /\ Phase[r] = PhaseOf(reader[r])
           /\ PhaseOf(d) = PhaseOf(reader[r]) => Phase' = Phase
  <1>1. \A q \in Consumers : reader'[q] = IF q = r THEN d ELSE reader[q]
    OBVIOUS
  <1>2. Phase' = [q \in Consumers |-> PhaseOf(reader'[q])]
    BY DEF Phase, PhaseOf
  <1> QED
    BY <1>1, <1>2 DEF Phase

LEMMA InitFrame ==
    ASSUME DataFirst, NamesAreTokens, Init
    PROVE  FrameInv /\ Live!Init
  <1>1. EntryInv /\ Counting /\ TypeInv
    BY InitEntry, InitCounting DEF EntryInv
  <1>2. /\ sent \in Responses /\ calls = CallsOf(sent) /\ complete = FALSE
        /\ buffers = [s \in Sections |-> <<>>] /\ section = "headers"
        /\ todo = <<>> /\ first_write = TRUE /\ data_offset = 0
        /\ reader = [c \in Consumers |-> NewReader] /\ out = [c \in Consumers |-> <<>>]
    BY DEF Init
  <1>3. \A s \in Sections : Blocks(s) = 0 /\ buffers[s] = <<>>
    BY <1>2 DEF Blocks
  <1>4. Len(CallsOf(sent)) \in Nat /\ Batches \in Nat
    BY <1>2, ScriptOf DEF Batches, Script
  <1>5. Made = 0
    BY <1>2, <1>4 DEF Made
  <1>6. Remaining
    <2> DEFINE c == CallsOf(sent)
    <2>1. Len(c) \in Nat /\ calls = c
      BY <1>2, <1>4
    <2> HIDE DEF c
    <2>2. Len(calls) <= Len(c) /\ \A i \in 1..Len(calls) : calls[i] = c[Len(c) - Len(calls) + i]
      BY <2>1
    <2> QED
      BY <2>2 DEF Remaining, c
  <1>7. Ended
    BY <1>2 DEF Ended
  <1>8. out \in [Consumers -> Seq(CallSet)]
    BY <1>2
  <1>9. PICK m : m = [s \in Sections |-> [p \in Nat |-> Mark(Before(Batches, s), 1, 0)]]
    OBVIOUS
  <1>10. /\ m \in [Sections -> [Nat -> Marks]]
         /\ \A s \in Sections : m[s][0] = Mark(Before(Batches, s), 1, 0)
    <2>1. \A s \in Sections : Before(Batches, s) \in Nat
      BY <1>4 DEF Before
    <2>2. 1 \in Nat \ {0} /\ 0 \in Nat
      OBVIOUS
    <2>3. \A s \in Sections : Mark(Before(Batches, s), 1, 0) \in Marks
      BY <2>1, <2>2, MarkIs
    <2> QED
      BY <1>9, <2>2, <2>3
  <1>11. \A s \in Sections : DOMAIN buffers[s] = {}
    BY <1>3
  <1>12. AtWork(m)
    <2>1. Until(Batches, "headers") = 1 /\ Before(Batches, "headers") = 0
      BY <1>4, WhichSection
    <2>2. m[section][Blocks(section)] = Mark(0, 1, 0)
      BY <1>2, <1>3, <1>10, <2>1 DEF Sections
    <2> QED
      BY <1>2, <1>5, <2>1, <2>2 DEF AtWork
  <1>13. Apart(m)
    BY <1>2, <1>3 DEF Apart, Sections
  <1>14. Clean(NewReader) /\ NewReader.section = "unborn"
    BY DEF Clean, NoField, NewReader
  <1>15. \A r \in Consumers : Reading(m, reader[r], out[r])
    <2> SUFFICES ASSUME NEW r \in Consumers PROVE Reading(m, reader[r], out[r])
      OBVIOUS
    <2>1. reader[r] = NewReader /\ out[r] = <<>>
      BY <1>2
    <2> QED
      BY <1>14, <2>1 DEF Reading, Sections
  <1>16. Marked(m)
    BY <1>10, <1>11, <1>12, <1>13, <1>15 DEF Marked
  <1>17. FrameInv
    BY <1>1, <1>6, <1>7, <1>8, <1>10, <1>16 DEF FrameInv
  <1>18. Phase = [r \in Consumers |-> "idle"]
    BY <1>2, <1>14, Phases DEF Phase, Sections
  <1>19. Live!Init
    BY <1>2, <1>5, <1>18 DEF Live!Init, Made, Told, Phase, PhaseOf
  <1> QED
    BY <1>17, <1>19

\* What a step of the producer is to LiveEntry.
LEMMA ProducerFrame ==
    ASSUME NamesAreTokens, FrameInv, ProducerStep
    PROVE  FrameInv' /\ [Live!Next]_(Live!vars)
  <1>1. /\ EntryInv /\ Counting /\ Remaining /\ TypeInv /\ Filled
        /\ out \in [Consumers -> Seq(CallSet)]
    BY DEF FrameInv, EntryInv
  <1>2. PICK m : Marked(m)
    BY DEF FrameInv
  <1>3. EntryInv' /\ Counting'
    <2>1. [Next]_vars
      BY DEF Next
    <2> QED
      BY <1>1, <2>1, NextEntry, NextCounting
  <1>4. /\ UNCHANGED <<sent, reader, out>>
        /\ Remaining' /\ Ended'
        /\ \E k : Marked(k)'
        /\ \/ /\ complete = FALSE /\ complete' = FALSE
              /\ Made < Len(Told) /\ Made' = Made + 1
           \/ /\ complete = FALSE /\ complete' = TRUE
              /\ Made >= Len(Told) - 1 /\ Made' = Len(Told)
           \/ Made' = Made /\ complete' = complete
    <2>1. CASE EncodeHeaders \/ EncodeData \/ EncodeTrailers
      <3>1. /\ Marked(m)' /\ Remaining' /\ complete = FALSE /\ complete' = FALSE
            /\ Made < Len(Told) /\ Made' = Made + 1
            /\ UNCHANGED <<sent, reader, out>>
        BY <1>1, <1>2, <2>1, MakeMarked
      <3>2. Ended'
        BY <3>1 DEF Ended
      <3> QED
        BY <3>1, <3>2
    <2>2. CASE EmplaceBuffer \/ WriteBlock
      <3>1. /\ Remaining' /\ (\E k : Marked(k)')
            /\ Made' = Made /\ UNCHANGED <<sent, complete, reader, out>>
        BY <1>1, <1>2, <2>2, EmplaceMarked, WriteMarked
      <3>2. todo # <<>> /\ UNCHANGED section
        BY <2>2 DEF EmplaceBuffer, WriteBlock, producerVars
      <3>3. Ended'
        BY <1>1, <3>1, <3>2 DEF Ended, Counting, AtTheEnd
      <3> QED
        BY <3>1, <3>3
    <2>3. CASE WriteComplete
      BY <1>1, <1>2, <2>3, CompleteMarked
    <2> QED
      BY <2>1, <2>2, <2>3 DEF ProducerStep
  <1>5. FrameInv'
    <2>1. PICK k : Marked(k)'
      BY <1>4
    <2>2. k \in [Sections -> [Nat -> Marks]]
      BY <2>1 DEF Marked
    <2>3. (out \in [Consumers -> Seq(CallSet)])'
      BY <1>1, <1>4
    <2> QED
      BY <1>3, <1>4, <2>1, <2>2, <2>3 DEF FrameInv
  <1>6. Phase' = Phase /\ Told' = Told
    BY <1>4 DEF Phase, PhaseOf, Told
  <1>7. CASE complete = FALSE /\ complete' = FALSE /\ Made < Len(Told) /\ Made' = Made + 1
    <2>1. Live!Make
      BY <1>4, <1>6, <1>7 DEF Live!Make, Made, Told, Phase, PhaseOf
    <2> QED
      BY <1>5, <2>1 DEF Live!Next
  <1>8. CASE complete = FALSE /\ complete' = TRUE /\ Made >= Len(Told) - 1 /\ Made' = Len(Told)
    <2>1. Live!Finish
      BY <1>4, <1>6, <1>8 DEF Live!Finish, Made, Told, Phase, PhaseOf
    <2> QED
      BY <1>5, <2>1 DEF Live!Next
  <1>9. CASE Made' = Made /\ complete' = complete
    <2>1. UNCHANGED Live!vars
      BY <1>4, <1>6, <1>9 DEF Live!vars, Made, Told, Phase, PhaseOf
    <2> QED
      BY <1>5, <2>1
  <1> QED
    BY <1>4, <1>7, <1>8, <1>9

\* What a step of a consumer is to LiveEntry.
LEMMA ConsumerFrame ==
    ASSUME NamesAreTokens, FrameInv, OnesFirst, Bounded, NEW r \in Consumers,
           Construct(r) \/ ServeCachedResponse(r) \/ ConsumerStep(r)
    PROVE  FrameInv' /\ [Live!Next]_(Live!vars)
  <1> DEFINE c == reader[r]
             phase == PhaseOf(c)
  <1>1. /\ EntryInv /\ Counting /\ Remaining /\ TypeInv /\ Ended
        /\ out \in [Consumers -> Seq(CallSet)]
        /\ reader \in [Consumers -> ReaderStates]
    BY DEF FrameInv, EntryInv, TypeInv, TypeOK
  <1>2. PICK m : Marked(m)
    BY DEF FrameInv
  <1>3. EntryInv' /\ Counting'
    <2>1. [Next]_vars
      BY DEF Next
    <2> QED
      BY <1>1, <2>1, NextEntry, NextCounting
  <1>4. UNCHANGED <<capacity, calls, buffers, count, section, complete, sent>>
    BY DEF Construct, ServeCachedResponse, ConsumerStep, FillOnes, GetBuffer, ReadBlock,
           LeaveSection, producerVars
  <1>5. /\ Told' = Told /\ Made' = Made /\ Remaining' /\ Ended'
        /\ Told \in Seq(CallSet) /\ Len(Told) \in Nat /\ Made \in Nat /\ Made <= Len(Told)
    BY <1>1, <1>4, TheResponse DEF Told, Made, Remaining, Ended, Blocks, Last
  <1>6. ASSUME Marked(m)', (out \in [Consumers -> Seq(CallSet)])'
        PROVE  FrameInv'
    <2>1. m \in [Sections -> [Nat -> Marks]]
      BY <1>2 DEF Marked
    <2> QED
      BY <1>3, <1>5, <1>6, <2>1 DEF FrameInv
  <1>7. CASE Construct(r) \/ FillOnes(r) \/ GetBuffer(r)
    <2>1. /\ Marked(m)' /\ out' = out
          /\ \E d : /\ reader' = [reader EXCEPT ![r] = d]
                    /\ d.section \in Sections <=> reader[r].section \in Sections
                    /\ d.section # "done" /\ reader[r].section # "done"
      BY <1>1, <1>2, <1>7, QuietMarked
    <2>2. PICK d : /\ reader' = [reader EXCEPT ![r] = d]
                   /\ d.section \in Sections <=> reader[r].section \in Sections
                   /\ d.section # "done" /\ reader[r].section # "done"
      BY <2>1
    <2>3. PhaseOf(d) = PhaseOf(reader[r])
      BY <2>2, Phases
    <2>4. Phase' = Phase
      BY <1>1, <2>2, <2>3, PhaseMoved
    <2>5. UNCHANGED Live!vars
      BY <1>4, <1>5, <2>1, <2>4 DEF Live!vars, Made, Told, Phase, PhaseOf
    <2>6. (out \in [Consumers -> Seq(CallSet)])'
      BY <1>1, <2>1
    <2> QED
      BY <1>6, <2>1, <2>5, <2>6
  <1>8. CASE ServeCachedResponse(r)
    <2>1. /\ Marked(m)' /\ c.section \notin Sections
          /\ out' = [out EXCEPT ![r] = <<>>]
          /\ \E d : reader' = [reader EXCEPT ![r] = d] /\ d.section \in Sections
      BY <1>1, <1>2, <1>8, ServeMarked
    <2>2. PICK d : reader' = [reader EXCEPT ![r] = d] /\ d.section \in Sections
      BY <2>1
    <2>3. /\ Phase' = [Phase EXCEPT ![r] = "serving"]
          /\ Phase[r] # "serving"
      <3>1. PhaseOf(d) = "serving" /\ PhaseOf(reader[r]) # "serving"
        BY <2>1, <2>2, Phases
      <3> QED
        BY <1>1, <2>2, <3>1, PhaseMoved
    <2>4. Live!Begin(r)
      BY <1>4, <1>5, <2>1, <2>3 DEF Live!Begin, Made, Told, Phase, PhaseOf
    <2>5. (out \in [Consumers -> Seq(CallSet)])'
      BY <1>1, <2>1
    <2> QED
      BY <1>6, <2>1, <2>4, <2>5 DEF Live!Next
  <1>9. CASE ReadBlock(r)
    <2>1. /\ Marked(m)' /\ c.section \in Sections
          /\ \E d : /\ reader' = [reader EXCEPT ![r] = d]
                    /\ \/ out' = out /\ d.section \in Sections
                       \/ /\ Len(out[r]) < Made
                          /\ out' = [out EXCEPT ![r] = Append(@, Told[Len(@) + 1])]
                          /\ \/ d.section \in Sections
                             \/ d.section = "done" /\ complete = TRUE /\ out'[r] = Told
      BY <1>1, <1>2, <1>9, ReadMarked
    <2>2. PICK d : /\ reader' = [reader EXCEPT ![r] = d]
                   /\ \/ out' = out /\ d.section \in Sections
                      \/ /\ Len(out[r]) < Made
                         /\ out' = [out EXCEPT ![r] = Append(@, Told[Len(@) + 1])]
                         /\ \/ d.section \in Sections
                            \/ d.section = "done" /\ complete = TRUE /\ out'[r] = Told
      BY <2>1
    <2>3. Phase' = [Phase EXCEPT ![r] = PhaseOf(d)] /\ Phase[r] = "serving"
      BY <1>1, <2>1, <2>2, PhaseMoved, Phases
    <2>4. d.section \in Sections => Phase' = Phase
      <3>1. d.section \in Sections => PhaseOf(d) = PhaseOf(reader[r])
        BY <2>1, Phases
      <3> QED
        BY <1>1, <2>2, <3>1, PhaseMoved
    <2>5. CASE out' = out /\ d.section \in Sections
      <3>1. UNCHANGED Live!vars
        BY <1>4, <1>5, <2>4, <2>5 DEF Live!vars, Made, Told, Phase, PhaseOf
      <3>2. (out \in [Consumers -> Seq(CallSet)])'
        BY <1>1, <2>5
      <3> QED
        BY <1>6, <2>1, <3>1, <3>2
    <2>6. CASE /\ Len(out[r]) < Made
               /\ out' = [out EXCEPT ![r] = Append(@, Told[Len(@) + 1])]
               /\ \/ d.section \in Sections
                  \/ d.section = "done" /\ complete = TRUE /\ out'[r] = Told
      <3>1. Live!Deliver(r)
        BY <1>4, <1>5, <2>3, <2>6 DEF Live!Deliver, Made, Told, Phase, PhaseOf
      <3>2. ASSUME d.section \in Sections
            PROVE  Live!Next
        <4>1. Phase' = Phase
          BY <2>4, <3>2
        <4> QED
          BY <3>1, <4>1 DEF Live!Next, Phase, PhaseOf
      <3>3. ASSUME d.section = "done", complete = TRUE, out'[r] = Told
            PROVE  Live!Next
        <4>1. Phase' = [Phase EXCEPT ![r] = "done"]
          BY <2>3, <3>3, Phases
        <4>2. Live!Return(r)
          BY <3>3, <4>1 DEF Live!Return, Told, Phase, PhaseOf
        <4> QED
          BY <3>1, <4>2 DEF Live!Next
      <3>4. (out \in [Consumers -> Seq(CallSet)])'
        <4>1. out[r] \in Seq(CallSet) /\ Len(out[r]) \in Nat
          BY <1>1, LenProperties
        <4>2. Len(out[r]) + 1 \in 1..Len(Told)
          BY <1>5, <2>6, <4>1
        <4>3. Told[Len(out[r]) + 1] \in CallSet
          BY <1>5, <4>2, ElementOfSeq
        <4>4. Append(out[r], Told[Len(out[r]) + 1]) \in Seq(CallSet)
          BY <4>1, <4>3, AppendProperties
        <4> QED
          BY <1>1, <2>6, <4>4
      <3>5. FrameInv'
        BY <1>6, <2>1, <3>4
      <3>6. [Live!Next]_(Live!vars)
        BY <2>6, <3>2, <3>3
      <3> QED
        BY <3>5, <3>6
    <2> QED
      BY <2>2, <2>5, <2>6
  <1>10. CASE LeaveSection(r)
    <2>1. /\ Marked(m)' /\ c.section \in Sections /\ out' = out
          /\ \E d : /\ reader' = [reader EXCEPT ![r] = d]
                    /\ \/ d.section \in Sections
                       \/ d.section = "done" /\ complete = TRUE /\ out[r] = Told
      BY <1>1, <1>2, <1>10, LeaveMarked
    <2>2. PICK d : /\ reader' = [reader EXCEPT ![r] = d]
                   /\ \/ d.section \in Sections
                      \/ d.section = "done" /\ complete = TRUE /\ out[r] = Told
      BY <2>1
    <2>3. Phase' = [Phase EXCEPT ![r] = PhaseOf(d)] /\ Phase[r] = "serving"
      BY <1>1, <2>1, <2>2, PhaseMoved, Phases
    <2>4. [Live!Next]_(Live!vars)
      <3>1. CASE d.section \in Sections
        <4>1. Phase' = Phase
          <5>1. PhaseOf(d) = PhaseOf(reader[r])
            BY <2>1, <3>1, Phases
          <5> QED
            BY <1>1, <2>2, <5>1, PhaseMoved
        <4> QED
          BY <1>4, <1>5, <2>1, <4>1 DEF Live!vars, Made, Told, Phase, PhaseOf
      <3>2. CASE d.section = "done" /\ complete = TRUE /\ out[r] = Told
        <4>1. Phase' = [Phase EXCEPT ![r] = "done"]
          BY <2>3, <3>2, Phases
        <4>2. Live!Return(r)
          BY <2>1, <3>2, <4>1 DEF Live!Return, Told, Phase, PhaseOf
        <4> QED
          BY <1>4, <1>5, <2>1, <2>3, <4>2 DEF Live!Next, Made, Told, Phase, PhaseOf
      <3> QED
        BY <2>2, <3>1, <3>2
    <2>5. (out \in [Consumers -> Seq(CallSet)])'
      BY <1>1, <2>1
    <2> QED
      BY <1>6, <2>1, <2>4, <2>5
  <1> QED
    BY <1>7, <1>8, <1>9, <1>10 DEF ConsumerStep

LEMMA NextFrame ==
    ASSUME NamesAreTokens, FrameInv, OnesFirst, Bounded, [Next]_vars
    PROVE  FrameInv' /\ [Live!Next]_(Live!vars)
  <1>1. CASE Next
    BY <1>1, ProducerFrame, ConsumerFrame DEF Next
  <1>2. CASE UNCHANGED vars
    <2>1. /\ UNCHANGED <<capacity, calls, buffers, count, section, todo, first_write, data_offset,
                         complete, reader, out, sent>>
      BY <1>2 DEF vars, producerVars, stringVars, consumerVars
    <2>2. UNCHANGED Live!vars
      BY <2>1 DEF Live!vars
    <2>3. EntryInv' /\ Counting'
      BY <1>2, NextEntry, NextCounting DEF FrameInv
    <2>4. PICK m \in [Sections -> [Nat -> Marks]] : Marked(m)
      BY DEF FrameInv
    <2>5. Marked(m)'
      <3>1. /\ Told' = Told /\ Batches' = Batches /\ Made' = Made /\ Done' = Done
            /\ Blocks(section)' = Blocks(section)
            /\ \A s : Blocks(s)' = Blocks(s)
        BY <2>1 DEF Told, Batches, Made, Done, Blocks, Last
      <3>2. Made \in Nat /\ Made <= Made /\ TypeInv
        BY TheResponse DEF FrameInv, EntryInv
      <3>3. AtWork(m)'
        BY <2>1, <2>4, <3>1 DEF Marked, AtWork, Writing
      <3>4. Apart(m)'
        BY <2>1, <2>4, <3>1 DEF Marked, Apart
      <3> QED
        BY <2>1, <2>4, <3>1, <3>2, <3>3, <3>4, BlocksMarked
    <2>6. Remaining' /\ Ended' /\ (out \in [Consumers -> Seq(CallSet)])'
      BY <2>1 DEF FrameInv, Remaining, Ended, Blocks, Last
    <2> QED
      BY <2>2, <2>3, <2>4, <2>5, <2>6 DEF FrameInv
  <1> QED
    BY <1>1, <1>2

----------------------------------------------------------------------------
(* The theorems                                                             *)

\* Where each consumer is in the response, block by block, is where it should be, as
\* long as the array of ones is filled before it is used and no section is as long as
\* UINT32_MAX blocks.
LEMMA FrameInvariant ==
    ASSUME DataFirst, NamesAreTokens
    PROVE  Spec /\ [](OnesFirst /\ Bounded) => []FrameInv
  <1>1. Init => FrameInv
    BY InitFrame
  <1>2. FrameInv /\ (OnesFirst /\ Bounded) /\ [Next]_vars => FrameInv'
    BY NextFrame
  <1> QED
    BY <1>1, <1>2, PTL DEF Spec

\* README.md:22, "stream the response real-time": the cache entry is a LiveEntry.
\* Whatever the response, the block size, the capacity of the buffers and the number
\* of consumers, each consumer makes the calls of the origin on its stream, in order,
\* with the same content and the same end_stream, none before the origin, and returns
\* only when the response is complete and it has made all of them.
THEOREM EntryStreams ==
    ASSUME DataFirst, NamesAreTokens
    PROVE  Spec /\ [](OnesFirst /\ Bounded) => LiveEntrySpec
  <1>1. Init => FrameInv /\ Live!Init
    BY InitFrame
  <1>2. /\ FrameInv /\ (OnesFirst /\ Bounded) /\ [Next]_vars => FrameInv'
        /\ FrameInv /\ (OnesFirst /\ Bounded) /\ [Next]_vars => [Live!Next]_(Live!vars)
    BY NextFrame
  <1> QED
    BY <1>1, <1>2, PTL DEF Spec, LiveEntrySpec, Live!Spec

----------------------------------------------------------------------------
(* Nobody is stuck                                                          *)

\* Up to the number of its blocks, a list has one at every position.
LEMMA Within ==
    ASSUME NEW n \in Nat \ {0}, NEW list \in Seq(Seq(Strings)), AllFull(list, n),
           NEW i \in Nat \ {0}, NEW j \in 1..n, (i - 1) * n + j - 1 < InList(list, n)
    PROVE  i \in DOMAIN list /\ j \in DOMAIN list[i]
  <1> DEFINE p == (i - 1) * n
             l == Len(list)
  <1>1. /\ l \in Nat /\ DOMAIN list = 1..l
        /\ \A k \in 1..l : Len(list[k]) \in Nat /\ DOMAIN list[k] = 1..Len(list[k])
        /\ list # <<>> <=> l >= 1
    BY ListType
  <1>2. p \in Nat /\ i - 1 \in Nat
    BY Times
  <1>3. list # <<>>
    <2>1. list = <<>> => InList(list, n) = 0
      BY DEF InList
    <2> HIDE DEF p
    <2> QED
      BY <1>2, <2>1 DEF p
  <1> DEFINE q == (l - 1) * n
  <1>4. q \in Nat /\ InList(list, n) = q + Len(list[l]) /\ l - 1 \in Nat
    <2>1. l - 1 \in Nat
      BY <1>1, <1>3
    <2>2. q \in Nat
      BY <2>1, Times
    <2>3. InList(list, n) = (l - 1) * n + Len(list[l])
      BY <1>3 DEF InList
    <2> QED
      BY <2>1, <2>2, <2>3
  <1>5. l \in 1..l /\ Len(list[l]) \in Nat /\ Len(list[l]) <= n
    BY <1>1, <1>3 DEF AllFull
  <1>6. i <= l
    <2>1. CASE l <= i - 1
      <3>1. l * n <= p
        BY <1>1, <1>2, <2>1, Times
      <3>2. l * n = q + n
        <4>1. (l - 1 + 1) * n = q + n
          BY <1>4, Times
        <4>2. l - 1 + 1 = l
          BY <1>1
        <4> QED
          BY <4>1, <4>2
      <3> DEFINE z == l * n
      <3>3. z <= p /\ z = q + n /\ p + j - 1 < q + Len(list[l])
        BY <1>4, <3>1, <3>2
      <3> HIDE DEF p, q, z
      <3> QED
        BY <1>2, <1>4, <1>5, <3>3
    <2> QED
      BY <1>1, <2>1
  <1>7. CASE i = l
    <2>1. p = q /\ p + j - 1 < q + Len(list[l])
      BY <1>4, <1>7
    <2> HIDE DEF p, q
    <2>2. j <= Len(list[l])
      BY <1>2, <1>5, <2>1
    <2> QED
      BY <1>1, <1>5, <1>7, <2>2
  <1>8. CASE i < l
    <2>1. i \in 1..l
      BY <1>1, <1>8
    <2>2. Len(list[i]) = n
      BY <1>1, <1>8, <2>1 DEF AllFull
    <2> QED
      BY <1>1, <2>1, <2>2
  <1>9. i = l \/ i < l
    <2>1. l \in Nat
      BY <1>1
    <2> HIDE DEF l
    <2> QED
      BY <1>6, <2>1
  <1> QED
    BY <1>7, <1>8, <1>9

\* A consumer that is in front of a block of its section can go on.
LEMMA BlockThere ==
    ASSUME EntryInv, NEW c \in ReaderStates, c.section \in Sections,
           Position(c) < Blocks(c.section)
    PROVE  CanGoOn(c)
  <1> DEFINE list == buffers[c.section]
  <1>1. capacity \in Nat \ {0} /\ list \in Seq(Seq(Strings)) /\ AllFull(list, capacity)
        /\ Blocks(c.section) = InList(list, capacity)
    BY ListsType DEF EntryInv, Filled, Blocks, InList, Last
  <1>2. /\ c.buffer_index \in Nat \ {0} /\ c.block_index \in 1..capacity
        /\ c.waiting \in BOOLEAN
    BY DEF ReaderStates
  <1>3. (c.buffer_index - 1) * capacity + c.block_index - 1 < InList(list, capacity)
    BY <1>1 DEF Position
  <1>4. c.buffer_index \in DOMAIN list /\ c.block_index \in DOMAIN list[c.buffer_index]
    <2> HIDE DEF list
    <2> QED
      BY <1>1, <1>2, <1>3, Within
  <1> QED
    BY <1>2, <1>4 DEF CanGoOn

LEMMA FrameNotStuck ==
    ASSUME NamesAreTokens, FrameInv
    PROVE  NeverStuck
  <1> SUFFICES ASSUME complete = TRUE, todo = <<>>, NEW r \in Consumers,
                      reader[r].section \in Sections
               PROVE  CanGoOn(reader[r])
    <2>1. complete \in BOOLEAN
      BY DEF FrameInv, EntryInv, TypeInv, TypeOK
    <2> QED
      BY <2>1 DEF NeverStuck
  <1> DEFINE c == reader[r]
             s == c.section
  <1>1. /\ EntryInv /\ TypeInv /\ Counting /\ Remaining /\ Ended
        /\ c \in ReaderStates /\ Behind(c) /\ section \in Sections
    BY DEF FrameInv, EntryInv, TypeInv, TypeOK, ReadersBehind
  <1>2. PICK m : Marked(m)
    BY DEF FrameInv
  <1>3. PICK p : p = Position(c)
    OBVIOUS
  <1>4. PICK l : l = m[s][p]
    OBVIOUS
  <1>5. /\ l.n \in 0..Len(Told)
        /\ c.end_stream <=> l.n = Len(Told)
        /\ s = "trailers" \/ p = 0 => ~c.end_stream
    <2>1. Reading(m, c, out[r])
      BY <1>2 DEF Marked
    <2>2. Serving(m, c, out[r])
      BY <2>1 DEF Reading, Sections
    <2> QED
      BY <1>3, <1>4, <2>2 DEF Serving
  <1>6. /\ Batches \in Nat /\ Len(Told) \in Nat /\ Made = Len(Told)
        /\ Len(Told) = Batches + 1 \/ Len(Told) = Batches + 3
    BY <1>1, TheResponse
  <1>7. /\ AtWork(m) /\ Apart(m)
        /\ m[section][Blocks(section)] = Mark(Len(Told), 1, 0)
        /\ Len(Told) <= Until(Batches, section)
        /\ \A u \in Sections : m[u][0] = Mark(Before(Batches, u), 1, 0)
    BY <1>2, <1>6 DEF Marked, AtWork
  <1>8. /\ p \in Nat /\ p <= Blocks(s) /\ Blocks(s) \in Nat
        /\ s # "trailers" => c.read_block_count = p
    BY <1>1, <1>3, PositionType, BlocksType DEF Behind
  \* A consumer is not in a section that the producer has not come to.
  <1>9. /\ s = "trailers" => section = "trailers"
        /\ s = "data" => section # "headers"
    <2>1. ASSUME Blocks(s) = 0, Len(Told) <= Before(Batches, s)
          PROVE  FALSE
      <3>1. p = 0 /\ ~c.end_stream
        BY <1>5, <1>8, <2>1
      <3>2. l.n = Before(Batches, s)
        BY <1>4, <1>7, <3>1, MarkIs
      <3> QED
        BY <1>5, <1>6, <2>1, <3>1, <3>2
    <2>2. ASSUME s = "trailers", section # "trailers"
          PROVE  FALSE
      <3>1. Blocks(s) = 0
        BY <1>7, <2>2 DEF Apart
      <3>2. Until(Batches, section) <= Batches + 1
        BY <1>1, <1>6, <2>2 DEF Until, Sections
      <3>3. Before(Batches, s) = Batches + 1 /\ Until(Batches, section) \in Nat
        BY <1>1, <1>6, <2>2 DEF Before, Until
      <3> QED
        BY <1>6, <1>7, <2>1, <3>1, <3>2, <3>3
    <2>3. ASSUME s = "data", section = "headers"
          PROVE  FALSE
      <3>1. Blocks(s) = 0
        BY <1>7, <2>3 DEF Apart
      <3>2. Until(Batches, section) = 1 /\ Before(Batches, s) = 1
        BY <2>3 DEF Until, Before
      <3> QED
        BY <1>7, <2>1, <3>1, <3>2
    <2> QED
      BY <2>2, <2>3
  <1>10. CASE s = "trailers"
    <2>1. p # Blocks(s)
      <3>1. l.n = Len(Told) => FALSE
        BY <1>5, <1>10
      <3>2. p = Blocks(s) => l = Mark(Len(Told), 1, 0)
        BY <1>4, <1>7, <1>9, <1>10
      <3> QED
        BY <3>1, <3>2, MarkIs
    <2>2. p < Blocks(s)
      BY <1>8, <2>1
    <2> QED
      BY <1>1, <1>3, <2>2, BlockThere
  <1>11. CASE s # "trailers"
    <2>1. s \in {"headers", "data"}
      BY <1>11 DEF Sections
    <2>2. count[s] = Blocks(s)
      <3>1. CASE s = section
        BY <1>1, <1>11, <3>1 DEF Ended
      <3>2. CASE s # section
        BY <1>1, <1>9, <2>1, <3>2 DEF Counting, InData, InTrailers, Sections
      <3> QED
        BY <3>1, <3>2
    <2>3. CASE p = Blocks(s)
      <3>1. c.read_block_count >= count[s]
        BY <1>8, <1>11, <2>2, <2>3
      <3> QED
        BY <2>1, <3>1 DEF CanGoOn, ReadAll
    <2>4. CASE p # Blocks(s)
      <3>1. p < Blocks(s)
        BY <1>8, <2>4
      <3> QED
        BY <1>1, <1>3, <3>1, BlockThere
    <2> QED
      BY <2>3, <2>4
  <1> QED
    BY <1>10, <1>11

\* When the producer is through, whatever response it has written, every consumer
\* finds what it looks for until it is done: the safety half of ServeReturns.
THEOREM NobodyStuck ==
    ASSUME DataFirst, NamesAreTokens
    PROVE  Spec /\ [](OnesFirst /\ Bounded) => []NeverStuck
  <1>1. FrameInv => NeverStuck
    BY FrameNotStuck
  <1>2. Spec /\ [](OnesFirst /\ Bounded) => []FrameInv
    BY FrameInvariant
  <1> QED
    BY <1>1, <1>2, PTL

----------------------------------------------------------------------------
(* When the array of ones is there                                          *)

\* Once it is filled, the array of ones stays so.
LEMMA OnesStay == Spec /\ block_with_ones = Ones => []OnesFirst
  <1> DEFINE filled == block_with_ones = Ones
  <1>1. filled /\ [Next]_vars => filled'
    <2> SUFFICES ASSUME filled, [Next]_vars PROVE block_with_ones' = Ones
      BY DEF Ones
    <2>1. CASE ProducerStep
      BY <2>1 DEF ProducerStep, EncodeHeaders, EncodeData, EncodeTrailers, NextCall, EmplaceBuffer,
            WriteBlock, WriteComplete, consumerVars, onesVars
    <2>2. ASSUME NEW r \in Consumers,
                 Construct(r) \/ ServeCachedResponse(r) \/ ConsumerStep(r)
          PROVE  block_with_ones' = Ones
      BY <2>2 DEF Construct, ServeCachedResponse, ConsumerStep, FillOnes, GetBuffer, ReadBlock,
            LeaveSection, onesVars
    <2>3. CASE UNCHANGED vars
      BY <2>3 DEF vars, consumerVars, onesVars
    <2> QED
      BY <2>1, <2>2, <2>3 DEF Next
  <1>2. filled => OnesFirst
    BY DEF OnesFirst
  <1> HIDE DEF filled
  <1>3. Spec /\ filled => []OnesFirst
    BY <1>1, <1>2, PTL DEF Spec
  <1> QED
    BY <1>3 DEF filled

\* The only consumer fills the array in its constructor, unless another entry's
\* has, and so before it serves.
LEMMA OnesByFounder ==
    ASSUME Consumers = {Founder}
    PROVE  Spec => []OnesFirst
  <1> DEFINE place == reader[Founder].section
             ready ==
                 /\ reader \in [Consumers -> ReaderStates]
                 /\ \/ block_with_ones = Ones
                    \/ is_block_with_ones_initialized = FALSE /\ place = "unborn"
                    \/ place = "fill"
  <1>1. Init => ready
    <2> SUFFICES ASSUME Init PROVE ready
      OBVIOUS
    <2>1. reader \in [Consumers -> ReaderStates]
      BY InitEntry DEF EntryInv, TypeInv, TypeOK
    <2>2. place = "unborn"
      BY EntryAssumption DEF Init, NewReader
    <2> QED
      BY <2>1, <2>2 DEF Init
  <1>2. ready /\ EntryInv' /\ [Next]_vars => ready'
    <2> SUFFICES ASSUME ready, EntryInv', [Next]_vars PROVE ready'
      OBVIOUS
    <2>1. (reader \in [Consumers -> ReaderStates])'
      BY DEF EntryInv, TypeInv, TypeOK
    <2>2. CASE ProducerStep
      BY <2>1, <2>2 DEF ProducerStep, EncodeHeaders, EncodeData, EncodeTrailers, NextCall,
            EmplaceBuffer, WriteBlock, WriteComplete, consumerVars, onesVars, Ones
    <2>3. ASSUME NEW r \in Consumers,
                 Construct(r) \/ ServeCachedResponse(r) \/ ConsumerStep(r)
          PROVE  ready'
      <3>1. r = Founder
        OBVIOUS
      <3>2. CASE Construct(r)
        <4>1. /\ place = "unborn"
              /\ place' = IF is_block_with_ones_initialized THEN "idle" ELSE "fill"
              /\ UNCHANGED block_with_ones
          BY <3>1, <3>2 DEF Construct, ReaderStates
        <4> QED
          BY <2>1, <4>1 DEF Ones
      <3>3. CASE FillOnes(r)
        BY <2>1, <3>3 DEF FillOnes, Ones
      <3>4. CASE ServeCachedResponse(r) \/ GetBuffer(r) \/ ReadBlock(r) \/ LeaveSection(r)
        <4>1. place \notin {"unborn", "fill"}
          BY <3>1, <3>4 DEF ServeCachedResponse, GetBuffer, ReadBlock, LeaveSection, ReadAll,
                Sections
        <4>2. UNCHANGED onesVars
          BY <3>4 DEF ServeCachedResponse, GetBuffer, ReadBlock, LeaveSection
        <4> QED
          BY <2>1, <4>1, <4>2 DEF onesVars, Ones
      <3> QED
        BY <2>3, <3>2, <3>3, <3>4 DEF ConsumerStep
    <2>4. CASE UNCHANGED vars
      BY <2>1, <2>4 DEF vars, consumerVars, onesVars, Ones
    <2> QED
      BY <2>2, <2>3, <2>4 DEF Next
  <1>3. ready => OnesFirst
    BY DEF OnesFirst, Sections
  <1>4. Spec => []EntryInv
    BY EntryInvariant
  <1> HIDE DEF ready
  <1> QED
    BY <1>1, <1>2, <1>3, <1>4, PTL DEF Spec

\* In a process in which the array of ones was filled before the entry was created,
\* nothing has to be assumed of the consumers.
THEOREM EntryStreamsLater ==
    ASSUME DataFirst, NamesAreTokens
    PROVE  Spec /\ block_with_ones = Ones /\ []Bounded => LiveEntrySpec /\ []NeverStuck
  <1>1. Spec /\ [](OnesFirst /\ Bounded) => LiveEntrySpec
    BY EntryStreams
  <1>2. Spec /\ [](OnesFirst /\ Bounded) => []NeverStuck
    BY NobodyStuck
  <1> QED
    BY <1>1, <1>2, OnesStay, PTL

\* Nor has it with one consumer, that of the filter that creates the entry, whatever
\* became of the array before.
THEOREM FounderStreams ==
    ASSUME DataFirst, NamesAreTokens, Consumers = {Founder}
    PROVE  Spec /\ []Bounded => LiveEntrySpec /\ []NeverStuck
  <1>1. Spec /\ [](OnesFirst /\ Bounded) => LiveEntrySpec
    BY EntryStreams
  <1>2. Spec /\ [](OnesFirst /\ Bounded) => []NeverStuck
    BY NobodyStuck
  <1>3. Spec => []OnesFirst
    BY OnesByFounder
  <1> QED
    BY <1>1, <1>2, <1>3, PTL

=================================================================================
