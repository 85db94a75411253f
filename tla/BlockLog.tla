-------------------------------- MODULE BlockLog --------------------------------
(***************************************************************************)
(* What a ring buffer is to the entry it belongs to: an append-only log of   *)
(* at most Capacity messages, which any number of readers read at any        *)
(* position, each message whole and as often as they like.                   *)
(* RingBuffer implements it.                                                *)
(***************************************************************************)
EXTENDS Naturals, Sequences

CONSTANTS Readers, Messages, Capacity, Nil

VARIABLES
    log,  \* the messages, in the order in which they were written
    seen  \* the position and the message of the last read of each reader

Init ==
    /\ log = <<>>
    /\ seen = [r \in Readers |-> Nil]

Write(m) ==
    /\ Len(log) < Capacity
    /\ log' = Append(log, m)
    /\ UNCHANGED seen

Read(r, i) ==
    /\ i \in DOMAIN log
    /\ seen' = [seen EXCEPT ![r] = [index |-> i, message |-> log[i]]]
    /\ UNCHANGED log

Next ==
    \/ \E m \in Messages : Write(m)
    \/ \E r \in Readers, i \in 1..Capacity : Read(r, i)

Spec == Init /\ [][Next]_<<log, seen>>
=================================================================================
