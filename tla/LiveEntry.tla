-------------------------------- MODULE LiveEntry --------------------------------
(***************************************************************************)
(* What a cache entry promises while it is being written: a response is a   *)
(* script of calls that the origin makes one after the other.  Readers come   *)
(* at any time; each makes the same calls in the same order, none before the  *)
(* origin, and is done only when the script is over and it has made them all. *)
(***************************************************************************)
EXTENDS Naturals, Sequences

CONSTANTS
    Readers,
    Scripts \* sequences of calls

VARIABLES
    script,
    made,  \* how many calls of it the origin has made
    over,  \* whether the origin has said that there are no more
    phase, \* of each reader
    out    \* the calls it has made on the stream it serves

vars == <<script, made, over, phase, out>>

Init ==
    /\ script \in Scripts
    /\ made = 0
    /\ over = FALSE
    /\ phase = [r \in Readers |-> "idle"]
    /\ out = [r \in Readers |-> <<>>]

Make ==
    /\ ~over
    /\ made < Len(script)
    /\ made' = made + 1
    /\ UNCHANGED <<script, over, phase, out>>

\* The end of a script with trailers is a call of its own.
Finish ==
    /\ ~over
    /\ made >= Len(script) - 1
    /\ made' = Len(script)
    /\ over' = TRUE
    /\ UNCHANGED <<script, phase, out>>

\* A reader serves one stream after the other.
Begin(r) ==
    /\ phase[r] # "serving"
    /\ phase' = [phase EXCEPT ![r] = "serving"]
    /\ out' = [out EXCEPT ![r] = <<>>]
    /\ UNCHANGED <<script, made, over>>

Deliver(r) ==
    /\ phase[r] = "serving"
    /\ Len(out[r]) < made
    /\ out' = [out EXCEPT ![r] = Append(@, script[Len(@) + 1])]
    /\ UNCHANGED <<script, made, over>>

\* A reader with the whole of a script that is over.
Return(r) ==
    /\ over
    /\ out'[r] = script
    /\ phase' = [phase EXCEPT ![r] = "done"]

Next ==
    \/ Make
    \/ Finish
    \/ \E r \in Readers :
          \/ Begin(r)
          \/ Deliver(r) /\ (Return(r) \/ UNCHANGED phase)
          \/ phase[r] = "serving" /\ UNCHANGED <<script, made, over, out>> /\ Return(r)

Spec == Init /\ [][Next]_vars
==================================================================================
