------------------------------ MODULE SingleFlight ------------------------------
(***************************************************************************)
(* What request coalescing promises, without threads, locks or lists: the   *)
(* streams that ask for a key while a group of the key is open belong to    *)
(* that group; a group settles on one response, fetched by its founder or   *)
(* already landed; only what has landed is handed out, and each stream gets *)
(* at most one answer, the response of its own group.                       *)
(* RequestCoalescing implements this specification.                         *)
(***************************************************************************)
EXTENDS Sequences

CONSTANTS Requests, Keys, Nil

VARIABLES
    asked,    \* the key each stream asks for
    group,    \* the group it belongs to, named by the founder
    flight,   \* the open group of each key
    response, \* the response each group has settled on, named by its fetcher
    landed,   \* the responses that are complete
    answers   \* the answers each stream was given

avars == <<asked, group, flight, response, landed, answers>>

Init ==
    /\ asked = [r \in Requests |-> Nil]
    /\ group = [r \in Requests |-> Nil]
    /\ flight = [k \in Keys |-> Nil]
    /\ response = [g \in Requests |-> Nil]
    /\ landed = {}
    /\ answers = [r \in Requests |-> <<>>]

\* r asks for k: it opens a group, or belongs to the open one.
Ask(r, k) ==
    /\ asked[r] = Nil
    /\ asked' = [asked EXCEPT ![r] = k]
    /\ flight' = [flight EXCEPT ![k] = IF @ = Nil THEN r ELSE @]
    /\ group' = [group EXCEPT ![r] = flight'[k]]
    /\ UNCHANGED <<response, landed, answers>>

\* The open group g settles on its founder's fetch, or on a landed response.
Settle(g, e) ==
    /\ asked[g] # Nil /\ flight[asked[g]] = g
    /\ response[g] = Nil
    /\ e = g \/ e \in landed
    /\ asked[e] = asked[g]
    /\ response' = [response EXCEPT ![g] = e]
    /\ UNCHANGED <<asked, group, flight, landed, answers>>

\* The fetch of g is complete; the founder's own stream has it.
Land(g) ==
    /\ response[g] = g
    /\ g \notin landed
    /\ landed' = landed \union {g}
    /\ answers' = [answers EXCEPT ![g] = <<g>>]
    /\ UNCHANGED <<asked, group, flight, response>>

\* The group of k is over; the next stream that asks for k opens another.
Close(k) ==
    /\ flight[k] # Nil
    /\ response[flight[k]] \in landed
    /\ flight' = [flight EXCEPT ![k] = Nil]
    /\ UNCHANGED <<asked, group, response, landed, answers>>

\* The streams in S get the answer of their group.
Answer(S) ==
    /\ \A q \in S : /\ answers[q] = <<>>
                    /\ group[q] # Nil
                    /\ response[group[q]] \in landed
                    /\ asked[response[group[q]]] = asked[q]
    /\ answers' = [q \in Requests |-> IF q \in S THEN <<response[group[q]]>>
                                                 ELSE answers[q]]
    /\ UNCHANGED <<asked, group, flight, response, landed>>

Next ==
    \/ \E r \in Requests, k \in Keys : Ask(r, k)
    \/ \E g, e \in Requests : Settle(g, e)
    \/ \E g \in Requests : Land(g)
    \/ \E k \in Keys : Close(k)
    \/ \E S \in SUBSET Requests : Answer(S)

Spec == Init /\ [][Next]_avars

==============================================================================
