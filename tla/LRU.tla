---------------------------------- MODULE LRU ----------------------------------
(***************************************************************************)
(* A least-recently-used cache whose operations are atomic: what            *)
(* HTTPLRURAMCache is meant to be to the threads that share it.  Each        *)
(* insertion owes the cache a trim, a step of its own after the put; as long *)
(* as trims are owed the cache may be over its capacity, and lookups find    *)
(* what is still there.                                                     *)
(***************************************************************************)
EXTENDS Naturals, Sequences, SequencesExt, FiniteSets

CONSTANTS Threads, Keys, Values, Capacities, Nil

VARIABLES
    size,    \* the capacity, 0 until the first filter is constructed
    recent,  \* the nodes [key, value], the most recently used first
    pending, \* the keys that an insertion is putting a new value for
    owing,   \* the threads whose insertion has still to trim the cache
    answer   \* what the last lookup of each thread returned

lruVars == <<size, recent, pending, owing, answer>>

Init ==
    /\ size = 0
    /\ recent = <<>>
    /\ pending = {}
    /\ owing = {}
    /\ answer = [p \in Threads |-> Nil]

Keeps(k) == \E i \in DOMAIN recent : recent[i].key = k

\* What is left without the node of k, if there is one.
Without(k) ==
    IF Keeps(k) THEN RemoveAt(recent, CHOOSE i \in DOMAIN recent : recent[i].key = k)
                ELSE recent

\* The first configuration wins.
Configure(c) ==
    /\ size = 0
    /\ c > 0
    /\ size' = c
    /\ UNCHANGED <<recent, pending, owing, answer>>

\* A lookup returns the value and makes the node the most recent one.
Hit(p, node) ==
    /\ \E i \in DOMAIN recent : recent[i] = node
    /\ recent' = <<node>> \o Without(node.key)
    /\ answer' = [answer EXCEPT ![p] = node.value]
    /\ UNCHANGED <<size, pending, owing>>

\* Nobody looks a key up while its new value is pending.
Miss(p, k) ==
    /\ k \notin pending
    /\ ~Keeps(k)
    /\ answer' = [answer EXCEPT ![p] = Nil]
    /\ UNCHANGED <<size, recent, pending, owing>>

\* An insertion withdraws the node the key has, if any, ...
Withdraw(k) ==
    /\ size > 0
    /\ k \notin pending
    /\ recent' = Without(k)
    /\ pending' = pending \union {k}
    /\ UNCHANGED <<size, owing, answer>>

\* ... puts a new one first, ...
Put(p, node) ==
    /\ node.key \in pending
    /\ p \notin owing
    /\ recent' = <<node>> \o recent
    /\ pending' = pending \ {node.key}
    /\ owing' = owing \union {p}
    /\ UNCHANGED <<size, answer>>

\* ... and trims the cache: the least recently used node goes if there are too
\* many, those that are being put included; it stays only if there are not.
Trim(p) ==
    /\ p \in owing
    /\ owing' = owing \ {p}
    /\ \/ Len(recent) <= size /\ UNCHANGED recent
       \/ /\ recent # <<>>
          /\ Len(recent) + Cardinality(pending) > size
          /\ recent' = Front(recent)
    /\ UNCHANGED <<size, pending, answer>>

Next ==
    \/ \E c \in Capacities : Configure(c)
    \/ \E p \in Threads, k \in Keys : Miss(p, k)
    \/ \E p \in Threads, k \in Keys, v \in Values :
          Hit(p, [key |-> k, value |-> v]) \/ Put(p, [key |-> k, value |-> v])
    \/ \E k \in Keys : Withdraw(k)
    \/ \E p \in Threads : Trim(p)

Spec == Init /\ [][Next]_lruVars
================================================================================
