-------------------------------- MODULE LRUCache --------------------------------
(***************************************************************************)
(* HTTPLRURAMCache: a map from keys to nodes of a list in LRU order, shared  *)
(* by the worker threads under one shared_mutex.  Each operation is made of  *)
(* several critical sections: what it found under the shared lock, it uses   *)
(* under the unique lock that it takes next.  One action per critical        *)
(* section.                                                                 *)
(*                                                                         *)
(* The filter calls at() and insert() for a key only as the founder of the   *)
(* key's open group (RequestCoalescing: one founder a key), so operations on *)
(* one key exclude one another; on different keys they run concurrently.     *)
(*                                                                         *)
(* A list has one node a key, so a node is named by its key, an iterator of  *)
(* the map and a reference to a node by the key they lead to.  Freeing what  *)
(* a thread still holds makes the thread "stale"; what it does next is       *)
(* undefined, and the model has no step for it.  An iterator of the map is a *)
(* pointer to its node, as in libstdc++: a rehash does not make it stale.    *)
(***************************************************************************)
EXTENDS Naturals, FiniteSets, Sequences, SequencesExt

CONSTANTS
    Threads,    \* the worker threads
    Keys,       \* request_headers_str_key_
    Values,     \* cache entries
    Capacities, \* the values of cache_capacity a configuration may give
    Nil         \* nullptr

ASSUME CacheAssumption ==
    /\ Capacities \subseteq Nat
    /\ Nil \notin Keys \union Values
    /\ IsFiniteSet(Keys)
    /\ IsFiniteSet(Threads)

VARIABLES
    factories, \* the cache_capacity of each filter factory there is
    config,    \* the cache_capacity of the filter each thread constructs
    capacity,  \* capacity_
    cache_map, \* the keys of cache_map_
    LRU_list,  \* LRU_list_, the most recently used node first
    pc,        \* the critical section each thread enters next
    key,       \* the argument key of its operation
    value,     \* the argument value, or the one at() found
    last,      \* lastNodeKey, a reference into the last node
    stale,     \* the threads that hold what another one has freed
    answer     \* history: what at() last returned

configVars == <<factories, config>>
opVars == <<key, value, last>>
vars == <<configVars, capacity, cache_map, LRU_list, pc, opVars, stale, answer>>

Sections == {"new", "idle", "init", "promote", "overwrite", "put", "check", "evict"}

Init ==
    /\ factories = {}
    /\ config = [p \in Threads |-> 0]
    /\ capacity = 0
    /\ cache_map = {}
    /\ LRU_list = <<>>
    /\ pc = [p \in Threads |-> "new"]
    /\ key = [p \in Threads |-> Nil]
    /\ value = [p \in Threads |-> Nil]
    /\ last = [p \in Threads |-> Nil]
    /\ stale = {}
    /\ answer = [p \in Threads |-> Nil]

Node(k, v) == [key |-> k, value |-> v]

Goto(p, s) == pc' = [pc EXCEPT ![p] = s]

----------------------------------------------------------------------------
(* Configuration: the factory of the filters and their constructor          *)

\* The validation of a configuration, cache_capacity greater than zero.
\* Mutation: every capacity passes.
AnyCapacity(c) == TRUE
Valid(c) == c > 0

\* A configuration that passes becomes a factory, for the life of the process.
CreateFilterFactory(c) ==
    /\ Valid(c)
    /\ factories' = factories \union {c}
    /\ UNCHANGED <<config, capacity, cache_map, LRU_list, pc, opVars, stale, answer>>

\* The constructor of a filter finds the capacity unset, under the shared lock, ...
ConstructFirst(p, c) ==
    /\ pc[p] = "new"
    /\ c \in factories
    /\ capacity = 0
    /\ config' = [config EXCEPT ![p] = c]
    /\ Goto(p, "init")
    /\ UNCHANGED <<factories, capacity, cache_map, LRU_list, opVars, stale, answer>>

\* ... or set.
ConstructLater(p) ==
    /\ pc[p] = "new"
    /\ factories # {}
    /\ capacity # 0
    /\ Goto(p, "idle")
    /\ UNCHANGED <<configVars, capacity, cache_map, LRU_list, opVars, stale, answer>>

\* What initCacheCapacity() makes of the capacity: it tests it again.
\* Mutations: it does not; it makes room for one more.
CapacityUnchecked(c) == c
CapacityOffByOne(c) == IF capacity # 0 THEN capacity ELSE c + 1
CapacitySet(c) == IF capacity # 0 THEN capacity ELSE c

InitCacheCapacity(p) ==
    /\ pc[p] = "init"
    /\ capacity' = CapacitySet(config[p])
    /\ Goto(p, "idle")
    /\ UNCHANGED <<configVars, cache_map, LRU_list, opVars, stale, answer>>

----------------------------------------------------------------------------
(* Freeing                                                                  *)

InOperation(p) == pc[p] \notin {"new", "init", "idle"}

\* No operation on k is under way.
Quiet(k) == \A p \in Threads : InOperation(p) => key[p] # k

\* The threads, other than p, that refer to the list node of k.
HoldNode(p, k) == {q \in Threads \ {p} : pc[q] = "evict" /\ last[q] = k}

\* Those that have an iterator of the map to k.
HoldSlot(p, k) ==
    {q \in Threads \ {p} : pc[q] \in {"promote", "overwrite"} /\ key[q] = k}

\* Where the iterator that the map has for k leads.
Position(k) == CHOOSE i \in DOMAIN LRU_list : LRU_list[i].key = k

WithoutKey(k) == RemoveAt(LRU_list, Position(k))

----------------------------------------------------------------------------
(* at()                                                                     *)

Begin(p, k) ==
    /\ pc[p] = "idle"
    /\ Quiet(k)

AtMiss(p, k) ==
    /\ Begin(p, k)
    /\ k \notin cache_map
    /\ answer' = [answer EXCEPT ![p] = Nil]
    /\ UNCHANGED <<configVars, capacity, cache_map, LRU_list, pc, opVars, stale>>

\* The value of the node that the map has for k.
ValueOf(k) == LRU_list[Position(k)].value

\* The most recent node needs no promotion, and only that one.
\* Mutation: a node in any place is left there.
StaysAnywhere(k) == TRUE
IsFront(k) == Head(LRU_list).key = k

AtFront(p, k) ==
    /\ Begin(p, k)
    /\ k \in cache_map
    /\ IsFront(k)
    /\ answer' = [answer EXCEPT ![p] = ValueOf(k)]
    /\ UNCHANGED <<configVars, capacity, cache_map, LRU_list, pc, opVars, stale>>

\* The lock is released with an iterator of the map and the value in hand.
AtFind(p, k) ==
    /\ Begin(p, k)
    /\ k \in cache_map
    /\ ~IsFront(k)
    /\ key' = [key EXCEPT ![p] = k]
    /\ value' = [value EXCEPT ![p] = ValueOf(k)]
    /\ Goto(p, "promote")
    /\ UNCHANGED <<configVars, capacity, cache_map, LRU_list, last, stale, answer>>

\* The old node is freed, a new one takes the front.
Promote(p) ==
    /\ pc[p] = "promote"
    /\ p \notin stale
    /\ LRU_list' = <<Node(key[p], value[p])>> \o WithoutKey(key[p])
    /\ stale' = stale \union HoldNode(p, key[p])
    /\ answer' = [answer EXCEPT ![p] = value[p]]
    /\ Goto(p, "idle")
    /\ UNCHANGED <<configVars, capacity, cache_map, opVars>>

----------------------------------------------------------------------------
(* insert()                                                                 *)

\* Whether an old element has to go first.
\* Mutation: the lookup is left out.
NeverOverwrites(k) == FALSE
Overwrites(k) == k \in cache_map

InsertFind(p, k, v) ==
    /\ Begin(p, k)
    /\ key' = [key EXCEPT ![p] = k]
    /\ value' = [value EXCEPT ![p] = v]
    /\ Goto(p, IF Overwrites(k) THEN "overwrite" ELSE "put")
    /\ UNCHANGED <<configVars, capacity, cache_map, LRU_list, last, stale, answer>>

\* The old element is freed, in the list and in the map; the unique lock is
\* released and taken again.
Overwrite(p) ==
    /\ pc[p] = "overwrite"
    /\ p \notin stale
    /\ LRU_list' = WithoutKey(key[p])
    /\ cache_map' = cache_map \ {key[p]}
    /\ stale' = stale \union HoldNode(p, key[p]) \union HoldSlot(p, key[p])
    /\ Goto(p, "put")
    /\ UNCHANGED <<configVars, capacity, opVars, answer>>

Put(p) ==
    /\ pc[p] = "put"
    /\ LRU_list' = <<Node(key[p], value[p])>> \o LRU_list
    /\ cache_map' = cache_map \union {key[p]}
    /\ Goto(p, "check")
    /\ UNCHANGED <<configVars, capacity, opVars, stale, answer>>

\* Mutations: one element more than the capacity may stay; an
\* element has to go as soon as the capacity is reached.
FullLate(n) == n > capacity + 1
FullEarly(n) == n >= capacity
Full(n) == n > capacity

\* Under the shared lock: within the capacity, insert() is done.
CheckFits(p) ==
    /\ pc[p] = "check"
    /\ ~Full(Cardinality(cache_map))
    /\ Goto(p, "idle")
    /\ UNCHANGED <<configVars, capacity, cache_map, LRU_list, opVars, stale, answer>>

\* Over it, insert() leaves the lock with a reference to the last node's key.
CheckFull(p) ==
    /\ pc[p] = "check"
    /\ Full(Cardinality(cache_map))
    /\ last' = [last EXCEPT ![p] = Last(LRU_list).key]
    /\ Goto(p, "evict")
    /\ UNCHANGED <<configVars, capacity, cache_map, LRU_list, key, value, stale, answer>>

\* What erase(lastNodeKey) leaves of the map.
\* Mutation: the map keeps the key of the popped node.
MapKept(k) == cache_map
MapWithout(k) == cache_map \ {k}

\* The key it refers to leaves the map, and the last node the list.
Evict(p) ==
    /\ pc[p] = "evict"
    /\ p \notin stale
    /\ cache_map' = MapWithout(last[p])
    /\ LRU_list' = Front(LRU_list)
    /\ stale' = stale \union HoldNode(p, last[p]) \union HoldSlot(p, last[p])
    /\ Goto(p, "idle")
    /\ UNCHANGED <<configVars, capacity, opVars, answer>>

----------------------------------------------------------------------------

Next ==
    \/ \E c \in Capacities : CreateFilterFactory(c)
    \/ \E p \in Threads :
        \/ \E c \in Capacities : ConstructFirst(p, c)
        \/ ConstructLater(p)
        \/ InitCacheCapacity(p)
        \/ \E k \in Keys : AtMiss(p, k) \/ AtFront(p, k) \/ AtFind(p, k)
        \/ Promote(p)
        \/ \E k \in Keys, v \in Values : InsertFind(p, k, v)
        \/ Overwrite(p)
        \/ Put(p)
        \/ CheckFits(p)
        \/ CheckFull(p)
        \/ Evict(p)

Spec == Init /\ [][Next]_vars

----------------------------------------------------------------------------
(* Properties                                                               *)

TypeOK ==
    /\ factories \subseteq Capacities
    /\ config \in [Threads -> Capacities \union {0}]
    /\ capacity \in Capacities \union {0}
    /\ cache_map \subseteq Keys
    /\ LRU_list \in Seq([key : Keys, value : Values])
    /\ pc \in [Threads -> Sections]
    /\ key \in [Threads -> Keys \union {Nil}]
    /\ value \in [Threads -> Values \union {Nil}]
    /\ last \in [Threads -> Keys \union {Nil}]
    /\ stale \subseteq Threads
    /\ answer \in [Threads -> Values \union {Nil}]

\* http_cache_rc_filter.cc:12, where 0 means that nobody has set the capacity: a
\* filter is in use only once the capacity of the cache all filters share is set,
\* whichever configurations there are and in whatever order filters are constructed.
\* With capacity 0 each insertion would evict itself.
ConfiguredBeforeUse ==
    \A p \in Threads : pc[p] \notin {"new", "init"} => capacity > 0

\* README.md:33, "Full multithread safety": no thread holds, across the gap
\* between the shared and the unique lock, an iterator or a reference into what
\* another thread has freed meanwhile.
NoDanglingUse == stale = {}

\* Each node of the list has its entry in the map, and the other way round, also
\* between the critical sections of an operation (http_lru_ram_cache.cc:33-63).
MapAndListAgree ==
    /\ {LRU_list[i].key : i \in DOMAIN LRU_list} = cache_map
    /\ Len(LRU_list) = Cardinality(cache_map)

\* The threads whose insertion has still to look at the capacity, or to evict.
Evicting == {p \in Threads : pc[p] \in {"check", "evict"}}

\* The cache exceeds its capacity by no more than the insertions that have still
\* to evict; with none under way it does not exceed it (http_lru_ram_cache.cc:55).
SizeBound == Cardinality(cache_map) <= capacity + Cardinality(Evicting)

----------------------------------------------------------------------------
(* The abstract specification                                               *)

\* The keys that an insertion is putting a new value for.
Pending == {key[p] : p \in {q \in Threads : pc[q] = "put"}}

A == INSTANCE LRU WITH size <- capacity, recent <- LRU_list, pending <- Pending,
                       owing <- Evicting

\* README.md:33 again: up to the first use of what was freed, and however the
\* critical sections of operations interleave, the cache amounts to one that is
\* configured once, looks up, puts and trims at once, and in the order of use.
AtomicLRU == A!Spec
=================================================================================
