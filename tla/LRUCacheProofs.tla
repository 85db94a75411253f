----------------------------- MODULE LRUCacheProofs -----------------------------
(***************************************************************************)
(* The invariants of LRUCache, for any number of threads, keys, values and   *)
(* configurations: up to the first use of what was freed, map and list agree   *)
(* and the size is bounded.                                                  *)
(***************************************************************************)
EXTENDS LRUCache, FiniteSetTheorems, SequenceTheorems, TLAPS

Nodes == [key : Keys, value : Values]

KeysOf(s) == {s[i].key : i \in DOMAIN s}

\* No two nodes of a list have the same key.
Distinct(s) == \A i, j \in DOMAIN s : s[i].key = s[j].key => i = j

---------------------------------------------------------------------------------
(* Lists                                                                    *)

\* The elements of a list without its i-th one.
LEMMA RemoveElements ==
    ASSUME NEW S, NEW s \in Seq(S), NEW i \in DOMAIN s
    PROVE  /\ RemoveAt(s, i) \in Seq(S)
           /\ Len(RemoveAt(s, i)) = Len(s) - 1
           /\ \A j \in 1..(Len(s) - 1) :
                RemoveAt(s, i)[j] = IF j < i THEN s[j] ELSE s[j + 1]
<1> DEFINE a == SubSeq(s, 1, i - 1)
           b == SubSeq(s, i + 1, Len(s))
<1>1. i \in 1..Len(s) /\ Len(s) \in Nat
  OBVIOUS
<1>2. a \in Seq(S) /\ Len(a) = i - 1 /\ \A j \in 1..(i - 1) : a[j] = s[j]
  BY <1>1
<1>3. b \in Seq(S) /\ Len(b) = Len(s) - i /\ \A j \in 1..(Len(s) - i) : b[j] = s[i + j]
  BY <1>1
<1> HIDE DEF a, b
<1>4. /\ a \o b \in Seq(S)
      /\ Len(a \o b) = Len(s) - 1
      /\ \A j \in 1..(Len(s) - 1) : (a \o b)[j] = IF j < i THEN a[j] ELSE b[j - (i - 1)]
  <2>1. /\ a \o b \in Seq(S)
        /\ Len(a \o b) = Len(a) + Len(b)
        /\ \A j \in 1..(Len(a) + Len(b)) :
             (a \o b)[j] = IF j <= Len(a) THEN a[j] ELSE b[j - Len(a)]
    BY <1>2, <1>3, ConcatProperties
  <2>2. Len(a) + Len(b) = Len(s) - 1 /\ \A j \in 1..(Len(s) - 1) : j <= i - 1 <=> j < i
    <3> DEFINE m == Len(s)
    <3>1. i \in 1..m /\ m \in Nat /\ Len(a) = i - 1 /\ Len(b) = m - i
      BY <1>1, <1>2, <1>3
    <3> HIDE DEF m
    <3>2. Len(a) + Len(b) = m - 1 /\ \A j \in 1..(m - 1) : j <= i - 1 <=> j < i
      BY <3>1
    <3> QED BY <3>2 DEF m
  <2> QED BY <2>1, <2>2, <1>2
<1>5. \A j \in 1..(Len(s) - 1) : ~(j < i) => b[j - (i - 1)] = s[j + 1]
  <2> TAKE j \in 1..(Len(s) - 1)
  <2> HAVE ~(j < i)
  <2>1. j - (i - 1) \in 1..(Len(s) - i) /\ i + (j - (i - 1)) = j + 1
    BY <1>1
  <2> QED BY <2>1, <1>3
<1>6. RemoveAt(s, i) = a \o b
  BY DEF RemoveAt, a, b
<1>7. \A j \in 1..(Len(s) - 1) : j < i => a[j] = s[j]
  BY <1>1, <1>2
<1>8. \A j \in 1..(Len(s) - 1) : (a \o b)[j] = IF j < i THEN s[j] ELSE s[j + 1]
  BY <1>4, <1>5, <1>7
<1> QED BY <1>4, <1>6, <1>8

\* The keys of a list without its i-th node.
LEMMA RemoveKeys ==
    ASSUME NEW s \in Seq(Nodes), Distinct(s), NEW i \in DOMAIN s
    PROVE  /\ Distinct(RemoveAt(s, i))
           /\ KeysOf(RemoveAt(s, i)) = KeysOf(s) \ {s[i].key}
           /\ \A n \in Range(s) : n.key # s[i].key => n \in Range(RemoveAt(s, i))
           /\ i # Len(s) => /\ RemoveAt(s, i) # <<>>
                            /\ Last(RemoveAt(s, i)) = Last(s)
<1> DEFINE r == RemoveAt(s, i)
<1>1. /\ i \in 1..Len(s) /\ Len(s) \in Nat /\ DOMAIN s = 1..Len(s)
      /\ r \in Seq(Nodes) /\ Len(r) = Len(s) - 1 /\ DOMAIN r = 1..(Len(s) - 1)
      /\ \A j \in 1..(Len(s) - 1) : r[j] = IF j < i THEN s[j] ELSE s[j + 1]
  <2>1. /\ r \in Seq(Nodes) /\ Len(r) = Len(s) - 1
        /\ \A j \in 1..(Len(s) - 1) : r[j] = IF j < i THEN s[j] ELSE s[j + 1]
    BY RemoveElements
  <2> HIDE DEF r
  <2>2. DOMAIN r = 1..Len(r) /\ DOMAIN s = 1..Len(s) /\ Len(s) \in Nat
    BY <2>1, LenProperties
  <2> QED BY <2>1, <2>2
<1> HIDE DEF r
<1>2. \A j \in DOMAIN r :
        \E m \in DOMAIN s : m # i /\ r[j] = s[m] /\ m = IF j < i THEN j ELSE j + 1
  BY <1>1
<1>3. Distinct(r)
  BY <1>1, <1>2 DEF Distinct
<1>4. KeysOf(r) \subseteq KeysOf(s) \ {s[i].key}
  BY <1>1, <1>2 DEF KeysOf, Distinct
<1>5. \A m \in DOMAIN s : m # i => \E j \in DOMAIN r : r[j] = s[m]
  <2> TAKE m \in DOMAIN s
  <2> HAVE m # i
  <2>1. CASE m < i
    BY <1>1, <2>1
  <2>2. CASE m > i
    <3>1. m - 1 \in DOMAIN r /\ ~(m - 1 < i) /\ (m - 1) + 1 = m
      BY <1>1, <2>2
    <3> QED BY <1>1, <3>1
  <2> QED BY <1>1, <2>1, <2>2
<1>6. KeysOf(s) \ {s[i].key} \subseteq KeysOf(r)
  BY <1>5 DEF KeysOf
<1>7. i # Len(s) => r # <<>> /\ Last(r) = Last(s)
  BY <1>1 DEF Last
<1>8. \A n \in Range(s) : n.key # s[i].key => n \in Range(r)
  BY <1>5 DEF Range
<1> QED BY <1>3, <1>4, <1>6, <1>7, <1>8 DEF r

\* The keys of a list with one node more at its front.
LEMMA ConsKeys ==
    ASSUME NEW s \in Seq(Nodes), Distinct(s), NEW n \in Nodes, n.key \notin KeysOf(s)
    PROVE  /\ <<n>> \o s \in Seq(Nodes)
           /\ Len(<<n>> \o s) = Len(s) + 1
           /\ Distinct(<<n>> \o s)
           /\ KeysOf(<<n>> \o s) = KeysOf(s) \union {n.key}
           /\ Range(<<n>> \o s) = Range(s) \union {n}
           /\ s # <<>> => Last(<<n>> \o s) = Last(s)
<1> DEFINE r == <<n>> \o s
<1>1. /\ Len(s) \in Nat /\ DOMAIN s = 1..Len(s)
      /\ r \in Seq(Nodes) /\ Len(r) = Len(s) + 1 /\ DOMAIN r = 1..(Len(s) + 1)
      /\ r[1] = n /\ \A j \in DOMAIN s : r[j + 1] = s[j]
  OBVIOUS
<1> HIDE DEF r
<1>2. \A j \in DOMAIN r : j = 1 \/ \E m \in DOMAIN s : j = m + 1 /\ r[j] = s[m]
  <2> TAKE j \in DOMAIN r
  <2>1. j = 1 \/ (j - 1 \in DOMAIN s /\ j = (j - 1) + 1)
    BY <1>1
  <2> QED BY <1>1, <2>1
<1>3. Distinct(r)
  BY <1>1, <1>2 DEF Distinct, KeysOf
<1>4. KeysOf(r) = KeysOf(s) \union {n.key}
  <2>1. KeysOf(r) \subseteq KeysOf(s) \union {n.key}
    BY <1>1, <1>2 DEF KeysOf
  <2>2. KeysOf(s) \subseteq KeysOf(r)
    <3>1. \A m \in DOMAIN s : m + 1 \in DOMAIN r
      BY <1>1
    <3> QED BY <1>1, <3>1 DEF KeysOf
  <2>3. n.key \in KeysOf(r)
    BY <1>1 DEF KeysOf
  <2> QED BY <2>1, <2>2, <2>3
<1>5. s # <<>> => Last(r) = Last(s)
  BY <1>1 DEF Last
<1>6. Range(r) = Range(s) \union {n}
  <2>1. \A m \in DOMAIN s : m + 1 \in DOMAIN r /\ r[m + 1] = s[m]
    BY <1>1
  <2> QED BY <1>1, <1>2, <2>1 DEF Range
<1> QED BY <1>1, <1>3, <1>4, <1>5, <1>6 DEF r

\* The keys of a list without its last node.
LEMMA FrontKeys ==
    ASSUME NEW s \in Seq(Nodes), Distinct(s), s # <<>>
    PROVE  /\ Front(s) \in Seq(Nodes)
           /\ Len(Front(s)) = Len(s) - 1
           /\ Distinct(Front(s))
           /\ KeysOf(Front(s)) = KeysOf(s) \ {Last(s).key}
<1> DEFINE r == Front(s)
<1>1. /\ Len(s) \in Nat /\ Len(s) > 0 /\ DOMAIN s = 1..Len(s)
      /\ r \in Seq(Nodes) /\ Len(r) = Len(s) - 1 /\ DOMAIN r = 1..(Len(s) - 1)
      /\ \A j \in DOMAIN r : r[j] = s[j]
      /\ Last(s) = s[Len(s)]
  <2>1. Len(s) \in Nat /\ Len(s) > 0 /\ DOMAIN s = 1..Len(s)
    OBVIOUS
  <2>2. \A j \in 1..(Len(s) - 1) : s[j] \in Nodes
    BY <2>1
  <2>3. r = SubSeq(s, 1, Len(s) - 1)
    BY DEF Front
  <2> HIDE DEF r
  <2>4. /\ r \in Seq(Nodes)
        /\ Len(r) = IF 1 <= Len(s) - 1 THEN (Len(s) - 1) - 1 + 1 ELSE 0
        /\ \A j \in 1..((Len(s) - 1) - 1 + 1) : r[j] = s[1 + j - 1]
    BY <2>1, <2>2, <2>3, SubSeqProperties
  <2>5. Len(r) = Len(s) - 1 /\ DOMAIN r = 1..Len(r)
    <3>1. DOMAIN r = 1..Len(r)
      BY <2>4, LenProperties
    <3>2. \A n \in Nat : n > 0 => (IF 1 <= n - 1 THEN (n - 1) - 1 + 1 ELSE 0) = n - 1
      OBVIOUS
    <3> QED BY <2>1, <2>4, <3>1, <3>2
  <2>6. \A j \in 1..(Len(s) - 1) : r[j] = s[j]
    <3> TAKE j \in 1..(Len(s) - 1)
    <3>1. j \in 1..((Len(s) - 1) - 1 + 1) /\ 1 + j - 1 = j
      BY <2>1
    <3> QED BY <2>4, <3>1
  <2> QED BY <2>1, <2>4, <2>5, <2>6 DEF Last
<1> HIDE DEF r
<1>2. Distinct(r)
  BY <1>1 DEF Distinct
<1>3. KeysOf(r) = KeysOf(s) \ {Last(s).key}
  BY <1>1 DEF KeysOf, Distinct
<1> QED BY <1>1, <1>2, <1>3 DEF r

---------------------------------------------------------------------------------
(* The inductive invariant                                                  *)

\* Every capacity on its way into the cache is a valid one.
Configured ==
    /\ ConfiguredBeforeUse
    /\ \A c \in factories : c > 0
    /\ \A p \in Threads : pc[p] = "init" => config[p] > 0

\* An operation runs on a key of its own.
Exclusive ==
    /\ \A p \in Threads : InOperation(p) => key[p] \in Keys
    /\ \A p, q \in Threads : InOperation(p) /\ InOperation(q) /\ key[p] = key[q]
                                => p = q

\* Map and list have the same keys, each of them once.
Listed ==
    /\ Distinct(LRU_list)
    /\ KeysOf(LRU_list) = cache_map
    /\ Len(LRU_list) = Cardinality(cache_map)

\* What a thread carries from one critical section to the next is still so, or
\* the thread is stale.
Carried(p) ==
    /\ pc[p] \in {"promote", "overwrite", "put"} => value[p] \in Values
    /\ pc[p] \in {"promote", "overwrite"} /\ p \notin stale => key[p] \in cache_map
    /\ pc[p] = "put" => key[p] \notin cache_map
    /\ pc[p] = "evict" => last[p] \in Keys
    /\ pc[p] = "evict" /\ p \notin stale
         => LRU_list # <<>> /\ Last(LRU_list).key = last[p]

Holding == \A p \in Threads : Carried(p)

IInv == TypeOK /\ Configured /\ Exclusive /\ Listed /\ Holding /\ SizeBound

\* The initial state satisfies IInv.
LEMMA InitInv == Init => IInv
<1> SUFFICES ASSUME Init
             PROVE  IInv
  OBVIOUS
<1>1. TypeOK /\ Configured /\ Exclusive /\ Holding
  BY DEF Init, TypeOK, Sections, Configured, ConfiguredBeforeUse, Exclusive,
         InOperation, Holding, Carried
<1>2. Listed
  BY FS_EmptySet DEF Init, Listed, Distinct, KeysOf
<1>3. SizeBound
  <2>1. Evicting = {}
    BY DEF Init, Evicting
  <2> QED BY <2>1, FS_EmptySet DEF Init, SizeBound
<1> QED BY <1>1, <1>2, <1>3 DEF IInv

\* The map is finite, and its size a number.
LEMMA MapFinite == ASSUME TypeOK
                   PROVE  /\ IsFiniteSet(cache_map)
                          /\ Cardinality(cache_map) \in Nat
                          /\ Cardinality(Keys) \in Nat
                          /\ Cardinality(cache_map) <= Cardinality(Keys)
  BY CacheAssumption, FS_Subset, FS_CardinalityType DEF TypeOK

\* What the iterator of a key leads to, and what is left without it.
LEMMA WithoutFacts ==
    ASSUME TypeOK, Listed, NEW k \in cache_map
    PROVE  /\ Position(k) \in DOMAIN LRU_list
           /\ LRU_list[Position(k)].key = k
           /\ ValueOf(k) \in Values
           /\ WithoutKey(k) \in Seq(Nodes)
           /\ Len(WithoutKey(k)) = Len(LRU_list) - 1
           /\ Distinct(WithoutKey(k))
           /\ KeysOf(WithoutKey(k)) = cache_map \ {k}
           /\ \A n \in Range(LRU_list) : n.key # k => n \in Range(WithoutKey(k))
           /\ Last(LRU_list).key # k => /\ WithoutKey(k) # <<>>
                                       /\ Last(WithoutKey(k)) = Last(LRU_list)
<1>1. \E i \in DOMAIN LRU_list : LRU_list[i].key = k
  BY DEF Listed, KeysOf
<1>2. Position(k) \in DOMAIN LRU_list /\ LRU_list[Position(k)].key = k
  BY <1>1 DEF Position
<1>3. LRU_list \in Seq(Nodes) /\ Distinct(LRU_list) /\ KeysOf(LRU_list) = cache_map
  BY DEF TypeOK, Listed, Nodes
<1>4. ValueOf(k) \in Values
  <2>1. LRU_list[Position(k)] \in Nodes
    BY <1>2, <1>3
  <2> QED BY <2>1 DEF ValueOf, Nodes
<1>5. Last(LRU_list).key # k => Position(k) # Len(LRU_list)
  BY <1>2 DEF Last
<1> QED BY <1>2, <1>3, <1>4, <1>5, RemoveElements, RemoveKeys DEF WithoutKey

\* A node more at the front of a list without its key.
LEMMA ConsFacts ==
    ASSUME NEW s \in Seq(Nodes), Distinct(s), NEW k \in Keys, NEW v \in Values,
           k \notin KeysOf(s)
    PROVE  /\ <<Node(k, v)>> \o s \in Seq(Nodes)
           /\ Len(<<Node(k, v)>> \o s) = Len(s) + 1
           /\ Distinct(<<Node(k, v)>> \o s)
           /\ KeysOf(<<Node(k, v)>> \o s) = KeysOf(s) \union {k}
           /\ Range(<<Node(k, v)>> \o s) = Range(s) \union {Node(k, v)}
           /\ s # <<>> => Last(<<Node(k, v)>> \o s) = Last(s)
<1>1. Node(k, v) \in Nodes /\ Node(k, v).key = k
  BY DEF Node, Nodes
<1> QED BY <1>1, ConsKeys

\* What eviction leaves, where the evictor is not stale.
LEMMA EvictFacts ==
    ASSUME TypeOK, Listed, Holding, NEW p \in Threads, pc[p] = "evict", p \notin stale
    PROVE  /\ last[p] \in cache_map
           /\ Front(LRU_list) \in Seq(Nodes)
           /\ Len(Front(LRU_list)) = Len(LRU_list) - 1
           /\ Distinct(Front(LRU_list))
           /\ KeysOf(Front(LRU_list)) = cache_map \ {last[p]}
<1>1. LRU_list # <<>> /\ Last(LRU_list).key = last[p]
  BY DEF Holding, Carried
<1>2. LRU_list \in Seq(Nodes) /\ Distinct(LRU_list) /\ KeysOf(LRU_list) = cache_map
  BY DEF TypeOK, Listed, Nodes
<1>3. Len(LRU_list) \in DOMAIN LRU_list
  BY <1>1, <1>2
<1>4. last[p] \in cache_map
  BY <1>1, <1>2, <1>3 DEF KeysOf, Last
<1> QED BY <1>1, <1>2, <1>4, FrontKeys

---------------------------------------------------------------------------------
(* Every step keeps IInv: the steps that leave map and list alone            *)

\* Threads that enter or leave the end of an insertion are counted.
LEMMA EvictingFinite == IsFiniteSet(Evicting) /\ Cardinality(Evicting) \in Nat
  BY CacheAssumption, FS_Subset, FS_CardinalityType DEF Evicting

\* Where the list and the map stay as they are, so does what is said of them.
LEMMA ListedKept == ASSUME Listed, UNCHANGED <<cache_map, LRU_list>>
                    PROVE  Listed'
  BY DEF Listed, Distinct, KeysOf

\* The making of factories and filters changes nothing for the operations.
LEMMA SetupKeeps ==
    ASSUME IInv, TypeOK', Configured', capacity <= capacity',
           UNCHANGED <<cache_map, LRU_list, opVars, stale>>,
           \A p \in Threads : \/ pc'[p] = pc[p]
                             \/ {pc[p], pc'[p]} \subseteq {"new", "init", "idle"}
    PROVE  IInv'
<1> USE DEF IInv, opVars
<1>1. Exclusive'
  BY DEF Exclusive, InOperation
<1>2. Holding'
  BY DEF Holding, Carried
<1>3. SizeBound'
  <2>1. Evicting' = Evicting
    BY DEF Evicting
  <2>2. capacity' \in Nat /\ capacity \in Nat
    BY CacheAssumption DEF TypeOK
  <2>3. cache_map' = cache_map
    OBVIOUS
  <2>4. Cardinality(cache_map) <= capacity + Cardinality(Evicting)
    BY DEF SizeBound
  <2> QED BY <2>1, <2>2, <2>3, <2>4, EvictingFinite, MapFinite DEF SizeBound
<1> QED BY <1>1, <1>2, <1>3, ListedKept

\* A configuration is accepted.
LEMMA FactoryStep == ASSUME IInv, NEW c \in Capacities, CreateFilterFactory(c)
                     PROVE  IInv'
<1> USE CacheAssumption DEF opVars, configVars
<1>1. TypeOK' /\ Configured'
  BY DEF IInv, TypeOK, Configured, ConfiguredBeforeUse, CreateFilterFactory, Valid
<1> QED BY <1>1, SetupKeeps DEF IInv, TypeOK, CreateFilterFactory

\* A filter is constructed.
LEMMA SetupStep ==
    ASSUME IInv, NEW p \in Threads,
           \/ \E c \in Capacities : ConstructFirst(p, c)
           \/ ConstructLater(p)
           \/ InitCacheCapacity(p)
    PROVE  IInv'
<1> USE CacheAssumption DEF opVars, configVars
<1>1. ASSUME NEW c \in Capacities, ConstructFirst(p, c)
      PROVE  IInv'
  <2>1. TypeOK' /\ Configured'
    BY <1>1 DEF IInv, TypeOK, Sections, Configured, ConfiguredBeforeUse, ConstructFirst, Goto
  <2> QED BY <1>1, <2>1, SetupKeeps DEF IInv, TypeOK, ConstructFirst, Goto
<1>2. CASE ConstructLater(p)
  <2>1. TypeOK' /\ Configured'
    BY <1>2 DEF IInv, TypeOK, Sections, Configured, ConfiguredBeforeUse, ConstructLater, Goto
  <2> QED BY <1>2, <2>1, SetupKeeps DEF IInv, TypeOK, ConstructLater, Goto
<1>3. CASE InitCacheCapacity(p)
  <2>1. TypeOK' /\ Configured' /\ capacity <= capacity'
    BY <1>3 DEF IInv, TypeOK, Sections, Configured, ConfiguredBeforeUse, InitCacheCapacity,
                CapacitySet, Goto
  <2> QED BY <1>3, <2>1, SetupKeeps DEF IInv, TypeOK, InitCacheCapacity, Goto
<1> QED BY <1>1, <1>2, <1>3

\* A lookup that leaves everything in its place.
LEMMA LookupStep ==
    ASSUME IInv, NEW p \in Threads, NEW k \in Keys, AtMiss(p, k) \/ AtFront(p, k)
    PROVE  IInv'
<1> USE DEF IInv
<1>1. UNCHANGED <<configVars, capacity, cache_map, LRU_list, pc, opVars, stale>>
  BY DEF AtMiss, AtFront
<1>2. answer' \in [Threads -> Values \union {Nil}]
  BY WithoutFacts DEF AtMiss, AtFront, TypeOK
<1> QED BY <1>1, <1>2, ListedKept
        DEF TypeOK, Configured, ConfiguredBeforeUse, Exclusive, Holding, Carried,
            InOperation, SizeBound, Evicting, opVars, configVars

\* An operation begins, with a key that no other one works on.
LEMMA BeginStep ==
    ASSUME IInv, NEW p \in Threads, NEW k \in Keys, NEW v \in Values, Begin(p, k),
           NEW s \in {"promote", "overwrite", "put"},
           s = "put" <=> k \notin cache_map,
           pc' = [pc EXCEPT ![p] = s], key' = [key EXCEPT ![p] = k],
           value' = [value EXCEPT ![p] = v],
           UNCHANGED <<configVars, capacity, cache_map, LRU_list, last, stale, answer>>
    PROVE  IInv'
<1> USE DEF IInv, Begin
<1>1. TypeOK'
  BY DEF TypeOK, Sections, configVars
<1>2. Configured'
  BY DEF TypeOK, Configured, ConfiguredBeforeUse, configVars
<1>3. Exclusive'
  <2>1. ASSUME NEW q \in Threads, InOperation(q)', q # p
        PROVE  InOperation(q) /\ key'[q] = key[q] /\ key[q] # k
    BY <2>1 DEF TypeOK, InOperation, Quiet
  <2>2. key'[p] = k
    BY DEF TypeOK
  <2> QED BY <2>1, <2>2 DEF Exclusive
<1>4. Listed'
  BY ListedKept
<1>5. Holding'
  BY DEF TypeOK, Holding, Carried
<1>6. SizeBound'
  <2>1. Evicting' = Evicting
    BY DEF TypeOK, Evicting
  <2> QED BY <2>1 DEF SizeBound
<1> QED BY <1>1, <1>2, <1>3, <1>4, <1>5, <1>6

\* An insertion looks at the capacity.
LEMMA CheckStep ==
    ASSUME IInv, NEW p \in Threads, CheckFits(p) \/ CheckFull(p)
    PROVE  IInv'
<1> USE DEF IInv
<1>1. /\ pc[p] = "check"
      /\ UNCHANGED <<configVars, capacity, cache_map, LRU_list, key, value, stale, answer>>
      /\ \/ /\ pc' = [pc EXCEPT ![p] = "idle"]
            /\ ~Full(Cardinality(cache_map))
            /\ UNCHANGED last
         \/ /\ pc' = [pc EXCEPT ![p] = "evict"]
            /\ Full(Cardinality(cache_map))
            /\ last' = [last EXCEPT ![p] = Last(LRU_list).key]
  BY DEF CheckFits, CheckFull, Goto, opVars
<1>2. Full(Cardinality(cache_map)) => LRU_list # <<>> /\ Last(LRU_list).key \in Keys
  <2> SUFFICES ASSUME Full(Cardinality(cache_map))
               PROVE  LRU_list # <<>> /\ Last(LRU_list).key \in Keys
    OBVIOUS
  <2>1. Len(LRU_list) > 0
    BY MapFinite, CacheAssumption DEF Full, Listed, TypeOK
  <2>2. LRU_list \in Seq(Nodes)
    BY DEF TypeOK, Nodes
  <2>3. LRU_list # <<>> /\ LRU_list[Len(LRU_list)] \in Nodes
    BY <2>1, <2>2
  <2> QED BY <2>3 DEF Last, Nodes
<1>3. TypeOK'
  BY <1>1, <1>2 DEF TypeOK, Sections, configVars
<1>4. Configured' /\ Exclusive'
  BY <1>1
     DEF TypeOK, Configured, ConfiguredBeforeUse, Exclusive, InOperation, configVars
<1>5. Listed'
  BY <1>1, ListedKept
<1>6. Holding'
  BY <1>1, <1>2 DEF TypeOK, Holding, Carried
<1>7. SizeBound'
  <2>1. CASE ~Full(Cardinality(cache_map))
    <3>1. Cardinality(Evicting)' \in Nat /\ capacity \in Nat
      <4>1. IsFiniteSet(Evicting')
        BY CacheAssumption, FS_Subset DEF Evicting
      <4> QED BY <4>1, FS_CardinalityType, CacheAssumption DEF TypeOK
    <3> QED BY <1>1, <2>1, <3>1, MapFinite DEF Full, SizeBound
  <2>2. CASE Full(Cardinality(cache_map))
    <3>1. Evicting' = Evicting
      BY <1>1, <2>2 DEF TypeOK, Evicting
    <3> QED BY <1>1, <3>1 DEF SizeBound
  <2> QED BY <2>1, <2>2
<1> QED BY <1>3, <1>4, <1>5, <1>6, <1>7

---------------------------------------------------------------------------------
(* Every step keeps IInv: the steps that change map and list                 *)

\* An operation that goes on, or ends, keeps its key.
LEMMA GoKeeps ==
    ASSUME IInv, NEW p \in Threads, InOperation(p), NEW s \in {"idle", "put", "check"},
           pc' = [pc EXCEPT ![p] = s], UNCHANGED <<configVars, capacity, key>>
    PROVE  Configured' /\ Exclusive'
  BY DEF IInv, TypeOK, Configured, ConfiguredBeforeUse, Exclusive, InOperation, configVars

LEMMA PromoteStep == ASSUME IInv, NEW p \in Threads, Promote(p)
                     PROVE  IInv'
<1> DEFINE k == key[p]
<1> USE DEF IInv
<1>1. /\ pc[p] = "promote" /\ p \notin stale
      /\ LRU_list' = <<Node(k, value[p])>> \o WithoutKey(k)
      /\ stale' = stale \union HoldNode(p, k)
      /\ answer' = [answer EXCEPT ![p] = value[p]]
      /\ pc' = [pc EXCEPT ![p] = "idle"]
      /\ UNCHANGED <<configVars, capacity, cache_map, key, value, last>>
  BY DEF Promote, Goto, opVars
<1>2. k \in cache_map /\ k \in Keys /\ value[p] \in Values
  BY <1>1 DEF Holding, Carried, TypeOK
<1>3. /\ WithoutKey(k) \in Seq(Nodes) /\ Distinct(WithoutKey(k))
      /\ Len(WithoutKey(k)) = Len(LRU_list) - 1
      /\ KeysOf(WithoutKey(k)) = cache_map \ {k}
      /\ Last(LRU_list).key # k => /\ WithoutKey(k) # <<>>
                                  /\ Last(WithoutKey(k)) = Last(LRU_list)
  BY <1>2, WithoutFacts
<1>4. /\ LRU_list' \in Seq(Nodes) /\ Distinct(LRU_list')
      /\ Len(LRU_list') = Len(WithoutKey(k)) + 1
      /\ KeysOf(LRU_list') = cache_map
      /\ Last(LRU_list).key # k => LRU_list' # <<>> /\ Last(LRU_list') = Last(LRU_list)
  <2>1. /\ LRU_list' \in Seq(Nodes) /\ Distinct(LRU_list')
        /\ Len(LRU_list') = Len(WithoutKey(k)) + 1
        /\ KeysOf(LRU_list') = (cache_map \ {k}) \union {k}
        /\ WithoutKey(k) # <<>> => Last(LRU_list') = Last(WithoutKey(k))
    BY <1>1, <1>2, <1>3, ConsFacts
  <2>2. LRU_list' # <<>>
    BY <1>1
  <2> QED BY <1>2, <1>3, <2>1, <2>2
<1> HIDE DEF k
<1>5. TypeOK'
  BY <1>1, <1>2, <1>4 DEF TypeOK, Sections, configVars, HoldNode, Nodes
<1>6. Configured' /\ Exclusive'
  BY <1>1, GoKeeps DEF InOperation
<1>7. Listed'
  <2>1. Len(LRU_list) \in Nat /\ Len(WithoutKey(k)) \in Nat
    BY <1>3 DEF TypeOK
  <2>2. Len(LRU_list') = Len(LRU_list) /\ cache_map' = cache_map
    BY <1>1, <1>3, <1>4, <2>1
  <2> QED BY <1>4, <2>2 DEF Listed
<1>8. Holding'
  <2>1. ASSUME NEW q \in Threads, pc'[q] = "evict", q \notin stale'
        PROVE  LRU_list' # <<>> /\ Last(LRU_list').key = last'[q]
    <3>1. q # p /\ pc[q] = "evict" /\ q \notin stale /\ last[q] # k
      BY <1>1, <2>1 DEF TypeOK, HoldNode
    <3> QED BY <1>1, <1>4, <3>1 DEF Holding, Carried
  <2> QED BY <1>1, <2>1 DEF TypeOK, Holding, Carried
<1>9. SizeBound'
  <2>1. Evicting' = Evicting
    BY <1>1 DEF TypeOK, Evicting
  <2> QED BY <1>1, <2>1 DEF SizeBound
<1> QED BY <1>5, <1>6, <1>7, <1>8, <1>9

LEMMA OverwriteStep == ASSUME IInv, NEW p \in Threads, Overwrite(p)
                       PROVE  IInv'
<1> DEFINE k == key[p]
<1> USE DEF IInv
<1>1. /\ pc[p] = "overwrite" /\ p \notin stale
      /\ LRU_list' = WithoutKey(k)
      /\ cache_map' = cache_map \ {k}
      /\ stale' = stale \union HoldNode(p, k) \union HoldSlot(p, k)
      /\ pc' = [pc EXCEPT ![p] = "put"]
      /\ UNCHANGED <<configVars, capacity, key, value, last, answer>>
  BY DEF Overwrite, Goto, opVars
<1>2. k \in cache_map /\ k \in Keys /\ value[p] \in Values
  BY <1>1 DEF Holding, Carried, TypeOK
<1>3. /\ LRU_list' \in Seq(Nodes) /\ Distinct(LRU_list')
      /\ Len(LRU_list') = Len(LRU_list) - 1
      /\ KeysOf(LRU_list') = cache_map'
      /\ Last(LRU_list).key # k => LRU_list' # <<>> /\ Last(LRU_list') = Last(LRU_list)
  BY <1>1, <1>2, WithoutFacts
<1>4. Cardinality(cache_map') = Cardinality(cache_map) - 1
  BY <1>1, <1>2, MapFinite, FS_RemoveElement
<1> HIDE DEF k
<1>5. TypeOK'
  BY <1>1, <1>3 DEF TypeOK, Sections, configVars, HoldNode, HoldSlot, Nodes
<1>6. Configured' /\ Exclusive'
  BY <1>1, GoKeeps DEF InOperation
<1>7. Listed'
  <2>1. Len(LRU_list)' = Cardinality(cache_map)'
    BY <1>3, <1>4 DEF Listed
  <2> QED BY <1>3, <2>1 DEF Listed, Distinct, KeysOf
<1>8. Holding'
  <2>1. ASSUME NEW q \in Threads, pc'[q] = "evict", q \notin stale'
        PROVE  LRU_list' # <<>> /\ Last(LRU_list').key = last'[q]
    <3>1. q # p /\ pc[q] = "evict" /\ q \notin stale /\ last[q] # k
      BY <1>1, <2>1 DEF TypeOK, HoldNode
    <3> QED BY <1>1, <1>3, <3>1 DEF Holding, Carried
  <2>2. ASSUME NEW q \in Threads, pc'[q] \in {"promote", "overwrite"}, q \notin stale'
        PROVE  key'[q] \in cache_map'
    <3>1. q # p /\ pc[q] \in {"promote", "overwrite"} /\ q \notin stale /\ key[q] # k
      BY <1>1, <2>2 DEF TypeOK, HoldSlot
    <3> QED BY <1>1, <3>1 DEF Holding, Carried
  <2> QED BY <1>1, <1>2, <2>1, <2>2 DEF TypeOK, Holding, Carried, k
<1>9. SizeBound'
  <2>1. Evicting' = Evicting
    BY <1>1 DEF TypeOK, Evicting
  <2>2. capacity' = capacity /\ capacity \in Nat
    BY <1>1, CacheAssumption DEF TypeOK
  <2> QED BY <1>4, <2>1, <2>2, MapFinite, EvictingFinite DEF SizeBound
<1> QED BY <1>5, <1>6, <1>7, <1>8, <1>9

LEMMA PutStep == ASSUME IInv, NEW p \in Threads, Put(p)
                 PROVE  IInv'
<1> DEFINE k == key[p]
<1> USE DEF IInv
<1>1. /\ pc[p] = "put"
      /\ LRU_list' = <<Node(k, value[p])>> \o LRU_list
      /\ cache_map' = cache_map \union {k}
      /\ pc' = [pc EXCEPT ![p] = "check"]
      /\ UNCHANGED <<configVars, capacity, key, value, last, stale, answer>>
  BY DEF Put, Goto, opVars
<1>2. k \notin cache_map /\ k \in Keys /\ value[p] \in Values
  BY <1>1 DEF Holding, Carried, Exclusive, InOperation
<1>3. /\ LRU_list' \in Seq(Nodes) /\ Distinct(LRU_list')
      /\ Len(LRU_list') = Len(LRU_list) + 1
      /\ KeysOf(LRU_list') = cache_map'
      /\ LRU_list # <<>> => Last(LRU_list') = Last(LRU_list)
      /\ LRU_list' # <<>>
  <2>1. LRU_list \in Seq(Nodes) /\ Distinct(LRU_list) /\ KeysOf(LRU_list) = cache_map
    BY DEF TypeOK, Listed, Nodes
  <2>2. LRU_list' # <<>>
    BY <1>1
  <2> QED BY <1>1, <1>2, <2>1, <2>2, ConsFacts
<1>4. Cardinality(cache_map') = Cardinality(cache_map) + 1
  BY <1>1, <1>2, MapFinite, FS_AddElement
<1> HIDE DEF k
<1>5. TypeOK'
  BY <1>1, <1>2, <1>3 DEF TypeOK, Sections, configVars, Nodes
<1>6. Configured' /\ Exclusive'
  BY <1>1, GoKeeps DEF InOperation
<1>7. Listed'
  <2>1. Len(LRU_list)' = Cardinality(cache_map)'
    BY <1>3, <1>4 DEF Listed
  <2> QED BY <1>3, <2>1 DEF Listed, Distinct, KeysOf
<1>8. Holding'
  <2>1. \A q \in Threads : pc[q] = "put" /\ q # p => key[q] # k
    BY <1>1 DEF Exclusive, InOperation, k
  <2> QED BY <1>1, <1>3, <2>1 DEF TypeOK, Holding, Carried
<1>9. SizeBound'
  <2>1. Evicting' = Evicting \union {p} /\ p \notin Evicting
    BY <1>1 DEF TypeOK, Evicting
  <2>2. Cardinality(Evicting') = Cardinality(Evicting) + 1
    BY <2>1, EvictingFinite, FS_AddElement
  <2>3. capacity' = capacity /\ capacity \in Nat
    BY <1>1, CacheAssumption DEF TypeOK
  <2> QED BY <1>4, <2>2, <2>3, MapFinite, EvictingFinite DEF SizeBound
<1> QED BY <1>5, <1>6, <1>7, <1>8, <1>9

LEMMA EvictStep == ASSUME IInv, NEW p \in Threads, Evict(p)
                   PROVE  IInv'
<1> DEFINE k == last[p]
<1> USE DEF IInv
<1>1. /\ pc[p] = "evict" /\ p \notin stale
      /\ LRU_list' = Front(LRU_list)
      /\ cache_map' = cache_map \ {k}
      /\ stale' = stale \union HoldNode(p, k) \union HoldSlot(p, k)
      /\ pc' = [pc EXCEPT ![p] = "idle"]
      /\ UNCHANGED <<configVars, capacity, key, value, last, answer>>
  BY DEF Evict, MapWithout, Goto, opVars
<1>2. /\ k \in cache_map /\ Last(LRU_list).key = k
      /\ LRU_list' \in Seq(Nodes) /\ Distinct(LRU_list')
      /\ Len(LRU_list') = Len(LRU_list) - 1
      /\ KeysOf(LRU_list') = cache_map'
  BY <1>1, EvictFacts DEF Holding, Carried
<1>3. Cardinality(cache_map') = Cardinality(cache_map) - 1
  BY <1>1, <1>2, MapFinite, FS_RemoveElement
<1> HIDE DEF k
<1>4. TypeOK'
  BY <1>1, <1>2 DEF TypeOK, Sections, configVars, HoldNode, HoldSlot, Nodes
<1>5. Configured' /\ Exclusive'
  BY <1>1, GoKeeps DEF InOperation
<1>6. Listed'
  <2>1. Len(LRU_list)' = Cardinality(cache_map)'
    BY <1>2, <1>3 DEF Listed
  <2> QED BY <1>2, <2>1 DEF Listed, Distinct, KeysOf
<1>7. Holding'
  <2>1. ASSUME NEW q \in Threads, pc'[q] = "evict"
        PROVE  q \in stale'
    <3>1. q # p /\ pc[q] = "evict"
      BY <1>1, <2>1 DEF TypeOK
    <3>2. q \notin stale => last[q] = k
      BY <1>2, <3>1 DEF Holding, Carried
    <3> QED BY <1>1, <3>1, <3>2 DEF HoldNode
  <2>2. ASSUME NEW q \in Threads, pc'[q] \in {"promote", "overwrite"}, q \notin stale'
        PROVE  key'[q] \in cache_map'
    <3>1. q # p /\ pc[q] \in {"promote", "overwrite"} /\ q \notin stale /\ key[q] # k
      BY <1>1, <2>2 DEF TypeOK, HoldSlot
    <3> QED BY <1>1, <3>1 DEF Holding, Carried
  <2> QED BY <1>1, <2>1, <2>2 DEF TypeOK, Holding, Carried
<1>8. SizeBound'
  <2>1. Evicting' = Evicting \ {p} /\ p \in Evicting
    BY <1>1 DEF TypeOK, Evicting
  <2>2. Cardinality(Evicting') = Cardinality(Evicting) - 1
    BY <2>1, EvictingFinite, FS_RemoveElement
  <2>3. capacity' = capacity /\ capacity \in Nat
    BY <1>1, CacheAssumption DEF TypeOK
  <2> QED BY <1>3, <2>2, <2>3, MapFinite, EvictingFinite DEF SizeBound
<1> QED BY <1>4, <1>5, <1>6, <1>7, <1>8

\* Every step keeps IInv.
LEMMA NextInv == ASSUME IInv, [Next]_vars
                 PROVE  IInv'
<1>1. ASSUME NEW p \in Threads, NEW k \in Keys, AtFind(p, k)
      PROVE  IInv'
  BY <1>1, BeginStep, WithoutFacts DEF AtFind, Goto, IInv
<1>2. ASSUME NEW p \in Threads, NEW k \in Keys, NEW v \in Values, InsertFind(p, k, v)
      PROVE  IInv'
  <2>1. CASE k \in cache_map
    BY <1>2, <2>1, BeginStep DEF InsertFind, Overwrites, Goto
  <2>2. CASE k \notin cache_map
    BY <1>2, <2>2, BeginStep DEF InsertFind, Overwrites, Goto
  <2> QED BY <2>1, <2>2
<1>3. CASE UNCHANGED vars
  BY <1>3, ListedKept
     DEF vars, configVars, opVars, IInv, TypeOK, Configured, ConfiguredBeforeUse,
         Exclusive, InOperation, Holding, Carried, SizeBound, Evicting
<1> QED BY <1>1, <1>2, <1>3, FactoryStep, SetupStep, LookupStep, CheckStep, PromoteStep,
           OverwriteStep, PutStep, EvictStep DEF Next

LEMMA Invariance == Spec => []IInv
<1>1. Init => IInv
  BY InitInv
<1>2. IInv /\ [Next]_vars => IInv'
  BY NextInv
<1> QED BY <1>1, <1>2, PTL DEF Spec

---------------------------------------------------------------------------------
(* The theorems about every behaviour                                       *)

\* The state of the cache is well-typed.
THEOREM TypeCorrect == Spec => []TypeOK
<1>1. IInv => TypeOK
  BY DEF IInv
<1> QED BY <1>1, Invariance, PTL

\* No filter is in use before the cache has a capacity, whatever configurations
\* there are and however the constructors of filters overlap.
THEOREM ConfiguredFirst == Spec => []ConfiguredBeforeUse
<1>1. IInv => ConfiguredBeforeUse
  BY DEF IInv, Configured
<1> QED BY <1>1, Invariance, PTL

\* The map and the list of the cache agree, up to the first use of what was freed.
THEOREM MapAndList == Spec => []MapAndListAgree
<1>1. IInv => MapAndListAgree
  BY DEF IInv, Listed, KeysOf, MapAndListAgree
<1> QED BY <1>1, Invariance, PTL

\* The cache is over its capacity by no more than the insertions under way.
THEOREM Bounded == Spec => []SizeBound
<1>1. IInv => SizeBound
  BY DEF IInv
<1> QED BY <1>1, Invariance, PTL

=================================================================================
