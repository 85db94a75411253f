--------------------------- MODULE LRUCacheRefinement ---------------------------
(***************************************************************************)
(* LRUCache implements LRU, for any number of threads, keys, values and      *)
(* configurations, and however their operations overlap: until a thread uses *)
(* what another one has freed, for which the model has no step.              *)
(***************************************************************************)
EXTENDS LRUCacheProofs

\* Who is to evict, and is not stale, evicts from a cache that is over its
\* capacity, if what insertions have withdrawn and not yet put back is counted.
Crowded ==
    \A p \in Threads : pc[p] = "evict" /\ p \notin stale
                          => Cardinality(cache_map) + Cardinality(Pending) > capacity

\* Who is to promote a node, and is not stale, has the node that is in the list.
Current ==
    \A p \in Threads : pc[p] = "promote" /\ p \notin stale
                          => Node(key[p], value[p]) \in Range(LRU_list)

Prepared == IInv /\ Crowded /\ Current

\* The capacity is a number.
LEMMA CapacityNat == ASSUME TypeOK
                     PROVE  capacity \in Nat
  BY CacheAssumption DEF TypeOK

---------------------------------------------------------------------------------
(* The keys that are pending                                                 *)

\* They stay the same,
LEMMA PendingSame ==
    ASSUME \A q \in Threads : /\ pc'[q] = "put" <=> pc[q] = "put"
                              /\ pc[q] = "put" => key'[q] = key[q]
    PROVE  Pending' = Pending
  BY DEF Pending

\* or there is one more,
LEMMA PendingEnter ==
    ASSUME NEW p \in Threads, pc[p] # "put", pc'[p] = "put",
           \A q \in Threads \ {p} : pc'[q] = pc[q] /\ key'[q] = key[q]
    PROVE  Pending' = Pending \union {key'[p]}
  BY DEF Pending

\* or one less: an insertion that leaves its Put is the only one for its key.
LEMMA PendingPut ==
    ASSUME IInv, NEW p \in Threads, UNCHANGED key, pc[p] = "put",
           pc' = [pc EXCEPT ![p] = "check"]
    PROVE  Pending' = Pending \ {key[p]}
<1>1. /\ pc'[p] = "check"
      /\ \A q \in Threads \ {p} : pc'[q] = pc[q]
  BY DEF IInv, TypeOK
<1>2. \A q \in Threads \ {p} : pc[q] = "put" => key[q] # key[p]
  BY DEF IInv, Exclusive, InOperation
<1> QED BY <1>1, <1>2 DEF Pending

\* They are finitely many.
LEMMA PendingFinite == IsFiniteSet(Pending) /\ Cardinality(Pending) \in Nat
<1> DEFINE Putting == {q \in Threads : pc[q] = "put"}
           f == [q \in Putting |-> key[q]]
<1>1. IsFiniteSet(Putting)
  BY CacheAssumption, FS_Subset
<1>2. f \in Surjection(Putting, Pending)
  BY DEF Surjection, Pending
<1>3. IsFiniteSet(Pending)
  BY <1>1, <1>2, FS_Surjection
<1> QED BY <1>3, FS_CardinalityType

LEMMA PendingFiniteAfter == (IsFiniteSet(Pending) /\ Cardinality(Pending) \in Nat)'
  BY PendingFinite, PTL

---------------------------------------------------------------------------------
(* Crowded                                                                   *)

\* What keeps it: a step that makes no new evictor, and takes nothing out of the
\* map that is not pending from then on.
LEMMA CrowdedKept ==
    ASSUME Crowded, IInv,
           capacity' = capacity, stale \subseteq stale',
           Cardinality(cache_map') + Cardinality(Pending')
             >= Cardinality(cache_map) + Cardinality(Pending),
           Cardinality(cache_map') \in Nat, Cardinality(Pending') \in Nat,
           \A q \in Threads : pc'[q] = "evict" => pc[q] = "evict"
    PROVE  Crowded'
<1>1. Cardinality(cache_map) \in Nat /\ Cardinality(Pending) \in Nat /\ capacity \in Nat
  BY MapFinite, PendingFinite, CapacityNat DEF IInv
<1> QED BY <1>1 DEF Crowded

\* The sizes after a step are numbers.
LEMMA SizesAfter == ASSUME IInv, [Next]_vars
                    PROVE  Cardinality(cache_map') \in Nat /\ Cardinality(Pending') \in Nat
<1>1. TypeOK'
  BY NextInv DEF IInv
<1>2. Cardinality(cache_map') \in Nat
  BY <1>1, CacheAssumption, FS_Subset, FS_CardinalityType DEF TypeOK
<1> QED BY <1>2, PendingFiniteAfter

\* The capacity is set once.
LEMMA CapacityKept == ASSUME IInv, [Next]_vars, capacity # 0
                      PROVE  capacity' = capacity
<1>1. \A p \in Threads : InitCacheCapacity(p) => capacity' = capacity
  BY DEF InitCacheCapacity, CapacitySet
<1> QED BY <1>1
        DEF Next, vars, CreateFilterFactory, ConstructFirst, ConstructLater, AtMiss,
            AtFront, AtFind, Promote, InsertFind, Overwrite, Put, CheckFits,
            CheckFull, Evict

LEMMA CrowdedNext == ASSUME IInv, Crowded, [Next]_vars
                     PROVE  Crowded'
<1> USE DEF IInv
<1>0. CASE capacity = 0
  <2>1. \A q \in Threads : pc[q] \in {"new", "init"}
    BY <1>0 DEF Configured, ConfiguredBeforeUse
  <2>2. \A q \in Threads : pc'[q] # "evict"
    BY <1>0, <2>1
       DEF TypeOK, Next, vars, CreateFilterFactory, ConstructFirst, ConstructLater,
           InitCacheCapacity, AtMiss, AtFront, AtFind, Promote, InsertFind, Overwrite,
           Put, CheckFits, CheckFull, Evict, Begin, Goto
  <2> QED BY <2>2 DEF Crowded
<1> SUFFICES ASSUME capacity # 0
             PROVE  Crowded'
  BY <1>0
<1>1. /\ capacity' = capacity
      /\ Cardinality(cache_map') \in Nat /\ Cardinality(Pending') \in Nat
      /\ Cardinality(cache_map) \in Nat /\ Cardinality(Pending) \in Nat
      /\ capacity \in Nat
  BY CapacityKept, SizesAfter, MapFinite, PendingFinite, CapacityNat
<1>2. ASSUME \/ \E c \in Capacities : CreateFilterFactory(c)
             \/ \E p \in Threads, c \in Capacities : ConstructFirst(p, c)
             \/ \E p \in Threads : \/ ConstructLater(p) \/ InitCacheCapacity(p)
                                   \/ Promote(p) \/ CheckFits(p)
             \/ \E p \in Threads, k \in Keys : AtMiss(p, k) \/ AtFront(p, k) \/ AtFind(p, k)
             \/ UNCHANGED vars
      PROVE  Crowded'
  <2>1. UNCHANGED cache_map /\ stale \subseteq stale'
    BY <1>2 DEF vars, CreateFilterFactory, ConstructFirst, ConstructLater, InitCacheCapacity,
                AtMiss, AtFront, AtFind, Promote, CheckFits
  <2>2. \A q \in Threads : /\ pc'[q] = "put" <=> pc[q] = "put"
                           /\ pc[q] = "put" => key'[q] = key[q]
                           /\ pc'[q] = "evict" => pc[q] = "evict"
    BY <1>2 DEF TypeOK, vars, opVars, CreateFilterFactory, ConstructFirst, ConstructLater,
                InitCacheCapacity, AtMiss, AtFront, AtFind, Promote, CheckFits, Begin, Goto
  <2>3. Pending' = Pending
    BY <2>2, PendingSame
  <2> QED BY <1>1, <2>1, <2>2, <2>3, CrowdedKept
<1>3. ASSUME NEW p \in Threads, NEW k \in Keys, NEW v \in Values, InsertFind(p, k, v)
      PROVE  Crowded'
  <2>1. /\ UNCHANGED <<cache_map, stale>> /\ pc[p] = "idle" /\ Quiet(k)
        /\ pc'[p] \in {"overwrite", "put"} /\ key'[p] = k
        /\ \A q \in Threads \ {p} : pc'[q] = pc[q] /\ key'[q] = key[q]
    BY <1>3 DEF InsertFind, Begin, Goto, TypeOK
  <2>2. Cardinality(Pending') >= Cardinality(Pending)
    <3>1. CASE pc'[p] = "put"
      <4>1. Pending' = Pending \union {k}
        BY <2>1, <3>1, PendingEnter
      <4>2. k \notin Pending
        BY <2>1 DEF Quiet, Pending, InOperation
      <4>3. Cardinality(Pending') = Cardinality(Pending) + 1
        BY <4>1, <4>2, PendingFinite, FS_AddElement
      <4> QED BY <1>1, <4>3
    <3>2. CASE pc'[p] # "put"
      <4>1. Pending' = Pending
        BY <2>1, <3>2, PendingSame
      <4> QED BY <1>1, <4>1
    <3> QED BY <3>1, <3>2
  <2> QED BY <1>1, <2>1, <2>2, CrowdedKept
<1>4. ASSUME NEW p \in Threads, Overwrite(p)
      PROVE  Crowded'
  <2>1. /\ pc[p] = "overwrite" /\ pc'[p] = "put" /\ key' = key
        /\ cache_map' = cache_map \ {key[p]} /\ stale \subseteq stale'
        /\ \A q \in Threads \ {p} : pc'[q] = pc[q] /\ key'[q] = key[q]
        /\ key[p] \in cache_map
    BY <1>4 DEF Overwrite, Goto, TypeOK, opVars, Holding, Carried
  <2>2. Cardinality(cache_map') = Cardinality(cache_map) - 1
    BY <2>1, MapFinite, FS_RemoveElement
  <2>3. Pending' = Pending \union {key[p]}
    BY <2>1, PendingEnter
  <2>4. key[p] \notin Pending
    BY <2>1 DEF Exclusive, InOperation, Pending
  <2>5. Cardinality(Pending') = Cardinality(Pending) + 1
    BY <2>3, <2>4, PendingFinite, FS_AddElement
  <2> QED BY <1>1, <2>1, <2>2, <2>5, CrowdedKept
<1>5. ASSUME NEW p \in Threads, Put(p)
      PROVE  Crowded'
  <2>1. /\ pc[p] = "put" /\ pc' = [pc EXCEPT ![p] = "check"] /\ key' = key
        /\ cache_map' = cache_map \union {key[p]} /\ stale' = stale
        /\ key[p] \notin cache_map
    BY <1>5 DEF Put, Goto, opVars, Holding, Carried
  <2>2. Cardinality(cache_map') = Cardinality(cache_map) + 1
    BY <2>1, MapFinite, FS_AddElement
  <2>3. Pending' = Pending \ {key[p]} /\ key[p] \in Pending
    BY <2>1, PendingPut DEF Pending
  <2>4. Cardinality(Pending') = Cardinality(Pending) - 1
    BY <2>3, PendingFinite, FS_RemoveElement
  <2>5. \A q \in Threads : pc'[q] = "evict" => pc[q] = "evict"
    BY <2>1 DEF TypeOK
  <2> QED BY <1>1, <2>1, <2>2, <2>4, <2>5, CrowdedKept
<1>6. ASSUME NEW p \in Threads, CheckFull(p)
      PROVE  Crowded'
  <2>1. Cardinality(cache_map) > capacity /\ cache_map' = cache_map
    BY <1>6 DEF CheckFull, Full
  <2> QED BY <1>1, <2>1 DEF Crowded
<1>7. ASSUME NEW p \in Threads, Evict(p), NEW q \in Threads, pc'[q] = "evict"
      PROVE  q \in stale'
  <2>1. q # p /\ pc[q] = "evict" /\ pc[p] = "evict" /\ p \notin stale
        /\ stale' = stale \union HoldNode(p, last[p]) \union HoldSlot(p, last[p])
    BY <1>7 DEF TypeOK, Evict, Goto
  <2>2. q \notin stale => last[q] = last[p]
    BY <2>1 DEF Holding, Carried
  <2> QED BY <2>1, <2>2 DEF HoldNode
<1>8. ASSUME NEW p \in Threads, Evict(p)
      PROVE  Crowded'
  BY <1>7, <1>8 DEF Crowded
<1> QED BY <1>2, <1>3, <1>4, <1>5, <1>6, <1>8 DEF Next

---------------------------------------------------------------------------------
(* Current                                                                   *)

\* The last node is the only one that goes with the front of a list.
LEMMA FrontRange ==
    ASSUME NEW s \in Seq(Nodes), s # <<>>, NEW n \in Range(s), n.key # Last(s).key
    PROVE  n \in Range(Front(s))
<1>1. PICK i \in DOMAIN s : s[i] = n
  BY DEF Range
<1>2. i \in 1..Len(s) /\ Len(s) \in Nat /\ i # Len(s)
  BY <1>1 DEF Last
<1>3. i \in 1..(Len(s) - 1)
  BY <1>2
<1>4. \A j \in 1..(Len(s) - 1) : s[j] \in Nodes
  BY <1>2
<1>5. Front(s) = SubSeq(s, 1, Len(s) - 1)
  BY DEF Front
<1>6. i \in DOMAIN Front(s) /\ Front(s)[i] = n
  BY <1>1, <1>2, <1>3, <1>5
<1> QED BY <1>6 DEF Range

LEMMA CurrentNext == ASSUME IInv, Current, [Next]_vars
                     PROVE  Current'
<1>1. IInv /\ IInv'
  BY NextInv
<1>2. stale \subseteq stale'
  BY DEF Next, vars, CreateFilterFactory, ConstructFirst, ConstructLater,
         InitCacheCapacity, AtMiss, AtFront, AtFind, Promote, InsertFind, Overwrite, Put,
         CheckFits, CheckFull, Evict
<1> SUFFICES ASSUME NEW q \in Threads, pc'[q] = "promote", q \notin stale'
             PROVE  Node(key'[q], value'[q]) \in Range(LRU_list')
  BY DEF Current
<1>3. CASE pc[q] # "promote"
  <2>1. PICK k \in Keys : AtFind(q, k)
    <3>1. pc' # pc
      BY <1>3
    <3>2. ASSUME NEW p \in Threads, pc' = [pc EXCEPT ![p] = pc'[p]], pc'[p] # "promote"
          PROVE  FALSE
      BY <1>1, <1>3, <3>2 DEF IInv, TypeOK
    <3>3. \A p \in Threads, k \in Keys : AtFind(p, k) => p = q
      BY <1>1, <1>3 DEF IInv, TypeOK, AtFind, Goto
    <3>4. ASSUME NEW p \in Threads,
                 \/ \E c \in Capacities : ConstructFirst(p, c)
                 \/ ConstructLater(p) \/ InitCacheCapacity(p) \/ Promote(p)
                 \/ \E k \in Keys, v \in Values : InsertFind(p, k, v)
                 \/ Overwrite(p) \/ Put(p) \/ CheckFits(p) \/ CheckFull(p) \/ Evict(p)
          PROVE  pc' = [pc EXCEPT ![p] = pc'[p]] /\ pc'[p] # "promote"
      BY <1>1, <3>4
         DEF IInv, TypeOK, ConstructFirst, ConstructLater, InitCacheCapacity, Promote,
             InsertFind, Overwrite, Put, CheckFits, CheckFull, Evict, Goto
    <3> QED BY <3>1, <3>2, <3>3, <3>4
            DEF Next, vars, CreateFilterFactory, AtMiss, AtFront
  <2>2. key'[q] = k /\ value'[q] = ValueOf(k) /\ LRU_list' = LRU_list
    BY <1>1, <2>1 DEF AtFind, IInv, TypeOK
  <2>3. LRU_list[Position(k)] = Node(k, ValueOf(k)) /\ Position(k) \in DOMAIN LRU_list
    <3>1. /\ Position(k) \in DOMAIN LRU_list /\ LRU_list[Position(k)].key = k
          /\ LRU_list \in Seq(Nodes)
      BY <1>1, <2>1, WithoutFacts DEF AtFind, IInv, TypeOK, Nodes
    <3>2. LRU_list[Position(k)] \in Nodes
      BY <3>1
    <3> QED BY <3>1, <3>2 DEF Nodes, Node, ValueOf
  <2> QED BY <2>2, <2>3 DEF Range
<1>4. CASE pc[q] = "promote"
  <2> DEFINE n == Node(key[q], value[q])
  <2>1. key'[q] = key[q] /\ value'[q] = value[q]
    BY <1>1, <1>4
       DEF IInv, TypeOK, Next, vars, opVars, CreateFilterFactory, ConstructFirst, ConstructLater,
           InitCacheCapacity, AtMiss, AtFront, AtFind, Promote, InsertFind, Overwrite,
           Put, CheckFits, CheckFull, Evict, Goto, Begin
  <2>2. n \in Range(LRU_list) /\ n.key = key[q]
    BY <1>2, <1>4 DEF Current, Node
  <2>3. ASSUME NEW p \in Threads, Promote(p)
        PROVE  n \in Range(LRU_list')
    <3>1. p # q /\ key[p] # key[q] /\ key[p] \in cache_map /\ value[p] \in Values
          /\ key[p] \in Keys
      BY <1>1, <1>4, <2>3
         DEF Promote, Goto, IInv, TypeOK, Exclusive, InOperation, Holding, Carried
    <3>2. n \in Range(WithoutKey(key[p]))
      BY <1>1, <2>2, <3>1, WithoutFacts DEF IInv
    <3>3. /\ WithoutKey(key[p]) \in Seq(Nodes) /\ Distinct(WithoutKey(key[p]))
          /\ key[p] \notin KeysOf(WithoutKey(key[p]))
      BY <1>1, <3>1, WithoutFacts DEF IInv
    <3> QED BY <2>3, <3>1, <3>2, <3>3, ConsFacts DEF Promote
  <2>4. ASSUME NEW p \in Threads, Overwrite(p)
        PROVE  n \in Range(LRU_list')
    <3>1. key[p] # key[q] /\ key[p] \in cache_map
      BY <1>1, <1>4, <2>4
         DEF Overwrite, IInv, Exclusive, InOperation, Holding, Carried
    <3> QED BY <1>1, <2>2, <2>4, <3>1, WithoutFacts DEF IInv, Overwrite
  <2>5. ASSUME NEW p \in Threads, Put(p)
        PROVE  n \in Range(LRU_list')
    <3>1. key[p] \notin cache_map /\ key[p] \in Keys /\ value[p] \in Values
      BY <1>1, <2>5 DEF Put, IInv, Exclusive, InOperation, Holding, Carried
    <3>2. LRU_list \in Seq(Nodes) /\ Distinct(LRU_list) /\ key[p] \notin KeysOf(LRU_list)
      BY <1>1, <3>1 DEF IInv, TypeOK, Listed, Nodes
    <3> QED BY <2>2, <2>5, <3>1, <3>2, ConsFacts DEF Put
  <2>6. ASSUME NEW p \in Threads, Evict(p)
        PROVE  n \in Range(LRU_list')
    <3>1. /\ pc[p] = "evict" /\ p \notin stale /\ p # q
          /\ LRU_list' = Front(LRU_list) /\ q \notin HoldSlot(p, last[p])
      BY <1>4, <2>6 DEF Evict
    <3>2. key[q] # last[p] /\ LRU_list # <<>> /\ Last(LRU_list).key = last[p]
      BY <1>1, <1>4, <3>1 DEF IInv, Holding, Carried, HoldSlot
    <3>3. LRU_list \in Seq(Nodes)
      BY <1>1 DEF IInv, TypeOK, Nodes
    <3> QED BY <2>2, <3>1, <3>2, <3>3, FrontRange
  <2>7. n \in Range(LRU_list')
    BY <2>2, <2>3, <2>4, <2>5, <2>6
       DEF Next, vars, CreateFilterFactory, ConstructFirst, ConstructLater,
           InitCacheCapacity, AtMiss, AtFront, AtFind, InsertFind, CheckFits, CheckFull
  <2> QED BY <2>1, <2>7
<1> QED BY <1>3, <1>4

LEMMA PreparedInit == Init => Prepared
  BY InitInv DEF Init, Prepared, Crowded, Current

LEMMA PreparedInvariance == Spec => []Prepared
<1>1. Prepared /\ [Next]_vars => Prepared'
  BY NextInv, CrowdedNext, CurrentNext DEF Prepared
<1> QED BY <1>1, PreparedInit, PTL DEF Spec

---------------------------------------------------------------------------------
(* The refinement of LRU                                                     *)

\* The threads that have still to trim the cache stay the same,
LEMMA EvictingSame ==
    ASSUME TypeOK, NEW p \in Threads, NEW s,
           pc' = [pc EXCEPT ![p] = s],
           pc[p] \in {"check", "evict"} <=> s \in {"check", "evict"}
    PROVE  Evicting' = Evicting
  BY DEF TypeOK, Evicting

\* or there is one more,
LEMMA EvictingEnter ==
    ASSUME TypeOK, NEW p \in Threads, pc[p] = "put", pc' = [pc EXCEPT ![p] = "check"]
    PROVE  p \notin Evicting /\ Evicting' = Evicting \union {p}
  BY DEF TypeOK, Evicting

\* or one less.
LEMMA EvictingLeave ==
    ASSUME TypeOK, NEW p \in Threads, pc[p] \in {"check", "evict"},
           pc' = [pc EXCEPT ![p] = "idle"]
    PROVE  p \in Evicting /\ Evicting' = Evicting \ {p}
  BY DEF TypeOK, Evicting

\* The initial states are initial states of LRU.
LEMMA LRUInit == Init => A!Init
  BY DEF Init, A!Init, Pending, Evicting

\* One operator, by its two names.
LEMMA SameRemoveAt == \A s, i : A!RemoveAt(s, i) = RemoveAt(s, i)
  BY DEF A!RemoveAt, RemoveAt

LEMMA SameFront == \A s : A!Front(s) = Front(s)
  BY DEF A!Front, Front

LEMMA SameCardinality == \A S : A!Cardinality(S) = Cardinality(S)
  BY DEF A!Cardinality, Cardinality

\* Without the node of a key, in both specifications.
LEMMA SameWithout ==
    ASSUME IInv, NEW k
    PROVE  /\ k \in cache_map => A!Without(k) = WithoutKey(k)
           /\ k \notin cache_map => A!Without(k) = LRU_list
           /\ k \in cache_map <=> A!Keeps(k)
<1>1. k \in cache_map <=> \E i \in DOMAIN LRU_list : LRU_list[i].key = k
  BY DEF IInv, Listed, KeysOf
<1> QED BY <1>1, SameRemoveAt DEF A!Without, A!Keeps, WithoutKey, Position

\* Steps that LRU does not see.
LEMMA HiddenStep ==
    ASSUME UNCHANGED <<capacity, LRU_list, answer>>, Pending' = Pending,
           Evicting' = Evicting
    PROVE  UNCHANGED A!lruVars
  BY DEF A!lruVars

\* The constructors: the first one configures the cache.
LEMMA LRUConfigure == ASSUME IInv, NEW p \in Threads, InitCacheCapacity(p)
                      PROVE  [A!Next]_(A!lruVars)
<1>1. Pending' = Pending /\ Evicting' = Evicting
  <2>1. key' = key /\ pc[p] = "init" /\ pc' = [pc EXCEPT ![p] = "idle"]
    BY DEF InitCacheCapacity, Goto, opVars
  <2> QED BY <2>1, PendingSame, EvictingSame DEF IInv, TypeOK
<1>2. CASE capacity # 0
  BY <1>1, <1>2, HiddenStep DEF InitCacheCapacity, CapacitySet
<1>3. CASE capacity = 0
  <2>1. capacity' \in Capacities /\ capacity' > 0
    BY <1>3 DEF InitCacheCapacity, CapacitySet, IInv, TypeOK, Configured
  <2>2. A!Configure(capacity')
    BY <1>1, <1>3, <2>1 DEF A!Configure, InitCacheCapacity
  <2> QED BY <2>1, <2>2 DEF A!Next
<1> QED BY <1>2, <1>3

\* The first node of a list, put back before the others.
LEMMA HeadBack ==
    ASSUME NEW s \in Seq(Nodes), s # <<>>
    PROVE  <<Head(s)>> \o RemoveAt(s, 1) = s
<1> DEFINE w == RemoveAt(s, 1)
           h == Head(s)
<1>1. Len(s) \in Nat /\ Len(s) > 0 /\ 1 \in DOMAIN s /\ h = s[1] /\ h \in Nodes
  OBVIOUS
<1>2. w \in Seq(Nodes) /\ Len(w) = Len(s) - 1
      /\ \A j \in 1..(Len(s) - 1) : w[j] = IF j < 1 THEN s[j] ELSE s[j + 1]
  BY <1>1, RemoveElements
<1>3. \A j \in 1..(Len(s) - 1) : w[j] = s[j + 1]
  <2>1. \A j \in 1..(Len(s) - 1) : ~(j < 1)
    BY <1>1
  <2> QED BY <1>2, <2>1
<1> HIDE DEF w, h
<1>4. /\ <<h>> \o w \in Seq(Nodes) /\ Len(<<h>> \o w) = 1 + Len(w)
      /\ \A i \in 1..(1 + Len(w)) : (<<h>> \o w)[i] = IF i <= 1 THEN <<h>>[i] ELSE w[i - 1]
  <2>1. <<h>> \in Seq(Nodes) /\ Len(<<h>>) = 1
    BY <1>1
  <2> QED BY <1>2, <2>1, ConcatProperties
<1>5. Len(<<h>> \o w) = Len(s)
  BY <1>1, <1>2, <1>4
<1>6. \A i \in 1..Len(s) : (<<h>> \o w)[i] = s[i]
  <2> TAKE i \in 1..Len(s)
  <2>1. CASE i = 1
    BY <1>1, <1>2, <1>4, <2>1
  <2>2. CASE i # 1
    <3>1. i - 1 \in 1..(Len(s) - 1) /\ (i - 1) + 1 = i /\ ~(i <= 1) /\ i \in 1..(1 + Len(w))
      BY <1>1, <1>2, <2>2
    <3> QED BY <1>3, <1>4, <3>1
  <2> QED BY <2>1, <2>2
<1>7. <<h>> \o w = s
  BY <1>4, <1>5, <1>6, SeqEqual
<1> QED BY <1>7 DEF w, h

\* A lookup that finds nothing, or the most recent node.
LEMMA LRULookup ==
    ASSUME IInv, NEW p \in Threads, NEW k \in Keys, AtMiss(p, k) \/ AtFront(p, k)
    PROVE  A!Next
<1>1. UNCHANGED <<capacity, LRU_list, pc, key>> /\ Begin(p, k)
  BY DEF AtMiss, AtFront, opVars
<1>2. Pending' = Pending /\ Evicting' = Evicting
  BY <1>1 DEF Pending, Evicting
<1>3. CASE AtMiss(p, k)
  <2>1. k \notin Pending
    BY <1>1 DEF Begin, Quiet, Pending, InOperation
  <2>2. ~A!Keeps(k)
    BY <1>3, SameWithout DEF AtMiss
  <2>3. A!Miss(p, k)
    BY <1>1, <1>2, <1>3, <2>1, <2>2 DEF AtMiss, A!Miss
  <2> QED BY <2>3 DEF A!Next
<1>4. CASE AtFront(p, k)
  <2> DEFINE v == ValueOf(k)
  <2>1. /\ Position(k) \in DOMAIN LRU_list /\ LRU_list[Position(k)].key = k
        /\ v \in Values /\ LRU_list \in Seq(Nodes)
    BY <1>4, WithoutFacts DEF AtFront, IInv, TypeOK, Nodes
  <2>2. LRU_list # <<>> /\ 1 \in DOMAIN LRU_list /\ LRU_list[1] = Head(LRU_list)
    BY <2>1
  <2>3. Position(k) = 1
    BY <1>4, <2>1, <2>2 DEF AtFront, IsFront, IInv, Listed, Distinct
  <2>4. LRU_list[1] = [key |-> k, value |-> v]
    <3>1. LRU_list[1] \in Nodes /\ LRU_list[1].key = k /\ LRU_list[1].value = v
      BY <2>1, <2>2, <2>3 DEF ValueOf
    <3> QED BY <3>1 DEF Nodes
  <2>5. A!Without(k) = RemoveAt(LRU_list, 1)
    BY <1>4, <2>3, SameWithout DEF AtFront, WithoutKey
  <2>6. <<[key |-> k, value |-> v]>> \o A!Without(k) = LRU_list
    BY <2>1, <2>2, <2>4, <2>5, HeadBack
  <2>7. A!Hit(p, [key |-> k, value |-> v])
    BY <1>1, <1>2, <1>4, <2>2, <2>4, <2>6 DEF AtFront, A!Hit
  <2> QED BY <2>1, <2>7 DEF A!Next
<1> QED BY <1>3, <1>4

\* A lookup that promotes its node.
LEMMA LRUPromote == ASSUME Prepared, NEW p \in Threads, Promote(p)
                    PROVE  A!Next
<1> DEFINE k == key[p]
           v == value[p]
<1> USE DEF Prepared
<1>1. /\ pc[p] = "promote" /\ p \notin stale
      /\ LRU_list' = <<Node(k, v)>> \o WithoutKey(k)
      /\ answer' = [answer EXCEPT ![p] = v]
      /\ pc' = [pc EXCEPT ![p] = "idle"]
      /\ UNCHANGED <<capacity, key, cache_map>>
  BY DEF Promote, Goto, opVars
<1>2. k \in cache_map /\ k \in Keys /\ v \in Values
  BY <1>1 DEF IInv, TypeOK, Holding, Carried
<1>3. Pending' = Pending /\ Evicting' = Evicting
  BY <1>1, PendingSame, EvictingSame DEF IInv, TypeOK
<1>4. A!Without(k) = WithoutKey(k)
  BY <1>2, SameWithout
<1>5. \E i \in DOMAIN LRU_list : LRU_list[i] = Node(k, v)
  BY <1>1 DEF Current, Range
<1>6. A!Hit(p, [key |-> k, value |-> v])
  BY <1>1, <1>3, <1>4, <1>5 DEF A!Hit, Node
<1> QED BY <1>2, <1>6 DEF A!Next

\* A lookup that is to promote its node is hidden until it does.
LEMMA LRUFind == ASSUME IInv, NEW p \in Threads, NEW k \in Keys, AtFind(p, k)
                 PROVE  UNCHANGED A!lruVars
<1>1. Pending' = Pending /\ Evicting' = Evicting
  BY PendingSame, EvictingSame DEF AtFind, Begin, Goto, IInv, TypeOK
<1> QED BY <1>1, HiddenStep DEF AtFind

\* An insertion that finds no old node withdraws nothing, but its value is pending.
LEMMA LRUInsert ==
    ASSUME IInv, NEW p \in Threads, NEW k \in Keys, NEW v \in Values, InsertFind(p, k, v)
    PROVE  [A!Next]_(A!lruVars)
<1>1. /\ pc[p] = "idle" /\ Quiet(k)
      /\ key' = [key EXCEPT ![p] = k]
      /\ pc' = [pc EXCEPT ![p] = IF k \in cache_map THEN "overwrite" ELSE "put"]
      /\ UNCHANGED <<capacity, LRU_list, answer>>
  BY DEF InsertFind, Overwrites, Begin, Goto
<1>2. /\ key'[p] = k /\ pc'[p] = IF k \in cache_map THEN "overwrite" ELSE "put"
      /\ \A q \in Threads \ {p} : pc'[q] = pc[q] /\ key'[q] = key[q]
  BY <1>1 DEF IInv, TypeOK
<1>3. Evicting' = Evicting
  BY <1>1, EvictingSame DEF IInv
<1>4. CASE k \in cache_map
  <2>1. Pending' = Pending
    BY <1>1, <1>2, <1>4, PendingSame
  <2> QED BY <1>1, <1>3, <2>1, HiddenStep
<1>5. CASE k \notin cache_map
  <2>1. Pending' = Pending \union {k}
    BY <1>1, <1>2, <1>5, PendingEnter
  <2>2. A!Without(k) = LRU_list
    BY <1>5, SameWithout
  <2>3. k \notin Pending
    BY <1>1 DEF Quiet, Pending, InOperation
  <2>4. capacity > 0
    BY <1>1 DEF IInv, Configured, ConfiguredBeforeUse
  <2>5. A!Withdraw(k)
    BY <1>1, <1>3, <2>1, <2>2, <2>3, <2>4 DEF A!Withdraw
  <2> QED BY <2>5 DEF A!Next
<1> QED BY <1>4, <1>5

\* An insertion withdraws the old node.
LEMMA LRUOverwrite == ASSUME IInv, NEW p \in Threads, Overwrite(p)
                      PROVE  A!Next
<1> DEFINE k == key[p]
<1>1. /\ pc[p] = "overwrite" /\ p \notin stale
      /\ LRU_list' = WithoutKey(k)
      /\ pc' = [pc EXCEPT ![p] = "put"]
      /\ UNCHANGED <<capacity, key, answer>>
  BY DEF Overwrite, Goto, opVars
<1>2. k \in cache_map /\ k \in Keys
  BY <1>1 DEF IInv, TypeOK, Holding, Carried
<1>3. Pending' = Pending \union {k} /\ Evicting' = Evicting
  BY <1>1, PendingEnter, EvictingSame DEF IInv, TypeOK
<1>4. k \notin Pending
  BY <1>1 DEF IInv, Exclusive, InOperation, Pending
<1>5. A!Without(k) = WithoutKey(k)
  BY <1>2, SameWithout
<1>6. capacity > 0
  BY <1>1 DEF IInv, Configured, ConfiguredBeforeUse
<1>7. A!Withdraw(k)
  BY <1>1, <1>3, <1>4, <1>5, <1>6 DEF A!Withdraw
<1> QED BY <1>2, <1>7 DEF A!Next

\* An insertion puts its node, and owes a trim.
LEMMA LRUPut == ASSUME IInv, NEW p \in Threads, Put(p)
                PROVE  A!Next
<1> DEFINE k == key[p]
           v == value[p]
<1>1. /\ pc[p] = "put"
      /\ LRU_list' = <<Node(k, v)>> \o LRU_list
      /\ pc' = [pc EXCEPT ![p] = "check"]
      /\ UNCHANGED <<capacity, key, answer>>
  BY DEF Put, Goto, opVars
<1>2. k \in Keys /\ v \in Values
  BY <1>1 DEF IInv, Exclusive, InOperation, Holding, Carried
<1>3. Pending' = Pending \ {k} /\ k \in Pending
  BY <1>1, PendingPut DEF Pending
<1>4. p \notin Evicting /\ Evicting' = Evicting \union {p}
  BY <1>1, EvictingEnter DEF IInv
<1>5. Node(k, v) = [key |-> k, value |-> v] /\ Node(k, v).key = k
  BY DEF Node
<1>6. A!Put(p, [key |-> k, value |-> v])
  BY <1>1, <1>3, <1>4, <1>5 DEF A!Put
<1> QED BY <1>2, <1>6 DEF A!Next

\* An insertion that finds the cache within its capacity has trimmed it.
LEMMA LRUFits == ASSUME IInv, NEW p \in Threads, CheckFits(p)
                 PROVE  A!Next
<1>1. /\ pc[p] = "check" /\ pc' = [pc EXCEPT ![p] = "idle"]
      /\ UNCHANGED <<capacity, key, LRU_list, answer>>
      /\ ~(Cardinality(cache_map) > capacity)
  BY DEF CheckFits, Full, Goto, opVars
<1>2. Len(LRU_list) <= capacity
  BY <1>1, MapFinite, CapacityNat DEF IInv, Listed
<1>3. Pending' = Pending
  BY <1>1, PendingSame DEF IInv, TypeOK
<1>4. p \in Evicting /\ Evicting' = Evicting \ {p}
  BY <1>1, EvictingLeave DEF IInv
<1>5. A!Trim(p)
  BY <1>1, <1>2, <1>3, <1>4 DEF A!Trim
<1> QED BY <1>5 DEF A!Next

\* The eviction is the trim.
LEMMA LRUEvict == ASSUME Prepared, NEW p \in Threads, Evict(p)
                  PROVE  A!Next
<1> USE DEF Prepared
<1>1. /\ pc[p] = "evict" /\ p \notin stale
      /\ LRU_list' = Front(LRU_list)
      /\ pc' = [pc EXCEPT ![p] = "idle"]
      /\ UNCHANGED <<capacity, key, answer>>
  BY DEF Evict, Goto, opVars
<1>2. Pending' = Pending
  BY <1>1, PendingSame DEF IInv, TypeOK
<1>3. p \in Evicting /\ Evicting' = Evicting \ {p}
  BY <1>1, EvictingLeave DEF IInv
<1>4. LRU_list # <<>> /\ Len(LRU_list) + Cardinality(Pending) > capacity
  BY <1>1 DEF IInv, Listed, Holding, Carried, Crowded
<1>5. A!Trim(p)
  BY <1>1, <1>2, <1>3, <1>4, SameFront, SameCardinality DEF A!Trim
<1> QED BY <1>5 DEF A!Next

\* The steps that LRU has no part in.
LEMMA LRUHidden ==
    ASSUME IInv,
           \/ \E c \in Capacities : CreateFilterFactory(c)
           \/ \E p \in Threads, c \in Capacities : ConstructFirst(p, c)
           \/ \E p \in Threads : ConstructLater(p) \/ CheckFull(p)
           \/ UNCHANGED vars
    PROVE  UNCHANGED A!lruVars
<1>1. UNCHANGED <<capacity, LRU_list, answer, key>>
  BY DEF CreateFilterFactory, ConstructFirst, ConstructLater, CheckFull, vars, opVars
<1>2. /\ {q \in Threads : pc'[q] = "put"} = {q \in Threads : pc[q] = "put"}
      /\ Evicting' = Evicting
  BY DEF IInv, TypeOK, CreateFilterFactory, ConstructFirst, ConstructLater, CheckFull,
         Goto, vars, Evicting
<1>3. Pending' = Pending
  BY <1>1, <1>2 DEF Pending
<1> QED BY <1>1, <1>2, <1>3, HiddenStep

\* Every step is a step of LRU, or hidden.
LEMMA LRUNext == ASSUME Prepared, [Next]_vars
                 PROVE  [A!Next]_(A!lruVars)
<1>1. IInv
  BY DEF Prepared
<1> QED BY <1>1, LRUHidden, LRUConfigure, LRULookup, LRUFind, LRUPromote, LRUInsert,
           LRUOverwrite, LRUPut, LRUFits, LRUEvict DEF Next

\* README.md:33: however the critical sections of its operations overlap, and
\* until a thread uses what another one has freed, the cache is an LRU cache
\* that is configured once and looks up, puts and trims at once.
THEOREM LRUImplemented == Spec => AtomicLRU
<1>1. Prepared /\ [Next]_vars => [A!Next]_(A!lruVars)
  BY LRUNext
<1> QED BY <1>1, LRUInit, PreparedInvariance, PTL DEF Spec, AtomicLRU, A!Spec

=================================================================================
