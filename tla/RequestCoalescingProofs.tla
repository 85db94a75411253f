------------------------ MODULE RequestCoalescingProofs ------------------------
(***************************************************************************)
(* Theorems about RequestCoalescing for any number of threads, streams and  *)
(* keys, with timeouts and resets.  The inductive invariant IInv says where *)
(* a stream may be in the filter given its role, that the map of groups and *)
(* the founders on their way agree, that a thread runs one callback at a    *)
(* time, and what leader_threads_for_rc_ says of the groups a thread leads. *)
(***************************************************************************)
EXTENDS RequestCoalescing, TLAPS

\* A founder whose group is in the map, though Envoy may have destroyed it.
Open(c) == Founder(c) /\ pc[c] \in InMap \union {"destroyed"}

\* What the control point of a stream says of its filter's fields.
IPlace ==
    \A r \in Requests :
        /\ pc[r] = "new" => role[r] = Nil
        /\ pc[r] # "new" => /\ thread[r] \in Threads
                            /\ key[r] \in Keys
                            /\ wrapper[r] \in Requests
        /\ pc[r] \in InMap \union {"serveParked", "disown", "attend", "release"}
              => Founder(r)
        /\ pc[r] = "join" => role[r] = Nil
        /\ pc[r] = "parked" => ~Founder(r)
        /\ ~Founder(r) => callbacks[r] = r
        /\ Founder(r) /\ pc[r] \in Blocked =>
              /\ ~Founder(callbacks[r])
              /\ pc[callbacks[r]] \in {"parked", "done", "dropped", "destroyed"}
        /\ pc[r] \in {"upstream", "insert", "body", "finish"} => ~entry_cached[r]
        /\ Founder(r) /\ pc[r] = "destroyed" => ~entry_cached[r]
        /\ pc[r] \in {"new", "enlist", "query", "readHit"} => entry_cached[r]

\* The groups in the map are those of the founders that are open.
IMap ==
    /\ \A k \in Keys : coalesced_requests[k] # Nil =>
          /\ Open(coalesced_requests[k])
          /\ key[coalesced_requests[k]] = k
    /\ \A c \in Requests : Open(c) => coalesced_requests[key[c]] = c

\* A thread runs at most one callback, and that is of a stream bound to it.
IRun ==
    /\ \A t \in Threads : running[t] # Nil =>
          /\ thread[running[t]] = t
          /\ pc[running[t]] \in Running
    /\ \A r \in Requests : pc[r] \in Running => running[thread[r]] = r

\* Thread t runs the last part of a founder's callback.
Winding(t) == /\ running[t] # Nil
              /\ Founder(running[t])
              /\ pc[running[t]] \in Blocked \union {"attend", "release"}

\* leader_threads_for_rc_ has an entry for exactly the threads that lead, but
\* for the one that is about to give its entry up.
ILed ==
    /\ \A t \in Threads : led[t] # {} => t \in leader_threads
    /\ \A t \in leader_threads : led[t] # {} \/ Winding(t)
    /\ \A r \in Requests : pc[r] \in Blocked => led[thread[r]] = {}

\* A joiner's group was open when it was found; if the joiner's own thread leads
\* the group, it still is, and is waiting for the origin.
IJoin ==
    /\ \A r \in Requests : pc[r] = "join" =>
          /\ Founder(wrapper[r])
          /\ thread[wrapper[r]] = thread[r] =>
                pc[wrapper[r]] \in {"upstream", "body", "destroyed"}
    /\ \A g \in Requests : parked[g] # {} => ~entry_cached[g]

\* An entry in the cache was fetched for its key, and is complete unless the
\* fetch is still on its way.
ICache ==
    \A k \in Keys : cache[k] # Nil =>
        /\ key[cache[k]] = k
        /\ Founder(cache[k])
        /\ ~entry_cached[cache[k]]
        /\ cache[k] \in complete \/ pc[cache[k]] \in {"notify", "body", "finish", "destroyed"}

IInv == TypeOK /\ IPlace /\ IMap /\ IRun /\ ILed /\ IJoin /\ ICache

------------------------------------------------------------------------------
\* Which control points are in the map, asleep or on a thread.
LEMMA PointFacts ==
    /\ "new" \notin InMap /\ "upstream" \in InMap
    /\ "body" \in InMap /\ "parked" \notin InMap
    /\ "done" \notin InMap /\ "dropped" \notin InMap
    /\ "destroyed" \notin InMap /\ "enlist" \in InMap
    /\ "query" \in InMap /\ "notify" \in InMap
    /\ "readHit" \in InMap /\ "insert" \in InMap
    /\ "finish" \in InMap /\ "detach" \in InMap
    /\ "wait" \notin InMap /\ "late" \notin InMap
    /\ "read" \notin InMap /\ "join" \notin InMap
    /\ "serveParked" \notin InMap /\ "disown" \notin InMap
    /\ "attend" \notin InMap /\ "release" \notin InMap
    /\ "new" \notin Blocked /\ "upstream" \notin Blocked
    /\ "body" \notin Blocked /\ "parked" \notin Blocked
    /\ "done" \notin Blocked /\ "dropped" \notin Blocked
    /\ "destroyed" \notin Blocked /\ "enlist" \notin Blocked
    /\ "query" \notin Blocked /\ "notify" \notin Blocked
    /\ "readHit" \notin Blocked /\ "insert" \notin Blocked
    /\ "finish" \notin Blocked /\ "detach" \notin Blocked
    /\ "wait" \in Blocked /\ "late" \in Blocked
    /\ "read" \in Blocked /\ "join" \notin Blocked
    /\ "serveParked" \notin Blocked /\ "disown" \notin Blocked
    /\ "attend" \notin Blocked /\ "release" \notin Blocked
    /\ "new" \notin Running /\ "upstream" \notin Running
    /\ "body" \notin Running /\ "parked" \notin Running
    /\ "done" \notin Running /\ "dropped" \notin Running
    /\ "destroyed" \notin Running /\ "enlist" \in Running
    /\ "query" \in Running /\ "notify" \in Running
    /\ "readHit" \in Running /\ "insert" \in Running
    /\ "finish" \in Running /\ "detach" \in Running
    /\ "wait" \in Running /\ "late" \in Running
    /\ "read" \in Running /\ "join" \in Running
    /\ "serveParked" \in Running /\ "disown" \in Running
    /\ "attend" \in Running /\ "release" \in Running
    /\ Blocked \subseteq Running
  BY DEF Running, Points, InMap, Blocked, Suspended

\* Every step keeps every variable in its type: it needs IPlace for the arrays it
\* indexes with thread[r], key[r] and wrapper[r].
LEMMA TypeStep ==
    ASSUME TypeOK, IPlace, Next
    PROVE  TypeOK'
<1> USE DEF TypeOK, IPlace, Points, InMap, Blocked, Suspended, Roles
<1>1. ASSUME NEW r \in Requests, NEW t \in Threads, NEW k \in Keys, FoundGroup(r, t, k)
     PROVE  TypeOK'
  BY <1>1 DEF FoundGroup, ArriveAt, GroupOf, Idle, Goto, filterVars,
     groupVars, ownerVars
<1>2. ASSUME NEW r \in Requests, NEW t \in Threads, NEW k \in Keys, JoinGroup(r, t, k)
     PROVE  TypeOK'
  BY <1>2 DEF JoinGroup, ArriveAt, GroupOf, Idle, Goto, filterVars, groupVars,
     ownerVars
<1>3. ASSUME NEW r \in Requests, Enlist(r)
     PROVE  TypeOK'
  BY <1>3 DEF Enlist, LedExceptKey, Goto, filterVars, groupVars, ownerVars
<1>4. ASSUME NEW r \in Requests, ParkWithOwnGroup(r)
     PROVE  TypeOK'
  BY <1>4 DEF ParkWithOwnGroup, OwnThreadLeads, Goto, Return, filterVars,
     groupVars, ownerVars
<1>5. ASSUME NEW r \in Requests, ParkWithOtherGroup(r)
     PROVE  TypeOK'
  BY <1>5 DEF ParkWithOtherGroup, OwnThreadLeads, LeadsOther, Goto, Return,
     filterVars, groupVars, ownerVars
<1>6. ASSUME NEW r \in Requests, StartWaiting(r)
     PROVE  TypeOK'
  BY <1>6 DEF StartWaiting, OwnThreadLeads, LeadsOther, Goto, filterVars,
     groupVars, ownerVars
<1>7. ASSUME NEW r \in Requests, CacheHit(r)
     PROVE  TypeOK'
  BY <1>7 DEF CacheHit, Goto, filterVars, groupVars, ownerVars
<1>8. ASSUME NEW r \in Requests, CacheMiss(r)
     PROVE  TypeOK'
  BY <1>8 DEF CacheMiss, Goto, Return, filterVars, groupVars, ownerVars
<1>9. ASSUME NEW r \in Requests, NEW b \in BOOLEAN, OriginHeaders(r, b)
     PROVE  TypeOK'
  BY <1>9 DEF OriginHeaders, Enter, Idle, Goto, filterVars, groupVars,
     ownerVars
<1>10. ASSUME NEW r \in Requests, Insert(r)
     PROVE  TypeOK'
  <2>1. cache' \in [Keys -> Requests \union {Nil}]
    <3> DEFINE inserted == [cache EXCEPT ![key[r]] = r]
    <3>1. inserted \in [Keys -> Requests \union {Nil}]
      OBVIOUS
    <3>2. CASE cache' = inserted
      BY <3>1, <3>2
    <3>3. ASSUME NEW victim \in Keys, cache' = [inserted EXCEPT ![victim] = Nil]
          PROVE  cache' \in [Keys -> Requests \union {Nil}]
      BY <3>1, <3>3
    <3> HIDE DEF inserted
    <3>4. cache' = inserted
          \/ \E victim \in Keys : cache' = [inserted EXCEPT ![victim] = Nil]
      BY <1>10 DEF Insert, Cached, inserted
    <3> QED BY <3>2, <3>3, <3>4
  <2> QED BY <1>10, <2>1 DEF Insert, Goto, filterVars, groupVars, ownerVars
<1>11. ASSUME NEW r \in Requests, NotifyHit(r)
     PROVE  TypeOK'
  BY <1>11 DEF NotifyHit, Publish, Goto, filterVars, groupVars, ownerVars
<1>12. ASSUME NEW r \in Requests, NotifyMiss(r)
     PROVE  TypeOK'
  BY <1>12 DEF NotifyMiss, Publish, Goto, Return, filterVars, groupVars,
     ownerVars
<1>13. ASSUME NEW r \in Requests, OriginEnd(r)
     PROVE  TypeOK'
  BY <1>13 DEF OriginEnd, Enter, Idle, Goto, filterVars, groupVars, ownerVars
<1>14. ASSUME NEW r \in Requests, Finish(r)
     PROVE  TypeOK'
  BY <1>14 DEF Finish, CompletedBy, Deliver, Goto, filterVars, groupVars,
     ownerVars
<1>15. ASSUME NEW r \in Requests, ServeHit(r)
     PROVE  TypeOK'
  BY <1>15 DEF ServeHit, Deliver, Goto, filterVars, groupVars, ownerVars
<1>16. ASSUME NEW r \in Requests, Detach(r)
     PROVE  TypeOK'
  BY <1>16 DEF Detach, Goto, filterVars, groupVars, ownerVars
<1>17. ASSUME NEW r \in Requests, ServeParked(r)
     PROVE  TypeOK'
  BY <1>17 DEF ServeParked, ProducerEntry, filterVars, groupVars, ownerVars
<1>18. ASSUME NEW r \in Requests, Disown(r)
     PROVE  TypeOK'
  BY <1>18 DEF Disown, LedExceptKey, ToAttend, Goto, filterVars, groupVars,
     ownerVars
<1>19. ASSUME NEW r \in Requests, Splice(r)
     PROVE  TypeOK'
  <2>1. PICK g \in led[thread[r]] :
              others' = [others EXCEPT ![g] = others[g] \union others[r], ![r] = {}]
    BY <1>19 DEF Splice, Spliced
  <2>2. g \in Requests
    BY <1>19, <2>1 DEF Splice
  <2>3. others' \in [Requests -> SUBSET Requests]
    BY <2>1, <2>2
  <2> QED BY <1>19, <2>3 DEF Splice, Goto, Return, filterVars, ownerVars
<1>20. ASSUME NEW r \in Requests, NEW q \in Requests, AttendNext(r, q)
     PROVE  TypeOK'
  BY <1>20 DEF AttendNext, AttendedGroup, Goto, filterVars, groupVars,
     ownerVars
<1>21. ASSUME NEW r \in Requests, AttendedAll(r)
     PROVE  TypeOK'
  BY <1>21 DEF AttendedAll, Goto, filterVars, groupVars, ownerVars
<1>22. ASSUME NEW r \in Requests, Release(r)
     PROVE  TypeOK'
  BY <1>22 DEF Release, LeadsNothing, Goto, Return, filterVars, groupVars,
     ownerVars
<1>23. ASSUME NEW r \in Requests, Wake(r)
     PROVE  TypeOK'
  BY <1>23 DEF Wake, Goto, filterVars, groupVars, ownerVars
<1>24. ASSUME NEW r \in Requests, Timeout(r)
     PROVE  TypeOK'
  BY <1>24 DEF Timeout, Goto, filterVars, groupVars, ownerVars
<1>25. ASSUME NEW r \in Requests, LateRead(r)
     PROVE  TypeOK'
  BY <1>25 DEF LateRead, Goto, filterVars, groupVars, ownerVars
<1>26. ASSUME NEW r \in Requests, Drop(r)
     PROVE  TypeOK'
  <2>1. pc' \in [Requests -> Points] /\ running' \in [Threads -> Requests \union {Nil}]
    <3>1. CASE callbacks[r] = r /\ Goto(r, "dropped") /\ Return(r)
      BY <3>1 DEF Goto, Return
    <3>2. CASE /\ callbacks[r] # r
               /\ pc' = [s \in Requests |-> IF s = r THEN "attend"
                                            ELSE IF s = callbacks[r] THEN "dropped"
                                            ELSE pc[s]]
               /\ UNCHANGED running
      BY <3>2
    <3> QED BY <1>26, <3>1, <3>2 DEF Drop, Resume
  <2> QED BY <1>26, <2>1 DEF Drop, filterVars, groupVars, ownerVars
<1>27. ASSUME NEW r \in Requests, Serve(r)
     PROVE  TypeOK'
  <2>1. delivered' \in [Requests -> Seq(Requests)]
    <3>1. entry[r] \in Requests /\ callbacks[r] \in Requests
      BY <1>27 DEF Serve
    <3>2. Append(delivered[callbacks[r]], entry[r]) \in Seq(Requests)
      BY <3>1
    <3> QED BY <1>27, <3>1, <3>2 DEF Serve, Deliver
  <2>2. pc' \in [Requests -> Points] /\ running' \in [Threads -> Requests \union {Nil}]
    <3>1. CASE callbacks[r] = r /\ Goto(r, "done") /\ Return(r)
      BY <3>1 DEF Goto, Return
    <3>2. CASE /\ callbacks[r] # r
               /\ pc' = [s \in Requests |-> IF s = r THEN "attend"
                                            ELSE IF s = callbacks[r] THEN "done"
                                            ELSE pc[s]]
               /\ UNCHANGED running
      BY <3>2
    <3> QED BY <1>27, <3>1, <3>2 DEF Serve, Resume
  <2> QED BY <1>27, <2>1, <2>2 DEF Serve, filterVars, groupVars, ownerVars
<1>28. ASSUME NEW r \in Requests, Disconnect(r)
     PROVE  TypeOK'
  BY <1>28 DEF Disconnect, Idle, Goto, filterVars, groupVars, ownerVars
<1>29. CASE Terminated
  BY <1>29 DEF Terminated, vars, filterVars, groupVars, ownerVars
<1> HIDE DEF TypeOK, IPlace, Points, InMap, Blocked, Suspended, Roles
<1> QED BY <1>1, <1>2, <1>3, <1>4, <1>5, <1>6, <1>7, <1>8, <1>9, <1>10, <1>11,
      <1>12, <1>13, <1>14, <1>15, <1>16, <1>17, <1>18, <1>19, <1>20, <1>21,
      <1>22, <1>23, <1>24, <1>25, <1>26, <1>27, <1>28, <1>29
     DEF Next, Arrive, ThreadStep, OriginStep

\* Every step leaves each filter with the fields its next control point expects;
\* Drop and Serve move two streams at once.
LEMMA PlaceStep ==
    ASSUME TypeOK, IPlace, Next
    PROVE  IPlace'
<1> USE PointFacts, ConstantsAssumption DEF ConstantsAssumption, Roles, TypeOK, IPlace, Founder
<1>1. ASSUME NEW r \in Requests, NEW t \in Threads, NEW k \in Keys, FoundGroup(r, t, k)
     PROVE  IPlace'
  BY <1>1 DEF FoundGroup, ArriveAt, GroupOf, Idle, Goto, filterVars,
     groupVars, ownerVars
<1>2. ASSUME NEW r \in Requests, NEW t \in Threads, NEW k \in Keys, JoinGroup(r, t, k)
     PROVE  IPlace'
  BY <1>2 DEF JoinGroup, ArriveAt, GroupOf, Idle, Goto, filterVars, groupVars,
     ownerVars
<1>3. ASSUME NEW r \in Requests, Enlist(r)
     PROVE  IPlace'
  BY <1>3 DEF Enlist, LedExceptKey, Goto, filterVars, groupVars, ownerVars
<1>4. ASSUME NEW r \in Requests, ParkWithOwnGroup(r)
     PROVE  IPlace'
  BY <1>4 DEF ParkWithOwnGroup, OwnThreadLeads, Goto, Return, filterVars,
     groupVars, ownerVars
<1>5. ASSUME NEW r \in Requests, ParkWithOtherGroup(r)
     PROVE  IPlace'
  BY <1>5 DEF ParkWithOtherGroup, OwnThreadLeads, LeadsOther, Goto, Return,
     filterVars, groupVars, ownerVars
<1>6. ASSUME NEW r \in Requests, StartWaiting(r)
     PROVE  IPlace'
  BY <1>6 DEF StartWaiting, OwnThreadLeads, LeadsOther, Goto, filterVars,
     groupVars, ownerVars
<1>7. ASSUME NEW r \in Requests, CacheHit(r)
     PROVE  IPlace'
  BY <1>7 DEF CacheHit, Goto, filterVars, groupVars, ownerVars
<1>8. ASSUME NEW r \in Requests, CacheMiss(r)
     PROVE  IPlace'
  BY <1>8 DEF CacheMiss, Goto, Return, filterVars, groupVars, ownerVars
<1>9. ASSUME NEW r \in Requests, NEW b \in BOOLEAN, OriginHeaders(r, b)
     PROVE  IPlace'
  BY <1>9 DEF OriginHeaders, Enter, Idle, Goto, filterVars, groupVars,
     ownerVars
<1>10. ASSUME NEW r \in Requests, Insert(r)
     PROVE  IPlace'
  BY <1>10 DEF Insert, Cached, Goto, filterVars, groupVars, ownerVars
<1>11. ASSUME NEW r \in Requests, NotifyHit(r)
     PROVE  IPlace'
  BY <1>11 DEF NotifyHit, Publish, Goto, filterVars, groupVars, ownerVars
<1>12. ASSUME NEW r \in Requests, NotifyMiss(r)
     PROVE  IPlace'
  <2>1. /\ pc[r] = "notify" /\ ~entry_cached[r]
        /\ shared' = [shared EXCEPT ![r] = entry[r]]
        /\ UNCHANGED <<filterVars, parked, others, coalesced_requests, ownerVars,
                       cache, complete, delivered>>
    BY <1>12 DEF NotifyMiss, Publish
  <2>2. CASE Goto(r, "finish") /\ UNCHANGED running
    BY <2>1, <2>2 DEF Goto, filterVars, ownerVars
  <2>3. CASE Goto(r, "body") /\ Return(r)
    BY <2>1, <2>3 DEF Goto, Return, filterVars, ownerVars
  <2> QED BY <1>12, <2>2, <2>3 DEF NotifyMiss
<1>13. ASSUME NEW r \in Requests, OriginEnd(r)
     PROVE  IPlace'
  BY <1>13 DEF OriginEnd, Enter, Idle, Goto, filterVars, groupVars, ownerVars
<1>14. ASSUME NEW r \in Requests, Finish(r)
     PROVE  IPlace'
  BY <1>14 DEF Finish, CompletedBy, Deliver, Goto, filterVars, groupVars,
     ownerVars
<1>15. ASSUME NEW r \in Requests, ServeHit(r)
     PROVE  IPlace'
  BY <1>15 DEF ServeHit, Deliver, Goto, filterVars, groupVars, ownerVars
<1>16. ASSUME NEW r \in Requests, Detach(r)
     PROVE  IPlace'
  BY <1>16 DEF Detach, Goto, filterVars, groupVars, ownerVars
<1>17. ASSUME NEW r \in Requests, ServeParked(r)
     PROVE  IPlace'
  BY <1>17 DEF ServeParked, ProducerEntry, filterVars, groupVars, ownerVars
<1>18. ASSUME NEW r \in Requests, Disown(r)
     PROVE  IPlace'
  BY <1>18 DEF Disown, LedExceptKey, ToAttend, Goto, filterVars, groupVars,
     ownerVars
<1>19. ASSUME NEW r \in Requests, Splice(r)
     PROVE  IPlace'
  BY <1>19 DEF Splice, Spliced, Goto, Return, filterVars, groupVars, ownerVars
<1>20. ASSUME NEW r \in Requests, NEW q \in Requests, AttendNext(r, q)
     PROVE  IPlace'
  BY <1>20 DEF AttendNext, AttendedGroup, Goto, filterVars, groupVars,
     ownerVars
<1>21. ASSUME NEW r \in Requests, AttendedAll(r)
     PROVE  IPlace'
  BY <1>21 DEF AttendedAll, Goto, filterVars, groupVars, ownerVars
<1>22. ASSUME NEW r \in Requests, Release(r)
     PROVE  IPlace'
  BY <1>22 DEF Release, LeadsNothing, Goto, Return, filterVars, groupVars,
     ownerVars
<1>23. ASSUME NEW r \in Requests, Wake(r)
     PROVE  IPlace'
  BY <1>23 DEF Wake, Goto, filterVars, groupVars, ownerVars
<1>24. ASSUME NEW r \in Requests, Timeout(r)
     PROVE  IPlace'
  BY <1>24 DEF Timeout, Goto, filterVars, groupVars, ownerVars
<1>25. ASSUME NEW r \in Requests, LateRead(r)
     PROVE  IPlace'
  BY <1>25 DEF LateRead, Goto, filterVars, groupVars, ownerVars
<1>26. ASSUME NEW r \in Requests, Drop(r)
     PROVE  IPlace'
  <2>1. /\ pc[r] = "late"
        /\ UNCHANGED <<filterVars, groupVars, coalesced_requests, ownerVars, cache,
                       complete, delivered>>
    BY <1>26 DEF Drop
  <2>2. CASE callbacks[r] = r /\ Goto(r, "dropped") /\ Return(r)
    BY <2>1, <2>2 DEF Goto, Return, filterVars, groupVars, ownerVars
  <2>3. CASE /\ callbacks[r] # r
             /\ pc' = [s \in Requests |-> IF s = r THEN "attend"
                                         ELSE IF s = callbacks[r] THEN "dropped"
                                         ELSE pc[s]]
             /\ UNCHANGED running
    <3>1. Founder(r) /\ ~Founder(callbacks[r])
      BY <2>1, <2>3
    <3>2. pc[callbacks[r]] \in {"parked", "done", "dropped", "destroyed"}
      BY <2>1, <2>3, <3>1
    <3> SUFFICES ASSUME NEW s \in Requests
                 PROVE  IPlace!(s)'
      OBVIOUS
    <3>3. CASE s = r
      BY <2>1, <2>3, <3>1, <3>2, <3>3 DEF filterVars, groupVars, ownerVars
    <3>4. CASE s # r /\ s = callbacks[r]
      BY <2>1, <2>3, <3>1, <3>2, <3>4 DEF filterVars, groupVars, ownerVars
    <3>5. CASE s # r /\ s # callbacks[r]
      BY <2>1, <2>3, <3>1, <3>2, <3>5 DEF filterVars, groupVars, ownerVars
    <3> QED BY <3>3, <3>4, <3>5
  <2> QED BY <1>26, <2>2, <2>3 DEF Drop, Resume
<1>27. ASSUME NEW r \in Requests, Serve(r)
     PROVE  IPlace'
  <2>1. /\ pc[r] = "read"
        /\ UNCHANGED <<filterVars, groupVars, coalesced_requests, ownerVars, cache,
                       complete>>
    BY <1>27 DEF Serve
  <2>2. CASE callbacks[r] = r /\ Goto(r, "done") /\ Return(r)
    BY <2>1, <2>2 DEF Goto, Return, filterVars, groupVars, ownerVars
  <2>3. CASE /\ callbacks[r] # r
             /\ pc' = [s \in Requests |-> IF s = r THEN "attend"
                                         ELSE IF s = callbacks[r] THEN "done"
                                         ELSE pc[s]]
             /\ UNCHANGED running
    <3>1. Founder(r) /\ ~Founder(callbacks[r])
      BY <2>1, <2>3
    <3>2. pc[callbacks[r]] \in {"parked", "done", "dropped", "destroyed"}
      BY <2>1, <2>3, <3>1
    <3> SUFFICES ASSUME NEW s \in Requests
                 PROVE  IPlace!(s)'
      OBVIOUS
    <3>3. CASE s = r
      BY <2>1, <2>3, <3>1, <3>2, <3>3 DEF filterVars, groupVars, ownerVars
    <3>4. CASE s # r /\ s = callbacks[r]
      BY <2>1, <2>3, <3>1, <3>2, <3>4 DEF filterVars, groupVars, ownerVars
    <3>5. CASE s # r /\ s # callbacks[r]
      BY <2>1, <2>3, <3>1, <3>2, <3>5 DEF filterVars, groupVars, ownerVars
    <3> QED BY <3>3, <3>4, <3>5
  <2> QED BY <1>27, <2>2, <2>3 DEF Serve, Resume
<1>28. ASSUME NEW r \in Requests, Disconnect(r)
     PROVE  IPlace'
  BY <1>28 DEF Disconnect, Idle, Goto, filterVars, groupVars, ownerVars
<1>29. CASE Terminated
  BY <1>29 DEF Terminated, vars, filterVars, groupVars, ownerVars
<1> HIDE PointFacts, ConstantsAssumption DEF ConstantsAssumption, Roles, TypeOK, IPlace, Founder
<1> QED BY <1>1, <1>2, <1>3, <1>4, <1>5, <1>6, <1>7, <1>8, <1>9, <1>10, <1>11,
      <1>12, <1>13, <1>14, <1>15, <1>16, <1>17, <1>18, <1>19, <1>20, <1>21,
      <1>22, <1>23, <1>24, <1>25, <1>26, <1>27, <1>28, <1>29
     DEF Next, Arrive, ThreadStep, OriginStep

\* Every step keeps the map of groups in line with the open founders: only
\* FoundGroup and Detach write it, when a founder opens and closes its group.
LEMMA MapStep ==
    ASSUME TypeOK, IPlace, IMap, TypeOK', Next
    PROVE  IMap'
<1> USE PointFacts, ConstantsAssumption DEF ConstantsAssumption, Roles, TypeOK, IPlace, IMap, Open, Founder
<1>1. ASSUME NEW r \in Requests, NEW t \in Threads, NEW k \in Keys, FoundGroup(r, t, k)
     PROVE  IMap'
  BY <1>1 DEF FoundGroup, ArriveAt, GroupOf, Idle, Goto, filterVars,
     groupVars, ownerVars
<1>2. ASSUME NEW r \in Requests, NEW t \in Threads, NEW k \in Keys, JoinGroup(r, t, k)
     PROVE  IMap'
  BY <1>2 DEF JoinGroup, ArriveAt, GroupOf, Idle, Goto, filterVars, groupVars,
     ownerVars
<1>3. ASSUME NEW r \in Requests, Enlist(r)
     PROVE  IMap'
  BY <1>3 DEF Enlist, LedExceptKey, Goto, filterVars, groupVars, ownerVars
<1>4. ASSUME NEW r \in Requests, ParkWithOwnGroup(r)
     PROVE  IMap'
  BY <1>4 DEF ParkWithOwnGroup, OwnThreadLeads, Goto, Return, filterVars,
     groupVars, ownerVars
<1>5. ASSUME NEW r \in Requests, ParkWithOtherGroup(r)
     PROVE  IMap'
  BY <1>5 DEF ParkWithOtherGroup, OwnThreadLeads, LeadsOther, Goto, Return,
     filterVars, groupVars, ownerVars
<1>6. ASSUME NEW r \in Requests, StartWaiting(r)
     PROVE  IMap'
  BY <1>6 DEF StartWaiting, OwnThreadLeads, LeadsOther, Goto, filterVars,
     groupVars, ownerVars
<1>7. ASSUME NEW r \in Requests, CacheHit(r)
     PROVE  IMap'
  BY <1>7 DEF CacheHit, Goto, filterVars, groupVars, ownerVars
<1>8. ASSUME NEW r \in Requests, CacheMiss(r)
     PROVE  IMap'
  BY <1>8 DEF CacheMiss, Goto, Return, filterVars, groupVars, ownerVars
<1>9. ASSUME NEW r \in Requests, NEW b \in BOOLEAN, OriginHeaders(r, b)
     PROVE  IMap'
  BY <1>9 DEF OriginHeaders, Enter, Idle, Goto, filterVars, groupVars,
     ownerVars
<1>10. ASSUME NEW r \in Requests, Insert(r)
     PROVE  IMap'
  BY <1>10 DEF Insert, Cached, Goto, filterVars, groupVars, ownerVars
<1>11. ASSUME NEW r \in Requests, NotifyHit(r)
     PROVE  IMap'
  BY <1>11 DEF NotifyHit, Publish, Goto, filterVars, groupVars, ownerVars
<1>12. ASSUME NEW r \in Requests, NotifyMiss(r)
     PROVE  IMap'
  <2>1. /\ pc[r] = "notify" /\ ~entry_cached[r]
        /\ shared' = [shared EXCEPT ![r] = entry[r]]
        /\ UNCHANGED <<filterVars, parked, others, coalesced_requests, ownerVars,
                       cache, complete, delivered>>
    BY <1>12 DEF NotifyMiss, Publish
  <2>2. CASE Goto(r, "finish") /\ UNCHANGED running
    BY <2>1, <2>2 DEF Goto, filterVars, ownerVars
  <2>3. CASE Goto(r, "body") /\ Return(r)
    BY <2>1, <2>3 DEF Goto, Return, filterVars, ownerVars
  <2> QED BY <1>12, <2>2, <2>3 DEF NotifyMiss
<1>13. ASSUME NEW r \in Requests, OriginEnd(r)
     PROVE  IMap'
  BY <1>13 DEF OriginEnd, Enter, Idle, Goto, filterVars, groupVars, ownerVars
<1>14. ASSUME NEW r \in Requests, Finish(r)
     PROVE  IMap'
  BY <1>14 DEF Finish, CompletedBy, Deliver, Goto, filterVars, groupVars,
     ownerVars
<1>15. ASSUME NEW r \in Requests, ServeHit(r)
     PROVE  IMap'
  BY <1>15 DEF ServeHit, Deliver, Goto, filterVars, groupVars, ownerVars
<1>16. ASSUME NEW r \in Requests, Detach(r)
     PROVE  IMap'
  BY <1>16 DEF Detach, Goto, filterVars, groupVars, ownerVars
<1>17. ASSUME NEW r \in Requests, ServeParked(r)
     PROVE  IMap'
  BY <1>17 DEF ServeParked, ProducerEntry, filterVars, groupVars, ownerVars
<1>18. ASSUME NEW r \in Requests, Disown(r)
     PROVE  IMap'
  BY <1>18 DEF Disown, LedExceptKey, ToAttend, Goto, filterVars, groupVars,
     ownerVars
<1>19. ASSUME NEW r \in Requests, Splice(r)
     PROVE  IMap'
  BY <1>19 DEF Splice, Spliced, Goto, Return, filterVars, groupVars, ownerVars
<1>20. ASSUME NEW r \in Requests, NEW q \in Requests, AttendNext(r, q)
     PROVE  IMap'
  BY <1>20 DEF AttendNext, AttendedGroup, Goto, filterVars, groupVars,
     ownerVars
<1>21. ASSUME NEW r \in Requests, AttendedAll(r)
     PROVE  IMap'
  BY <1>21 DEF AttendedAll, Goto, filterVars, groupVars, ownerVars
<1>22. ASSUME NEW r \in Requests, Release(r)
     PROVE  IMap'
  BY <1>22 DEF Release, LeadsNothing, Goto, Return, filterVars, groupVars,
     ownerVars
<1>23. ASSUME NEW r \in Requests, Wake(r)
     PROVE  IMap'
  BY <1>23 DEF Wake, Goto, filterVars, groupVars, ownerVars
<1>24. ASSUME NEW r \in Requests, Timeout(r)
     PROVE  IMap'
  BY <1>24 DEF Timeout, Goto, filterVars, groupVars, ownerVars
<1>25. ASSUME NEW r \in Requests, LateRead(r)
     PROVE  IMap'
  BY <1>25 DEF LateRead, Goto, filterVars, groupVars, ownerVars
<1>26. ASSUME NEW r \in Requests, Drop(r)
     PROVE  IMap'
  <2>1. /\ pc[r] = "late"
        /\ UNCHANGED <<filterVars, groupVars, coalesced_requests, ownerVars, cache,
                       complete, delivered>>
    BY <1>26 DEF Drop
  <2>2. CASE callbacks[r] = r /\ Goto(r, "dropped") /\ Return(r)
    BY <2>1, <2>2 DEF Goto, Return, filterVars, groupVars, ownerVars
  <2>3. CASE /\ callbacks[r] # r
             /\ pc' = [s \in Requests |-> IF s = r THEN "attend"
                                         ELSE IF s = callbacks[r] THEN "dropped"
                                         ELSE pc[s]]
             /\ UNCHANGED running
    BY <2>1, <2>3 DEF filterVars, groupVars, ownerVars
  <2> QED BY <1>26, <2>2, <2>3 DEF Drop, Resume
<1>27. ASSUME NEW r \in Requests, Serve(r)
     PROVE  IMap'
  <2>1. /\ pc[r] = "read"
        /\ UNCHANGED <<filterVars, groupVars, coalesced_requests, ownerVars, cache,
                       complete>>
    BY <1>27 DEF Serve
  <2>2. CASE callbacks[r] = r /\ Goto(r, "done") /\ Return(r)
    BY <2>1, <2>2 DEF Goto, Return, filterVars, groupVars, ownerVars
  <2>3. CASE /\ callbacks[r] # r
             /\ pc' = [s \in Requests |-> IF s = r THEN "attend"
                                         ELSE IF s = callbacks[r] THEN "done"
                                         ELSE pc[s]]
             /\ UNCHANGED running
    BY <2>1, <2>3 DEF filterVars, groupVars, ownerVars
  <2> QED BY <1>27, <2>2, <2>3 DEF Serve, Resume
<1>28. ASSUME NEW r \in Requests, Disconnect(r)
     PROVE  IMap'
  BY <1>28 DEF Disconnect, Idle, Goto, filterVars, groupVars, ownerVars
<1>29. CASE Terminated
  BY <1>29 DEF Terminated, vars, filterVars, groupVars, ownerVars
<1> HIDE PointFacts, ConstantsAssumption DEF ConstantsAssumption, Roles, TypeOK, IPlace, IMap, Open, Founder
<1> QED BY <1>1, <1>2, <1>3, <1>4, <1>5, <1>6, <1>7, <1>8, <1>9, <1>10, <1>11,
      <1>12, <1>13, <1>14, <1>15, <1>16, <1>17, <1>18, <1>19, <1>20, <1>21,
      <1>22, <1>23, <1>24, <1>25, <1>26, <1>27, <1>28, <1>29
     DEF Next, Arrive, ThreadStep, OriginStep

\* Every step leaves a thread to the stream it runs: an event enters an idle
\* thread, and the end of a callback frees it.
LEMMA RunStep ==
    ASSUME TypeOK, IPlace, IRun, TypeOK', Next
    PROVE  IRun'
<1> USE PointFacts, ConstantsAssumption DEF ConstantsAssumption, Roles, TypeOK, IPlace, IRun
<1>1. ASSUME NEW r \in Requests, NEW t \in Threads, NEW k \in Keys, FoundGroup(r, t, k)
     PROVE  IRun'
  BY <1>1 DEF FoundGroup, ArriveAt, GroupOf, Idle, Goto, filterVars,
     groupVars, ownerVars
<1>2. ASSUME NEW r \in Requests, NEW t \in Threads, NEW k \in Keys, JoinGroup(r, t, k)
     PROVE  IRun'
  BY <1>2 DEF JoinGroup, ArriveAt, GroupOf, Idle, Goto, filterVars, groupVars,
     ownerVars
<1>3. ASSUME NEW r \in Requests, Enlist(r)
     PROVE  IRun'
  BY <1>3 DEF Enlist, LedExceptKey, Goto, filterVars, groupVars, ownerVars
<1>4. ASSUME NEW r \in Requests, ParkWithOwnGroup(r)
     PROVE  IRun'
  BY <1>4 DEF ParkWithOwnGroup, OwnThreadLeads, Goto, Return, filterVars,
     groupVars, ownerVars
<1>5. ASSUME NEW r \in Requests, ParkWithOtherGroup(r)
     PROVE  IRun'
  BY <1>5 DEF ParkWithOtherGroup, OwnThreadLeads, LeadsOther, Goto, Return,
     filterVars, groupVars, ownerVars
<1>6. ASSUME NEW r \in Requests, StartWaiting(r)
     PROVE  IRun'
  BY <1>6 DEF StartWaiting, OwnThreadLeads, LeadsOther, Goto, filterVars,
     groupVars, ownerVars
<1>7. ASSUME NEW r \in Requests, CacheHit(r)
     PROVE  IRun'
  BY <1>7 DEF CacheHit, Goto, filterVars, groupVars, ownerVars
<1>8. ASSUME NEW r \in Requests, CacheMiss(r)
     PROVE  IRun'
  BY <1>8 DEF CacheMiss, Goto, Return, filterVars, groupVars, ownerVars
<1>9. ASSUME NEW r \in Requests, NEW b \in BOOLEAN, OriginHeaders(r, b)
     PROVE  IRun'
  BY <1>9 DEF OriginHeaders, Enter, Idle, Goto, filterVars, groupVars,
     ownerVars
<1>10. ASSUME NEW r \in Requests, Insert(r)
     PROVE  IRun'
  BY <1>10 DEF Insert, Cached, Goto, filterVars, groupVars, ownerVars
<1>11. ASSUME NEW r \in Requests, NotifyHit(r)
     PROVE  IRun'
  BY <1>11 DEF NotifyHit, Publish, Goto, filterVars, groupVars, ownerVars
<1>12. ASSUME NEW r \in Requests, NotifyMiss(r)
     PROVE  IRun'
  <2>1. /\ pc[r] = "notify" /\ ~entry_cached[r]
        /\ shared' = [shared EXCEPT ![r] = entry[r]]
        /\ UNCHANGED <<filterVars, parked, others, coalesced_requests, ownerVars,
                       cache, complete, delivered>>
    BY <1>12 DEF NotifyMiss, Publish
  <2>2. CASE Goto(r, "finish") /\ UNCHANGED running
    BY <2>1, <2>2 DEF Goto, filterVars, ownerVars
  <2>3. CASE Goto(r, "body") /\ Return(r)
    BY <2>1, <2>3 DEF Goto, Return, filterVars, ownerVars
  <2> QED BY <1>12, <2>2, <2>3 DEF NotifyMiss
<1>13. ASSUME NEW r \in Requests, OriginEnd(r)
     PROVE  IRun'
  BY <1>13 DEF OriginEnd, Enter, Idle, Goto, filterVars, groupVars, ownerVars
<1>14. ASSUME NEW r \in Requests, Finish(r)
     PROVE  IRun'
  BY <1>14 DEF Finish, CompletedBy, Deliver, Goto, filterVars, groupVars,
     ownerVars
<1>15. ASSUME NEW r \in Requests, ServeHit(r)
     PROVE  IRun'
  BY <1>15 DEF ServeHit, Deliver, Goto, filterVars, groupVars, ownerVars
<1>16. ASSUME NEW r \in Requests, Detach(r)
     PROVE  IRun'
  BY <1>16 DEF Detach, Goto, filterVars, groupVars, ownerVars
<1>17. ASSUME NEW r \in Requests, ServeParked(r)
     PROVE  IRun'
  BY <1>17 DEF ServeParked, ProducerEntry, filterVars, groupVars, ownerVars
<1>18. ASSUME NEW r \in Requests, Disown(r)
     PROVE  IRun'
  BY <1>18 DEF Disown, LedExceptKey, ToAttend, Goto, filterVars, groupVars,
     ownerVars
<1>19. ASSUME NEW r \in Requests, Splice(r)
     PROVE  IRun'
  BY <1>19 DEF Splice, Spliced, Goto, Return, filterVars, groupVars, ownerVars
<1>20. ASSUME NEW r \in Requests, NEW q \in Requests, AttendNext(r, q)
     PROVE  IRun'
  BY <1>20 DEF AttendNext, AttendedGroup, Goto, filterVars, groupVars,
     ownerVars
<1>21. ASSUME NEW r \in Requests, AttendedAll(r)
     PROVE  IRun'
  BY <1>21 DEF AttendedAll, Goto, filterVars, groupVars, ownerVars
<1>22. ASSUME NEW r \in Requests, Release(r)
     PROVE  IRun'
  BY <1>22 DEF Release, LeadsNothing, Goto, Return, filterVars, groupVars,
     ownerVars
<1>23. ASSUME NEW r \in Requests, Wake(r)
     PROVE  IRun'
  BY <1>23 DEF Wake, Goto, filterVars, groupVars, ownerVars
<1>24. ASSUME NEW r \in Requests, Timeout(r)
     PROVE  IRun'
  BY <1>24 DEF Timeout, Goto, filterVars, groupVars, ownerVars
<1>25. ASSUME NEW r \in Requests, LateRead(r)
     PROVE  IRun'
  BY <1>25 DEF LateRead, Goto, filterVars, groupVars, ownerVars
<1>26. ASSUME NEW r \in Requests, Drop(r)
     PROVE  IRun'
  <2>1. /\ pc[r] = "late"
        /\ UNCHANGED <<filterVars, groupVars, coalesced_requests, ownerVars, cache,
                       complete, delivered>>
    BY <1>26 DEF Drop
  <2>2. CASE callbacks[r] = r /\ Goto(r, "dropped") /\ Return(r)
    BY <2>1, <2>2 DEF Goto, Return, filterVars, groupVars, ownerVars
  <2>3. CASE /\ callbacks[r] # r
             /\ pc' = [s \in Requests |-> IF s = r THEN "attend"
                                         ELSE IF s = callbacks[r] THEN "dropped"
                                         ELSE pc[s]]
             /\ UNCHANGED running
    <3>1. pc[callbacks[r]] \notin Running
      <4>1. Founder(r) /\ pc[r] \in Blocked
        BY <2>1, <2>3
      <4>2. pc[callbacks[r]] \in {"parked", "done", "dropped", "destroyed"}
        BY <4>1
      <4> QED BY <4>2
    <3>2. ASSUME NEW t \in Threads, running[t] # Nil
          PROVE  thread[running[t]] = t /\ pc'[running[t]] \in Running
      <4>1. running[t] \in Requests /\ pc[running[t]] \in Running
        BY <3>2
      <4>2. running[t] # callbacks[r]
        BY <3>1, <4>1
      <4> QED BY <2>3, <3>2, <4>1, <4>2
    <3>3. ASSUME NEW s \in Requests, pc'[s] \in Running
          PROVE  running[thread[s]] = s
      BY <2>1, <2>3, <3>3
    <3> QED BY <2>1, <2>3, <3>2, <3>3 DEF filterVars
  <2> QED BY <1>26, <2>2, <2>3 DEF Drop, Resume
<1>27. ASSUME NEW r \in Requests, Serve(r)
     PROVE  IRun'
  <2>1. /\ pc[r] = "read"
        /\ UNCHANGED <<filterVars, groupVars, coalesced_requests, ownerVars, cache,
                       complete>>
    BY <1>27 DEF Serve
  <2>2. CASE callbacks[r] = r /\ Goto(r, "done") /\ Return(r)
    BY <2>1, <2>2 DEF Goto, Return, filterVars, groupVars, ownerVars
  <2>3. CASE /\ callbacks[r] # r
             /\ pc' = [s \in Requests |-> IF s = r THEN "attend"
                                         ELSE IF s = callbacks[r] THEN "done"
                                         ELSE pc[s]]
             /\ UNCHANGED running
    <3>1. pc[callbacks[r]] \notin Running
      <4>1. Founder(r) /\ pc[r] \in Blocked
        BY <2>1, <2>3
      <4>2. pc[callbacks[r]] \in {"parked", "done", "dropped", "destroyed"}
        BY <4>1
      <4> QED BY <4>2
    <3>2. ASSUME NEW t \in Threads, running[t] # Nil
          PROVE  thread[running[t]] = t /\ pc'[running[t]] \in Running
      <4>1. running[t] \in Requests /\ pc[running[t]] \in Running
        BY <3>2
      <4>2. running[t] # callbacks[r]
        BY <3>1, <4>1
      <4> QED BY <2>3, <3>2, <4>1, <4>2
    <3>3. ASSUME NEW s \in Requests, pc'[s] \in Running
          PROVE  running[thread[s]] = s
      BY <2>1, <2>3, <3>3
    <3> QED BY <2>1, <2>3, <3>2, <3>3 DEF filterVars
  <2> QED BY <1>27, <2>2, <2>3 DEF Serve, Resume
<1>28. ASSUME NEW r \in Requests, Disconnect(r)
     PROVE  IRun'
  BY <1>28 DEF Disconnect, Idle, Goto, filterVars, groupVars, ownerVars
<1>29. CASE Terminated
  BY <1>29 DEF Terminated, vars, filterVars, groupVars, ownerVars
<1> HIDE PointFacts, ConstantsAssumption DEF ConstantsAssumption, Roles, TypeOK, IPlace, IRun
<1> QED BY <1>1, <1>2, <1>3, <1>4, <1>5, <1>6, <1>7, <1>8, <1>9, <1>10, <1>11,
      <1>12, <1>13, <1>14, <1>15, <1>16, <1>17, <1>18, <1>19, <1>20, <1>21,
      <1>22, <1>23, <1>24, <1>25, <1>26, <1>27, <1>28, <1>29
     DEF Next, Arrive, ThreadStep, OriginStep

\* Every step keeps leader_threads_for_rc_ in line with the groups led: a joiner
\* sleeps only on a thread that is not in the map, a founder only after the last
\* group of its thread is gone.
LEMMA LedStep ==
    ASSUME TypeOK, IPlace, IRun, ILed, Next
    PROVE  ILed'
<1> USE PointFacts, ConstantsAssumption DEF ConstantsAssumption, Roles, TypeOK, IPlace, IRun, ILed, Winding,
    Founder
<1>1. ASSUME NEW r \in Requests, NEW t \in Threads, NEW k \in Keys, FoundGroup(r, t, k)
     PROVE  ILed'
  BY <1>1 DEF FoundGroup, ArriveAt, GroupOf, Idle, Goto, filterVars,
     groupVars, ownerVars
<1>2. ASSUME NEW r \in Requests, NEW t \in Threads, NEW k \in Keys, JoinGroup(r, t, k)
     PROVE  ILed'
  BY <1>2 DEF JoinGroup, ArriveAt, GroupOf, Idle, Goto, filterVars, groupVars,
     ownerVars
<1>3. ASSUME NEW r \in Requests, Enlist(r)
     PROVE  ILed'
  <2>1. /\ led' = [led EXCEPT ![thread[r]] = LedExceptKey(thread[r], key[r]) \union {r}]
        /\ leader_threads' = leader_threads \union {thread[r]}
        /\ pc' = [pc EXCEPT ![r] = "query"]
        /\ UNCHANGED <<thread, role, running>>
        /\ thread[r] \in Threads /\ running[thread[r]] = r /\ pc[r] = "enlist"
    BY <1>3 DEF Enlist, Goto, filterVars
  <2>2. r \in led'[thread[r]]
    BY <2>1
  <2>3. ASSUME NEW t \in Threads, t # thread[r]
        PROVE  led'[t] = led[t] /\ (Winding(t)' <=> Winding(t))
    <3>1. led'[t] = led[t]
      BY <2>1, <2>3
    <3>2. running[t] # r
      BY <2>1, <2>3
    <3>3. running[t] # Nil => running[t] \in Requests /\ pc'[running[t]] = pc[running[t]]
      BY <2>1, <3>2
    <3> QED BY <2>1, <3>1, <3>3
  <2>4. ASSUME NEW s \in Requests, pc'[s] \in Blocked
        PROVE  led'[thread'[s]] = {}
    <3>1. s # r /\ pc[s] \in Blocked
      BY <2>1, <2>4
    <3>2. pc[s] \in Running /\ thread[s] \in Threads
      BY <3>1
    <3>3. thread[s] # thread[r]
      BY <2>1, <3>1, <3>2
    <3> QED BY <2>1, <2>3, <3>1, <3>2, <3>3
  <2>5. \A t \in Threads : led'[t] # {} => t \in leader_threads'
    BY <2>1, <2>3
  <2>6. \A t \in leader_threads' : led'[t] # {} \/ Winding(t)'
    <3>1. ASSUME NEW t \in Threads, t \in leader_threads', t # thread[r]
          PROVE  led'[t] # {} \/ Winding(t)'
      <4>1. led[t] # {} \/ Winding(t)
        BY <2>1, <3>1
      <4> QED BY <2>3, <3>1, <4>1
    <3>2. leader_threads' \subseteq Threads
      BY <2>1
    <3> HIDE DEF Winding
    <3> QED BY <2>2, <3>1, <3>2
  <2> QED BY <2>4, <2>5, <2>6
<1>4. ASSUME NEW r \in Requests, ParkWithOwnGroup(r)
     PROVE  ILed'
  <2>1. /\ pc[r] = "join" /\ thread[r] \in Threads /\ running[thread[r]] = r
        /\ role' = [role EXCEPT ![r] = "LEADER"]
        /\ pc' = [pc EXCEPT ![r] = "parked"]
        /\ running' = [running EXCEPT ![thread[r]] = Nil]
        /\ UNCHANGED <<thread, leader_threads, led>>
    BY <1>4 DEF ParkWithOwnGroup, Goto, Return, ownerVars
  <2>2. thread[r] \in leader_threads => led[thread[r]] # {}
    <3>1. ~Winding(thread[r])
      BY <2>1
    <3> HIDE DEF Winding
    <3> QED BY <2>1, <3>1
  <2>3. ASSUME NEW t \in Threads, t # thread[r]
        PROVE  Winding(t)' <=> Winding(t)
    <3>1. running'[t] = running[t] /\ running[t] # r
      BY <2>1, <2>3
    <3> QED BY <2>1, <3>1
  <2>4. \A t \in leader_threads' : led'[t] # {} \/ Winding(t)'
    BY <2>1, <2>2, <2>3
  <2>5. \A s \in Requests : pc'[s] \in Blocked => led'[thread'[s]] = {}
    BY <2>1
  <2> QED BY <2>1, <2>4, <2>5
<1>5. ASSUME NEW r \in Requests, ParkWithOtherGroup(r)
     PROVE  ILed'
  BY <1>5 DEF ParkWithOtherGroup, OwnThreadLeads, LeadsOther, Goto, Return,
     filterVars, groupVars, ownerVars
<1>6. ASSUME NEW r \in Requests, StartWaiting(r)
     PROVE  ILed'
  BY <1>6 DEF StartWaiting, OwnThreadLeads, LeadsOther, Goto, filterVars,
     groupVars, ownerVars
<1>7. ASSUME NEW r \in Requests, CacheHit(r)
     PROVE  ILed'
  BY <1>7 DEF CacheHit, Goto, filterVars, groupVars, ownerVars
<1>8. ASSUME NEW r \in Requests, CacheMiss(r)
     PROVE  ILed'
  BY <1>8 DEF CacheMiss, Goto, Return, filterVars, groupVars, ownerVars
<1>9. ASSUME NEW r \in Requests, NEW b \in BOOLEAN, OriginHeaders(r, b)
     PROVE  ILed'
  BY <1>9 DEF OriginHeaders, Enter, Idle, Goto, filterVars, groupVars,
     ownerVars
<1>10. ASSUME NEW r \in Requests, Insert(r)
     PROVE  ILed'
  BY <1>10 DEF Insert, Cached, Goto, filterVars, groupVars, ownerVars
<1>11. ASSUME NEW r \in Requests, NotifyHit(r)
     PROVE  ILed'
  BY <1>11 DEF NotifyHit, Publish, Goto, filterVars, groupVars, ownerVars
<1>12. ASSUME NEW r \in Requests, NotifyMiss(r)
     PROVE  ILed'
  <2>1. /\ pc[r] = "notify" /\ ~entry_cached[r]
        /\ shared' = [shared EXCEPT ![r] = entry[r]]
        /\ UNCHANGED <<filterVars, parked, others, coalesced_requests, ownerVars,
                       cache, complete, delivered>>
    BY <1>12 DEF NotifyMiss, Publish
  <2>2. CASE Goto(r, "finish") /\ UNCHANGED running
    BY <2>1, <2>2 DEF Goto, filterVars, ownerVars
  <2>3. CASE Goto(r, "body") /\ Return(r)
    BY <2>1, <2>3 DEF Goto, Return, filterVars, ownerVars
  <2> QED BY <1>12, <2>2, <2>3 DEF NotifyMiss
<1>13. ASSUME NEW r \in Requests, OriginEnd(r)
     PROVE  ILed'
  BY <1>13 DEF OriginEnd, Enter, Idle, Goto, filterVars, groupVars, ownerVars
<1>14. ASSUME NEW r \in Requests, Finish(r)
     PROVE  ILed'
  BY <1>14 DEF Finish, CompletedBy, Deliver, Goto, filterVars, groupVars,
     ownerVars
<1>15. ASSUME NEW r \in Requests, ServeHit(r)
     PROVE  ILed'
  BY <1>15 DEF ServeHit, Deliver, Goto, filterVars, groupVars, ownerVars
<1>16. ASSUME NEW r \in Requests, Detach(r)
     PROVE  ILed'
  BY <1>16 DEF Detach, Goto, filterVars, groupVars, ownerVars
<1>17. ASSUME NEW r \in Requests, ServeParked(r)
     PROVE  ILed'
  BY <1>17 DEF ServeParked, ProducerEntry, filterVars, groupVars, ownerVars
<1>18. ASSUME NEW r \in Requests, Disown(r)
     PROVE  ILed'
  BY <1>18 DEF Disown, LedExceptKey, ToAttend, Goto, filterVars, groupVars,
     ownerVars
<1>19. ASSUME NEW r \in Requests, Splice(r)
     PROVE  ILed'
  BY <1>19 DEF Splice, Spliced, Goto, Return, filterVars, groupVars, ownerVars
<1>20. ASSUME NEW r \in Requests, NEW q \in Requests, AttendNext(r, q)
     PROVE  ILed'
  BY <1>20 DEF AttendNext, AttendedGroup, Goto, filterVars, groupVars,
     ownerVars
<1>21. ASSUME NEW r \in Requests, AttendedAll(r)
     PROVE  ILed'
  BY <1>21 DEF AttendedAll, Goto, filterVars, groupVars, ownerVars
<1>22. ASSUME NEW r \in Requests, Release(r)
     PROVE  ILed'
  BY <1>22 DEF Release, LeadsNothing, Goto, Return, filterVars, groupVars,
     ownerVars
<1>23. ASSUME NEW r \in Requests, Wake(r)
     PROVE  ILed'
  BY <1>23 DEF Wake, Goto, filterVars, groupVars, ownerVars
<1>24. ASSUME NEW r \in Requests, Timeout(r)
     PROVE  ILed'
  BY <1>24 DEF Timeout, Goto, filterVars, groupVars, ownerVars
<1>25. ASSUME NEW r \in Requests, LateRead(r)
     PROVE  ILed'
  BY <1>25 DEF LateRead, Goto, filterVars, groupVars, ownerVars
<1>26. ASSUME NEW r \in Requests, Drop(r)
     PROVE  ILed'
  <2>1. /\ pc[r] = "late"
        /\ UNCHANGED <<filterVars, groupVars, coalesced_requests, ownerVars, cache,
                       complete, delivered>>
    BY <1>26 DEF Drop
  <2>2. CASE callbacks[r] = r /\ Goto(r, "dropped") /\ Return(r)
    BY <2>1, <2>2 DEF Goto, Return, filterVars, groupVars, ownerVars
  <2>3. CASE /\ callbacks[r] # r
             /\ pc' = [s \in Requests |-> IF s = r THEN "attend"
                                         ELSE IF s = callbacks[r] THEN "dropped"
                                         ELSE pc[s]]
             /\ UNCHANGED running
    BY <2>1, <2>3 DEF filterVars, groupVars, ownerVars
  <2> QED BY <1>26, <2>2, <2>3 DEF Drop, Resume
<1>27. ASSUME NEW r \in Requests, Serve(r)
     PROVE  ILed'
  <2>1. /\ pc[r] = "read"
        /\ UNCHANGED <<filterVars, groupVars, coalesced_requests, ownerVars, cache,
                       complete>>
    BY <1>27 DEF Serve
  <2>2. CASE callbacks[r] = r /\ Goto(r, "done") /\ Return(r)
    BY <2>1, <2>2 DEF Goto, Return, filterVars, groupVars, ownerVars
  <2>3. CASE /\ callbacks[r] # r
             /\ pc' = [s \in Requests |-> IF s = r THEN "attend"
                                         ELSE IF s = callbacks[r] THEN "done"
                                         ELSE pc[s]]
             /\ UNCHANGED running
    BY <2>1, <2>3 DEF filterVars, groupVars, ownerVars
  <2> QED BY <1>27, <2>2, <2>3 DEF Serve, Resume
<1>28. ASSUME NEW r \in Requests, Disconnect(r)
     PROVE  ILed'
  BY <1>28 DEF Disconnect, Idle, Goto, filterVars, groupVars, ownerVars
<1>29. CASE Terminated
  BY <1>29 DEF Terminated, vars, filterVars, groupVars, ownerVars
<1> HIDE PointFacts, ConstantsAssumption DEF ConstantsAssumption, Roles, TypeOK, IPlace, IRun, ILed, Winding,
    Founder
<1> QED BY <1>1, <1>2, <1>3, <1>4, <1>5, <1>6, <1>7, <1>8, <1>9, <1>10, <1>11,
      <1>12, <1>13, <1>14, <1>15, <1>16, <1>17, <1>18, <1>19, <1>20, <1>21,
      <1>22, <1>23, <1>24, <1>25, <1>26, <1>27, <1>28, <1>29
     DEF Next, Arrive, ThreadStep, OriginStep

\* Between the lookup of a group and the parking of the joiner, a founder on the
\* joiner's thread cannot move, so it still waits for the origin.
LEMMA JoinStep ==
    ASSUME TypeOK, IPlace, IMap, IRun, IJoin, Next
    PROVE  IJoin'
<1> USE PointFacts, ConstantsAssumption DEF ConstantsAssumption, Roles, TypeOK, IPlace, IMap, Open, IRun,
    IJoin, Founder
<1>1. ASSUME NEW r \in Requests, NEW t \in Threads, NEW k \in Keys, FoundGroup(r, t, k)
     PROVE  IJoin'
  BY <1>1 DEF FoundGroup, ArriveAt, GroupOf, Idle, Goto, filterVars,
     groupVars, ownerVars
<1>2. ASSUME NEW r \in Requests, NEW t \in Threads, NEW k \in Keys, JoinGroup(r, t, k)
     PROVE  IJoin'
  <2> DEFINE g == coalesced_requests[k]
  <2>1. /\ pc[r] = "new" /\ role[r] = Nil /\ running[t] = Nil /\ g # Nil
        /\ pc' = [pc EXCEPT ![r] = "join"]
        /\ thread' = [thread EXCEPT ![r] = t]
        /\ wrapper' = [wrapper EXCEPT ![r] = g]
        /\ UNCHANGED <<role, parked, entry_cached>>
    BY <1>2 DEF JoinGroup, ArriveAt, GroupOf, Idle, Goto, groupVars
  <2>2. g \in Requests /\ Founder(g) /\ g # r /\ thread[g] \in Threads
    BY <2>1
  <2>3. pc[g] \in InMap \union {"destroyed"}
    BY <2>1
  <2> HIDE DEF g
  <2>4. thread[g] = t => pc[g] \notin Running
    BY <2>1, <2>2
  <2>5. pc[g] \notin Running => pc[g] \in {"upstream", "body", "destroyed"}
    BY <2>3 DEF InMap, Running, Points, Blocked, Suspended
  <2>6. ASSUME NEW s \in Requests, s # r, pc'[s] = "join"
        PROVE  /\ Founder(wrapper'[s])
               /\ thread'[wrapper'[s]] = thread'[s] =>
                     pc'[wrapper'[s]] \in {"upstream", "body", "destroyed"}
    <3>1. pc[s] = "join" /\ wrapper'[s] = wrapper[s] /\ wrapper[s] \in Requests
      BY <2>1, <2>6
    <3>2. Founder(wrapper[s]) /\ wrapper[s] # r
      BY <2>1, <3>1
    <3> QED BY <2>1, <2>6, <3>1, <3>2
  <2>7. /\ Founder(wrapper'[r])
        /\ thread'[wrapper'[r]] = thread'[r] =>
              pc'[wrapper'[r]] \in {"upstream", "body", "destroyed"}
    BY <2>1, <2>2, <2>4, <2>5
  <2>8. \A s \in Requests : parked'[s] # {} => ~entry_cached'[s]
    BY <2>1
  <2> QED BY <2>1, <2>6, <2>7, <2>8
<1>3. ASSUME NEW r \in Requests, Enlist(r)
     PROVE  IJoin'
  BY <1>3 DEF Enlist, LedExceptKey, Goto, filterVars, groupVars, ownerVars
<1>4. ASSUME NEW r \in Requests, ParkWithOwnGroup(r)
     PROVE  IJoin'
  BY <1>4 DEF ParkWithOwnGroup, OwnThreadLeads, Goto, Return, filterVars,
     groupVars, ownerVars
<1>5. ASSUME NEW r \in Requests, ParkWithOtherGroup(r)
     PROVE  IJoin'
  BY <1>5 DEF ParkWithOtherGroup, OwnThreadLeads, LeadsOther, Goto, Return,
     filterVars, groupVars, ownerVars
<1>6. ASSUME NEW r \in Requests, StartWaiting(r)
     PROVE  IJoin'
  BY <1>6 DEF StartWaiting, OwnThreadLeads, LeadsOther, Goto, filterVars,
     groupVars, ownerVars
<1>7. ASSUME NEW r \in Requests, CacheHit(r)
     PROVE  IJoin'
  BY <1>7 DEF CacheHit, Goto, filterVars, groupVars, ownerVars
<1>8. ASSUME NEW r \in Requests, CacheMiss(r)
     PROVE  IJoin'
  BY <1>8 DEF CacheMiss, Goto, Return, filterVars, groupVars, ownerVars
<1>9. ASSUME NEW r \in Requests, NEW b \in BOOLEAN, OriginHeaders(r, b)
     PROVE  IJoin'
  BY <1>9 DEF OriginHeaders, Enter, Idle, Goto, filterVars, groupVars,
     ownerVars
<1>10. ASSUME NEW r \in Requests, Insert(r)
     PROVE  IJoin'
  BY <1>10 DEF Insert, Cached, Goto, filterVars, groupVars, ownerVars
<1>11. ASSUME NEW r \in Requests, NotifyHit(r)
     PROVE  IJoin'
  BY <1>11 DEF NotifyHit, Publish, Goto, filterVars, groupVars, ownerVars
<1>12. ASSUME NEW r \in Requests, NotifyMiss(r)
     PROVE  IJoin'
  <2>1. /\ pc[r] = "notify" /\ ~entry_cached[r]
        /\ shared' = [shared EXCEPT ![r] = entry[r]]
        /\ UNCHANGED <<filterVars, parked, others, coalesced_requests, ownerVars,
                       cache, complete, delivered>>
    BY <1>12 DEF NotifyMiss, Publish
  <2>2. CASE Goto(r, "finish") /\ UNCHANGED running
    BY <2>1, <2>2 DEF Goto, filterVars, ownerVars
  <2>3. CASE Goto(r, "body") /\ Return(r)
    BY <2>1, <2>3 DEF Goto, Return, filterVars, ownerVars
  <2> QED BY <1>12, <2>2, <2>3 DEF NotifyMiss
<1>13. ASSUME NEW r \in Requests, OriginEnd(r)
     PROVE  IJoin'
  BY <1>13 DEF OriginEnd, Enter, Idle, Goto, filterVars, groupVars, ownerVars
<1>14. ASSUME NEW r \in Requests, Finish(r)
     PROVE  IJoin'
  BY <1>14 DEF Finish, CompletedBy, Deliver, Goto, filterVars, groupVars,
     ownerVars
<1>15. ASSUME NEW r \in Requests, ServeHit(r)
     PROVE  IJoin'
  BY <1>15 DEF ServeHit, Deliver, Goto, filterVars, groupVars, ownerVars
<1>16. ASSUME NEW r \in Requests, Detach(r)
     PROVE  IJoin'
  BY <1>16 DEF Detach, Goto, filterVars, groupVars, ownerVars
<1>17. ASSUME NEW r \in Requests, ServeParked(r)
     PROVE  IJoin'
  BY <1>17 DEF ServeParked, ProducerEntry, filterVars, groupVars, ownerVars
<1>18. ASSUME NEW r \in Requests, Disown(r)
     PROVE  IJoin'
  BY <1>18 DEF Disown, LedExceptKey, ToAttend, Goto, filterVars, groupVars,
     ownerVars
<1>19. ASSUME NEW r \in Requests, Splice(r)
     PROVE  IJoin'
  BY <1>19 DEF Splice, Spliced, Goto, Return, filterVars, groupVars, ownerVars
<1>20. ASSUME NEW r \in Requests, NEW q \in Requests, AttendNext(r, q)
     PROVE  IJoin'
  BY <1>20 DEF AttendNext, AttendedGroup, Goto, filterVars, groupVars,
     ownerVars
<1>21. ASSUME NEW r \in Requests, AttendedAll(r)
     PROVE  IJoin'
  BY <1>21 DEF AttendedAll, Goto, filterVars, groupVars, ownerVars
<1>22. ASSUME NEW r \in Requests, Release(r)
     PROVE  IJoin'
  BY <1>22 DEF Release, LeadsNothing, Goto, Return, filterVars, groupVars,
     ownerVars
<1>23. ASSUME NEW r \in Requests, Wake(r)
     PROVE  IJoin'
  BY <1>23 DEF Wake, Goto, filterVars, groupVars, ownerVars
<1>24. ASSUME NEW r \in Requests, Timeout(r)
     PROVE  IJoin'
  BY <1>24 DEF Timeout, Goto, filterVars, groupVars, ownerVars
<1>25. ASSUME NEW r \in Requests, LateRead(r)
     PROVE  IJoin'
  BY <1>25 DEF LateRead, Goto, filterVars, groupVars, ownerVars
<1>26. ASSUME NEW r \in Requests, Drop(r)
     PROVE  IJoin'
  <2>1. /\ pc[r] = "late"
        /\ UNCHANGED <<filterVars, groupVars, coalesced_requests, ownerVars, cache,
                       complete, delivered>>
    BY <1>26 DEF Drop
  <2>2. CASE callbacks[r] = r /\ Goto(r, "dropped") /\ Return(r)
    BY <2>1, <2>2 DEF Goto, Return, filterVars, groupVars, ownerVars
  <2>3. CASE /\ callbacks[r] # r
             /\ pc' = [s \in Requests |-> IF s = r THEN "attend"
                                         ELSE IF s = callbacks[r] THEN "dropped"
                                         ELSE pc[s]]
             /\ UNCHANGED running
    BY <2>1, <2>3 DEF filterVars, groupVars, ownerVars
  <2> QED BY <1>26, <2>2, <2>3 DEF Drop, Resume
<1>27. ASSUME NEW r \in Requests, Serve(r)
     PROVE  IJoin'
  <2>1. /\ pc[r] = "read"
        /\ UNCHANGED <<filterVars, groupVars, coalesced_requests, ownerVars, cache,
                       complete>>
    BY <1>27 DEF Serve
  <2>2. CASE callbacks[r] = r /\ Goto(r, "done") /\ Return(r)
    BY <2>1, <2>2 DEF Goto, Return, filterVars, groupVars, ownerVars
  <2>3. CASE /\ callbacks[r] # r
             /\ pc' = [s \in Requests |-> IF s = r THEN "attend"
                                         ELSE IF s = callbacks[r] THEN "done"
                                         ELSE pc[s]]
             /\ UNCHANGED running
    BY <2>1, <2>3 DEF filterVars, groupVars, ownerVars
  <2> QED BY <1>27, <2>2, <2>3 DEF Serve, Resume
<1>28. ASSUME NEW r \in Requests, Disconnect(r)
     PROVE  IJoin'
  BY <1>28 DEF Disconnect, Idle, Goto, filterVars, groupVars, ownerVars
<1>29. CASE Terminated
  BY <1>29 DEF Terminated, vars, filterVars, groupVars, ownerVars
<1> HIDE PointFacts, ConstantsAssumption DEF ConstantsAssumption, Roles, TypeOK, IPlace, IMap, Open, IRun,
    IJoin, Founder
<1> QED BY <1>1, <1>2, <1>3, <1>4, <1>5, <1>6, <1>7, <1>8, <1>9, <1>10, <1>11,
      <1>12, <1>13, <1>14, <1>15, <1>16, <1>17, <1>18, <1>19, <1>20, <1>21,
      <1>22, <1>23, <1>24, <1>25, <1>26, <1>27, <1>28, <1>29
     DEF Next, Arrive, ThreadStep, OriginStep

\* Every step keeps the cache to entries of the right key that are complete, or
\* whose founder is still open.
LEMMA CacheStep ==
    ASSUME TypeOK, IPlace, IMap, ICache, Next
    PROVE  ICache'
<1> USE PointFacts, ConstantsAssumption DEF ConstantsAssumption, Roles, TypeOK, IPlace, IMap, Open, ICache,
    Founder
<1>1. ASSUME NEW r \in Requests, NEW t \in Threads, NEW k \in Keys, FoundGroup(r, t, k)
     PROVE  ICache'
  BY <1>1 DEF FoundGroup, ArriveAt, GroupOf, Idle, Goto, filterVars,
     groupVars, ownerVars
<1>2. ASSUME NEW r \in Requests, NEW t \in Threads, NEW k \in Keys, JoinGroup(r, t, k)
     PROVE  ICache'
  BY <1>2 DEF JoinGroup, ArriveAt, GroupOf, Idle, Goto, filterVars, groupVars,
     ownerVars
<1>3. ASSUME NEW r \in Requests, Enlist(r)
     PROVE  ICache'
  BY <1>3 DEF Enlist, LedExceptKey, Goto, filterVars, groupVars, ownerVars
<1>4. ASSUME NEW r \in Requests, ParkWithOwnGroup(r)
     PROVE  ICache'
  BY <1>4 DEF ParkWithOwnGroup, OwnThreadLeads, Goto, Return, filterVars,
     groupVars, ownerVars
<1>5. ASSUME NEW r \in Requests, ParkWithOtherGroup(r)
     PROVE  ICache'
  BY <1>5 DEF ParkWithOtherGroup, OwnThreadLeads, LeadsOther, Goto, Return,
     filterVars, groupVars, ownerVars
<1>6. ASSUME NEW r \in Requests, StartWaiting(r)
     PROVE  ICache'
  BY <1>6 DEF StartWaiting, OwnThreadLeads, LeadsOther, Goto, filterVars,
     groupVars, ownerVars
<1>7. ASSUME NEW r \in Requests, CacheHit(r)
     PROVE  ICache'
  BY <1>7 DEF CacheHit, Goto, filterVars, groupVars, ownerVars
<1>8. ASSUME NEW r \in Requests, CacheMiss(r)
     PROVE  ICache'
  BY <1>8 DEF CacheMiss, Goto, Return, filterVars, groupVars, ownerVars
<1>9. ASSUME NEW r \in Requests, NEW b \in BOOLEAN, OriginHeaders(r, b)
     PROVE  ICache'
  BY <1>9 DEF OriginHeaders, Enter, Idle, Goto, filterVars, groupVars,
     ownerVars
<1>10. ASSUME NEW r \in Requests, Insert(r)
     PROVE  ICache'
  <2>1. /\ pc[r] = "insert" /\ Founder(r) /\ ~entry_cached[r] /\ key[r] \in Keys
        /\ pc' = [pc EXCEPT ![r] = "notify"]
        /\ UNCHANGED <<role, key, entry_cached, complete>>
    BY <1>10 DEF Insert, Goto, filterVars
  <2>2. ASSUME NEW k \in Keys
        PROVE  cache'[k] \in {Nil, cache[k], IF k = key[r] THEN r ELSE Nil}
    <3> DEFINE inserted == [cache EXCEPT ![key[r]] = r]
    <3>1. inserted[k] \in {cache[k], IF k = key[r] THEN r ELSE Nil}
      OBVIOUS
    <3>2. \/ cache' = inserted
          \/ \E victim \in Keys : cache' = [inserted EXCEPT ![victim] = Nil]
      BY <1>10 DEF Insert, Cached
    <3>3. DOMAIN inserted = Keys
      OBVIOUS
    <3> HIDE DEF inserted
    <3> QED BY <3>1, <3>2, <3>3
  <2> SUFFICES ASSUME NEW k \in Keys, cache'[k] # Nil
               PROVE  ICache!(k)!2'
    OBVIOUS
  <2>3. CASE cache'[k] = cache[k]
    BY <2>1, <2>3
  <2>4. CASE k = key[r] /\ cache'[k] = r
    BY <2>1, <2>4
  <2> QED BY <2>2, <2>3, <2>4
<1>11. ASSUME NEW r \in Requests, NotifyHit(r)
     PROVE  ICache'
  BY <1>11 DEF NotifyHit, Publish, Goto, filterVars, groupVars, ownerVars
<1>12. ASSUME NEW r \in Requests, NotifyMiss(r)
     PROVE  ICache'
  <2>1. /\ pc[r] = "notify" /\ ~entry_cached[r]
        /\ shared' = [shared EXCEPT ![r] = entry[r]]
        /\ UNCHANGED <<filterVars, parked, others, coalesced_requests, ownerVars,
                       cache, complete, delivered>>
    BY <1>12 DEF NotifyMiss, Publish
  <2>2. CASE Goto(r, "finish") /\ UNCHANGED running
    BY <2>1, <2>2 DEF Goto, filterVars, ownerVars
  <2>3. CASE Goto(r, "body") /\ Return(r)
    BY <2>1, <2>3 DEF Goto, Return, filterVars, ownerVars
  <2> QED BY <1>12, <2>2, <2>3 DEF NotifyMiss
<1>13. ASSUME NEW r \in Requests, OriginEnd(r)
     PROVE  ICache'
  BY <1>13 DEF OriginEnd, Enter, Idle, Goto, filterVars, groupVars, ownerVars
<1>14. ASSUME NEW r \in Requests, Finish(r)
     PROVE  ICache'
  BY <1>14 DEF Finish, CompletedBy, Deliver, Goto, filterVars, groupVars,
     ownerVars
<1>15. ASSUME NEW r \in Requests, ServeHit(r)
     PROVE  ICache'
  BY <1>15 DEF ServeHit, Deliver, Goto, filterVars, groupVars, ownerVars
<1>16. ASSUME NEW r \in Requests, Detach(r)
     PROVE  ICache'
  BY <1>16 DEF Detach, Goto, filterVars, groupVars, ownerVars
<1>17. ASSUME NEW r \in Requests, ServeParked(r)
     PROVE  ICache'
  BY <1>17 DEF ServeParked, ProducerEntry, filterVars, groupVars, ownerVars
<1>18. ASSUME NEW r \in Requests, Disown(r)
     PROVE  ICache'
  BY <1>18 DEF Disown, LedExceptKey, ToAttend, Goto, filterVars, groupVars,
     ownerVars
<1>19. ASSUME NEW r \in Requests, Splice(r)
     PROVE  ICache'
  BY <1>19 DEF Splice, Spliced, Goto, Return, filterVars, groupVars, ownerVars
<1>20. ASSUME NEW r \in Requests, NEW q \in Requests, AttendNext(r, q)
     PROVE  ICache'
  BY <1>20 DEF AttendNext, AttendedGroup, Goto, filterVars, groupVars,
     ownerVars
<1>21. ASSUME NEW r \in Requests, AttendedAll(r)
     PROVE  ICache'
  BY <1>21 DEF AttendedAll, Goto, filterVars, groupVars, ownerVars
<1>22. ASSUME NEW r \in Requests, Release(r)
     PROVE  ICache'
  BY <1>22 DEF Release, LeadsNothing, Goto, Return, filterVars, groupVars,
     ownerVars
<1>23. ASSUME NEW r \in Requests, Wake(r)
     PROVE  ICache'
  BY <1>23 DEF Wake, Goto, filterVars, groupVars, ownerVars
<1>24. ASSUME NEW r \in Requests, Timeout(r)
     PROVE  ICache'
  BY <1>24 DEF Timeout, Goto, filterVars, groupVars, ownerVars
<1>25. ASSUME NEW r \in Requests, LateRead(r)
     PROVE  ICache'
  BY <1>25 DEF LateRead, Goto, filterVars, groupVars, ownerVars
<1>26. ASSUME NEW r \in Requests, Drop(r)
     PROVE  ICache'
  <2>1. /\ pc[r] = "late"
        /\ UNCHANGED <<filterVars, groupVars, coalesced_requests, ownerVars, cache,
                       complete, delivered>>
    BY <1>26 DEF Drop
  <2>2. CASE callbacks[r] = r /\ Goto(r, "dropped") /\ Return(r)
    BY <2>1, <2>2 DEF Goto, Return, filterVars, groupVars, ownerVars
  <2>3. CASE /\ callbacks[r] # r
             /\ pc' = [s \in Requests |-> IF s = r THEN "attend"
                                         ELSE IF s = callbacks[r] THEN "dropped"
                                         ELSE pc[s]]
             /\ UNCHANGED running
    BY <2>1, <2>3 DEF filterVars, groupVars, ownerVars
  <2> QED BY <1>26, <2>2, <2>3 DEF Drop, Resume
<1>27. ASSUME NEW r \in Requests, Serve(r)
     PROVE  ICache'
  <2>1. /\ pc[r] = "read"
        /\ UNCHANGED <<filterVars, groupVars, coalesced_requests, ownerVars, cache,
                       complete>>
    BY <1>27 DEF Serve
  <2>2. CASE callbacks[r] = r /\ Goto(r, "done") /\ Return(r)
    BY <2>1, <2>2 DEF Goto, Return, filterVars, groupVars, ownerVars
  <2>3. CASE /\ callbacks[r] # r
             /\ pc' = [s \in Requests |-> IF s = r THEN "attend"
                                         ELSE IF s = callbacks[r] THEN "done"
                                         ELSE pc[s]]
             /\ UNCHANGED running
    BY <2>1, <2>3 DEF filterVars, groupVars, ownerVars
  <2> QED BY <1>27, <2>2, <2>3 DEF Serve, Resume
<1>28. ASSUME NEW r \in Requests, Disconnect(r)
     PROVE  ICache'
  BY <1>28 DEF Disconnect, Idle, Goto, filterVars, groupVars, ownerVars
<1>29. CASE Terminated
  BY <1>29 DEF Terminated, vars, filterVars, groupVars, ownerVars
<1> HIDE PointFacts, ConstantsAssumption DEF ConstantsAssumption, Roles, TypeOK, IPlace, IMap, Open, ICache,
    Founder
<1> QED BY <1>1, <1>2, <1>3, <1>4, <1>5, <1>6, <1>7, <1>8, <1>9, <1>10, <1>11,
      <1>12, <1>13, <1>14, <1>15, <1>16, <1>17, <1>18, <1>19, <1>20, <1>21,
      <1>22, <1>23, <1>24, <1>25, <1>26, <1>27, <1>28, <1>29
     DEF Next, Arrive, ThreadStep, OriginStep

------------------------------------------------------------------------------
\* The initial state satisfies the inductive invariant.
LEMMA InitInv == Init => IInv
<1> SUFFICES ASSUME Init
             PROVE  IInv
  OBVIOUS
<1> USE ConstantsAssumption DEF Init
<1>1. TypeOK
  BY DEF TypeOK, Points, Suspended
<1>2. IPlace
  BY PointFacts DEF IPlace, Founder, Roles
<1>3. IMap
  BY DEF IMap, Open, Founder, Roles
<1>4. IRun
  BY PointFacts DEF IRun
<1>5. ILed
  BY PointFacts DEF ILed
<1>6. IJoin
  BY DEF IJoin
<1>7. ICache
  BY DEF ICache
<1> QED BY <1>1, <1>2, <1>3, <1>4, <1>5, <1>6, <1>7 DEF IInv

\* Every step, and every stuttering step, keeps the inductive invariant.
LEMMA NextInv == IInv /\ [Next]_vars => IInv'
<1> SUFFICES ASSUME IInv, [Next]_vars
             PROVE  IInv'
  OBVIOUS
<1>1. CASE Next
  BY <1>1, TypeStep, PlaceStep, MapStep, RunStep, LedStep, JoinStep, CacheStep
     DEF IInv
<1>2. CASE UNCHANGED vars
  BY <1>2 DEF IInv, TypeOK, IPlace, IMap, Open, IRun, ILed, Winding, IJoin,
     ICache, Founder, vars, filterVars, groupVars, ownerVars
<1> QED BY <1>1, <1>2

\* IInv holds in every reachable state.
THEOREM Invariance == Spec => []IInv
  BY InitInv, NextInv, PTL DEF Spec

\* Every variable stays in its type.
THEOREM TypeCorrect == Spec => []TypeOK
<1>1. IInv => TypeOK
  BY DEF IInv
<1> QED BY <1>1, Invariance, PTL

\* The thundering herd is solved: whatever the number of streams and threads, no
\* two streams fetch one key from the origin at the same time.
THEOREM OneFetch == Spec => []OneFetchPerKey
<1>1. IInv => OneFetchPerKey
  <2> SUFFICES ASSUME IInv, NEW r \in Requests, NEW s \in Requests,
                      Fetching(r), Fetching(s), key[r] = key[s]
               PROVE  r = s
    BY DEF OneFetchPerKey
  <2>1. pc[r] \in InMap /\ pc[s] \in InMap
    BY PointFacts DEF Fetching
  <2>2. Open(r) /\ Open(s)
    BY <2>1 DEF IInv, IPlace, Open
  <2> QED BY <2>2 DEF IInv, IMap
<1> QED BY <1>1, Invariance, PTL

\* No thread that leads a group ever sleeps or spins for another thread's group,
\* which is why threads cannot wait for one another in a circle.
THEOREM NoCircularWait == Spec => []BlockedLeadsNothing
<1>1. IInv => BlockedLeadsNothing
  BY DEF IInv, ILed, BlockedLeadsNothing
<1> QED BY <1>1, Invariance, PTL

\* begin() in isLeaderOfOtherRCGroup() is never taken of an empty map.
THEOREM LeaderMapSafe == Spec => []LeaderMapAccessSafe
<1>1. IInv => LeaderMapAccessSafe
  <2> SUFFICES ASSUME IInv, NEW r \in Requests, pc[r] = "join",
                      thread[r] \in leader_threads, led[thread[r]] = {}
               PROVE  FALSE
    BY DEF LeaderMapAccessSafe
  <2>1. thread[r] \in Threads /\ running[thread[r]] = r
    BY PointFacts DEF IInv, IPlace, IRun
  <2>2. Winding(thread[r])
    BY DEF IInv, ILed
  <2> QED BY <2>1, <2>2, PointFacts DEF Winding
<1> QED BY <1>1, Invariance, PTL

\* Nobody is parked with a founder that has no producer entry to serve.
THEOREM NullNever == Spec => []NullNeverServed
<1>1. IInv => NullNeverServed
  BY ConstantsAssumption DEF IInv, IJoin, NullNeverServed, ProducerEntry
<1> QED BY <1>1, Invariance, PTL

\* A cache hit, on a thread that may lead other groups, is on a complete entry.
THEOREM HitComplete == Spec => []HitIsComplete
<1>1. IInv => HitIsComplete
  <2> SUFFICES ASSUME IInv, NEW r \in Requests, pc[r] \in {"query", "readHit"},
                      cache[key[r]] # Nil, cache[key[r]] \notin complete
               PROVE  FALSE
    BY DEF HitIsComplete
  <2> DEFINE e == cache[key[r]]
  <2>1. key[r] \in Keys /\ Open(r) /\ e \in Requests
    BY PointFacts DEF IInv, TypeOK, IPlace, Open
  <2>2. /\ key[e] = key[r] /\ Founder(e)
        /\ pc[e] \in {"notify", "body", "finish", "destroyed"}
    BY <2>1 DEF IInv, ICache
  <2>3. Open(e)
    BY <2>2, PointFacts DEF Open
  <2>4. e = r
    BY <2>1, <2>2, <2>3 DEF IInv, IMap
  <2> QED BY <2>2, <2>4
<1> QED BY <1>1, Invariance, PTL

==============================================================================
