------------------------ MODULE RequestServingProofs ------------------------
(***************************************************************************)
(* More theorems about RequestCoalescing, with timeouts and resets: which   *)
(* list a stream is parked in and who comes to that list, which entry a      *)
(* group shares, what each stream is served, what is left behind when all is  *)
(* quiet, whom a blocked thread waits for, and that the filter implements     *)
(* SingleFlight.  The invariant IInv of RequestCoalescingProofs is            *)
(* strengthened by one on the lists of parked streams, ParkedInv, and one on  *)
(* entries and answers, ServedInv.                                          *)
(***************************************************************************)
EXTENDS RequestCoalescingProofs

------------------------------------------------------------------------------
(* Steps                                                                    *)

\* What a founder does alone, with no list of parked streams but to look at it.
FounderMove(r) ==
    \/ Enlist(r)
    \/ CacheHit(r)
    \/ CacheMiss(r)
    \/ \E successful \in BOOLEAN : OriginHeaders(r, successful)
    \/ Insert(r)
    \/ NotifyHit(r)
    \/ NotifyMiss(r)
    \/ OriginEnd(r)
    \/ Finish(r)
    \/ ServeHit(r)
    \/ Detach(r)
    \/ Disown(r)
    \/ AttendedAll(r)
    \/ Release(r)

\* Waiting goes on, or is over.
WaitMove(r) == Wake(r) \/ Timeout(r) \/ LateRead(r)
Conclude(r) == Drop(r) \/ Serve(r)

LEMMA NextCases ==
    ASSUME [Next]_vars
    PROVE  \/ \E r \in Requests, t \in Threads, k \in Keys : FoundGroup(r, t, k)
           \/ \E r \in Requests, t \in Threads, k \in Keys : JoinGroup(r, t, k)
           \/ \E r \in Requests : FounderMove(r)
           \/ \E r \in Requests : ParkWithOwnGroup(r)
           \/ \E r \in Requests : ParkWithOtherGroup(r)
           \/ \E r \in Requests : StartWaiting(r)
           \/ \E r \in Requests : ServeParked(r)
           \/ \E r \in Requests : Splice(r)
           \/ \E r, q \in Requests : AttendNext(r, q)
           \/ \E r \in Requests : WaitMove(r)
           \/ \E r \in Requests : Conclude(r)
           \/ \E r \in Requests : Disconnect(r)
           \/ UNCHANGED vars
<1>1. CASE \E r \in Requests : Arrive(r)
  BY <1>1 DEF Arrive
<1>2. CASE \E r \in Requests : ThreadStep(r)
  BY <1>2 DEF ThreadStep, FounderMove, WaitMove, Conclude
<1>3. CASE \E r \in Requests : OriginStep(r)
  BY <1>3 DEF OriginStep, FounderMove
<1>4. CASE \E r \in Requests : Timeout(r) \/ Disconnect(r)
  BY <1>4 DEF WaitMove
<1>5. CASE Terminated
  BY <1>5 DEF Terminated
<1> QED
  BY <1>1, <1>2, <1>3, <1>4, <1>5 DEF Next

\* Where a founder may be, but for the time in which it attends to others.
FounderPoints == InMap \union {"serveParked", "disown", "attend", "release", "done"}

LEMMA FounderFrame ==
    ASSUME IInv, NEW r \in Requests, FounderMove(r)
    PROVE  /\ Founder(r)
           /\ pc[r] \in FounderPoints \ {"serveParked", "done"}
           /\ pc'[r] \in FounderPoints \ {"disown", "enlist"}
           /\ pc' = [pc EXCEPT ![r] = pc'[r]]
           /\ pc[r] \notin InMap => pc'[r] \notin InMap
           /\ pc[r] \in InMap => pc'[r] \in InMap \union {"serveParked"}
           /\ pc[r] \in {"disown", "attend"} => others[r] = {} \/ pc'[r] = "attend"
           /\ UNCHANGED <<thread, key, role, wrapper, callbacks, parked, others>>
<1> USE DEF FounderPoints, InMap
<1>1. pc \in [Requests -> Points]
  BY DEF IInv, TypeOK
<1>2. Founder(r)
  BY DEF IInv, IPlace, FounderMove, Enlist, CacheHit, CacheMiss, OriginHeaders, Insert,
     NotifyHit, NotifyMiss, Publish, OriginEnd, Finish, ServeHit, Detach, Disown,
     AttendedAll, Release
<1>3. UNCHANGED <<thread, key, role, wrapper, callbacks, parked, others>>
  BY DEF FounderMove, Enlist, CacheHit, CacheMiss, OriginHeaders, Insert, NotifyHit,
     NotifyMiss, Publish, OriginEnd, Finish, ServeHit, Detach, Disown, AttendedAll, Release,
     filterVars, groupVars
<1>4. CASE Enlist(r) \/ CacheHit(r) \/ CacheMiss(r) \/ Insert(r) \/ NotifyHit(r)
             \/ OriginEnd(r) \/ Finish(r) \/ ServeHit(r) \/ Detach(r)
  BY <1>1, <1>2, <1>3, <1>4 DEF Enlist, CacheHit, CacheMiss, Insert, NotifyHit, Publish,
     OriginEnd, Finish, ServeHit, Detach, Goto
<1>5. CASE \E successful \in BOOLEAN : OriginHeaders(r, successful)
  BY <1>1, <1>2, <1>3, <1>5 DEF OriginHeaders, Goto
<1>6. CASE NotifyMiss(r)
  BY <1>1, <1>2, <1>3, <1>6 DEF NotifyMiss, Publish, Goto
<1>7. CASE Disown(r)
  BY <1>1, <1>2, <1>3, <1>7 DEF Disown, ToAttend, Goto
<1>8. CASE AttendedAll(r)
  BY <1>1, <1>2, <1>3, <1>8 DEF AttendedAll, Goto
<1>9. CASE Release(r)
  BY <1>1, <1>2, <1>3, <1>9 DEF Release, Goto
<1> QED
  BY <1>4, <1>5, <1>6, <1>7, <1>8, <1>9 DEF FounderMove

LEMMA WaitFrame ==
    ASSUME IInv, NEW r \in Requests, WaitMove(r)
    PROVE  /\ pc[r] \in Blocked /\ pc'[r] \in Blocked
           /\ pc' = [pc EXCEPT ![r] = pc'[r]]
           /\ UNCHANGED <<thread, key, role, wrapper, callbacks, entry_cached, groupVars,
                          led, complete, delivered, running>>
  BY DEF WaitMove, Wake, Timeout, LateRead, Goto, IInv, TypeOK, filterVars, ownerVars, Blocked

LEMMA ConcludeFrame ==
    ASSUME IInv, NEW r \in Requests, Conclude(r)
    PROVE  /\ pc[r] \in Blocked
           /\ UNCHANGED <<filterVars, groupVars, coalesced_requests, ownerVars, complete>>
           /\ ~Founder(r) => /\ callbacks[r] = r
                             /\ pc'[r] \in {"done", "dropped"}
                             /\ \A s \in Requests \ {r} : pc'[s] = pc[s]
           /\ Founder(r) => /\ callbacks[r] # r
                            /\ ~Founder(callbacks[r])
                            /\ pc'[r] = "attend"
                            /\ pc'[callbacks[r]] \in {"done", "dropped"}
                            /\ \A s \in Requests \ {r, callbacks[r]} : pc'[s] = pc[s]
<1>1. pc[r] \in Blocked
  BY DEF Conclude, Drop, Serve, Blocked
<1>2. UNCHANGED <<filterVars, groupVars, coalesced_requests, ownerVars, complete>>
  BY DEF Conclude, Drop, Serve
<1>3. Resume(r, "done") \/ Resume(r, "dropped")
  BY DEF Conclude, Drop, Serve
<1>4. CASE ~Founder(r)
  <2>1. callbacks[r] = r
    BY <1>4 DEF IInv, IPlace
  <2> QED
    BY <1>1, <1>2, <1>3, <1>4, <2>1 DEF Resume, Goto, IInv, TypeOK
<1>5. CASE Founder(r)
  <2>1. ~Founder(callbacks[r]) /\ callbacks[r] \in Requests
    BY <1>1, <1>5 DEF IInv, IPlace, TypeOK
  <2>2. callbacks[r] # r
    BY <1>5, <2>1
  <2> QED
    BY <1>1, <1>2, <1>3, <1>5, <2>1, <2>2 DEF Resume, Goto
<1> QED
  BY <1>4, <1>5

\* A joiner is parked or waits.
JoinMove(r) == ParkWithOwnGroup(r) \/ ParkWithOtherGroup(r) \/ StartWaiting(r)

LEMMA JoinFrame ==
    ASSUME IInv, NEW r \in Requests, JoinMove(r)
    PROVE  /\ pc[r] = "join" /\ role[r] = Nil /\ ~Founder(r)
           /\ pc' = [pc EXCEPT ![r] = pc'[r]] /\ pc'[r] \in {"parked", "wait"}
           /\ role' = [role EXCEPT ![r] = role'[r]]
           /\ role'[r] \in {"LEADER", "OTHER_GROUP_LEADER", "WAITING"}
           /\ UNCHANGED <<thread, key, wrapper, callbacks, entry_cached, entry, shared, led,
                          complete, delivered>>
  BY ConstantsAssumption DEF JoinMove, ParkWithOwnGroup, ParkWithOtherGroup, StartWaiting, Goto,
     ownerVars, groupVars, IInv, TypeOK, IPlace, Roles, Founder
------------------------------------------------------------------------------
(* Groups and lists                                                         *)

\* leader_threads_for_rc_[t] has the groups that t leads, one a key.
IGroups ==
    /\ \A t \in Threads : \A g \in led[t] : Leads(g) /\ thread[g] = t /\ pc[g] # "enlist"
    /\ \A g \in Requests : Leads(g) /\ pc[g] # "enlist" => g \in led[thread[g]]
    /\ \A g, h \in Requests :
          Leads(g) /\ Leads(h) /\ thread[g] = thread[h] /\ key[g] = key[h] => g = h

\* A stream that joins a group joins one of its own key.
IJoined ==
    \A q \in Requests : pc[q] # "new" /\ ~Founder(q) =>
        /\ Founder(wrapper[q])
        /\ key[wrapper[q]] = key[q]

\* A stream is in the list of callbacks that its role says, on its own thread,
\* and in one list at most.
ILists ==
    /\ \A g, q \in Requests : q \in parked[g] =>
          role[q] = "LEADER" /\ wrapper[q] = g /\ Founder(g) /\ thread[q] = thread[g]
    /\ \A g, q \in Requests : q \in others[g] =>
          role[q] = "OTHER_GROUP_LEADER" /\ Founder(g) /\ thread[q] = thread[g]
    /\ \A g, h, q \in Requests : q \in others[g] /\ q \in others[h] => g = h

\* The stream a founder attends to has left the lists; while the founder's thread
\* is blocked, it is parked and its group is the one that is waited for.
Serving(g) ==
    /\ Founder(g)
    /\ role[callbacks[g]] = "OTHER_GROUP_LEADER"
    /\ thread[callbacks[g]] = thread[g]
    /\ \A h \in Requests : callbacks[g] \notin others[h]
Awaiting(g) ==
    /\ pc[callbacks[g]] = "parked"
    /\ wrapper[g] = wrapper[callbacks[g]]
IAttended ==
    /\ \A g \in Requests : callbacks[g] # g => Serving(g)
    /\ \A g \in Requests : Founder(g) /\ pc[g] \in Blocked => Awaiting(g)

\* Somebody has still to come to a parked stream.
Expected(g, q) ==
    \/ q \in others[g] /\ (Leads(g) \/ pc[g] \in Blocked \union {"attend"})
    \/ callbacks[g] = q /\ Founder(g) /\ pc[g] \in Blocked
IParked ==
    \A q \in Requests : pc[q] = "parked" =>
        /\ role[q] \in {"LEADER", "OTHER_GROUP_LEADER"}
        /\ role[q] = "LEADER" => /\ q \in parked[wrapper[q]]
                                 /\ Leads(wrapper[q])
                                 /\ pc[wrapper[q]] # "disown"
        /\ role[q] = "OTHER_GROUP_LEADER" => \E g \in Requests : Expected(g, q)

ParkedInv == IGroups /\ IJoined /\ ILists /\ IAttended /\ IParked

LEMMA JoinedStep ==
    ASSUME IInv, IJoined, [Next]_vars
    PROVE  IJoined'
<1> USE DEF IJoined, Founder
<1>1. ASSUME NEW r \in Requests, NEW t \in Threads, NEW k \in Keys, FoundGroup(r, t, k)
      PROVE  IJoined'
  BY <1>1, ConstantsAssumption DEF FoundGroup, ArriveAt, Goto, IInv, TypeOK, IPlace, Roles
<1>2. ASSUME NEW r \in Requests, NEW t \in Threads, NEW k \in Keys, JoinGroup(r, t, k)
      PROVE  IJoined'
  <2>1. /\ GroupOf(k) \in Requests /\ Founder(GroupOf(k)) /\ key[GroupOf(k)] = k
        /\ GroupOf(k) # r
    BY <1>2, ConstantsAssumption DEF JoinGroup, ArriveAt, GroupOf, IInv, TypeOK, IPlace, IMap,
       Open, Roles
  <2> QED
    BY <1>2, <2>1, ConstantsAssumption DEF JoinGroup, ArriveAt, Goto, IInv, TypeOK, IPlace, Roles
<1>3. ASSUME NEW r \in Requests, FounderMove(r) PROVE IJoined'
  <2>1. /\ Founder(r) /\ pc' = [pc EXCEPT ![r] = pc'[r]]
        /\ UNCHANGED <<key, role, wrapper>>
    BY <1>3, FounderFrame
  <2> QED
    BY <2>1 DEF IInv, TypeOK
<1>4. ASSUME NEW r \in Requests, JoinMove(r) PROVE IJoined'
  <2>1. /\ pc[r] = "join" /\ role[r] = Nil
        /\ pc' = [pc EXCEPT ![r] = pc'[r]]
        /\ role' = [role EXCEPT ![r] = role'[r]]
        /\ UNCHANGED <<key, wrapper>>
    BY <1>4, JoinFrame
  <2>2. Nil # "INITIAL_LEADER"
    BY ConstantsAssumption DEF Roles
  <2>3. \A g \in Requests : Founder(g) => Founder(g)'
    BY <2>1, <2>2 DEF IInv, TypeOK
  <2>4. ASSUME NEW q \in Requests, pc'[q] # "new", ~Founder(q)'
        PROVE  pc[q] # "new" /\ ~Founder(q) /\ wrapper[q] \in Requests
    BY <2>1, <2>3, <2>4 DEF IInv, TypeOK, IPlace
  <2> HIDE DEF Founder
  <2> QED
    BY <2>1, <2>3, <2>4
<1>5. ASSUME NEW r \in Requests, ServeParked(r) PROVE IJoined'
  BY <1>5 DEF ServeParked, filterVars, IInv, TypeOK, IPlace
<1>6. ASSUME NEW r \in Requests, Splice(r) PROVE IJoined'
  BY <1>6 DEF Splice, Goto, filterVars, IInv, TypeOK, IPlace
<1>7. ASSUME NEW r \in Requests, NEW q \in Requests, AttendNext(r, q) PROVE IJoined'
  BY <1>7 DEF AttendNext, Goto, IInv, TypeOK, IPlace
<1>8. ASSUME NEW r \in Requests, WaitMove(r) PROVE IJoined'
  <2>1. /\ pc[r] # "new" /\ pc' = [pc EXCEPT ![r] = pc'[r]]
        /\ UNCHANGED <<key, role, wrapper>>
    BY <1>8, WaitFrame, PointFacts
  <2> QED
    BY <2>1 DEF IInv, TypeOK
<1>9. ASSUME NEW r \in Requests, Conclude(r) PROVE IJoined'
  <2>1. ASSUME NEW q \in Requests, pc'[q] # "new" PROVE pc[q] # "new" \/ Founder(q)
    <3>1. pc[r] # "new"
      BY <1>9, ConcludeFrame, PointFacts
    <3>2. Founder(r) => pc[callbacks[r]] # "new"
      BY <1>9, ConcludeFrame, PointFacts DEF IInv, IPlace
    <3>3. q = r \/ (Founder(r) /\ q = callbacks[r]) \/ pc'[q] = pc[q]
      BY <1>9, ConcludeFrame
    <3> QED
      BY <2>1, <3>1, <3>2, <3>3
  <2>2. UNCHANGED <<key, role, wrapper>>
    BY <1>9, ConcludeFrame DEF filterVars
  <2> QED
    BY <2>1, <2>2
<1>10. ASSUME NEW r \in Requests, Disconnect(r) PROVE IJoined'
  BY <1>10 DEF Disconnect, Goto, filterVars, IInv, TypeOK
<1>11. CASE UNCHANGED vars
  BY <1>11 DEF vars, filterVars
<1> HIDE DEF IJoined, Founder
<1> QED
  BY <1>1, <1>2, <1>3, <1>4, <1>5, <1>6, <1>7, <1>8, <1>9, <1>10, <1>11, NextCases DEF JoinMove

\* Whether a founder leads is all that matters of its control point, and whether
\* it has enlisted itself.
LEMMA GroupsKept ==
    ASSUME IInv, IGroups, UNCHANGED <<thread, key, led>>,
           \A g \in Requests : /\ Leads(g)' <=> Leads(g)
                               /\ Leads(g) => (pc'[g] = "enlist" <=> pc[g] = "enlist")
    PROVE  IGroups'
<1>1. \A t \in Threads : led[t] \subseteq Requests
  BY DEF IInv, TypeOK
<1> QED
  BY <1>1 DEF IGroups

LEMMA GroupsStep ==
    ASSUME IInv, IGroups, [Next]_vars
    PROVE  IGroups'
<1> USE DEF IGroups, Leads, Founder
<1>1. ASSUME NEW r \in Requests, NEW t \in Threads, NEW k \in Keys, FoundGroup(r, t, k)
      PROVE  IGroups'
  <2>1. /\ pc[r] = "new" /\ running[t] = Nil /\ coalesced_requests[k] = Nil
        /\ thread' = [thread EXCEPT ![r] = t]
        /\ key' = [key EXCEPT ![r] = k]
        /\ role' = [role EXCEPT ![r] = "INITIAL_LEADER"]
        /\ pc' = [pc EXCEPT ![r] = "enlist"]
        /\ led' = led
    BY <1>1 DEF FoundGroup, ArriveAt, GroupOf, Idle, Goto, ownerVars
  <2>2. ASSUME NEW g \in Requests, Leads(g), g # r
        PROVE  ~(thread[g] = t /\ key[g] = k)
    <3>1. pc[g] \in {"serveParked", "disown"} => running[thread[g]] = g
      BY PointFacts DEF IInv, IRun
    <3>2. pc[g] \notin {"serveParked", "disown"} => Open(g)
      BY <2>2 DEF Open
    <3>3. g # Nil
      BY ConstantsAssumption
    <3> QED
      BY <2>1, <3>1, <3>2, <3>3 DEF IInv, IMap
  <2>3. ~Leads(r)
    BY <2>1, PointFacts
  <2>4. \A g \in Requests : Leads(g)' <=> Leads(g) \/ g = r
    BY <2>1, PointFacts DEF IInv, TypeOK
  <2> HIDE DEF Leads
  <2>5. \A u \in Threads : \A g \in led[u] : g \in Requests /\ g # r
    BY <2>3 DEF IInv, TypeOK
  <2> QED
    BY <2>1, <2>2, <2>4, <2>5 DEF IInv, TypeOK
<1>2. ASSUME NEW r \in Requests, NEW t \in Threads, NEW k \in Keys, JoinGroup(r, t, k)
      PROVE  IGroups'
  BY <1>2, PointFacts, ConstantsAssumption DEF JoinGroup, ArriveAt, Goto, ownerVars, IInv, TypeOK, IPlace, Roles
<1>3. ASSUME NEW r \in Requests, Enlist(r) PROVE IGroups'
  <2>1. /\ pc[r] = "enlist" /\ Founder(r) /\ thread[r] \in Threads
        /\ pc' = [pc EXCEPT ![r] = "query"]
        /\ led' = [led EXCEPT ![thread[r]] = LedExceptKey(thread[r], key[r]) \union {r}]
        /\ UNCHANGED <<thread, key, role>>
    BY <1>3, PointFacts DEF Enlist, Goto, filterVars, IInv, IPlace
  <2>2. \A g \in Requests : Leads(g)' <=> Leads(g)
    BY <2>1, PointFacts DEF IInv, TypeOK
  <2>3. Leads(r)
    BY <2>1, PointFacts
  <2> HIDE DEF Leads
  <2>4. LedExceptKey(thread[r], key[r]) = led[thread[r]]
    BY <2>1, <2>3 DEF LedExceptKey, IInv, TypeOK
  <2> QED
    BY <2>1, <2>2, <2>3, <2>4 DEF IInv, TypeOK
<1>4. ASSUME NEW r \in Requests, Disown(r) PROVE IGroups'
  <2>1. /\ pc[r] = "disown" /\ Founder(r) /\ thread[r] \in Threads
        /\ pc' = [pc EXCEPT ![r] = pc'[r]] /\ pc'[r] \in {"attend", "release"}
        /\ led' = [led EXCEPT ![thread[r]] = LedExceptKey(thread[r], key[r])]
        /\ UNCHANGED <<thread, key, role>>
    BY <1>4, PointFacts DEF Disown, ToAttend, Goto, filterVars, IInv, TypeOK, IPlace
  <2>2. \A g \in Requests : Leads(g)' <=> Leads(g) /\ g # r
    BY <2>1, PointFacts DEF IInv, TypeOK
  <2>3. Leads(r)
    BY <2>1
  <2> HIDE DEF Leads
  <2>4. LedExceptKey(thread[r], key[r]) = led[thread[r]] \ {r}
    BY <2>1, <2>3 DEF LedExceptKey, IInv, TypeOK
  <2> QED
    BY <2>1, <2>2, <2>3, <2>4 DEF IInv, TypeOK
<1>5. ASSUME NEW r \in Requests, FounderMove(r), ~Enlist(r), ~Disown(r) PROVE IGroups'
  <2>1. /\ Founder(r) /\ pc' = [pc EXCEPT ![r] = pc'[r]]
        /\ UNCHANGED <<thread, key, role>>
        /\ pc'[r] # "enlist"
    BY <1>5, FounderFrame
  <2>2. led' = led /\ pc[r] # "enlist" /\ (Leads(r)' <=> Leads(r))
    BY <1>5, <2>1, PointFacts DEF FounderMove, CacheHit, CacheMiss, OriginHeaders, Insert, NotifyHit,
       NotifyMiss, Publish, OriginEnd, Finish, ServeHit, Detach, AttendedAll, Release, Goto,
       ownerVars, IInv, TypeOK
  <2>3. \A g \in Requests \ {r} : pc'[g] = pc[g] /\ (Leads(g)' <=> Leads(g))
    BY <2>1 DEF IInv, TypeOK
  <2> QED
    BY <2>1, <2>2, <2>3, GroupsKept
<1>6. ASSUME NEW r \in Requests, JoinMove(r) PROVE IGroups'
  <2>1. /\ ~Founder(r)
        /\ pc' = [pc EXCEPT ![r] = pc'[r]]
        /\ role' = [role EXCEPT ![r] = role'[r]] /\ role'[r] # "INITIAL_LEADER"
        /\ UNCHANGED <<thread, key, led>>
    BY <1>6, JoinFrame
  <2>2. ~Leads(r) /\ ~Leads(r)'
    BY <2>1
  <2>3. \A g \in Requests \ {r} : pc'[g] = pc[g] /\ (Leads(g)' <=> Leads(g))
    BY <2>1 DEF IInv, TypeOK
  <2> QED
    BY <2>1, <2>2, <2>3, GroupsKept
<1>7. ASSUME NEW r \in Requests, ServeParked(r) PROVE IGroups'
  <2>1. /\ pc[r] = "serveParked"
        /\ \A q \in parked[r] : pc[q] = "parked"
        /\ pc' = [q \in Requests |-> IF q = r THEN "disown"
                                     ELSE IF q \in parked[r] THEN "done" ELSE pc[q]]
        /\ UNCHANGED <<thread, key, role, led>>
    BY <1>7 DEF ServeParked, filterVars, ownerVars
  <2>2. \A g \in Requests : Leads(g)' <=> Leads(g)
    BY <2>1, PointFacts DEF IInv, TypeOK
  <2>3. \A g \in Requests : pc'[g] = "enlist" <=> pc[g] = "enlist"
    BY <2>1
  <2> QED
    BY <2>1, <2>2, <2>3, GroupsKept
<1>8. ASSUME NEW r \in Requests, NEW q \in Requests, Splice(r) \/ AttendNext(r, q)
      PROVE  IGroups'
  <2>1. /\ pc[r] = "attend"
        /\ pc' = [pc EXCEPT ![r] = pc'[r]] /\ pc'[r] \in {"done", "wait"}
        /\ UNCHANGED <<thread, key, role, led>>
    BY <1>8 DEF Splice, AttendNext, Goto, filterVars, ownerVars, IInv, TypeOK
  <2>2. ~Leads(r) /\ ~Leads(r)'
    BY <2>1, PointFacts
  <2>3. \A g \in Requests \ {r} : pc'[g] = pc[g] /\ (Leads(g)' <=> Leads(g))
    BY <2>1 DEF IInv, TypeOK
  <2> QED
    BY <2>1, <2>2, <2>3, GroupsKept
<1>9. ASSUME NEW r \in Requests, WaitMove(r) PROVE IGroups'
  <2>1. /\ pc[r] \in Blocked /\ pc'[r] \in Blocked
        /\ pc' = [pc EXCEPT ![r] = pc'[r]]
        /\ UNCHANGED <<thread, key, role, led>>
    BY <1>9, WaitFrame
  <2>2. ~Leads(r) /\ ~Leads(r)'
    BY <2>1, PointFacts DEF Blocked
  <2>3. \A g \in Requests \ {r} : pc'[g] = pc[g] /\ (Leads(g)' <=> Leads(g))
    BY <2>1 DEF IInv, TypeOK
  <2> QED
    BY <2>1, <2>2, <2>3, GroupsKept
<1>10. ASSUME NEW r \in Requests, Conclude(r) PROVE IGroups'
  <2>1. UNCHANGED <<thread, key, role, led>> /\ pc[r] \in Blocked
    BY <1>10, ConcludeFrame DEF filterVars, ownerVars
  <2>2. ~Leads(r) /\ ~Leads(r)'
    <3>1. pc'[r] \in {"attend", "done", "dropped"}
      BY <1>10, ConcludeFrame
    <3> QED
      BY <2>1, <3>1, PointFacts DEF Blocked
  <2>3. ASSUME NEW g \in Requests, Leads(g) \/ Leads(g)'
        PROVE  pc'[g] = pc[g] /\ Leads(g) /\ Leads(g)'
    <3>1. Founder(g) /\ g # r /\ (Founder(r) => g # callbacks[r])
      BY <1>10, <2>1, <2>2, <2>3, ConcludeFrame
    <3>2. pc'[g] = pc[g]
      BY <1>10, <3>1, ConcludeFrame
    <3> QED
      BY <2>1, <2>3, <3>2
  <2> QED
    BY <2>1, <2>3, GroupsKept
<1>11. ASSUME NEW r \in Requests, Disconnect(r) PROVE IGroups'
  <2>1. /\ pc[r] \in {"upstream", "body", "parked"}
        /\ pc' = [pc EXCEPT ![r] = "destroyed"]
        /\ UNCHANGED <<thread, key, role, led>>
    BY <1>11 DEF Disconnect, Goto, filterVars, ownerVars
  <2>2. Leads(r)' <=> Leads(r)
    BY <2>1, PointFacts DEF IInv, TypeOK, IPlace
  <2>3. \A g \in Requests \ {r} : pc'[g] = pc[g] /\ (Leads(g)' <=> Leads(g))
    BY <2>1 DEF IInv, TypeOK
  <2>4. pc[r] # "enlist" /\ pc'[r] # "enlist"
    BY <2>1 DEF IInv, TypeOK
  <2> QED
    BY <2>1, <2>2, <2>3, <2>4, GroupsKept
<1>12. CASE UNCHANGED vars
  BY <1>12 DEF vars, filterVars, ownerVars
<1> HIDE DEF IGroups, Leads, Founder
<1> QED
  BY <1>1, <1>2, <1>3, <1>4, <1>5, <1>6, <1>7, <1>8, <1>9, <1>10, <1>11, <1>12, NextCases
     DEF JoinMove

\* Once a stream has a role it keeps it, and its thread and key; and its group,
\* too, unless it is a founder.
LEMMA RolesKept ==
    ASSUME IInv, [Next]_vars, NEW q \in Requests, role[q] # Nil
    PROVE  /\ role'[q] = role[q] /\ thread'[q] = thread[q] /\ key'[q] = key[q]
           /\ ~Founder(q) => wrapper'[q] = wrapper[q] /\ callbacks'[q] = callbacks[q]
<1> USE DEF Founder
<1>1. ASSUME NEW r \in Requests, NEW t \in Threads, NEW k \in Keys,
             FoundGroup(r, t, k) \/ JoinGroup(r, t, k)
      PROVE  /\ role'[q] = role[q] /\ thread'[q] = thread[q] /\ key'[q] = key[q]
             /\ wrapper'[q] = wrapper[q] /\ callbacks'[q] = callbacks[q]
  <2>1. q # r
    BY <1>1 DEF FoundGroup, JoinGroup, ArriveAt, IInv, IPlace
  <2> QED
    BY <1>1, <2>1 DEF FoundGroup, JoinGroup, ArriveAt, IInv, TypeOK
<1>2. ASSUME NEW r \in Requests, FounderMove(r)
      PROVE  UNCHANGED <<thread, key, role, wrapper, callbacks>>
  BY <1>2, FounderFrame
<1>3. ASSUME NEW r \in Requests, JoinMove(r)
      PROVE  /\ role'[q] = role[q]
             /\ UNCHANGED <<thread, key, wrapper, callbacks>>
  <2>1. role[r] = Nil /\ role' = [role EXCEPT ![r] = role'[r]]
        /\ UNCHANGED <<thread, key, wrapper, callbacks>>
    BY <1>3, JoinFrame
  <2> QED
    BY <2>1 DEF IInv, TypeOK
<1>4. ASSUME NEW r \in Requests, ServeParked(r) \/ Splice(r) \/ Disconnect(r) \/ Conclude(r)
      PROVE  UNCHANGED <<thread, key, role, wrapper, callbacks>>
  BY <1>4, ConcludeFrame DEF ServeParked, Splice, Disconnect, filterVars
<1>5. ASSUME NEW r \in Requests, NEW s \in Requests, AttendNext(r, s)
      PROVE  /\ UNCHANGED <<thread, key, role>>
             /\ ~Founder(q) => wrapper'[q] = wrapper[q] /\ callbacks'[q] = callbacks[q]
  <2>1. Founder(r) /\ UNCHANGED <<thread, key, role>>
    BY <1>5, PointFacts DEF AttendNext, IInv, IPlace
  <2> QED
    BY <1>5, <2>1 DEF AttendNext, IInv, TypeOK
<1>6. ASSUME NEW r \in Requests, WaitMove(r)
      PROVE  UNCHANGED <<thread, key, role, wrapper, callbacks>>
  BY <1>6, WaitFrame
<1>7. CASE UNCHANGED vars
  BY <1>7 DEF vars, filterVars
<1> HIDE DEF Founder
<1> QED
  BY <1>1, <1>2, <1>3, <1>4, <1>5, <1>6, <1>7, NextCases DEF JoinMove

\* What the steps do to the lists.
LEMMA ListsFrame ==
    ASSUME IInv, [Next]_vars,
           \A r \in Requests : ~ParkWithOwnGroup(r) /\ ~ParkWithOtherGroup(r) /\ ~Splice(r),
           \A r, q \in Requests : ~AttendNext(r, q)
    PROVE  UNCHANGED <<parked, others, callbacks>>
<1>1. ASSUME NEW r \in Requests, FounderMove(r) PROVE UNCHANGED <<parked, others, callbacks>>
  BY <1>1, FounderFrame
<1>2. ASSUME NEW r \in Requests, WaitMove(r) \/ Conclude(r)
      PROVE  UNCHANGED <<parked, others, callbacks>>
  BY <1>2, WaitFrame, ConcludeFrame DEF groupVars, filterVars
<1>3. ASSUME NEW r \in Requests, StartWaiting(r) \/ ServeParked(r) \/ Disconnect(r)
      PROVE  UNCHANGED <<parked, others, callbacks>>
  BY <1>3 DEF StartWaiting, ServeParked, Disconnect, groupVars, filterVars
<1>4. ASSUME NEW r \in Requests, NEW t \in Threads, NEW k \in Keys,
             FoundGroup(r, t, k) \/ JoinGroup(r, t, k)
      PROVE  UNCHANGED <<parked, others, callbacks>>
  BY <1>4 DEF FoundGroup, JoinGroup, groupVars
<1> QED
  BY <1>1, <1>2, <1>3, <1>4, NextCases DEF vars, groupVars, filterVars

LEMMA ListsStep ==
    ASSUME IInv, IGroups, IJoined, ILists, [Next]_vars
    PROVE  ILists'
<1>1. \A q \in Requests : role[q] # Nil =>
        /\ role'[q] = role[q] /\ thread'[q] = thread[q]
        /\ ~Founder(q) => wrapper'[q] = wrapper[q]
  BY RolesKept
<1>2. Nil \notin Roles
  BY ConstantsAssumption
<1>3. \A g \in Requests : Founder(g) => role[g] # Nil /\ Founder(g)'
  BY <1>1, <1>2 DEF Founder, Roles
<1>4. CASE \A r \in Requests : ~ParkWithOwnGroup(r) /\ ~ParkWithOtherGroup(r) /\ ~Splice(r)
                               /\ \A q \in Requests : ~AttendNext(r, q)
  <2>1. UNCHANGED <<parked, others>>
    BY <1>4, ListsFrame
  <2> QED
    BY <1>1, <1>2, <1>3, <2>1 DEF ILists, Roles, Founder
<1>5. ASSUME NEW r \in Requests, ParkWithOwnGroup(r) PROVE ILists'
  <2>1. /\ pc[r] = "join" /\ role[r] = Nil /\ ~Founder(r) /\ wrapper[r] \in Requests
        /\ thread[wrapper[r]] = thread[r]
        /\ parked' = [parked EXCEPT ![wrapper[r]] = @ \union {r}]
        /\ role' = [role EXCEPT ![r] = "LEADER"]
        /\ UNCHANGED <<others, wrapper, thread>>
    BY <1>5, JoinFrame DEF ParkWithOwnGroup, OwnThreadLeads, JoinMove, IInv, IPlace
  <2>2. Founder(wrapper[r])
    BY <2>1 DEF IJoined
  <2>3. role'[r] = "LEADER" /\ \A g, q \in Requests : q \in parked'[g] =>
                                    q \in parked[g] \/ (q = r /\ g = wrapper[r])
    BY <2>1 DEF IInv, TypeOK
  <2>4. \A g, q \in Requests : q \in parked'[g] =>
          role'[q] = "LEADER" /\ wrapper'[q] = g /\ Founder(g)' /\ thread'[q] = thread'[g]
    BY <1>1, <1>2, <1>3, <2>1, <2>2, <2>3 DEF ILists, Roles
  <2>5. \A g, q \in Requests : q \in others'[g] =>
          role'[q] = "OTHER_GROUP_LEADER" /\ Founder(g)' /\ thread'[q] = thread'[g]
    BY <1>1, <1>2, <1>3, <2>1 DEF ILists, Roles
  <2> QED
    BY <2>1, <2>4, <2>5 DEF ILists
<1>6. ASSUME NEW r \in Requests, ParkWithOtherGroup(r) PROVE ILists'
  <2>1. PICK g \in led[thread[r]] : others' = [others EXCEPT ![g] = @ \union {r}]
    BY <1>6 DEF ParkWithOtherGroup
  <2>2. /\ pc[r] = "join" /\ role[r] = Nil /\ thread[r] \in Threads
        /\ role' = [role EXCEPT ![r] = "OTHER_GROUP_LEADER"]
        /\ UNCHANGED <<parked, wrapper, thread>>
    BY <1>6, JoinFrame DEF ParkWithOtherGroup, JoinMove, IInv, IPlace
  <2>3. g \in Requests /\ Founder(g) /\ thread[g] = thread[r]
    BY <2>1, <2>2 DEF IGroups, Leads, IInv, TypeOK
  <2>4. /\ role'[r] = "OTHER_GROUP_LEADER"
        /\ \A h \in Requests : r \notin others[h]
        /\ \A h, q \in Requests : q \in others'[h] => q \in others[h] \/ (q = r /\ h = g)
    BY <1>2, <2>1, <2>2, <2>3 DEF IInv, TypeOK, ILists, Roles
  <2>5. \A h, q \in Requests : q \in others'[h] =>
          role'[q] = "OTHER_GROUP_LEADER" /\ Founder(h)' /\ thread'[q] = thread'[h]
    BY <1>1, <1>2, <1>3, <2>2, <2>3, <2>4 DEF ILists, Roles
  <2>6. \A h, q \in Requests : q \in parked'[h] =>
          role'[q] = "LEADER" /\ wrapper'[q] = h /\ Founder(h)' /\ thread'[q] = thread'[h]
    BY <1>1, <1>2, <1>3, <2>2 DEF ILists, Roles
  <2> QED
    BY <2>4, <2>5, <2>6 DEF ILists
<1>7. ASSUME NEW r \in Requests, Splice(r) PROVE ILists'
  <2>1. PICK g \in led[thread[r]] :
          others' = [others EXCEPT ![g] = others[g] \union others[r], ![r] = {}]
    BY <1>7 DEF Splice, Spliced
  <2>2. /\ pc[r] = "attend" /\ thread[r] \in Threads
        /\ UNCHANGED <<parked, wrapper, role, thread>>
    BY <1>7, PointFacts DEF Splice, filterVars, IInv, IPlace
  <2>3. g \in Requests /\ Founder(g) /\ thread[g] = thread[r]
    BY <2>1, <2>2 DEF IGroups, Leads, IInv, TypeOK
  <2>4. \A h, q \in Requests : q \in others'[h] =>
          h # r /\ (q \in others[h] \/ (h = g /\ q \in others[r]))
    BY <2>1, <2>3 DEF IInv, TypeOK
  <2>5. \A h, q \in Requests : q \in others'[h] =>
          role'[q] = "OTHER_GROUP_LEADER" /\ Founder(h)' /\ thread'[q] = thread'[h]
    BY <1>3, <2>2, <2>3, <2>4 DEF ILists
  <2>6. \A h, i, q \in Requests : q \in others'[h] /\ q \in others'[i] => h = i
    BY <2>4 DEF ILists
  <2>7. \A h, q \in Requests : q \in parked'[h] =>
          role'[q] = "LEADER" /\ wrapper'[q] = h /\ Founder(h)' /\ thread'[q] = thread'[h]
    BY <1>3, <2>2 DEF ILists
  <2> QED
    BY <2>5, <2>6, <2>7 DEF ILists
<1>8. ASSUME NEW r \in Requests, NEW q \in Requests, AttendNext(r, q) PROVE ILists'
  <2>1. parked' = parked /\ \A h \in Requests : others'[h] \subseteq others[h]
    BY <1>8 DEF AttendNext, IInv, TypeOK
  <2> QED
    BY <1>1, <1>2, <1>3, <2>1 DEF ILists, Roles, Founder
<1> QED
  BY <1>4, <1>5, <1>6, <1>7, <1>8

\* Who wakes a parked stream.
LEMMA ParkedMoves ==
    ASSUME IInv, [Next]_vars, NEW q \in Requests, pc[q] = "parked", pc'[q] # "parked"
    PROVE  \/ \E r \in Requests : ServeParked(r) /\ q \in parked[r] /\ pc'[q] = "done"
           \/ \E r \in Requests : /\ Conclude(r) /\ Founder(r) /\ q = callbacks[r]
                                 /\ pc'[q] \in {"done", "dropped"}
           \/ Disconnect(q) /\ pc'[q] = "destroyed"
<1>1. ASSUME NEW r \in Requests, NEW t \in Threads, NEW k \in Keys,
             FoundGroup(r, t, k) \/ JoinGroup(r, t, k)
      PROVE  FALSE
  BY <1>1 DEF FoundGroup, JoinGroup, ArriveAt, Goto, IInv, TypeOK
<1>2. ASSUME NEW r \in Requests, FounderMove(r) PROVE FALSE
  <2>1. pc' = [pc EXCEPT ![r] = pc'[r]] /\ pc[r] # "parked"
    BY <1>2, FounderFrame, PointFacts DEF FounderPoints
  <2> QED
    BY <2>1 DEF IInv, TypeOK
<1>3. ASSUME NEW r \in Requests, JoinMove(r) PROVE FALSE
  <2>1. pc' = [pc EXCEPT ![r] = pc'[r]] /\ pc[r] = "join"
    BY <1>3, JoinFrame
  <2> QED
    BY <2>1 DEF IInv, TypeOK
<1>4. ASSUME NEW r \in Requests, ServeParked(r) PROVE q \in parked[r] /\ pc'[q] = "done"
  BY <1>4 DEF ServeParked
<1>5. ASSUME NEW r \in Requests, NEW s \in Requests, Splice(r) \/ AttendNext(r, s)
      PROVE  FALSE
  BY <1>5 DEF Splice, AttendNext, Goto, IInv, TypeOK
<1>6. ASSUME NEW r \in Requests, WaitMove(r) PROVE FALSE
  <2>1. pc' = [pc EXCEPT ![r] = pc'[r]] /\ pc[r] # "parked"
    BY <1>6, WaitFrame, PointFacts
  <2> QED
    BY <2>1 DEF IInv, TypeOK
<1>7. ASSUME NEW r \in Requests, Conclude(r)
      PROVE  Founder(r) /\ q = callbacks[r] /\ pc'[q] \in {"done", "dropped"}
  <2>1. q # r
    BY <1>7, ConcludeFrame, PointFacts
  <2> QED
    BY <1>7, <2>1, ConcludeFrame
<1>8. ASSUME NEW r \in Requests, Disconnect(r) PROVE r = q /\ pc'[q] = "destroyed"
  BY <1>8 DEF Disconnect, Goto, IInv, TypeOK
<1>9. CASE UNCHANGED vars
  BY <1>9 DEF vars
<1> QED
  BY <1>1, <1>2, <1>3, <1>4, <1>5, <1>6, <1>7, <1>8, <1>9, NextCases DEF JoinMove

\* How a founder comes to block.
LEMMA FounderBlocks ==
    ASSUME IInv, [Next]_vars, NEW g \in Requests, role'[g] = "INITIAL_LEADER",
           pc'[g] \in Blocked
    PROVE  Founder(g) /\ (pc[g] \in Blocked \/ \E q \in Requests : AttendNext(g, q))
<1>1. ASSUME NEW r \in Requests, NEW t \in Threads, NEW k \in Keys,
             FoundGroup(r, t, k) \/ JoinGroup(r, t, k)
      PROVE  Founder(g) /\ pc[g] \in Blocked
  <2>1. pc' = [pc EXCEPT ![r] = pc'[r]] /\ pc'[r] \in {"enlist", "join"}
    BY <1>1 DEF FoundGroup, JoinGroup, Goto, IInv, TypeOK
  <2>2. g # r
    BY <2>1, PointFacts
  <2>3. pc'[g] = pc[g] /\ role'[g] = role[g]
    BY <1>1, <2>1, <2>2 DEF FoundGroup, JoinGroup, IInv, TypeOK
  <2> QED
    BY <2>3 DEF Founder
<1>2. ASSUME NEW r \in Requests, FounderMove(r) PROVE Founder(g) /\ pc[g] \in Blocked
  <2>1. /\ pc' = [pc EXCEPT ![r] = pc'[r]] /\ role' = role
        /\ pc'[r] \in FounderPoints
    BY <1>2, FounderFrame
  <2>2. pc'[r] \notin Blocked
    BY <2>1, PointFacts DEF FounderPoints, InMap, Blocked
  <2> QED
    BY <2>1, <2>2 DEF IInv, TypeOK, Founder
<1>3. ASSUME NEW r \in Requests, JoinMove(r) PROVE Founder(g) /\ pc[g] \in Blocked
  <2>1. /\ pc' = [pc EXCEPT ![r] = pc'[r]]
        /\ role' = [role EXCEPT ![r] = role'[r]]
        /\ role'[r] # "INITIAL_LEADER"
    BY <1>3, JoinFrame
  <2> QED
    BY <2>1 DEF IInv, TypeOK, Founder
<1>4. ASSUME NEW r \in Requests, ServeParked(r) \/ Splice(r) \/ Disconnect(r)
      PROVE  Founder(g) /\ pc[g] \in Blocked
  <2>1. role' = role
    BY <1>4 DEF ServeParked, Splice, Disconnect, filterVars
  <2>2. CASE ServeParked(r)
    <3>1. pc'[g] \in {"disown", "done", pc[g]}
      BY <2>2 DEF ServeParked
    <3> QED
      BY <2>1, <3>1, PointFacts DEF Founder
  <2>3. CASE Splice(r) \/ Disconnect(r)
    <3>1. pc'[g] \in {"done", "destroyed", pc[g]}
      BY <2>3 DEF Splice, Disconnect, Goto, IInv, TypeOK
    <3> QED
      BY <2>1, <3>1, PointFacts DEF Founder
  <2> QED
    BY <1>4, <2>2, <2>3
<1>5. ASSUME NEW r \in Requests, NEW q \in Requests, AttendNext(r, q)
      PROVE  Founder(g) /\ (pc[g] \in Blocked \/ g = r)
  BY <1>5 DEF AttendNext, Goto, IInv, TypeOK, Founder
<1>6. ASSUME NEW r \in Requests, WaitMove(r) PROVE Founder(g) /\ pc[g] \in Blocked
  <2>1. /\ pc' = [pc EXCEPT ![r] = pc'[r]] /\ role' = role
        /\ pc[r] \in Blocked
    BY <1>6, WaitFrame
  <2> QED
    BY <2>1 DEF IInv, TypeOK, Founder
<1>7. ASSUME NEW r \in Requests, Conclude(r) PROVE Founder(g) /\ pc[g] \in Blocked
  <2>1. role' = role /\ pc[r] \in Blocked
    BY <1>7, ConcludeFrame DEF filterVars
  <2>2. Founder(g)
    BY <2>1 DEF Founder
  <2>3. g # r /\ (Founder(r) => g # callbacks[r])
    BY <1>7, <2>2, ConcludeFrame, PointFacts
  <2> QED
    BY <1>7, <2>2, <2>3, ConcludeFrame
<1>8. CASE UNCHANGED vars
  BY <1>8 DEF vars, filterVars, Founder
<1> QED
  BY <1>1, <1>2, <1>3, <1>4, <1>5, <1>6, <1>7, <1>8, NextCases DEF JoinMove

LEMMA AttendedStep ==
    ASSUME IInv, IGroups, ILists, IAttended, [Next]_vars
    PROVE  IAttended'
<1>1. \A q \in Requests : role[q] # Nil =>
        /\ role'[q] = role[q] /\ thread'[q] = thread[q]
        /\ ~Founder(q) => wrapper'[q] = wrapper[q]
  BY RolesKept
<1>2. Nil \notin Roles
  BY ConstantsAssumption
<1>3. \A g \in Requests : Founder(g) => role[g] # Nil /\ Founder(g)'
  BY <1>1, <1>2 DEF Founder, Roles
<1>4. ASSUME NEW g \in Requests, Serving(g), callbacks'[g] = callbacks[g],
             \A h \in Requests : callbacks[g] \notin others'[h]
      PROVE  Serving(g)'
  <2>1. callbacks[g] \in Requests /\ role[callbacks[g]] # Nil
    BY <1>2, <1>4 DEF Serving, IInv, TypeOK, Roles
  <2>2. Founder(g)' /\ thread'[g] = thread[g]
    BY <1>1, <1>3, <1>4 DEF Serving
  <2>3. role'[callbacks[g]] = role[callbacks[g]] /\ thread'[callbacks[g]] = thread[callbacks[g]]
    BY <1>1, <2>1
  <2> QED
    BY <1>4, <2>2, <2>3 DEF Serving
<1>5. ASSUME NEW r \in Requests, NEW q \in Requests, AttendNext(r, q) PROVE IAttended'
  <2>1. /\ pc[r] = "attend" /\ Founder(r) /\ q \in others[r] /\ pc[q] = "parked"
        /\ others' = [others EXCEPT ![r] = @ \ {q}]
        /\ callbacks' = [callbacks EXCEPT ![r] = q]
        /\ wrapper' = [wrapper EXCEPT ![r] = wrapper[q]]
        /\ pc' = [pc EXCEPT ![r] = "wait"]
        /\ UNCHANGED <<thread, role>>
    BY <1>5, PointFacts DEF AttendNext, AttendedGroup, Goto, IInv, IPlace
  <2>2. /\ role[q] = "OTHER_GROUP_LEADER" /\ thread[q] = thread[r]
        /\ \A h \in Requests : q \in others[h] => h = r
        /\ q # r
    BY <2>1 DEF ILists
  <2>3. /\ callbacks'[r] = q /\ wrapper'[r] = wrapper[q] /\ pc'[q] = "parked"
        /\ wrapper'[q] = wrapper[q]
        /\ \A h \in Requests : others'[h] \subseteq others[h] /\ q \notin others'[h]
    BY <2>1, <2>2 DEF IInv, TypeOK
  <2>4. Serving(r)'
    BY <2>1, <2>2, <2>3 DEF Serving, Founder
  <2>5. Awaiting(r)'
    BY <2>1, <2>2, <2>3 DEF Awaiting
  <2>6. ASSUME NEW g \in Requests, g # r
        PROVE  callbacks'[g] = callbacks[g] /\ pc'[g] = pc[g] /\ wrapper'[g] = wrapper[g]
    BY <2>1, <2>6 DEF IInv, TypeOK
  <2>7. ASSUME NEW g \in Requests, g # r, callbacks'[g] # g PROVE Serving(g)'
    <3>1. Serving(g)
      BY <2>6, <2>7 DEF IAttended
    <3>2. \A h \in Requests : callbacks[g] \notin others'[h]
      BY <2>3, <3>1 DEF Serving
    <3> QED
      BY <1>4, <2>6, <2>7, <3>1, <3>2
  <2>8. ASSUME NEW g \in Requests, g # r, Founder(g)', pc'[g] \in Blocked PROVE Awaiting(g)'
    <3>1. Founder(g) /\ pc[g] \in Blocked
      BY <2>1, <2>6, <2>8 DEF Founder
    <3>2. Awaiting(g) /\ callbacks[g] \in Requests
      BY <3>1 DEF IAttended, IInv, TypeOK
    <3>3. callbacks[g] # r
      BY <2>1, <3>2 DEF Awaiting
    <3>4. pc'[callbacks[g]] = pc[callbacks[g]] /\ wrapper'[callbacks[g]] = wrapper[callbacks[g]]
      BY <2>6, <3>2, <3>3
    <3> QED
      BY <2>6, <2>8, <3>2, <3>4 DEF Awaiting
  <2> QED
    BY <2>4, <2>5, <2>7, <2>8 DEF IAttended
<1>6. ASSUME \A r, q \in Requests : ~AttendNext(r, q),
             NEW g \in Requests, Founder(g)', pc'[g] \in Blocked, callbacks'[g] = callbacks[g]
      PROVE  Awaiting(g)'
  <2>1. Founder(g) /\ pc[g] \in Blocked
    BY <1>6, FounderBlocks DEF Founder
  <2> DEFINE c == callbacks[g]
  <2>2. Awaiting(g) /\ c \in Requests /\ ~Founder(c)
    BY <2>1 DEF IAttended, IInv, TypeOK, IPlace
  <2>3. c # g /\ Serving(g)
    BY <2>1, <2>2 DEF IAttended
  <2>4. role[c] = "OTHER_GROUP_LEADER" /\ thread[c] = thread[g] /\ pc[c] = "parked"
        /\ wrapper[g] = wrapper[c]
    BY <2>2, <2>3 DEF Serving, Awaiting
  <2>5. running[thread[g]] = g /\ g # Nil
    BY <2>1, PointFacts, ConstantsAssumption DEF IInv, IRun
  <2> HIDE DEF c
  <2>6. pc'[c] = "parked"
    <3> SUFFICES ASSUME pc'[c] # "parked" PROVE FALSE
      OBVIOUS
    <3>1. ASSUME NEW r \in Requests, c \in parked[r] PROVE FALSE
      BY <2>2, <2>4, <3>1 DEF ILists
    <3>2. ASSUME NEW r \in Requests, Conclude(r), Founder(r), c = callbacks[r] PROVE FALSE
      <4>1. pc[r] \in Blocked /\ pc'[r] = "attend"
        BY <3>2, ConcludeFrame
      <4>2. running[thread[r]] = r /\ r # c
        BY <2>2, <3>2, <4>1, PointFacts DEF IInv, IRun
      <4>3. thread[c] = thread[r]
        BY <3>2, <4>2 DEF IAttended, Serving
      <4> QED
        BY <1>6, <2>4, <2>5, <4>1, <4>2, <4>3, PointFacts
    <3>3. ~Disconnect(c)
      BY <2>4, <2>5 DEF Disconnect, Idle
    <3> QED
      BY <2>2, <2>4, <3>1, <3>2, <3>3, ParkedMoves
  <2>7. wrapper'[c] = wrapper[c]
    BY <1>1, <1>2, <2>2, <2>4 DEF Roles
  <2>8. wrapper'[g] = wrapper[g]
    <3>1. ASSUME NEW r \in Requests, NEW t \in Threads, NEW k \in Keys,
                 FoundGroup(r, t, k) \/ JoinGroup(r, t, k)
          PROVE  wrapper'[g] = wrapper[g]
      BY <2>1, <3>1, PointFacts DEF FoundGroup, JoinGroup, ArriveAt, IInv, TypeOK
    <3>2. ASSUME NEW r \in Requests, FounderMove(r) \/ JoinMove(r) \/ WaitMove(r) \/ Conclude(r)
          PROVE  wrapper' = wrapper
      BY <3>2, FounderFrame, JoinFrame, WaitFrame, ConcludeFrame DEF filterVars
    <3>3. ASSUME NEW r \in Requests, ServeParked(r) \/ Splice(r) \/ Disconnect(r)
          PROVE  wrapper' = wrapper
      BY <3>3 DEF ServeParked, Splice, Disconnect, filterVars
    <3> QED
      BY <1>6, <3>1, <3>2, <3>3, NextCases DEF JoinMove, vars, filterVars
  <2> QED
    BY <1>6, <2>4, <2>6, <2>7, <2>8 DEF Awaiting, c
<1>7. ASSUME NEW r \in Requests, ParkWithOtherGroup(r) \/ ParkWithOwnGroup(r) \/ Splice(r),
             NEW g \in Requests, callbacks'[g] # g
      PROVE  Serving(g)' /\ callbacks' = callbacks
  <2>1. callbacks' = callbacks
    BY <1>7 DEF ParkWithOtherGroup, ParkWithOwnGroup, Splice, filterVars
  <2> DEFINE c == callbacks[g]
  <2>2. Serving(g) /\ c \in Requests /\ callbacks'[g] = c
    BY <1>7, <2>1 DEF IAttended, IInv, TypeOK
  <2>3. role[c] # Nil /\ \A h \in Requests : c \notin others[h]
    BY <1>2, <2>2 DEF Serving, Roles
  <2> HIDE DEF c
  <2>4. \A h \in Requests : c \notin others'[h]
    <3>1. CASE ParkWithOtherGroup(r)
      <4>1. c # r
        BY <2>3, <3>1, JoinFrame DEF JoinMove
      <4> QED
        BY <2>3, <3>1, <4>1 DEF ParkWithOtherGroup, IInv, TypeOK
    <3>2. CASE ParkWithOwnGroup(r)
      BY <2>3, <3>2 DEF ParkWithOwnGroup
    <3>3. CASE Splice(r)
      <4>1. PICK g1 \in led[thread[r]] :
              others' = [others EXCEPT ![g1] = others[g1] \union others[r], ![r] = {}]
        BY <3>3 DEF Splice, Spliced
      <4>2. thread[r] \in Threads
        BY <3>3 DEF Splice, IInv, IPlace
      <4>3. g1 \in Requests
        BY <4>1, <4>2 DEF IInv, TypeOK
      <4>4. \A h \in Requests : others'[h] \subseteq others[h] \union others[r]
        BY <4>1, <4>3 DEF IInv, TypeOK
      <4> QED
        BY <2>3, <4>4
    <3> QED
      BY <1>7, <3>1, <3>2, <3>3
  <2> QED
    BY <1>4, <2>1, <2>2, <2>4 DEF c
<1>8. CASE \A r, q \in Requests : ~AttendNext(r, q)
  <2>1. CASE \A r \in Requests : ~ParkWithOwnGroup(r) /\ ~ParkWithOtherGroup(r) /\ ~Splice(r)
    <3>1. UNCHANGED <<callbacks, others>>
      BY <1>8, <2>1, ListsFrame
    <3>2. \A g \in Requests : callbacks'[g] # g => Serving(g)'
      BY <1>4, <3>1 DEF IAttended, Serving
    <3>3. \A g \in Requests : Founder(g)' /\ pc'[g] \in Blocked => Awaiting(g)'
      BY <1>6, <1>8, <3>1
    <3> QED
      BY <3>2, <3>3 DEF IAttended
  <2>2. ASSUME NEW r \in Requests, ParkWithOtherGroup(r) \/ ParkWithOwnGroup(r) \/ Splice(r)
        PROVE  IAttended'
    <3>1. callbacks' = callbacks
      BY <2>2 DEF ParkWithOtherGroup, ParkWithOwnGroup, Splice, filterVars
    <3>2. \A g \in Requests : callbacks'[g] # g => Serving(g)'
      BY <1>7, <2>2
    <3>3. \A g \in Requests : Founder(g)' /\ pc'[g] \in Blocked => Awaiting(g)'
      BY <1>6, <1>8, <3>1
    <3> QED
      BY <3>2, <3>3 DEF IAttended
  <2> QED
    BY <2>1, <2>2
<1> QED
  BY <1>5, <1>8

\* A founder moves by a step of its own.
LEMMA FounderMoves ==
    ASSUME IInv, [Next]_vars, NEW g \in Requests, Founder(g), pc'[g] # pc[g]
    PROVE  \/ FounderMove(g) \/ ServeParked(g) \/ Splice(g)
           \/ \E q \in Requests : AttendNext(g, q)
           \/ WaitMove(g) \/ Conclude(g) \/ Disconnect(g)
<1>1. ASSUME NEW r \in Requests, NEW t \in Threads, NEW k \in Keys,
             FoundGroup(r, t, k) \/ JoinGroup(r, t, k)
      PROVE  FALSE
  <2>1. role[r] = Nil /\ Nil # "INITIAL_LEADER"
    BY <1>1, ConstantsAssumption DEF FoundGroup, JoinGroup, ArriveAt, IInv, IPlace, Roles
  <2> QED
    BY <1>1, <2>1 DEF FoundGroup, JoinGroup, Goto, IInv, TypeOK, Founder
<1>2. ASSUME NEW r \in Requests, FounderMove(r), r # g PROVE FALSE
  <2>1. pc' = [pc EXCEPT ![r] = pc'[r]]
    BY <1>2, FounderFrame
  <2> QED
    BY <1>2, <2>1 DEF IInv, TypeOK
<1>3. ASSUME NEW r \in Requests, JoinMove(r) PROVE FALSE
  <2>1. pc' = [pc EXCEPT ![r] = pc'[r]] /\ ~Founder(r)
    BY <1>3, JoinFrame
  <2> QED
    BY <2>1 DEF IInv, TypeOK
<1>4. ASSUME NEW r \in Requests, ServeParked(r), r # g PROVE FALSE
  <2>1. pc[g] = "parked"
    BY <1>4 DEF ServeParked, IInv, TypeOK
  <2> QED
    BY <2>1 DEF IInv, IPlace
<1>5. ASSUME NEW r \in Requests, NEW q \in Requests, r # g,
             Splice(r) \/ AttendNext(r, q) \/ Disconnect(r)
      PROVE  FALSE
  BY <1>5 DEF Splice, AttendNext, Disconnect, Goto, IInv, TypeOK
<1>6. ASSUME NEW r \in Requests, WaitMove(r), r # g PROVE FALSE
  <2>1. pc' = [pc EXCEPT ![r] = pc'[r]]
    BY <1>6, WaitFrame
  <2> QED
    BY <1>6, <2>1 DEF IInv, TypeOK
<1>7. ASSUME NEW r \in Requests, Conclude(r), r # g PROVE FALSE
  BY <1>7, ConcludeFrame
<1>8. pc' # pc
  OBVIOUS
<1> QED
  BY <1>1, <1>2, <1>3, <1>4, <1>5, <1>6, <1>7, <1>8, NextCases DEF JoinMove, vars

\* Who is parked by a step.
LEMMA NewlyParked ==
    ASSUME IInv, [Next]_vars, NEW q \in Requests, pc[q] # "parked", pc'[q] = "parked"
    PROVE  ParkWithOwnGroup(q) \/ ParkWithOtherGroup(q)
<1>1. ASSUME NEW r \in Requests, NEW t \in Threads, NEW k \in Keys,
             FoundGroup(r, t, k) \/ JoinGroup(r, t, k)
      PROVE  FALSE
  BY <1>1 DEF FoundGroup, JoinGroup, Goto, IInv, TypeOK
<1>2. ASSUME NEW r \in Requests, FounderMove(r) PROVE FALSE
  <2>1. pc' = [pc EXCEPT ![r] = pc'[r]] /\ pc'[r] # "parked"
    BY <1>2, FounderFrame, PointFacts DEF FounderPoints
  <2> QED
    BY <2>1 DEF IInv, TypeOK
<1>3. ASSUME NEW r \in Requests, JoinMove(r)
      PROVE  r = q /\ ~StartWaiting(r)
  <2>1. pc' = [pc EXCEPT ![r] = pc'[r]]
    BY <1>3, JoinFrame
  <2> QED
    BY <1>3, <2>1 DEF StartWaiting, Goto, IInv, TypeOK
<1>4. ASSUME NEW r \in Requests, ServeParked(r) PROVE FALSE
  BY <1>4 DEF ServeParked, IInv, TypeOK
<1>5. ASSUME NEW r \in Requests, NEW s \in Requests,
             Splice(r) \/ AttendNext(r, s) \/ Disconnect(r)
      PROVE  FALSE
  BY <1>5 DEF Splice, AttendNext, Disconnect, Goto, IInv, TypeOK
<1>6. ASSUME NEW r \in Requests, WaitMove(r) PROVE FALSE
  <2>1. pc' = [pc EXCEPT ![r] = pc'[r]] /\ pc'[r] # "parked"
    BY <1>6, WaitFrame, PointFacts
  <2> QED
    BY <2>1 DEF IInv, TypeOK
<1>7. ASSUME NEW r \in Requests, Conclude(r) PROVE FALSE
  BY <1>7, ConcludeFrame
<1>8. pc' # pc
  OBVIOUS
<1> QED
  BY <1>1, <1>2, <1>3, <1>4, <1>5, <1>6, <1>7, <1>8, NextCases DEF JoinMove, vars

\* A founder leads until it disowns its group, to attend to the streams in its list.
LEMMA LeadsKept ==
    ASSUME IInv, [Next]_vars, NEW g \in Requests, Leads(g)
    PROVE  /\ Leads(g)' \/ (pc[g] = "disown" /\ (others[g] # {} => pc'[g] = "attend"))
           /\ pc'[g] = "disown" => pc[g] = "disown" \/ ServeParked(g)
<1>1. Founder(g) /\ Founder(g)'
  BY RolesKept, ConstantsAssumption DEF Leads, Founder, Roles
<1>2. CASE pc'[g] = pc[g]
  BY <1>1, <1>2 DEF Leads
<1>3. CASE FounderMove(g)
  <2>1. /\ pc'[g] \in FounderPoints \ {"disown"}
        /\ pc[g] \in FounderPoints \ {"serveParked", "done"}
        /\ pc[g] \in InMap => pc'[g] \in InMap \union {"serveParked"}
        /\ pc[g] = "disown" => others[g] = {} \/ pc'[g] = "attend"
    BY <1>3, FounderFrame
  <2> QED
    BY <1>1, <2>1 DEF Leads, FounderPoints
<1>4. CASE ServeParked(g)
  BY <1>1, <1>4 DEF ServeParked, Leads
<1>5. CASE Splice(g) \/ (\E q \in Requests : AttendNext(g, q)) \/ WaitMove(g) \/ Conclude(g)
  <2>1. pc[g] = "attend" \/ pc[g] \in Blocked
    BY <1>5, WaitFrame, ConcludeFrame DEF Splice, AttendNext
  <2> QED
    BY <2>1, PointFacts DEF Leads, InMap, Blocked
<1>6. CASE Disconnect(g)
  BY <1>1, <1>6 DEF Disconnect, Goto, Leads, IInv, TypeOK
<1> QED
  BY <1>1, <1>2, <1>3, <1>4, <1>5, <1>6, FounderMoves

\* Somebody still comes to a stream that stays parked in a list of others.
LEMMA ExpectedStep ==
    ASSUME IInv, IGroups, ILists, IAttended, [Next]_vars,
           NEW g \in Requests, NEW q \in Requests, Expected(g, q), pc'[q] = "parked"
    PROVE  \E h \in Requests : Expected(h, q)'
<1>1. Founder(g) /\ Founder(g)'
  BY RolesKept, ConstantsAssumption DEF Expected, ILists, Founder, Roles
<1>2. CASE callbacks[g] = q /\ pc[g] \in Blocked
  <2>1. ~Conclude(g)
    BY <1>1, <1>2, ConcludeFrame
  <2>2. pc'[g] \in Blocked
    <3>1. pc[g] \notin FounderPoints \ {"done"}
      BY <1>2, PointFacts DEF FounderPoints, InMap, Blocked
    <3>2. ~FounderMove(g)
      BY <3>1, <1>2, FounderFrame, PointFacts
    <3>3. ~ServeParked(g) /\ ~Splice(g) /\ ~Disconnect(g) /\ \A s \in Requests : ~AttendNext(g, s)
      BY <1>2, PointFacts DEF ServeParked, Splice, AttendNext, Disconnect
    <3> QED
      BY <1>1, <1>2, <2>1, <3>2, <3>3, FounderMoves, WaitFrame
  <2>3. callbacks'[g] = q
    <3>1. ASSUME NEW r \in Requests, NEW s \in Requests, AttendNext(r, s)
          PROVE  callbacks'[g] = callbacks[g]
      BY <1>2, <3>1, PointFacts DEF AttendNext, IInv, TypeOK
    <3>2. ASSUME NEW r \in Requests, ParkWithOwnGroup(r) \/ ParkWithOtherGroup(r) \/ Splice(r)
          PROVE  callbacks' = callbacks
      BY <3>2 DEF ParkWithOwnGroup, ParkWithOtherGroup, Splice, filterVars
    <3> QED
      BY <1>2, <3>1, <3>2, ListsFrame
  <2> QED
    BY <1>1, <2>2, <2>3 DEF Expected
<1>3. ASSUME NEW h \in Requests, q \in others[h], q \in others'[h],
             Leads(h) \/ pc[h] \in Blocked \union {"attend"},
             ~Splice(h)
      PROVE  Expected(h, q)'
  <2>1. Founder(h) /\ Founder(h)'
    BY <1>3, RolesKept, ConstantsAssumption DEF ILists, Founder, Roles
  <2>2. CASE Leads(h)
    <3>1. Leads(h)' \/ pc'[h] = "attend"
      BY <1>3, <2>2, LeadsKept
    <3> QED
      BY <1>3, <3>1 DEF Expected
  <2>3. CASE pc[h] \in Blocked \union {"attend"}
    <3>1. CASE pc'[h] = pc[h]
      BY <1>3, <2>3, <3>1 DEF Expected
    <3>2. CASE FounderMove(h)
      <4>1. pc[h] # "attend" \/ pc'[h] = "attend"
        BY <1>3, <3>2, FounderFrame
      <4>2. pc[h] \notin Blocked
        BY <3>2, FounderFrame, PointFacts DEF FounderPoints, InMap, Blocked
      <4> QED
        BY <1>3, <2>3, <4>1, <4>2 DEF Expected
    <3>3. ~ServeParked(h) /\ ~Disconnect(h)
      BY <2>3, PointFacts DEF ServeParked, Disconnect
    <3>4. ASSUME NEW s \in Requests, AttendNext(h, s) PROVE Expected(h, q)'
      BY <1>3, <3>4, PointFacts DEF AttendNext, Goto, Expected, IInv, TypeOK
    <3>5. CASE WaitMove(h) \/ Conclude(h)
      BY <1>3, <2>1, <3>5, WaitFrame, ConcludeFrame DEF Expected
    <3> QED
      BY <1>3, <2>1, <3>1, <3>2, <3>3, <3>4, <3>5, FounderMoves
  <2> QED
    BY <1>3, <2>2, <2>3
<1>4. CASE q \in others[g] /\ (Leads(g) \/ pc[g] \in Blocked \union {"attend"})
  <2>1. CASE Splice(g)
    <3>1. PICK h \in led[thread[g]] :
            others' = [others EXCEPT ![h] = others[h] \union others[g], ![g] = {}]
      BY <2>1 DEF Splice, Spliced
    <3>2. pc[g] = "attend" /\ thread[g] \in Threads /\ pc' = [pc EXCEPT ![g] = "done"]
          /\ role' = role
      BY <2>1, PointFacts DEF Splice, Goto, filterVars, IInv, IPlace
    <3>3. h \in Requests /\ Leads(h)
      BY <3>1, <3>2 DEF IGroups, IInv, TypeOK
    <3>4. h # g
      BY <3>2, <3>3, PointFacts DEF Leads
    <3>5. q \in others'[h] /\ pc'[h] = pc[h]
      BY <1>4, <3>1, <3>2, <3>3, <3>4 DEF IInv, TypeOK
    <3>6. Leads(h)'
      BY <3>2, <3>3, <3>5 DEF Leads, Founder
    <3> QED
      BY <3>3, <3>5, <3>6 DEF Expected
  <2>2. ASSUME AttendNext(g, q) PROVE Expected(g, q)'
    BY <1>1, <2>2, PointFacts DEF AttendNext, Goto, Expected, IInv, TypeOK
  <2>3. CASE ~Splice(g) /\ ~AttendNext(g, q)
    <3>1. q \in others'[g]
      <4>1. ASSUME NEW r \in Requests, NEW s \in Requests, AttendNext(r, s)
            PROVE  q \in others'[g]
        BY <1>4, <2>3, <4>1 DEF AttendNext, IInv, TypeOK
      <4>2. ASSUME NEW r \in Requests, Splice(r) PROVE q \in others'[g]
        <5>1. PICK h \in led[thread[r]] :
                others' = [others EXCEPT ![h] = others[h] \union others[r], ![r] = {}]
          BY <4>2 DEF Splice, Spliced
        <5> QED
          BY <1>4, <2>3, <4>2, <5>1 DEF IInv, TypeOK
      <4>3. ASSUME NEW r \in Requests, ParkWithOtherGroup(r) PROVE q \in others'[g]
        <5>1. PICK h \in led[thread[r]] : others' = [others EXCEPT ![h] = @ \union {r}]
          BY <4>3 DEF ParkWithOtherGroup
        <5> QED
          BY <1>4, <5>1 DEF IInv, TypeOK
      <4>4. ASSUME NEW r \in Requests, ParkWithOwnGroup(r) PROVE others' = others
        BY <4>4 DEF ParkWithOwnGroup
      <4> QED
        BY <1>4, <4>1, <4>2, <4>3, <4>4, ListsFrame
    <3> QED
      BY <1>3, <1>4, <2>3, <3>1
  <2> QED
    BY <2>1, <2>2, <2>3
<1> QED
  BY <1>2, <1>4 DEF Expected

LEMMA ParkedStep ==
    ASSUME IInv, ParkedInv, [Next]_vars
    PROVE  IParked'
<1> SUFFICES ASSUME NEW q \in Requests, pc'[q] = "parked"
             PROVE  /\ role'[q] \in {"LEADER", "OTHER_GROUP_LEADER"}
                    /\ role'[q] = "LEADER" => /\ q \in parked'[wrapper'[q]]
                                              /\ Leads(wrapper[q])'
                                              /\ pc'[wrapper'[q]] # "disown"
                    /\ role'[q] = "OTHER_GROUP_LEADER" => \E g \in Requests : Expected(g, q)'
  BY DEF IParked, Leads, Expected, Founder
<1> USE DEF ParkedInv
<1>1. CASE pc[q] = "parked"
  <2>1. role[q] \in {"LEADER", "OTHER_GROUP_LEADER"} /\ role[q] # Nil /\ ~Founder(q)
    BY <1>1, ConstantsAssumption DEF IParked, IInv, IPlace, Roles
  <2>2. role'[q] = role[q] /\ wrapper'[q] = wrapper[q] /\ wrapper[q] \in Requests
    BY <1>1, <2>1, RolesKept DEF IInv, IPlace
  <2>3. CASE role[q] = "LEADER"
    <3>2. PICK w \in Requests : w = wrapper[q]
      BY <2>2
    <3>1. q \in parked[w] /\ Leads(w) /\ pc[w] # "disown"
      BY <1>1, <2>3, <3>2 DEF IParked
    <3>3. q \in parked'[w]
      <4>1. ASSUME NEW r \in Requests, ParkWithOwnGroup(r) PROVE q \in parked'[w]
        BY <3>1, <3>2, <4>1 DEF ParkWithOwnGroup, IInv, TypeOK
      <4>2. ASSUME NEW r \in Requests, NEW s \in Requests,
                   ParkWithOtherGroup(r) \/ Splice(r) \/ AttendNext(r, s)
            PROVE  parked' = parked
        BY <4>2 DEF ParkWithOtherGroup, Splice, AttendNext
      <4> QED
        BY <3>1, <4>1, <4>2, ListsFrame
    <3>4. ~ServeParked(w)
      <4> SUFFICES ASSUME ServeParked(w) PROVE FALSE
        OBVIOUS
      <4>1. q # w
        BY <2>1, <3>1 DEF Leads
      <4> QED
        BY <3>1, <4>1 DEF ServeParked
    <3>5. Leads(w)' /\ pc'[w] # "disown"
      BY <3>1, <3>2, <3>4, LeadsKept
    <3> QED
      BY <2>2, <2>3, <3>2, <3>3, <3>5 DEF Leads, Founder
  <2>4. CASE role[q] = "OTHER_GROUP_LEADER"
    <3>1. PICK g \in Requests : Expected(g, q)
      BY <1>1, <2>4 DEF IParked
    <3>2. \E h \in Requests : Expected(h, q)'
      BY <3>1, ExpectedStep
    <3> QED
      BY <2>2, <2>4, <3>2
  <2> QED
    BY <2>1, <2>3, <2>4
<1>2. CASE ParkWithOwnGroup(q)
  <2>0. PICK w \in Requests : w = wrapper[q]
    BY <1>2 DEF ParkWithOwnGroup, IInv, IPlace
  <2>1. /\ role' = [role EXCEPT ![q] = "LEADER"] /\ pc' = [pc EXCEPT ![q] = "parked"]
        /\ wrapper' = wrapper /\ pc[q] = "join" /\ thread[w] = thread[q]
        /\ parked' = [parked EXCEPT ![w] = @ \union {q}]
    BY <1>2, <2>0 DEF ParkWithOwnGroup, OwnThreadLeads, Goto
  <2>2. role'[q] = "LEADER" /\ q \in parked'[w]
    BY <2>1 DEF IInv, TypeOK
  <2>3. Founder(w) /\ pc[w] \in {"upstream", "body", "destroyed"}
    BY <2>0, <2>1 DEF IInv, IJoin
  <2>4. w # q
    BY <2>1, <2>3
  <2>5. Founder(w)' /\ pc'[w] = pc[w]
    BY <2>1, <2>3, <2>4 DEF IInv, TypeOK, Founder
  <2>6. Leads(w)' /\ pc'[w] # "disown"
    BY <2>3, <2>5, PointFacts DEF Leads
  <2> QED
    BY <2>0, <2>1, <2>2, <2>6 DEF Leads, Founder
<1>3. CASE ParkWithOtherGroup(q)
  <2>1. PICK g \in led[thread[q]] : others' = [others EXCEPT ![g] = @ \union {q}]
    BY <1>3 DEF ParkWithOtherGroup
  <2>2. /\ role' = [role EXCEPT ![q] = "OTHER_GROUP_LEADER"]
        /\ pc' = [pc EXCEPT ![q] = "parked"]
        /\ thread[q] \in Threads /\ ~Founder(q)
    BY <1>3, JoinFrame DEF ParkWithOtherGroup, Goto, JoinMove, IInv, IPlace
  <2>3. g \in Requests /\ Leads(g) /\ Founder(g)
    BY <2>1, <2>2 DEF IGroups, Leads, IInv, TypeOK
  <2>4. role'[q] = "OTHER_GROUP_LEADER" /\ q \in others'[g]
    BY <2>1, <2>2, <2>3 DEF IInv, TypeOK
  <2>5. Leads(g)'
    BY <2>2, <2>3 DEF Leads, Founder, IInv, TypeOK
  <2> QED
    BY <2>3, <2>4, <2>5 DEF Expected
<1> QED
  BY <1>1, <1>2, <1>3, NewlyParked

LEMMA ParkedInit == Init => ParkedInv
<1> SUFFICES ASSUME Init PROVE ParkedInv
  OBVIOUS
<1>1. \A r \in Requests : ~Founder(r) /\ pc[r] = "new" /\ callbacks[r] = r
  BY ConstantsAssumption DEF Init, Founder, Roles
<1>2. IGroups
  BY <1>1 DEF Init, IGroups, Leads
<1>3. IJoined /\ IAttended
  BY <1>1 DEF IJoined, IAttended
<1>4. ILists
  BY DEF Init, ILists
<1>5. IParked
  BY <1>1 DEF IParked
<1> QED
  BY <1>2, <1>3, <1>4, <1>5 DEF ParkedInv

LEMMA ParkedNext == IInv /\ ParkedInv /\ [Next]_vars => ParkedInv'
  BY GroupsStep, JoinedStep, ListsStep, AttendedStep, ParkedStep DEF ParkedInv

\* The invariant of the lists of parked streams.
THEOREM ParkedInvariance == Spec => [](IInv /\ ParkedInv)
  BY InitInv, NextInv, ParkedInit, ParkedNext, PTL DEF Spec

\* CallbacksOnOwnThread: no stream's callbacks are ever in a list, or in use, on
\* another thread than the one Envoy bound the stream to.
THEOREM OwnThread == Spec => []CallbacksOnOwnThread
<1>1. IInv /\ ParkedInv => CallbacksOnOwnThread
  BY DEF ParkedInv, ILists, IAttended, Serving, CallbacksOnOwnThread
<1> QED
  BY <1>1, ParkedInvariance, PTL

\* Someone's list has every parked stream, and no two lists do.
LEMMA ParkedSomewhere ==
    ASSUME IInv, ParkedInv, NEW q \in Requests, pc[q] = "parked"
    PROVE  \E g \in Requests : Keeps(g, q) \/ Strands(g, q)
<1>1. role[q] = "LEADER" => /\ wrapper[q] \in Requests
                            /\ Keeps(wrapper[q], q) \/ Strands(wrapper[q], q)
  BY DEF ParkedInv, IParked, Keeps, Attends, Strands, IInv, IPlace
<1>2. \A g \in Requests : Expected(g, q) => Keeps(g, q) \/ Strands(g, q)
  BY DEF Expected, Keeps, Attends, Strands
<1> QED
  BY <1>1, <1>2 DEF ParkedInv, IParked

LEMMA ParkedOnce ==
    ASSUME IInv, ParkedInv, NEW q \in Requests, pc[q] = "parked",
           NEW g \in Requests, NEW h \in Requests,
           Keeps(g, q) \/ Strands(g, q), Keeps(h, q) \/ Strands(h, q)
    PROVE  g = h
<1>1. ASSUME NEW i \in Requests, callbacks[i] = q, pc[i] \in Blocked
      PROVE  /\ role[q] = "OTHER_GROUP_LEADER"
             /\ running[thread[q]] = i
             /\ \A j \in Requests : q \notin others[j]
  <2>1. i # q
    BY <1>1, PointFacts
  <2>2. Serving(i)
    BY <1>1, <2>1 DEF ParkedInv, IAttended
  <2> QED
    BY <1>1, <2>2, PointFacts DEF Serving, IInv, IRun
<1>2. ASSUME NEW i \in Requests, q \in parked[i]
      PROVE  role[q] = "LEADER" /\ wrapper[q] = i
  BY <1>2 DEF ParkedInv, ILists
<1>3. ASSUME NEW i \in Requests, q \in others[i]
      PROVE  role[q] = "OTHER_GROUP_LEADER" /\ \A j \in Requests : q \in others[j] => i = j
  BY <1>3 DEF ParkedInv, ILists
<1> QED
  BY <1>1, <1>2, <1>3 DEF Keeps, Strands

\* LostOnlyToResets: a parked stream is in exactly one list, through any parking,
\* splicing and attending, and unless the founder of that list was reset, somebody
\* has still to come to it.
THEOREM NoneLost == Spec => []LostOnlyToResets
<1>1. IInv /\ ParkedInv => LostOnlyToResets
  BY ParkedSomewhere, ParkedOnce DEF LostOnlyToResets, InNoOther
<1> QED
  BY <1>1, ParkedInvariance, PTL

\* CleanWhenQuiet: with no callback and no fetch under way, all that is left in the
\* static maps, and all that is parked, belongs to groups whose founder was reset.
THEOREM NothingLeft == Spec => []CleanWhenQuiet
<1>1. ASSUME IInv, ParkedInv, Quiet
      PROVE  /\ \A k \in Keys : coalesced_requests[k] # Nil =>
                                    pc[coalesced_requests[k]] = "destroyed"
             /\ \A t \in leader_threads : led[t] # {}
             /\ \A t \in Threads : \A g \in led[t] : Founder(g) /\ pc[g] = "destroyed"
             /\ \A q \in Requests : pc[q] = "parked" =>
                    \E g \in led[thread[q]] : q \in parked[g] \union others[g]
  <2>1. \A r \in Requests : /\ pc[r] \notin InMap /\ pc[r] \notin Blocked
                            /\ pc[r] \notin {"serveParked", "disown", "attend", "release", "enlist"}
    BY <1>1, PointFacts DEF Quiet
  <2>2. \A r \in Requests : Leads(r) \/ Open(r) => Founder(r) /\ pc[r] = "destroyed"
    BY <2>1 DEF Leads, Open
  <2>3. ASSUME NEW k \in Keys, coalesced_requests[k] # Nil
        PROVE  pc[coalesced_requests[k]] = "destroyed"
    BY <1>1, <2>2, <2>3 DEF IInv, IMap, TypeOK
  <2>4. ASSUME NEW t \in leader_threads PROVE led[t] # {}
    <3>1. t \in Threads /\ running[t] \in Requests \union {Nil}
      BY <1>1 DEF IInv, TypeOK
    <3>2. ~Winding(t)
      BY <2>1, <3>1 DEF Winding
    <3> QED
      BY <1>1, <3>2 DEF IInv, ILed
  <2>5. ASSUME NEW t \in Threads, NEW g \in led[t] PROVE Founder(g) /\ pc[g] = "destroyed"
    BY <1>1, <2>2 DEF ParkedInv, IGroups, IInv, TypeOK
  <2>6. ASSUME NEW q \in Requests, pc[q] = "parked"
        PROVE  \E g \in led[thread[q]] : q \in parked[g] \union others[g]
    <3>1. PICK g \in Requests : /\ q \in parked[g] \union others[g]
                                /\ Leads(g)
      <4>1. CASE role[q] = "LEADER"
        BY <1>1, <2>6, <4>1 DEF ParkedInv, IParked, IInv, IPlace
      <4>2. CASE role[q] = "OTHER_GROUP_LEADER"
        <5>1. PICK g \in Requests : Expected(g, q)
          BY <1>1, <2>6, <4>2 DEF ParkedInv, IParked
        <5> QED
          BY <2>1, <5>1 DEF Expected
      <4> QED
        BY <1>1, <2>6, <4>1, <4>2 DEF ParkedInv, IParked
    <3>2. thread[q] = thread[g]
      BY <1>1, <3>1 DEF ParkedInv, ILists
    <3>3. g \in led[thread[g]]
      BY <1>1, <2>1, <3>1 DEF ParkedInv, IGroups
    <3> QED
      BY <3>1, <3>2, <3>3
  <2> QED
    BY <2>3, <2>4, <2>5, <2>6
<1>2. IInv /\ ParkedInv => CleanWhenQuiet
  BY <1>1 DEF CleanWhenQuiet
<1> QED
  BY <1>2, ParkedInvariance, PTL

------------------------------------------------------------------------------
(* Entries and answers                                                      *)

\* The points of a founder before the response of its group is settled, and after
\* its own stream has been served.
Early == {"enlist", "query", "upstream", "insert", "notify"}
Late == {"detach", "serveParked", "disown", "attend", "release", "done"} \union Blocked

\* The entry a founder has found or begun.
EntryOf(g) ==
    /\ ~entry_cached[g] /\ pc[g] \in {"upstream", "insert", "notify", "body", "finish"}
          => entry[g] = g
    /\ entry_cached[g] /\ pc[g] \in {"notify", "readHit"} =>
          /\ entry[g] \in complete
          /\ key[entry[g]] = key[g]

\* A group shares one entry, of its own key, from the notification on.
SharedBy(g) ==
    /\ shared[g] # Nil => /\ Founder(g)
                          /\ pc[g] \notin Early
                          /\ Founder(shared[g])
                          /\ key[shared[g]] = key[g]
    /\ pc[g] \in {"body", "finish"} => shared[g] = g
    /\ pc[g] = "readHit" => shared[g] = entry[g]
    /\ Founder(g) /\ pc[g] \in Late =>
          /\ shared[g] \in complete
          /\ ~entry_cached[g] => shared[g] = g

IEntry == \A g \in Requests : Founder(g) => EntryOf(g)
IShared == \A g \in Requests : SharedBy(g)

\* What is complete has been served to the stream that fetched it.
IComplete == \A c \in complete : Founder(c) /\ pc[c] \in Late

\* What a blocked thread reads is what the group it waited for shares.
IWaited ==
    \A r \in Requests : pc[r] = "read" =>
        /\ entry[r] = shared[wrapper[r]]
        /\ entry[r] # Nil

\* A stream is served once, and has then run its course.
IDelivered ==
    \A q \in Requests : delivered[q] # <<>> =>
        /\ delivered[q] = <<shared[GroupJoined(q)]>>
        /\ shared[GroupJoined(q)] # Nil
        /\ IF Founder(q) THEN pc[q] \in Late ELSE pc[q] = "done"

ServedInv == IEntry /\ IShared /\ IComplete /\ IWaited /\ IDelivered

\* What each step does to entries and answers.
LEMMA DataFrame ==
    ASSUME IInv, [Next]_vars
    PROVE  /\ complete \subseteq complete'
           /\ \A c \in complete' : c \in complete \/ Finish(c)
           /\ \A g \in Requests : shared'[g] = shared[g] \/ NotifyHit(g) \/ NotifyMiss(g)
           /\ \A g \in Requests : \/ entry'[g] = entry[g]
                                  \/ CacheHit(g) \/ CacheMiss(g) \/ Wake(g) \/ LateRead(g)
           /\ \A g \in Requests : entry_cached'[g] = entry_cached[g] \/ CacheMiss(g)
           /\ \A q \in Requests :
                 \/ delivered'[q] = delivered[q]
                 \/ Finish(q) \/ ServeHit(q)
                 \/ \E r \in Requests : ServeParked(r) /\ q \in parked[r]
                 \/ \E r \in Requests : Serve(r) /\ callbacks[r] = q
<1> DEFINE Same == UNCHANGED <<complete, shared, entry, entry_cached, delivered>>
<1>1. ASSUME NEW r \in Requests, NEW t \in Threads, NEW k \in Keys,
             FoundGroup(r, t, k) \/ JoinGroup(r, t, k)
      PROVE  Same
  BY <1>1 DEF FoundGroup, JoinGroup, groupVars
<1>2. ASSUME NEW r \in Requests, JoinMove(r) PROVE Same
  BY <1>2, JoinFrame
<1>3. ASSUME NEW r \in Requests, NEW q \in Requests,
             \/ Splice(r) \/ AttendNext(r, q) \/ Timeout(r) \/ Drop(r) \/ Disconnect(r)
             \/ Enlist(r) \/ Insert(r) \/ OriginEnd(r) \/ Detach(r) \/ Disown(r)
             \/ AttendedAll(r) \/ Release(r)
      PROVE  Same
  BY <1>3 DEF Splice, AttendNext, Timeout, Drop, Disconnect, Enlist, Insert, OriginEnd,
     Detach, Disown, AttendedAll, Release, filterVars, groupVars
<1>4. ASSUME NEW r \in Requests, NEW successful \in BOOLEAN, OriginHeaders(r, successful)
      PROVE  Same
  BY <1>4 DEF OriginHeaders, filterVars, groupVars
<1>5. ASSUME UNCHANGED vars PROVE Same
  BY <1>5 DEF vars, filterVars, groupVars
<1>6. ASSUME NEW r \in Requests, CacheHit(r) \/ Wake(r) \/ LateRead(r)
      PROVE  /\ UNCHANGED <<complete, shared, entry_cached, delivered>>
             /\ \A g \in Requests \ {r} : entry'[g] = entry[g]
  BY <1>6 DEF CacheHit, Wake, LateRead, groupVars, IInv, TypeOK
<1>7. ASSUME NEW r \in Requests, CacheMiss(r)
      PROVE  /\ UNCHANGED <<complete, shared, delivered>>
             /\ \A g \in Requests \ {r} : entry'[g] = entry[g] /\ entry_cached'[g] = entry_cached[g]
  BY <1>7 DEF CacheMiss, groupVars, IInv, TypeOK
<1>8. ASSUME NEW r \in Requests, NotifyHit(r) \/ NotifyMiss(r)
      PROVE  /\ UNCHANGED <<complete, entry, entry_cached, delivered>>
             /\ \A g \in Requests \ {r} : shared'[g] = shared[g]
  BY <1>8 DEF NotifyHit, NotifyMiss, Publish, filterVars, IInv, TypeOK
<1>9. ASSUME NEW r \in Requests, Finish(r)
      PROVE  /\ UNCHANGED <<shared, entry, entry_cached>>
             /\ complete' = complete \union {r}
             /\ \A q \in Requests \ {r} : delivered'[q] = delivered[q]
  BY <1>9 DEF Finish, CompletedBy, Deliver, groupVars, filterVars, IInv, TypeOK
<1>10. ASSUME NEW r \in Requests, ServeHit(r)
       PROVE  /\ UNCHANGED <<complete, shared, entry, entry_cached>>
              /\ \A q \in Requests \ {r} : delivered'[q] = delivered[q]
  BY <1>10 DEF ServeHit, Deliver, groupVars, filterVars, IInv, TypeOK
<1>11. ASSUME NEW r \in Requests, ServeParked(r)
       PROVE  /\ UNCHANGED <<complete, shared, entry, entry_cached>>
              /\ \A q \in Requests : q \notin parked[r] => delivered'[q] = delivered[q]
  BY <1>11 DEF ServeParked, groupVars, filterVars
<1>12. ASSUME NEW r \in Requests, Serve(r)
       PROVE  /\ UNCHANGED <<complete, shared, entry, entry_cached>>
              /\ \A q \in Requests : q # callbacks[r] => delivered'[q] = delivered[q]
  BY <1>12 DEF Serve, Deliver, groupVars, filterVars, IInv, TypeOK
<1>13. ASSUME NEW r \in Requests, FounderMove(r)
       PROVE  \/ Same \/ CacheHit(r) \/ CacheMiss(r) \/ NotifyHit(r) \/ NotifyMiss(r)
              \/ Finish(r) \/ ServeHit(r)
  <2> HIDE DEF Same
  <2> QED
    BY <1>3, <1>4, <1>13 DEF FounderMove
<1>14. ASSUME NEW r \in Requests, WaitMove(r) \/ Conclude(r)
       PROVE  Same \/ Wake(r) \/ LateRead(r) \/ Serve(r)
  <2> HIDE DEF Same
  <2> QED
    BY <1>3, <1>14 DEF WaitMove, Conclude
<1>15. ASSUME NEW r \in Requests, NEW q \in Requests,
              Splice(r) \/ AttendNext(r, q) \/ Disconnect(r)
       PROVE  Same
  BY <1>3, <1>15
<1>16. \/ Same
       \/ \E r \in Requests : CacheHit(r) \/ Wake(r) \/ LateRead(r)
       \/ \E r \in Requests : CacheMiss(r)
       \/ \E r \in Requests : NotifyHit(r) \/ NotifyMiss(r)
       \/ \E r \in Requests : Finish(r)
       \/ \E r \in Requests : ServeHit(r)
       \/ \E r \in Requests : ServeParked(r)
       \/ \E r \in Requests : Serve(r)
  <2> HIDE DEF Same
  <2>1. \/ Same
        \/ \E r \in Requests : FounderMove(r)
        \/ \E r \in Requests : ServeParked(r)
        \/ \E r \in Requests : WaitMove(r) \/ Conclude(r)
    BY <1>1, <1>2, <1>5, <1>15, NextCases DEF JoinMove
  <2>2. ASSUME NEW r \in Requests, FounderMove(r)
        PROVE  \/ Same \/ CacheHit(r) \/ CacheMiss(r) \/ NotifyHit(r) \/ NotifyMiss(r)
               \/ Finish(r) \/ ServeHit(r)
    BY <1>13, <2>2
  <2> QED
    BY <1>14, <2>1, <2>2
<1>17. CASE Same
  BY <1>17
<1>18. CASE \E r \in Requests : CacheHit(r) \/ Wake(r) \/ LateRead(r)
  BY <1>6, <1>18
<1>19. CASE \E r \in Requests : CacheMiss(r)
  BY <1>7, <1>19
<1>20. CASE \E r \in Requests : NotifyHit(r) \/ NotifyMiss(r)
  BY <1>8, <1>20
<1>21. CASE \E r \in Requests : Finish(r)
  BY <1>9, <1>21
<1>22. CASE \E r \in Requests : ServeHit(r)
  BY <1>10, <1>22
<1>23. CASE \E r \in Requests : ServeParked(r)
  BY <1>11, <1>23
<1>24. CASE \E r \in Requests : Serve(r)
  BY <1>12, <1>24
<1> QED
  BY <1>16, <1>17, <1>18, <1>19, <1>20, <1>21, <1>22, <1>23, <1>24

\* Late is the end of a founder's way, Early its beginning.
LEMMA LateKept ==
    ASSUME IInv, [Next]_vars, NEW g \in Requests, Founder(g)
    PROVE  /\ pc[g] \in Late => pc'[g] \in Late
           /\ pc[g] \notin Early => pc'[g] \notin Early
           /\ Early \cap Late = {} /\ Blocked \subseteq Late
<1>1. Early \cap Late = {} /\ Blocked \subseteq Late
  BY DEF Early, Late, Blocked
<1>2. CASE pc'[g] = pc[g]
  BY <1>1, <1>2
<1>3. CASE FounderMove(g)
  <2>1. pc[g] \in {"enlist", "query", "upstream", "insert", "notify"}
        \/ /\ pc[g] \in {"readHit", "body", "finish"}
           /\ pc'[g] \in {"finish", "detach"}
        \/ /\ pc[g] \in {"detach", "disown", "attend", "release"}
           /\ pc'[g] \in {"serveParked", "attend", "release", "done"}
    <3>1. pc \in [Requests -> Points]
      BY DEF IInv, TypeOK
    <3>2. CASE Enlist(g) \/ CacheHit(g) \/ CacheMiss(g) \/ Insert(g) \/ NotifyHit(g)
                 \/ NotifyMiss(g) \/ \E successful \in BOOLEAN : OriginHeaders(g, successful)
      BY <3>2 DEF Enlist, CacheHit, CacheMiss, Insert, NotifyHit, NotifyMiss, Publish,
         OriginHeaders
    <3>3. CASE OriginEnd(g) \/ Finish(g) \/ ServeHit(g)
      BY <3>1, <3>3 DEF OriginEnd, Finish, ServeHit, Goto
    <3>4. CASE Detach(g) \/ AttendedAll(g) \/ Release(g)
      BY <3>1, <3>4 DEF Detach, AttendedAll, Release, Goto
    <3>5. CASE Disown(g)
      BY <3>1, <3>5 DEF Disown, Goto
    <3> QED
      BY <1>3, <3>2, <3>3, <3>4, <3>5 DEF FounderMove
  <2> QED
    BY <1>1, <2>1 DEF Early, Late, Blocked
<1>4. CASE ServeParked(g)
  BY <1>1, <1>4 DEF ServeParked, Early, Late
<1>5. CASE Splice(g) \/ \E q \in Requests : AttendNext(g, q)
  <2>1. pc'[g] \in {"done", "wait"}
    BY <1>5 DEF Splice, AttendNext, Goto, IInv, TypeOK
  <2> QED
    BY <1>1, <2>1 DEF Early, Late, Blocked
<1>6. CASE WaitMove(g) \/ Conclude(g)
  <2>1. pc'[g] \in Blocked \union {"attend"}
    BY <1>6, WaitFrame, ConcludeFrame
  <2> QED
    BY <1>1, <2>1 DEF Early, Late, Blocked
<1>7. CASE Disconnect(g)
  <2>1. pc[g] \in {"upstream", "body", "parked"} /\ pc'[g] = "destroyed"
    BY <1>7 DEF Disconnect, Goto, IInv, TypeOK
  <2> QED
    BY <1>1, <2>1 DEF Early, Late, Blocked
<1> QED
  BY <1>1, <1>2, <1>3, <1>4, <1>5, <1>6, <1>7, FounderMoves

\* A stream keeps its group and what it is not a founder for.
LEMMA MemberKept ==
    ASSUME IInv, [Next]_vars, NEW q \in Requests, pc[q] # "new", ~Founder(q)
    PROVE  ~Founder(q)' /\ wrapper'[q] = wrapper[q] /\ key'[q] = key[q]
<1>1. CASE role[q] # Nil
  BY <1>1, RolesKept DEF Founder
<1>2. ASSUME NEW r \in Requests, NEW t \in Threads, NEW k \in Keys,
             FoundGroup(r, t, k) \/ JoinGroup(r, t, k)
      PROVE  role'[q] = role[q] /\ wrapper'[q] = wrapper[q] /\ key'[q] = key[q]
  <2>1. q # r
    BY <1>2 DEF FoundGroup, JoinGroup, ArriveAt
  <2> QED
    BY <1>2, <2>1 DEF FoundGroup, JoinGroup, ArriveAt, IInv, TypeOK
<1>3. ASSUME NEW r \in Requests,
             FounderMove(r) \/ WaitMove(r) \/ Conclude(r) \/ ServeParked(r) \/ Splice(r)
             \/ Disconnect(r)
      PROVE  UNCHANGED <<role, wrapper, key>>
  BY <1>3, FounderFrame, WaitFrame, ConcludeFrame DEF ServeParked, Splice, Disconnect, filterVars
<1>4. ASSUME NEW r \in Requests, JoinMove(r)
      PROVE  /\ UNCHANGED <<wrapper, key>>
             /\ role'[q] # "INITIAL_LEADER"
  <2>1. /\ UNCHANGED <<wrapper, key>>
        /\ role' = [role EXCEPT ![r] = role'[r]]
        /\ role'[r] # "INITIAL_LEADER"
    BY <1>4, JoinFrame
  <2> QED
    BY <2>1 DEF IInv, TypeOK, Founder
<1>5. ASSUME NEW r \in Requests, NEW s \in Requests, AttendNext(r, s)
      PROVE  UNCHANGED <<role, key>> /\ wrapper'[q] = wrapper[q]
  <2>1. r # q
    BY <1>5, PointFacts DEF AttendNext, IInv, IPlace
  <2> QED
    BY <1>5, <2>1 DEF AttendNext, IInv, TypeOK
<1>6. CASE UNCHANGED vars
  BY <1>6 DEF vars, filterVars, Founder
<1>7. CASE \E r \in Requests, t \in Threads, k \in Keys :
             FoundGroup(r, t, k) \/ JoinGroup(r, t, k)
  BY <1>2, <1>7 DEF Founder
<1>8. CASE \E r \in Requests : FounderMove(r) \/ WaitMove(r) \/ Conclude(r) \/ ServeParked(r)
                               \/ Splice(r) \/ Disconnect(r)
  BY <1>3, <1>8 DEF Founder
<1>9. CASE \E r \in Requests : JoinMove(r)
  BY <1>4, <1>9 DEF Founder
<1>10. CASE \E r, s \in Requests : AttendNext(r, s)
  BY <1>5, <1>10 DEF Founder
<1> QED
  BY <1>6, <1>7, <1>8, <1>9, <1>10, NextCases DEF JoinMove

\* A thread that is blocked stays with the group it waits for.
LEMMA BlockedKept ==
    ASSUME IInv, [Next]_vars, NEW r \in Requests, pc[r] \in Blocked
    PROVE  wrapper'[r] = wrapper[r]
<1>1. CASE ~Founder(r)
  BY <1>1, MemberKept, PointFacts
<1>2. CASE Founder(r)
  <2>1. ASSUME NEW s \in Requests, NEW t \in Threads, NEW k \in Keys,
               FoundGroup(s, t, k) \/ JoinGroup(s, t, k)
        PROVE  wrapper'[r] = wrapper[r]
    BY <2>1, PointFacts DEF FoundGroup, JoinGroup, ArriveAt, IInv, TypeOK
  <2>2. ASSUME NEW s \in Requests,
               FounderMove(s) \/ JoinMove(s) \/ WaitMove(s) \/ Conclude(s) \/ ServeParked(s)
               \/ Splice(s) \/ Disconnect(s)
        PROVE  wrapper' = wrapper
    BY <2>2, FounderFrame, JoinFrame, WaitFrame, ConcludeFrame
       DEF ServeParked, Splice, Disconnect, filterVars
  <2>3. ASSUME NEW s \in Requests, NEW q \in Requests, AttendNext(s, q)
        PROVE  wrapper'[r] = wrapper[r]
    BY <2>3, PointFacts DEF AttendNext, IInv, TypeOK
  <2> QED
    BY <2>1, <2>2, <2>3, NextCases DEF JoinMove, vars, filterVars
<1> QED
  BY <1>1, <1>2

LEMMA FounderKept ==
    ASSUME IInv, [Next]_vars, NEW c \in Requests, Founder(c)
    PROVE  Founder(c)' /\ key'[c] = key[c] /\ thread'[c] = thread[c]
  BY RolesKept, ConstantsAssumption DEF Founder, Roles

\* These steps move the stream whose entry, response or answer they write.
LEMMA WriterMoves ==
    ASSUME IInv, NEW g \in Requests,
           \/ CacheHit(g) \/ CacheMiss(g) \/ NotifyHit(g) \/ NotifyMiss(g)
           \/ Finish(g) \/ ServeHit(g) \/ Wake(g) \/ LateRead(g)
    PROVE  pc'[g] # pc[g]
  BY DEF CacheHit, CacheMiss, NotifyHit, NotifyMiss, Publish, Finish, ServeHit, Wake, LateRead,
     Goto, IInv, TypeOK

\* A founder at rest keeps its entry and its response.
LEMMA ServedAtRest ==
    ASSUME IInv, IEntry, IShared, IComplete, [Next]_vars,
           NEW g \in Requests, Founder(g), pc'[g] = pc[g]
    PROVE  EntryOf(g)' /\ SharedBy(g)'
<1>1. /\ entry'[g] = entry[g] /\ entry_cached'[g] = entry_cached[g] /\ shared'[g] = shared[g]
      /\ complete \subseteq complete'
  BY DataFrame, WriterMoves
<1>2. Founder(g)' /\ key'[g] = key[g]
  BY FounderKept
<1>3. EntryOf(g) /\ SharedBy(g)
  BY DEF IEntry, IShared
<1>4. \A c \in complete : Founder(c) /\ c \in Requests
  BY DEF IComplete, IInv, TypeOK
<1>5. \A c \in Requests : Founder(c) => Founder(c)' /\ key'[c] = key[c]
  BY FounderKept
<1>6. shared[g] # Nil => shared[g] \in Requests
  BY DEF IInv, TypeOK
<1>7. EntryOf(g)'
  BY <1>1, <1>2, <1>3, <1>4, <1>5 DEF EntryOf
<1>8. SharedBy(g)'
  BY <1>1, <1>2, <1>3, <1>5, <1>6 DEF SharedBy
<1> QED
  BY <1>7, <1>8

\* A founder that finds an entry in the cache finds a complete one.
LEMMA HitFindsComplete ==
    ASSUME IInv, NEW g \in Requests, CacheHit(g)
    PROVE  cache[key[g]] \in complete /\ key[cache[key[g]]] = key[g]
<1>1. pc[g] = "query" /\ key[g] \in Keys /\ Founder(g) /\ cache[key[g]] # Nil
  BY PointFacts DEF CacheHit, IInv, IPlace
<1>2. PICK c \in Requests : c = cache[key[g]]
  BY <1>1 DEF IInv, TypeOK
<1>3. /\ key[c] = key[g] /\ Founder(c)
      /\ c \in complete \/ pc[c] \in {"notify", "body", "finish", "destroyed"}
  BY <1>1, <1>2 DEF IInv, ICache
<1>4. CASE c \notin complete
  <2>1. Open(c) /\ Open(g)
    BY <1>1, <1>3, <1>4, PointFacts DEF Open
  <2>2. c = g
    BY <1>3, <2>1 DEF IInv, IMap
  <2> QED
    BY <1>1, <1>3, <1>4, <2>2
<1> QED
  BY <1>2, <1>3, <1>4

\* What a founder does to its entry and to the response of its group.
LEMMA ServedOnTheMove ==
    ASSUME IInv, IEntry, IShared, IComplete, [Next]_vars,
           NEW g \in Requests, Founder(g), pc'[g] # pc[g]
    PROVE  EntryOf(g)' /\ SharedBy(g)'
<1>1. Founder(g)' /\ key'[g] = key[g] /\ g # Nil
  BY FounderKept, ConstantsAssumption
<1>2. EntryOf(g) /\ SharedBy(g) /\ pc[g] \in Points /\ complete \subseteq complete'
  BY DataFrame DEF IEntry, IShared, IInv, TypeOK
<1>3. \A c \in Requests : Founder(c) => Founder(c)' /\ key'[c] = key[c]
  BY FounderKept
<1>4. \A c \in complete : /\ c \in complete' /\ Founder(c)' /\ key'[c] = key[c]
                          /\ c # Nil
  BY <1>2, <1>3, ConstantsAssumption DEF IComplete, IInv, TypeOK
<1>5. /\ pc[g] \in {"query", "readHit"} => entry_cached[g]
      /\ pc[g] \in {"upstream", "insert", "body", "finish"} => ~entry_cached[g]
  BY DEF IInv, IPlace
<1>6. pc[g] \in Early => shared[g] = Nil
  BY <1>2 DEF SharedBy
<1>7. Early \cap Late = {} /\ Blocked \subseteq Late
  BY LateKept
<1>8. CASE Enlist(g) \/ OriginEnd(g) \/ Insert(g)
           \/ \E successful \in BOOLEAN : OriginHeaders(g, successful)
  <2>1. UNCHANGED <<entry, entry_cached, shared>>
    BY <1>8 DEF Enlist, OriginEnd, Insert, OriginHeaders, filterVars, groupVars
  <2>2. \/ pc[g] = "enlist" /\ pc'[g] = "query"
        \/ pc[g] = "upstream" /\ pc'[g] \in {"insert", "notify"}
        \/ pc[g] = "insert" /\ pc'[g] = "notify"
        \/ pc[g] = "body" /\ pc'[g] = "finish"
    BY <1>8 DEF Enlist, OriginEnd, Insert, OriginHeaders, Goto, IInv, TypeOK
  <2>3. EntryOf(g)'
    BY <1>2, <1>5, <2>1, <2>2 DEF EntryOf
  <2>4. pc'[g] \notin Late
    BY <2>2, PointFacts DEF Late
  <2>5. pc[g] = "body" => pc'[g] \notin Early
    BY <2>2 DEF Early
  <2>6. pc[g] # "body" => pc[g] \in Early
    BY <2>2 DEF Early
  <2>7. SharedBy(g)'
    BY <1>1, <1>2, <1>6, <2>1, <2>2, <2>4, <2>5, <2>6 DEF SharedBy
  <2> QED
    BY <2>3, <2>7
<1>9. CASE CacheHit(g)
  <2>1. /\ pc[g] = "query" /\ pc'[g] = "notify" /\ entry'[g] = cache[key[g]]
        /\ UNCHANGED <<entry_cached, shared>>
    BY <1>9 DEF CacheHit, Goto, groupVars, IInv, TypeOK
  <2>2. entry'[g] \in complete /\ key[entry'[g]] = key[g]
    BY <1>9, <2>1, HitFindsComplete
  <2>3. EntryOf(g)'
    BY <1>1, <1>4, <1>5, <2>1, <2>2 DEF EntryOf
  <2>4. pc[g] \in Early /\ pc'[g] \notin Late
    BY <2>1, PointFacts DEF Early, Late
  <2>5. SharedBy(g)'
    BY <1>1, <1>6, <2>1, <2>4 DEF SharedBy
  <2> QED
    BY <2>3, <2>5
<1>10. CASE CacheMiss(g)
  <2>1. /\ pc[g] = "query" /\ pc'[g] = "upstream" /\ entry'[g] = g /\ ~entry_cached'[g]
        /\ UNCHANGED shared
    BY <1>10 DEF CacheMiss, Goto, groupVars, IInv, TypeOK
  <2>2. EntryOf(g)'
    BY <2>1 DEF EntryOf
  <2>3. pc[g] \in Early /\ pc'[g] \notin Late
    BY <2>1, PointFacts DEF Early, Late
  <2>4. SharedBy(g)'
    BY <1>1, <1>6, <2>1, <2>3 DEF SharedBy
  <2> QED
    BY <2>2, <2>4
<1>11. CASE NotifyHit(g)
  <2>1. /\ pc[g] = "notify" /\ pc'[g] = "readHit" /\ shared'[g] = entry[g] /\ entry_cached[g]
        /\ UNCHANGED <<entry, entry_cached>>
    BY <1>11 DEF NotifyHit, Publish, Goto, filterVars, IInv, TypeOK
  <2>2. entry[g] \in complete /\ key[entry[g]] = key[g]
    BY <1>2, <2>1 DEF EntryOf
  <2>3. EntryOf(g)'
    BY <1>1, <1>4, <2>1, <2>2 DEF EntryOf
  <2>4. pc'[g] \notin Early /\ pc'[g] \notin Late
    BY <2>1, PointFacts DEF Early, Late
  <2>5. SharedBy(g)'
    BY <1>1, <1>4, <2>1, <2>2, <2>4 DEF SharedBy
  <2> QED
    BY <2>3, <2>5
<1>12. CASE NotifyMiss(g)
  <2>1. /\ pc[g] = "notify" /\ pc'[g] \in {"finish", "body"} /\ shared'[g] = entry[g]
        /\ ~entry_cached[g] /\ UNCHANGED <<entry, entry_cached>>
    BY <1>12 DEF NotifyMiss, Publish, Goto, filterVars, IInv, TypeOK
  <2>2. entry[g] = g
    BY <1>2, <2>1 DEF EntryOf
  <2>3. EntryOf(g)'
    BY <2>1, <2>2 DEF EntryOf
  <2>4. pc'[g] \notin Early /\ pc'[g] \notin Late
    BY <2>1, PointFacts DEF Early, Late
  <2>5. SharedBy(g)'
    BY <1>1, <2>1, <2>2, <2>4 DEF SharedBy
  <2> QED
    BY <2>3, <2>5
<1>13. CASE Finish(g)
  <2>1. /\ pc[g] = "finish" /\ pc'[g] = "detach" /\ g \in complete'
        /\ UNCHANGED <<entry, entry_cached, shared>>
    BY <1>13 DEF Finish, CompletedBy, Goto, filterVars, groupVars, IInv, TypeOK
  <2>2. shared[g] = g
    BY <1>2, <2>1 DEF SharedBy
  <2>3. EntryOf(g)'
    BY <2>1 DEF EntryOf
  <2>4. pc'[g] \notin Early
    BY <2>1 DEF Early
  <2>5. SharedBy(g)'
    BY <1>1, <2>1, <2>2, <2>4 DEF SharedBy
  <2> QED
    BY <2>3, <2>5
<1>14. CASE ServeHit(g)
  <2>1. /\ pc[g] = "readHit" /\ pc'[g] = "detach" /\ entry[g] \in complete
        /\ UNCHANGED <<entry, entry_cached, shared>>
    BY <1>14 DEF ServeHit, Goto, filterVars, groupVars, IInv, TypeOK
  <2>2. shared[g] = entry[g] /\ key[entry[g]] = key[g] /\ entry_cached[g]
    BY <1>2, <1>5, <2>1 DEF SharedBy, EntryOf
  <2>3. EntryOf(g)'
    BY <2>1 DEF EntryOf
  <2>4. pc'[g] \notin Early
    BY <2>1 DEF Early
  <2>5. SharedBy(g)'
    BY <1>1, <1>4, <2>1, <2>2, <2>4 DEF SharedBy
  <2> QED
    BY <2>3, <2>5
<1>15. CASE /\ pc[g] \in Late /\ pc'[g] \in Late
            /\ shared'[g] = shared[g] /\ entry_cached'[g] = entry_cached[g]
  <2>1. pc'[g] \notin {"upstream", "insert", "notify", "body", "finish", "readHit"}
    BY <1>15, PointFacts DEF Late
  <2>2. pc'[g] \notin Early
    BY <1>7, <1>15
  <2>3. /\ shared[g] \in complete
        /\ ~entry_cached[g] => shared[g] = g
        /\ key[shared[g]] = key[g]
    BY <1>2, <1>4, <1>15 DEF SharedBy
  <2>4. EntryOf(g)'
    BY <2>1 DEF EntryOf
  <2>5. SharedBy(g)'
    BY <1>1, <1>4, <1>15, <2>1, <2>2, <2>3 DEF SharedBy
  <2> QED
    BY <2>4, <2>5
<1>16. CASE Detach(g) \/ Disown(g) \/ AttendedAll(g) \/ Release(g) \/ ServeParked(g)
            \/ Splice(g) \/ (\E q \in Requests : AttendNext(g, q)) \/ WaitMove(g) \/ Conclude(g)
  <2>1. pc[g] \in {"detach", "disown", "attend", "release", "serveParked"} \union Blocked
    BY <1>16, WaitFrame, ConcludeFrame
       DEF Detach, Disown, AttendedAll, Release, ServeParked, Splice, AttendNext
  <2>2. pc[g] \in Late /\ pc'[g] \in Late
    BY <2>1, LateKept DEF Late
  <2>3. shared'[g] = shared[g] /\ entry_cached'[g] = entry_cached[g]
    BY <2>1, DataFrame, PointFacts DEF NotifyHit, NotifyMiss, Publish, CacheMiss
  <2> QED
    BY <1>15, <2>2, <2>3
<1>17. CASE Disconnect(g)
  <2>1. pc[g] \in {"upstream", "body", "parked"} /\ pc'[g] = "destroyed"
        /\ UNCHANGED <<shared, entry_cached>>
    BY <1>17 DEF Disconnect, Goto, filterVars, groupVars, IInv, TypeOK
  <2>2. pc'[g] \notin Early /\ pc'[g] \notin Late
    BY <2>1, PointFacts DEF Early, Late
  <2>3. EntryOf(g)'
    BY <2>1 DEF EntryOf
  <2>4. shared[g] # Nil => shared[g] \in Requests
    BY DEF IInv, TypeOK
  <2>5. SharedBy(g)'
    BY <1>1, <1>2, <1>3, <2>1, <2>2, <2>4 DEF SharedBy
  <2> QED
    BY <2>3, <2>5
<1> QED
  BY <1>8, <1>9, <1>10, <1>11, <1>12, <1>13, <1>14, <1>16, <1>17, FounderMoves DEF FounderMove

LEMMA NewFounder ==
    ASSUME IInv, [Next]_vars, NEW g \in Requests, ~Founder(g), Founder(g)'
    PROVE  pc[g] = "new" /\ pc'[g] = "enlist"
<1>1. pc[g] = "new"
  BY MemberKept
<1>2. ASSUME NEW r \in Requests, NEW t \in Threads, NEW k \in Keys, FoundGroup(r, t, k)
      PROVE  pc'[g] = "enlist"
  BY <1>2 DEF FoundGroup, Goto, Founder, IInv, TypeOK
<1>3. ASSUME NEW r \in Requests, NEW t \in Threads, NEW k \in Keys, JoinGroup(r, t, k)
      PROVE  role' = role
  BY <1>3 DEF JoinGroup
<1>4. ASSUME NEW r \in Requests,
             FounderMove(r) \/ WaitMove(r) \/ Conclude(r) \/ ServeParked(r) \/ Splice(r)
             \/ Disconnect(r)
      PROVE  role' = role
  BY <1>4, FounderFrame, WaitFrame, ConcludeFrame DEF ServeParked, Splice, Disconnect, filterVars
<1>5. ASSUME NEW r \in Requests, JoinMove(r) PROVE role'[g] = role[g]
  <2>1. pc[r] = "join" /\ role' = [role EXCEPT ![r] = role'[r]]
    BY <1>5, JoinFrame
  <2> QED
    BY <1>1, <2>1 DEF IInv, TypeOK
<1>6. ASSUME NEW r \in Requests, NEW s \in Requests, AttendNext(r, s) PROVE role' = role
  BY <1>6 DEF AttendNext
<1>7. role'[g] # role[g] /\ role' # role
  BY DEF Founder
<1> QED
  BY <1>1, <1>2, <1>3, <1>4, <1>5, <1>6, <1>7, NextCases DEF JoinMove, vars, filterVars

\* Only founders share anything.
LEMMA SharedKept ==
    ASSUME IInv, IShared, [Next]_vars, NEW g \in Requests
    PROVE  /\ shared[g] # Nil => Founder(g) /\ shared'[g] = shared[g]
           /\ ~Founder(g) => shared[g] = Nil /\ shared'[g] = Nil
<1>1. shared[g] # Nil => Founder(g) /\ pc[g] # "notify"
  BY DEF IShared, SharedBy, Early
<1>2. shared'[g] # shared[g] => pc[g] = "notify"
  BY DataFrame DEF NotifyHit, NotifyMiss, Publish
<1>3. pc[g] = "notify" => Founder(g)
  BY PointFacts DEF IInv, IPlace
<1> QED
  BY <1>1, <1>2, <1>3

LEMMA ServedEntryStep ==
    ASSUME IInv, IEntry, IShared, IComplete, [Next]_vars
    PROVE  IEntry' /\ IShared'
<1>1. ASSUME NEW g \in Requests, Founder(g) PROVE EntryOf(g)' /\ SharedBy(g)'
  BY <1>1, ServedAtRest, ServedOnTheMove
<1>2. ASSUME NEW g \in Requests, ~Founder(g), Founder(g)' PROVE EntryOf(g)' /\ SharedBy(g)'
  <2>1. pc'[g] = "enlist" /\ shared'[g] = Nil
    BY <1>2, NewFounder, SharedKept
  <2>2. pc'[g] \notin Late
    BY <2>1, PointFacts DEF Late
  <2>3. EntryOf(g)'
    BY <2>1 DEF EntryOf
  <2>4. SharedBy(g)'
    BY <2>1, <2>2 DEF SharedBy
  <2> QED
    BY <2>3, <2>4
<1>3. ASSUME NEW g \in Requests, ~Founder(g)' PROVE SharedBy(g)'
  <2>1. ~Founder(g) /\ shared'[g] = Nil
    BY <1>3, FounderKept, SharedKept
  <2>2. IPlace'
    BY NextInv DEF IInv
  <2>3. pc'[g] \notin {"body", "finish", "readHit"}
    BY <1>3, <2>2, PointFacts DEF IPlace
  <2> QED
    BY <1>3, <2>1, <2>3 DEF SharedBy
<1>4. IEntry'
  BY <1>1, <1>2 DEF IEntry
<1>5. IShared'
  BY <1>1, <1>2, <1>3 DEF IShared
<1> QED
  BY <1>4, <1>5

LEMMA CompleteStep ==
    ASSUME IInv, IComplete, [Next]_vars
    PROVE  IComplete'
<1> SUFFICES ASSUME NEW c \in complete' PROVE Founder(c)' /\ pc'[c] \in Late
  BY DEF IComplete, Founder
<1>1. CASE c \in complete
  <2>1. c \in Requests /\ Founder(c) /\ pc[c] \in Late
    BY <1>1 DEF IComplete, IInv, TypeOK
  <2> QED
    BY <2>1, FounderKept, LateKept
<1>2. CASE Finish(c)
  <2>1. TypeOK'
    BY NextInv DEF IInv
  <2>2. c \in Requests
    BY <2>1 DEF TypeOK
  <2>3. Founder(c) /\ pc'[c] = "detach"
    BY <1>2, <2>2, PointFacts DEF Finish, Goto, IInv, TypeOK, IPlace
  <2> QED
    BY <2>2, <2>3, FounderKept DEF Late
<1> QED
  BY <1>1, <1>2, DataFrame

\* Who begins to read an entry that it has waited for.
LEMMA NewReader ==
    ASSUME IInv, [Next]_vars, NEW r \in Requests, pc[r] # "read", pc'[r] = "read"
    PROVE  Wake(r) \/ LateRead(r)
<1>1. ASSUME NEW s \in Requests, NEW t \in Threads, NEW k \in Keys,
             FoundGroup(s, t, k) \/ JoinGroup(s, t, k)
      PROVE  FALSE
  BY <1>1 DEF FoundGroup, JoinGroup, Goto, IInv, TypeOK
<1>2. ASSUME NEW s \in Requests, FounderMove(s) PROVE FALSE
  <2>1. pc' = [pc EXCEPT ![s] = pc'[s]] /\ pc'[s] # "read"
    BY <1>2, FounderFrame, PointFacts DEF FounderPoints
  <2> QED
    BY <2>1 DEF IInv, TypeOK
<1>3. ASSUME NEW s \in Requests, JoinMove(s) PROVE FALSE
  <2>1. pc' = [pc EXCEPT ![s] = pc'[s]] /\ pc'[s] # "read"
    BY <1>3, JoinFrame
  <2> QED
    BY <2>1 DEF IInv, TypeOK
<1>4. ASSUME NEW s \in Requests, ServeParked(s) PROVE FALSE
  BY <1>4 DEF ServeParked, IInv, TypeOK
<1>5. ASSUME NEW s \in Requests, NEW q \in Requests,
             Splice(s) \/ AttendNext(s, q) \/ Disconnect(s)
      PROVE  FALSE
  BY <1>5 DEF Splice, AttendNext, Disconnect, Goto, IInv, TypeOK
<1>6. ASSUME NEW s \in Requests, WaitMove(s) PROVE s = r /\ ~Timeout(s)
  <2>1. pc' = [pc EXCEPT ![s] = pc'[s]]
    BY <1>6, WaitFrame
  <2>2. Timeout(s) => pc'[s] = "late"
    BY DEF Timeout, Goto, IInv, TypeOK
  <2> QED
    BY <2>1, <2>2 DEF IInv, TypeOK
<1>7. ASSUME NEW s \in Requests, Conclude(s) PROVE FALSE
  BY <1>7, ConcludeFrame
<1>8. pc' # pc
  OBVIOUS
<1> QED
  BY <1>1, <1>2, <1>3, <1>4, <1>5, <1>6, <1>7, <1>8, NextCases DEF JoinMove, WaitMove, vars

LEMMA WaitedStep ==
    ASSUME IInv, IShared, IWaited, [Next]_vars
    PROVE  IWaited'
<1> SUFFICES ASSUME NEW r \in Requests, pc'[r] = "read"
             PROVE  entry'[r] = shared'[wrapper'[r]] /\ entry'[r] # Nil
  BY DEF IWaited
<1>1. CASE pc[r] = "read"
  <2>1. entry[r] = shared[wrapper[r]] /\ entry[r] # Nil /\ wrapper[r] \in Requests
    BY <1>1 DEF IWaited, IInv, IPlace
  <2>2. entry'[r] = entry[r]
    BY <1>1, DataFrame DEF CacheHit, CacheMiss, Wake, LateRead
  <2>3. shared'[wrapper[r]] = shared[wrapper[r]]
    BY <2>1, SharedKept
  <2>4. wrapper'[r] = wrapper[r]
    BY <1>1, BlockedKept, PointFacts
  <2> QED
    BY <2>1, <2>2, <2>3, <2>4
<1>2. CASE Wake(r) \/ LateRead(r)
  BY <1>2 DEF Wake, LateRead, groupVars, IInv, TypeOK
<1> QED
  BY <1>1, <1>2, NewReader

\* A stream that is done has run its course.
LEMMA DoneKept ==
    ASSUME IInv, ParkedInv, [Next]_vars, NEW q \in Requests, pc[q] = "done"
    PROVE  pc'[q] = "done"
<1>1. ASSUME NEW r \in Requests, NEW t \in Threads, NEW k \in Keys,
             FoundGroup(r, t, k) \/ JoinGroup(r, t, k)
      PROVE  pc'[q] = pc[q]
  BY <1>1 DEF FoundGroup, JoinGroup, ArriveAt, Goto, IInv, TypeOK
<1>2. ASSUME NEW r \in Requests, FounderMove(r) PROVE pc'[q] = pc[q]
  <2>1. pc' = [pc EXCEPT ![r] = pc'[r]] /\ pc[r] # "done"
    BY <1>2, FounderFrame
  <2> QED
    BY <2>1 DEF IInv, TypeOK
<1>3. ASSUME NEW r \in Requests, JoinMove(r) PROVE pc'[q] = pc[q]
  <2>1. pc' = [pc EXCEPT ![r] = pc'[r]] /\ pc[r] = "join"
    BY <1>3, JoinFrame
  <2> QED
    BY <2>1 DEF IInv, TypeOK
<1>4. ASSUME NEW r \in Requests, ServeParked(r) PROVE pc'[q] = pc[q]
  BY <1>4 DEF ServeParked, IInv, TypeOK
<1>5. ASSUME NEW r \in Requests, NEW s \in Requests,
             Splice(r) \/ AttendNext(r, s) \/ Disconnect(r)
      PROVE  pc'[q] = pc[q]
  BY <1>5 DEF Splice, AttendNext, Disconnect, Goto, IInv, TypeOK
<1>6. ASSUME NEW r \in Requests, WaitMove(r) PROVE pc'[q] = pc[q]
  <2>1. pc' = [pc EXCEPT ![r] = pc'[r]] /\ pc[r] # "done"
    BY <1>6, WaitFrame, PointFacts
  <2> QED
    BY <2>1 DEF IInv, TypeOK
<1>7. ASSUME NEW r \in Requests, Conclude(r) PROVE pc'[q] = pc[q]
  <2>1. pc[r] \in Blocked /\ q # r
    BY <1>7, ConcludeFrame, PointFacts
  <2>2. Founder(r) => q # callbacks[r]
    BY <2>1 DEF ParkedInv, IAttended, Awaiting
  <2> QED
    BY <1>7, <2>1, <2>2, ConcludeFrame
<1>8. CASE UNCHANGED vars
  BY <1>8 DEF vars
<1> QED
  BY <1>1, <1>2, <1>3, <1>4, <1>5, <1>6, <1>7, <1>8, NextCases DEF JoinMove

\* What a stream is served, and by whom.
LEMMA Delivery ==
    ASSUME IInv, ParkedInv, IShared, IComplete, IWaited, [Next]_vars,
           NEW q \in Requests, delivered'[q] # delivered[q]
    PROVE  /\ delivered'[q] = Append(delivered[q], shared[GroupJoined(q)])
           /\ shared[GroupJoined(q)] \in complete'
           /\ shared[GroupJoined(q)] # Nil
           /\ Founder(q) => pc[q] \notin Late /\ pc'[q] \in Late
           /\ ~Founder(q) => pc[q] \in {"parked", "read"} /\ pc'[q] = "done"
<1>1. complete \subseteq complete' /\ complete' \subseteq Requests /\ Nil \notin Requests
  BY DataFrame, NextInv, ConstantsAssumption DEF IInv, TypeOK
<1>2. CASE Finish(q)
  <2>1. /\ pc[q] = "finish" /\ pc'[q] = "detach" /\ q \in complete'
        /\ delivered'[q] = Append(delivered[q], q) /\ Founder(q)
    BY <1>2, PointFacts DEF Finish, CompletedBy, Deliver, Goto, IInv, TypeOK, IPlace
  <2>2. shared[q] = q /\ GroupJoined(q) = q
    BY <2>1 DEF IShared, SharedBy, GroupJoined
  <2> QED
    BY <1>1, <2>1, <2>2, PointFacts DEF Late
<1>3. CASE ServeHit(q)
  <2>1. /\ pc[q] = "readHit" /\ pc'[q] = "detach" /\ entry[q] \in complete
        /\ delivered'[q] = Append(delivered[q], entry[q]) /\ Founder(q)
    BY <1>3, PointFacts DEF ServeHit, Deliver, Goto, IInv, TypeOK, IPlace
  <2>2. shared[q] = entry[q] /\ GroupJoined(q) = q
    BY <2>1 DEF IShared, SharedBy, GroupJoined
  <2> QED
    BY <1>1, <2>1, <2>2, PointFacts DEF Late
<1>4. ASSUME NEW r \in Requests, ServeParked(r), q \in parked[r]
      PROVE  /\ delivered'[q] = Append(delivered[q], shared[r])
             /\ shared[r] \in complete
             /\ wrapper[q] = r /\ ~Founder(q) /\ pc[q] = "parked" /\ pc'[q] = "done"
  <2>1. /\ pc[r] = "serveParked" /\ pc[q] = "parked" /\ ProducerEntry(r) \in complete
        /\ delivered'[q] = Append(delivered[q], ProducerEntry(r))
    BY <1>4 DEF ServeParked
  <2>2. q # r /\ pc'[q] = "done"
    BY <1>4, <2>1 DEF ServeParked
  <2>3. wrapper[q] = r /\ ~Founder(q) /\ Founder(r)
    BY <1>4, <2>1, PointFacts DEF ParkedInv, ILists, IInv, IPlace
  <2>4. ProducerEntry(r) = r /\ ~entry_cached[r]
    BY <1>1, <2>1 DEF ProducerEntry
  <2>5. shared[r] = r
    BY <2>1, <2>3, <2>4 DEF IShared, SharedBy, Late
  <2> QED
    BY <2>1, <2>2, <2>3, <2>4, <2>5
<1>5. ASSUME NEW r \in Requests, Serve(r), callbacks[r] = q
      PROVE  /\ delivered'[q] = Append(delivered[q], shared[wrapper[q]])
             /\ shared[wrapper[q]] \in complete
             /\ ~Founder(q) /\ pc[q] \in {"parked", "read"} /\ pc'[q] = "done"
  <2>1. /\ pc[r] = "read" /\ entry[r] \in complete
        /\ delivered'[q] = Append(delivered[q], entry[r])
    BY <1>5 DEF Serve, Deliver, IInv, TypeOK
  <2>2. entry[r] = shared[wrapper[r]]
    BY <2>1 DEF IWaited
  <2>3. Resume(r, "done")
    BY <1>5 DEF Serve
  <2>4. CASE Founder(r)
    <3>1. ~Founder(q) /\ q # r
      BY <1>5, <2>1, <2>4, PointFacts DEF IInv, IPlace
    <3>2. pc[q] = "parked" /\ wrapper[r] = wrapper[q]
      BY <1>5, <2>1, <2>4, PointFacts DEF ParkedInv, IAttended, Awaiting
    <3>3. pc'[q] = "done"
      BY <1>5, <2>3, <3>1 DEF Resume
    <3> QED
      BY <2>1, <2>2, <3>1, <3>2, <3>3
  <2>5. CASE ~Founder(r)
    <3>1. q = r
      BY <1>5, <2>5 DEF IInv, IPlace
    <3>2. pc'[q] = "done"
      BY <1>5, <2>3, <3>1 DEF Resume, Goto, IInv, TypeOK
    <3> QED
      BY <2>1, <2>2, <2>5, <3>1, <3>2
  <2> QED
    BY <2>4, <2>5
<1>6. CASE \E r \in Requests : ServeParked(r) /\ q \in parked[r]
  BY <1>1, <1>4, <1>6 DEF GroupJoined
<1>7. CASE \E r \in Requests : Serve(r) /\ callbacks[r] = q
  BY <1>1, <1>5, <1>7 DEF GroupJoined
<1> QED
  BY <1>2, <1>3, <1>6, <1>7, DataFrame

\* The group of a stream that has been served, and what it shares, stay.
LEMMA GroupKept ==
    ASSUME IInv, IJoined, IShared, [Next]_vars, NEW q \in Requests, pc[q] # "new"
    PROVE  /\ GroupJoined(q)' = GroupJoined(q) /\ GroupJoined(q) \in Requests
           /\ (Founder(q)' <=> Founder(q))
           /\ shared[GroupJoined(q)] # Nil =>
                 shared'[GroupJoined(q)] = shared[GroupJoined(q)]
<1>1. GroupJoined(q) \in Requests
  BY DEF GroupJoined, IInv, IPlace
<1>2. CASE Founder(q)
  BY <1>1, <1>2, FounderKept, SharedKept DEF GroupJoined
<1>3. CASE ~Founder(q)
  BY <1>1, <1>3, MemberKept, SharedKept DEF GroupJoined
<1> QED
  BY <1>2, <1>3

LEMMA DeliveredStep ==
    ASSUME IInv, ParkedInv, ServedInv, [Next]_vars
    PROVE  IDelivered'
<1> SUFFICES ASSUME NEW q \in Requests, delivered'[q] # <<>>
             PROVE  /\ delivered'[q] = <<shared'[GroupJoined(q)']>>
                    /\ shared'[GroupJoined(q)'] # Nil
                    /\ Founder(q)' => pc'[q] \in Late
                    /\ ~Founder(q)' => pc'[q] = "done"
  BY DEF IDelivered
<1>1. pc[q] \in Late \union {"done", "finish", "readHit", "parked", "read"}
      \/ delivered'[q] = <<>>
  <2>1. CASE delivered'[q] = delivered[q]
    BY <2>1 DEF ServedInv, IDelivered
  <2>2. CASE delivered'[q] # delivered[q]
    <3>1. ~Founder(q) => pc[q] \in {"parked", "read"}
      BY <2>2, Delivery DEF ServedInv
    <3>2. Founder(q) => Finish(q) \/ ServeHit(q)
      <4> SUFFICES ASSUME Founder(q), ~Finish(q), ~ServeHit(q) PROVE FALSE
        OBVIOUS
      <4>1. ASSUME NEW r \in Requests, ServeParked(r), q \in parked[r] PROVE FALSE
        BY <4>1 DEF ServeParked, IInv, IPlace
      <4>2. ASSUME NEW r \in Requests, Serve(r), callbacks[r] = q PROVE FALSE
        BY <4>2, PointFacts DEF Serve, IInv, IPlace
      <4> QED
        BY <2>2, <4>1, <4>2, DataFrame
    <3> QED
      BY <3>1, <3>2 DEF Finish, ServeHit
  <2> QED
    BY <2>1, <2>2
<1>2. pc[q] # "new"
  BY <1>1, PointFacts DEF Late
<1>3. /\ GroupJoined(q)' = GroupJoined(q) /\ GroupJoined(q) \in Requests
      /\ (Founder(q)' <=> Founder(q))
      /\ shared[GroupJoined(q)] # Nil => shared'[GroupJoined(q)] = shared[GroupJoined(q)]
  BY <1>2, GroupKept DEF ParkedInv, ServedInv
<1>4. delivered[q] # <<>> => /\ delivered[q] = <<shared[GroupJoined(q)]>>
                             /\ shared[GroupJoined(q)] # Nil
                             /\ Founder(q) => pc[q] \in Late
                             /\ ~Founder(q) => pc[q] = "done"
  BY DEF ServedInv, IDelivered
<1>5. CASE delivered'[q] = delivered[q]
  <2>1. Founder(q) => pc'[q] \in Late
    BY <1>4, <1>5, LateKept
  <2>2. ~Founder(q) => pc'[q] = "done"
    <3> SUFFICES ASSUME ~Founder(q), pc[q] = "done" PROVE pc'[q] = "done"
      BY <1>4, <1>5
    <3> QED
      BY DoneKept
  <2> QED
    BY <1>3, <1>4, <1>5, <2>1, <2>2
<1>6. CASE delivered'[q] # delivered[q]
  <2>1. /\ delivered'[q] = Append(delivered[q], shared[GroupJoined(q)])
        /\ shared[GroupJoined(q)] # Nil
        /\ Founder(q) => pc[q] \notin Late /\ pc'[q] \in Late
        /\ ~Founder(q) => pc[q] # "done" /\ pc'[q] = "done"
    BY <1>6, Delivery DEF ServedInv
  <2>2. delivered[q] = <<>>
    BY <1>4, <2>1
  <2>3. delivered'[q] = <<shared[GroupJoined(q)]>>
    BY <2>1, <2>2
  <2> QED
    BY <1>3, <2>1, <2>3
<1> QED
  BY <1>5, <1>6

LEMMA ServedInit == Init => ServedInv
<1> SUFFICES ASSUME Init PROVE ServedInv
  OBVIOUS
<1>1. \A r \in Requests : /\ ~Founder(r) /\ pc[r] = "new" /\ shared[r] = Nil
                          /\ delivered[r] = <<>>
  BY ConstantsAssumption DEF Init, Founder, Roles
<1>2. IEntry
  BY <1>1 DEF IEntry
<1>3. IShared
  BY <1>1 DEF IShared, SharedBy
<1>4. IComplete
  BY DEF Init, IComplete
<1>5. IWaited /\ IDelivered
  BY <1>1 DEF IWaited, IDelivered
<1> QED
  BY <1>2, <1>3, <1>4, <1>5 DEF ServedInv

LEMMA ServedNext == IInv /\ ParkedInv /\ ServedInv /\ [Next]_vars => ServedInv'
  BY ServedEntryStep, CompleteStep, WaitedStep, DeliveredStep DEF ServedInv

\* The invariant of entries and answers.
THEOREM ServedInvariance == Spec => [](IInv /\ ParkedInv /\ ServedInv)
  BY InitInv, NextInv, ParkedInit, ParkedNext, ServedInit, ServedNext, PTL DEF Spec

\* AnsweredByOwnGroup: a stream is served at most once, with what its own group
\* shares, which is a response for its own key, whoever attends to it.
THEOREM OwnGroupAnswers == Spec => []AnsweredByOwnGroup
<1>1. ASSUME IInv, ParkedInv, ServedInv, NEW q \in Requests, delivered[q] # <<>>
      PROVE  /\ delivered[q] = <<shared[GroupJoined(q)]>>
             /\ key[shared[GroupJoined(q)]] = key[q]
  <2>1. /\ delivered[q] = <<shared[GroupJoined(q)]>>
        /\ shared[GroupJoined(q)] # Nil
        /\ IF Founder(q) THEN pc[q] \in Late ELSE pc[q] = "done"
    BY <1>1 DEF ServedInv, IDelivered
  <2>2. GroupJoined(q) \in Requests /\ key[GroupJoined(q)] = key[q]
    BY <1>1, <2>1 DEF ParkedInv, IJoined, GroupJoined, IInv, IPlace
  <2>3. key[shared[GroupJoined(q)]] = key[GroupJoined(q)]
    BY <1>1, <2>1, <2>2 DEF ServedInv, IShared, SharedBy
  <2> QED
    BY <2>1, <2>2, <2>3
<1>2. IInv /\ ParkedInv /\ ServedInv => AnsweredByOwnGroup
  BY <1>1 DEF AnsweredByOwnGroup
<1> QED
  BY <1>2, ServedInvariance, PTL

\* Who changes coalesced_requests_.
LEMMA MapMoves ==
    ASSUME IInv, [Next]_vars
    PROVE  \/ UNCHANGED coalesced_requests
           \/ \E r \in Requests, t \in Threads, k \in Keys : FoundGroup(r, t, k)
           \/ \E r \in Requests : Detach(r)
<1>1. ASSUME NEW r \in Requests, NEW t \in Threads, NEW k \in Keys, JoinGroup(r, t, k)
      PROVE  UNCHANGED coalesced_requests
  BY <1>1 DEF JoinGroup
<1>2. ASSUME NEW r \in Requests, FounderMove(r), ~Detach(r)
      PROVE  UNCHANGED coalesced_requests
  BY <1>2 DEF FounderMove, Enlist, CacheHit, CacheMiss, OriginHeaders, Insert, NotifyHit,
     NotifyMiss, OriginEnd, Finish, ServeHit, Disown, AttendedAll, Release
<1>3. ASSUME NEW r \in Requests, NEW q \in Requests,
             \/ JoinMove(r) \/ ServeParked(r) \/ Splice(r) \/ AttendNext(r, q)
             \/ WaitMove(r) \/ Disconnect(r)
      PROVE  UNCHANGED coalesced_requests
  BY <1>3 DEF JoinMove, ParkWithOwnGroup, ParkWithOtherGroup, StartWaiting, ServeParked,
     Splice, AttendNext, WaitMove, Wake, Timeout, LateRead, Disconnect
<1>4. ASSUME NEW r \in Requests, Conclude(r) PROVE UNCHANGED coalesced_requests
  BY <1>4, ConcludeFrame
<1> QED
  BY <1>1, <1>2, <1>3, <1>4, NextCases DEF JoinMove, vars

\* What a group that leaves the map shares.
LEMMA DetachedShares ==
    ASSUME IInv, ServedInv, NEW r \in Requests, Detach(r)
    PROVE  /\ Founder(r) /\ key[r] \in Keys
           /\ coalesced_requests[key[r]] = r
           /\ coalesced_requests' = [coalesced_requests EXCEPT ![key[r]] = Nil]
           /\ shared[r] \in complete
<1>1. pc[r] = "detach" /\ Founder(r) /\ key[r] \in Keys
  BY PointFacts DEF Detach, IInv, IPlace
<1>2. coalesced_requests[key[r]] = r
  BY <1>1, PointFacts DEF IInv, IMap, Open
<1>3. shared[r] \in complete
  BY <1>1 DEF ServedInv, IShared, SharedBy, Late
<1> QED
  BY <1>1, <1>2, <1>3 DEF Detach

\* GroupOutlivesFetch: a group leaves the map only once the entry it shares is
\* complete, so that the next stream for its key finds the group or the entry.
THEOREM GroupOutlives == Spec => GroupOutlivesFetch
<1>1. ASSUME IInv, ServedInv, [Next]_vars, NEW k \in Keys, coalesced_requests[k] # Nil,
             coalesced_requests'[k] # coalesced_requests[k]
      PROVE  shared[coalesced_requests[k]] \in complete
  <2>1. ASSUME NEW r \in Requests, NEW t \in Threads, NEW l \in Keys, FoundGroup(r, t, l)
        PROVE  FALSE
    BY <1>1, <2>1 DEF FoundGroup, GroupOf, IInv, TypeOK
  <2>2. ASSUME NEW r \in Requests, Detach(r)
        PROVE  shared[coalesced_requests[k]] \in complete
    <3>1. k = key[r] /\ coalesced_requests[k] = r
      BY <1>1, <2>2, DetachedShares DEF IInv, TypeOK
    <3> QED
      BY <1>1, <2>2, <3>1, DetachedShares
  <2> QED
    BY <1>1, <2>1, <2>2, MapMoves
<1>2. IInv /\ ServedInv /\ [Next]_vars =>
        \A k \in Keys :
          coalesced_requests[k] # Nil /\ coalesced_requests'[k] # coalesced_requests[k]
              => shared[coalesced_requests[k]] \in complete
  BY <1>1
<1> QED
  BY <1>2, ServedInvariance, PTL DEF Spec, GroupOutlivesFetch

------------------------------------------------------------------------------
(* The filter implements SingleFlight                                       *)

\* A stream that has not arrived asks for nothing.
INew == \A r \in Requests : pc[r] = "new" => key[r] = Nil

\* Only a stream that arrives takes a key and a group.
LEMMA ArrivalAsks ==
    ASSUME IInv, [Next]_vars, NEW q \in Requests
    PROVE  \/ /\ key'[q] = key[q]
              /\ Founder(q)' <=> Founder(q)
              /\ ~Founder(q) => wrapper'[q] = wrapper[q]
              /\ pc'[q] = "new" => pc[q] = "new"
           \/ \E t \in Threads, k \in Keys : FoundGroup(q, t, k) \/ JoinGroup(q, t, k)
<1> DEFINE Kept == /\ key'[q] = key[q]
                   /\ Founder(q)' <=> Founder(q)
                   /\ ~Founder(q) => wrapper'[q] = wrapper[q]
                   /\ pc'[q] = "new" => pc[q] = "new"
<1>1. ASSUME NEW r \in Requests, NEW t \in Threads, NEW k \in Keys, r # q,
             FoundGroup(r, t, k) \/ JoinGroup(r, t, k)
      PROVE  Kept
  BY <1>1 DEF FoundGroup, JoinGroup, ArriveAt, Goto, Founder, IInv, TypeOK
<1>2. ASSUME NEW r \in Requests, FounderMove(r) PROVE Kept
  <2>1. /\ UNCHANGED <<key, role, wrapper>>
        /\ pc' = [pc EXCEPT ![r] = pc'[r]] /\ pc'[r] # "new"
    BY <1>2, FounderFrame, PointFacts DEF FounderPoints
  <2> QED
    BY <2>1 DEF Founder, IInv, TypeOK
<1>3. ASSUME NEW r \in Requests, JoinMove(r) PROVE Kept
  <2>1. /\ UNCHANGED <<key, wrapper>> /\ ~Founder(r)
        /\ role' = [role EXCEPT ![r] = role'[r]] /\ role'[r] # "INITIAL_LEADER"
        /\ pc' = [pc EXCEPT ![r] = pc'[r]] /\ pc'[r] # "new"
    BY <1>3, JoinFrame
  <2> QED
    BY <2>1 DEF Founder, IInv, TypeOK
<1>4. ASSUME NEW r \in Requests, ServeParked(r) \/ Splice(r) \/ Disconnect(r) PROVE Kept
  BY <1>4 DEF ServeParked, Splice, Disconnect, Goto, filterVars, Founder, IInv, TypeOK
<1>5. ASSUME NEW r \in Requests, NEW s \in Requests, AttendNext(r, s) PROVE Kept
  <2>1. Founder(r)
    BY <1>5, PointFacts DEF AttendNext, IInv, IPlace
  <2> QED
    BY <1>5, <2>1 DEF AttendNext, Goto, Founder, IInv, TypeOK
<1>6. ASSUME NEW r \in Requests, WaitMove(r) PROVE Kept
  <2>1. /\ UNCHANGED <<key, role, wrapper>>
        /\ pc' = [pc EXCEPT ![r] = pc'[r]] /\ pc'[r] # "new"
    BY <1>6, WaitFrame, PointFacts
  <2> QED
    BY <2>1 DEF Founder, IInv, TypeOK
<1>7. ASSUME NEW r \in Requests, Conclude(r) PROVE Kept
  <2>1. UNCHANGED <<key, role, wrapper>>
    BY <1>7, ConcludeFrame DEF filterVars
  <2>2. pc'[q] = "new" => pc[q] = "new"
    BY <1>7, ConcludeFrame
  <2> QED
    BY <2>1, <2>2 DEF Founder
<1>8. ASSUME UNCHANGED vars PROVE Kept
  BY <1>8 DEF vars, filterVars, Founder
<1>9. Kept \/ \E t \in Threads, k \in Keys : FoundGroup(q, t, k) \/ JoinGroup(q, t, k)
  <2> HIDE DEF Kept
  <2> QED
    BY <1>1, <1>2, <1>3, <1>4, <1>5, <1>6, <1>7, <1>8, NextCases DEF JoinMove
<1> QED
  BY <1>9

LEMMA NewStep == IInv /\ INew /\ [Next]_vars => INew'
<1> SUFFICES ASSUME IInv, INew, [Next]_vars, NEW r \in Requests, pc'[r] = "new"
             PROVE  key'[r] = Nil
  BY DEF INew
<1>1. ASSUME NEW t \in Threads, NEW k \in Keys, FoundGroup(r, t, k) \/ JoinGroup(r, t, k)
      PROVE  FALSE
  BY <1>1 DEF FoundGroup, JoinGroup, Goto, IInv, TypeOK
<1> QED
  BY <1>1, ArrivalAsks DEF INew

\* All that the refinement needs.
JInv == IInv /\ ParkedInv /\ ServedInv /\ INew

LEMMA JInvariance == Spec => []JInv
<1>1. Init => INew
  BY DEF Init, INew
<1> QED
  BY <1>1, InitInv, NextInv, ParkedInit, ParkedNext, ServedInit, ServedNext, NewStep, PTL
     DEF Spec, JInv

LEMMA AskStep ==
    ASSUME JInv, [Next]_vars, NEW r \in Requests, NEW t \in Threads, NEW k \in Keys,
           FoundGroup(r, t, k) \/ JoinGroup(r, t, k)
    PROVE  SF!Ask(r, k)
<1>1. IInv /\ TypeOK /\ TypeOK' /\ INew /\ Nil \notin Roles
  BY NextInv, ConstantsAssumption DEF JInv, IInv
<1>2. /\ pc[r] = "new" /\ key[r] = Nil /\ role[r] = Nil
      /\ key' = [key EXCEPT ![r] = k]
      /\ UNCHANGED <<shared, complete, delivered>>
  BY <1>1 DEF FoundGroup, JoinGroup, ArriveAt, groupVars, INew, IInv, IPlace
<1>3. coalesced_requests' = [coalesced_requests EXCEPT ![k] = IF @ = Nil THEN r ELSE @]
  BY <1>1 DEF FoundGroup, JoinGroup, GroupOf, TypeOK
<1>4. GroupJoined(r)' = coalesced_requests'[k]
  <2>1. CASE FoundGroup(r, t, k)
    BY <1>1, <2>1 DEF FoundGroup, GroupJoined, Founder, TypeOK
  <2>2. CASE JoinGroup(r, t, k)
    BY <1>1, <1>2, <2>2 DEF JoinGroup, GroupJoined, GroupOf, Founder, TypeOK, Roles
  <2> QED
    BY <2>1, <2>2
<1>5. \A q \in Requests \ {r} : GroupJoined(q)' = GroupJoined(q)
  BY <1>1 DEF FoundGroup, JoinGroup, GroupJoined, Founder, TypeOK
<1>6. [q \in Requests |-> GroupJoined(q)'] =
        [[q \in Requests |-> GroupJoined(q)] EXCEPT ![r] = coalesced_requests'[k]]
  BY <1>4, <1>5
<1> QED
  BY <1>2, <1>3, <1>6 DEF SF!Ask

\* A step that leaves the groups alone gives answers, if it does anything.
LEMMA AnswerStep ==
    ASSUME JInv, [Next]_vars, UNCHANGED <<key, coalesced_requests, shared, complete>>,
           \A q \in Requests : GroupJoined(q)' = GroupJoined(q)
    PROVE  \E S \in SUBSET Requests : SF!Answer(S)
<1> DEFINE S == {q \in Requests : delivered'[q] # delivered[q]}
           groups == [q \in Requests |-> GroupJoined(q)]
<1>1. IInv /\ ParkedInv /\ ServedInv
  BY DEF JInv
<1>2. delivered' \in [Requests -> Seq(Requests)]
  BY <1>1, NextInv DEF IInv, TypeOK
<1>3. ASSUME NEW q \in S
      PROVE  /\ delivered[q] = <<>>
             /\ groups[q] # Nil
             /\ shared[groups[q]] \in complete
             /\ key[shared[groups[q]]] = key[q]
             /\ delivered'[q] = <<shared[groups[q]]>>
  <2>1. /\ delivered'[q] = Append(delivered[q], shared[GroupJoined(q)])
        /\ shared[GroupJoined(q)] \in complete
        /\ shared[GroupJoined(q)] # Nil
        /\ Founder(q) => pc[q] \notin Late /\ pc'[q] \in Late
        /\ ~Founder(q) => pc[q] \in {"parked", "read"}
    BY <1>1, <1>3, Delivery DEF ServedInv
  <2>2. delivered[q] = <<>>
    BY <1>1, <2>1 DEF ServedInv, IDelivered
  <2>3. pc[q] # "new"
    <3>1. CASE Founder(q)
      BY <1>1, <3>1, ConstantsAssumption DEF Founder, Roles, IInv, IPlace
    <3> QED
      BY <2>1, <3>1
  <2>4. GroupJoined(q) \in Requests /\ key[GroupJoined(q)] = key[q]
    BY <1>1, <2>3 DEF GroupJoined, ParkedInv, IJoined, IInv, IPlace
  <2>5. key[shared[GroupJoined(q)]] = key[GroupJoined(q)]
    BY <1>1, <2>1, <2>4 DEF ServedInv, IShared, SharedBy
  <2>6. groups[q] = GroupJoined(q) /\ Nil \notin Requests
    BY <1>3, ConstantsAssumption
  <2> QED
    BY <2>1, <2>2, <2>4, <2>5, <2>6
<1>4. delivered' = [q \in Requests |-> IF q \in S THEN <<shared[groups[q]]>> ELSE delivered[q]]
  BY <1>2, <1>3
<1>5. [q \in Requests |-> GroupJoined(q)'] = groups
  OBVIOUS
<1>6. SF!Answer(S)
  BY <1>3, <1>4, <1>5 DEF SF!Answer
<1> QED
  BY <1>6

LEMMA ImplementsStep ==
    ASSUME JInv, [Next]_vars
    PROVE  SF!Next \/ UNCHANGED SF!avars
<1>1. IInv /\ ParkedInv /\ ServedInv /\ TypeOK /\ Nil \notin Requests /\ Nil \notin Keys
  BY ConstantsAssumption DEF JInv, IInv
<1>2. CASE \E r \in Requests, t \in Threads, k \in Keys :
             FoundGroup(r, t, k) \/ JoinGroup(r, t, k)
  BY <1>2, AskStep DEF SF!Next
<1>3. CASE ~ \E r \in Requests, t \in Threads, k \in Keys :
               FoundGroup(r, t, k) \/ JoinGroup(r, t, k)
  <2>1. \A q \in Requests : key'[q] = key[q] /\ GroupJoined(q)' = GroupJoined(q)
    BY <1>1, <1>3, ArrivalAsks DEF GroupJoined
  <2>2. key' = key
    BY <1>1, <2>1, NextInv DEF IInv, TypeOK
  <2>3. [q \in Requests |-> GroupJoined(q)'] = [q \in Requests |-> GroupJoined(q)]
    BY <2>1
  <2>4. ASSUME NEW r \in Requests, NotifyHit(r) \/ NotifyMiss(r)
        PROVE  SF!Settle(r, entry[r])
    <3>1. /\ pc[r] = "notify" /\ Founder(r) /\ key[r] \in Keys
          /\ shared' = [shared EXCEPT ![r] = entry[r]]
          /\ UNCHANGED <<coalesced_requests, complete, delivered>>
      BY <1>1, <2>4, PointFacts DEF NotifyHit, NotifyMiss, Publish, IInv, IPlace
    <3>2. coalesced_requests[key[r]] = r /\ shared[r] = Nil
      BY <1>1, <3>1, PointFacts DEF IInv, IMap, Open, ServedInv, IShared, SharedBy, Early
    <3>3. EntryOf(r)
      BY <1>1, <3>1 DEF ServedInv, IEntry
    <3>4. (entry[r] = r \/ entry[r] \in complete) /\ key[entry[r]] = key[r]
      BY <1>1, <3>1, <3>3 DEF EntryOf, TypeOK
    <3> QED
      BY <1>1, <2>2, <2>3, <3>1, <3>2, <3>4 DEF SF!Settle
  <2>5. ASSUME NEW r \in Requests, Finish(r) PROVE SF!Land(r)
    <3>1. /\ pc[r] = "finish" /\ Founder(r)
          /\ complete' = complete \union {r}
          /\ delivered' = [delivered EXCEPT ![r] = Append(@, r)]
          /\ UNCHANGED <<coalesced_requests, shared>>
      BY <1>1, <2>5, PointFacts DEF Finish, CompletedBy, Deliver, groupVars, IInv, IPlace
    <3>2. pc[r] \notin Late
      BY <3>1, PointFacts DEF Late
    <3>3. shared[r] = r /\ r \notin complete /\ delivered[r] = <<>>
      BY <1>1, <3>1, <3>2 DEF ServedInv, IShared, SharedBy, IComplete, IDelivered
    <3>4. delivered' = [delivered EXCEPT ![r] = <<r>>]
      BY <3>1, <3>3
    <3> QED
      BY <2>2, <2>3, <3>1, <3>3, <3>4 DEF SF!Land
  <2>6. ASSUME NEW r \in Requests, Detach(r) PROVE SF!Close(key[r])
    <3>1. /\ Founder(r) /\ key[r] \in Keys
          /\ coalesced_requests[key[r]] = r
          /\ coalesced_requests' = [coalesced_requests EXCEPT ![key[r]] = Nil]
          /\ shared[r] \in complete
      BY <1>1, <2>6, DetachedShares
    <3>2. UNCHANGED <<shared, complete, delivered>>
      BY <2>6 DEF Detach, groupVars
    <3> QED
      BY <1>1, <2>2, <2>3, <3>1, <3>2 DEF SF!Close
  <2>7. CASE \A r \in Requests : ~NotifyHit(r) /\ ~NotifyMiss(r) /\ ~Finish(r) /\ ~Detach(r)
    <3>1. UNCHANGED coalesced_requests
      BY <1>1, <1>3, <2>7, MapMoves
    <3>2. complete' \subseteq Requests
      BY <1>1, NextInv DEF IInv, TypeOK
    <3>3. complete' = complete
      BY <1>1, <2>7, <3>2, DataFrame
    <3>4. shared' = shared
      <4>1. \A g \in Requests : shared'[g] = shared[g]
        BY <1>1, <2>7, DataFrame
      <4> QED
        BY <1>1, <4>1, NextInv DEF IInv, TypeOK
    <3> QED
      BY <2>1, <2>2, <3>1, <3>3, <3>4, AnswerStep DEF SF!Next
  <2>8. CASE \E r \in Requests : NotifyHit(r) \/ NotifyMiss(r)
    <3>1. PICK r \in Requests : NotifyHit(r) \/ NotifyMiss(r)
      BY <2>8
    <3>2. entry[r] \in Requests
      <4>1. pc[r] = "notify" /\ Founder(r)
        BY <1>1, <3>1, PointFacts DEF NotifyHit, NotifyMiss, Publish, IInv, IPlace
      <4>2. EntryOf(r)
        BY <1>1, <4>1 DEF ServedInv, IEntry
      <4> QED
        BY <1>1, <4>1, <4>2 DEF EntryOf, TypeOK
    <3> QED
      BY <2>4, <3>1, <3>2 DEF SF!Next
  <2>9. CASE \E r \in Requests : Finish(r)
    BY <2>5, <2>9 DEF SF!Next
  <2>10. CASE \E r \in Requests : Detach(r)
    <3>1. PICK r \in Requests : Detach(r)
      BY <2>10
    <3>2. key[r] \in Keys
      BY <1>1, <3>1, DetachedShares
    <3> QED
      BY <2>6, <3>1, <3>2 DEF SF!Next
  <2> QED
    BY <2>7, <2>8, <2>9, <2>10
<1> QED
  BY <1>2, <1>3

\* SingleFlightSpec: with any number of threads, streams and keys, timeouts and
\* resets included, coalescing is what SingleFlight says: one open group a key,
\* one response a group, and at most one answer a stream, that of its group.
THEOREM SingleFlightImplemented == Spec => SingleFlightSpec
<1>1. Init => SF!Init
  <2> SUFFICES ASSUME Init PROVE SF!Init
    OBVIOUS
  <2>1. \A q \in Requests : GroupJoined(q) = Nil
    BY ConstantsAssumption DEF Init, GroupJoined, Founder, Roles
  <2>2. [q \in Requests |-> GroupJoined(q)] = [q \in Requests |-> Nil]
    BY <2>1
  <2> QED
    BY <2>2 DEF Init, SF!Init
<1>2. JInv /\ [Next]_vars => [SF!Next]_SF!avars
  BY ImplementsStep
<1> QED
  BY <1>1, <1>2, JInvariance, PTL DEF Spec, SF!Spec, SingleFlightSpec


------------------------------------------------------------------------------
(* Nobody waits for a thread that waits                                     *)

\* Where a founder may be.  One that was reset shares its own entry or nothing:
\* only the founder of an entry that is fetched gives its thread back meanwhile.
IReset ==
    \A g \in Requests : Founder(g) =>
        /\ pc[g] \in Early \union {"readHit", "body", "finish", "destroyed"} \union Late
        /\ pc[g] = "destroyed" => shared[g] \in {Nil, g}

LEMMA ResetStep ==
    IInv /\ ServedInv /\ IReset /\ [Next]_vars => IReset'
<1> SUFFICES ASSUME IInv, ServedInv, IReset, [Next]_vars, NEW g \in Requests, Founder(g)'
             PROVE  /\ pc'[g] \in Early \union {"readHit", "body", "finish", "destroyed"}
                                        \union Late
                    /\ pc'[g] = "destroyed" => shared'[g] \in {Nil, g}
  BY DEF IReset
<1>1. CASE ~Founder(g)
  BY <1>1, NewFounder DEF Early
<1>2. CASE Founder(g) /\ pc'[g] = pc[g]
  <2>1. pc[g] = "destroyed" => shared'[g] = shared[g]
    BY DataFrame DEF NotifyHit, NotifyMiss, Publish
  <2> QED
    BY <1>2, <2>1 DEF IReset
<1>3. CASE FounderMove(g)
  BY <1>3, FounderFrame DEF FounderPoints, InMap, Early, Late
<1>4. CASE ServeParked(g) \/ Splice(g) \/ \E q \in Requests : AttendNext(g, q)
  <2>1. pc'[g] \in {"disown", "done", "wait"}
    BY <1>4 DEF ServeParked, Splice, AttendNext, Goto, IInv, TypeOK
  <2> QED
    BY <2>1 DEF Late, Blocked
<1>5. CASE Founder(g) /\ (WaitMove(g) \/ Conclude(g))
  <2>1. pc'[g] \in Blocked \union {"attend"}
    BY <1>5, WaitFrame, ConcludeFrame
  <2> QED
    BY <2>1 DEF Late, Blocked
<1>6. CASE Founder(g) /\ Disconnect(g)
  <2>1. pc[g] \in {"upstream", "body"} /\ pc'[g] = "destroyed" /\ shared'[g] = shared[g]
    BY <1>6 DEF Disconnect, Goto, groupVars, IInv, TypeOK, IPlace
  <2>2. shared[g] \in {Nil, g}
    BY <2>1 DEF ServedInv, IShared, SharedBy, Early
  <2> QED
    BY <2>1, <2>2
<1> QED
  BY <1>1, <1>2, <1>3, <1>4, <1>5, <1>6, FounderMoves

\* No thread that has a founder at work, or a group of one that was reset, is
\* blocked.
LEMMA AwakeFounder ==
    ASSUME IInv, ParkedInv, NEW g \in Requests, Founder(g), pc[g] \notin Blocked,
           pc[g] \in InMap \union {"destroyed"}
    PROVE  Awake(g)
<1> SUFFICES ASSUME NEW s \in Requests, pc[s] \in Blocked, thread[s] = thread[g] PROVE FALSE
  BY DEF Awake
<1>1. led[thread[s]] = {}
  BY DEF IInv, ILed
<1>2. CASE pc[g] = "enlist"
  <2>1. running[thread[g]] = g /\ running[thread[s]] = s
    BY <1>2, PointFacts DEF IInv, IRun
  <2> QED
    BY <1>2, <2>1
<1>3. CASE pc[g] # "enlist"
  <2>1. g \in led[thread[g]]
    BY <1>3 DEF ParkedInv, IGroups, Leads
  <2> QED
    BY <1>1, <2>1
<1> QED
  BY <1>2, <1>3

\* Whose response a blocked thread waits for.
LEMMA WaitsForFounder ==
    ASSUME IInv, ParkedInv, NEW r \in Requests, pc[r] \in Blocked
    PROVE  wrapper[r] \in Requests /\ Founder(wrapper[r])
<1>1. pc[r] # "new"
  BY PointFacts
<1>2. CASE ~Founder(r)
  BY <1>1, <1>2 DEF ParkedInv, IJoined, IInv, IPlace
<1>3. CASE Founder(r)
  <2>1. callbacks[r] \in Requests /\ pc[callbacks[r]] = "parked"
        /\ wrapper[r] = wrapper[callbacks[r]]
    BY <1>3 DEF ParkedInv, IAttended, Awaiting, IInv, TypeOK
  <2>2. ~Founder(callbacks[r])
    BY <2>1 DEF IInv, IPlace
  <2> QED
    BY <2>1, <2>2 DEF ParkedInv, IJoined, IInv, IPlace
<1> QED
  BY <1>2, <1>3

LEMMA WaitedFor ==
    ASSUME IInv, ParkedInv, ServedInv, IReset, NEW r \in Requests,
           pc[r] \in {"wait", "late"}, shared[wrapper[r]] = Nil
    PROVE  /\ pc[wrapper[r]] \in {"enlist", "query", "upstream", "insert", "notify",
                                  "destroyed"}
           /\ Awake(wrapper[r])
<1> DEFINE g == wrapper[r]
<1>1. g \in Requests /\ Founder(g)
  BY WaitsForFounder DEF Blocked
<1>2. EntryOf(g) /\ SharedBy(g) /\ pc[g] \in Early \union {"readHit", "body", "finish",
                                                         "destroyed"} \union Late
  BY <1>1 DEF ServedInv, IEntry, IShared, IReset
<1>3. Nil \notin complete /\ g # Nil
  BY <1>1, ConstantsAssumption DEF IInv, TypeOK
<1> HIDE DEF g
<1>4. shared[g] = Nil
  BY DEF g
<1>5. pc[g] \notin Late \union {"body", "finish"}
  BY <1>1, <1>2, <1>3, <1>4 DEF SharedBy
<1>6. pc[g] # "readHit"
  <2>1. ~Nil \in complete
    BY <1>3
  <2>2. pc[g] = "readHit" => entry_cached[g]
    BY <1>1 DEF IInv, IPlace
  <2> QED
    BY <1>2, <1>4, <2>1, <2>2 DEF SharedBy, EntryOf
<1>7. pc[g] \in Early \union {"destroyed"}
  BY <1>2, <1>5, <1>6
<1>8. Awake(g)
  <2>1. pc[g] \notin Blocked /\ pc[g] \in InMap \union {"destroyed"}
    BY <1>7 DEF Early, Blocked, InMap
  <2> QED
    BY <1>1, <2>1, AwakeFounder
<1> QED
  BY <1>7, <1>8 DEF g, Early

LEMMA ReadFor ==
    ASSUME IInv, ParkedInv, ServedInv, IReset, NEW r \in Requests,
           pc[r] = "read", entry[r] \notin complete
    PROVE  /\ pc[entry[r]] \in {"body", "finish", "destroyed"}
           /\ Awake(entry[r])
<1> DEFINE g == wrapper[r]
<1>1. g \in Requests /\ Founder(g)
  BY WaitsForFounder DEF Blocked
<1>2. EntryOf(g) /\ SharedBy(g)
  BY <1>1 DEF ServedInv, IEntry, IShared
<1>3. /\ pc[g] \in Early \union {"readHit", "body", "finish", "destroyed"} \union Late
      /\ pc[g] = "destroyed" => shared[g] \in {Nil, g}
  BY <1>1 DEF IReset
<1>4. entry[r] = shared[g] /\ shared[g] # Nil
  BY DEF ServedInv, IWaited
<1> HIDE DEF g
<1>5. pc[g] \notin Early \union Late
  BY <1>1, <1>2, <1>4 DEF SharedBy
<1>6. pc[g] # "readHit"
  <2>1. pc[g] = "readHit" => entry_cached[g]
    BY <1>1 DEF IInv, IPlace
  <2> QED
    BY <1>2, <1>4, <2>1 DEF SharedBy, EntryOf
<1>7. pc[g] \in {"body", "finish", "destroyed"} /\ entry[r] = g
  BY <1>2, <1>3, <1>4, <1>5, <1>6 DEF SharedBy
<1>8. Awake(g)
  <2>1. pc[g] \notin Blocked /\ pc[g] \in InMap \union {"destroyed"}
    BY <1>7 DEF Blocked, InMap
  <2> QED
    BY <1>1, <2>1, AwakeFounder
<1> QED
  BY <1>7, <1>8

LEMMA ResetInvariance == Spec => [](IInv /\ ParkedInv /\ ServedInv /\ IReset)
<1>1. Init => IReset
  BY ConstantsAssumption DEF Init, IReset, Founder, Roles
<1> QED
  BY <1>1, InitInv, NextInv, ParkedInit, ParkedNext, ServedInit, ServedNext, ResetStep, PTL
     DEF Spec

\* WaitedForAtWork: whoever a blocked thread waits for is at work on a thread that is
\* not blocked itself, so there are no chains of waiting threads, let alone circles.
\* It is the safety half of WorkerReturns and EveryRequestConcluded.
THEOREM NoChains == Spec => []WaitedForAtWork
<1>1. IInv /\ ParkedInv /\ ServedInv /\ IReset => WaitedForAtWork
  BY WaitedFor, ReadFor DEF WaitedForAtWork
<1> QED
  BY <1>1, ResetInvariance, PTL

------------------------------------------------------------------------------
(* Without resets                                                           *)

LEMMA NobodyDestroyed ==
    ASSUME Disconnects = {}
    PROVE  Spec => [](\A r \in Requests : pc[r] # "destroyed")
<1> DEFINE Alive == \A r \in Requests : pc[r] # "destroyed"
<1>1. Init => Alive
  BY DEF Init
<1>2. ASSUME IInv, Alive, [Next]_vars, NEW q \in Requests, pc'[q] = "destroyed"
      PROVE  FALSE
  <2>1. ASSUME NEW r \in Requests, NEW t \in Threads, NEW k \in Keys,
               FoundGroup(r, t, k) \/ JoinGroup(r, t, k)
        PROVE  FALSE
    BY <1>2, <2>1 DEF FoundGroup, JoinGroup, ArriveAt, Goto, IInv, TypeOK
  <2>2. ASSUME NEW r \in Requests, FounderMove(r) PROVE FALSE
    <3>1. pc' = [pc EXCEPT ![r] = pc'[r]] /\ pc'[r] # "destroyed"
      BY <1>2, <2>2, FounderFrame, PointFacts DEF FounderPoints
    <3> QED
      BY <1>2, <3>1 DEF IInv, TypeOK
  <2>3. ASSUME NEW r \in Requests, JoinMove(r) PROVE FALSE
    <3>1. pc' = [pc EXCEPT ![r] = pc'[r]] /\ pc'[r] # "destroyed"
      BY <1>2, <2>3, JoinFrame
    <3> QED
      BY <1>2, <3>1 DEF IInv, TypeOK
  <2>4. ASSUME NEW r \in Requests, NEW s \in Requests,
               ServeParked(r) \/ Splice(r) \/ AttendNext(r, s)
        PROVE  FALSE
    BY <1>2, <2>4 DEF ServeParked, Splice, AttendNext, Goto, IInv, TypeOK
  <2>5. ASSUME NEW r \in Requests, WaitMove(r) PROVE FALSE
    <3>1. pc' = [pc EXCEPT ![r] = pc'[r]] /\ pc'[r] # "destroyed"
      BY <1>2, <2>5, WaitFrame, PointFacts
    <3> QED
      BY <1>2, <3>1 DEF IInv, TypeOK
  <2>6. ASSUME NEW r \in Requests, Conclude(r) PROVE FALSE
    BY <1>2, <2>6 DEF Conclude, Drop, Serve, Resume, Goto, IInv, TypeOK
  <2>7. ASSUME NEW r \in Requests, Disconnect(r) PROVE FALSE
    BY <2>7 DEF Disconnect
  <2> QED
    BY <1>2, <2>1, <2>2, <2>3, <2>4, <2>5, <2>6, <2>7, NextCases DEF JoinMove, vars
<1>3. IInv /\ Alive /\ [Next]_vars => Alive'
  BY <1>2
<1> QED
  BY <1>1, <1>3, Invariance, PTL DEF Spec

\* NoParkedLost: without resets, somebody has still to come to every list that has
\* a parked stream, whether or not waits have timed out.
THEOREM NoneLostWithoutResets == ASSUME Disconnects = {} PROVE Spec => []NoParkedLost
<1>1. ASSUME LostOnlyToResets, \A r \in Requests : pc[r] # "destroyed"
      PROVE  NoParkedLost
  BY <1>1 DEF LostOnlyToResets, NoParkedLost, Strands
<1>2. LostOnlyToResets /\ (\A r \in Requests : pc[r] # "destroyed") => NoParkedLost
  BY <1>1
<1> QED
  BY <1>2, NoneLost, NobodyDestroyed, PTL

\* All that getThreadStatus() recorded is gone, and nobody is parked.
Settled ==
    /\ \A k \in Keys : coalesced_requests[k] = Nil
    /\ leader_threads = {}
    /\ \A t \in Threads : led[t] = {}
    /\ \A q \in Requests : pc[q] # "parked"

\* Without resets, nothing is left of any group when no callback runs and no fetch is
\* under way, whether or not waits have timed out: no key, no thread, no stream.
THEOREM AllSettled == ASSUME Disconnects = {} PROVE Spec => [](Quiet => Settled)
<1>1. ASSUME IInv, CleanWhenQuiet, Quiet, \A r \in Requests : pc[r] # "destroyed"
      PROVE  Settled
  <2>1. \A k \in Keys : coalesced_requests[k] = Nil
    BY <1>1 DEF CleanWhenQuiet, IInv, TypeOK
  <2>2. \A t \in Threads : led[t] = {}
    BY <1>1 DEF CleanWhenQuiet, IInv, TypeOK
  <2>3. leader_threads = {}
    BY <1>1, <2>2 DEF CleanWhenQuiet, IInv, TypeOK
  <2>4. ASSUME NEW q \in Requests, pc[q] = "parked" PROVE FALSE
    <3>1. PICK g \in led[thread[q]] : q \in parked[g] \union others[g]
      BY <1>1, <2>4 DEF CleanWhenQuiet
    <3>2. thread[q] \in Threads
      BY <1>1, <2>4 DEF IInv, IPlace
    <3> QED
      BY <2>2, <3>1, <3>2
  <2> QED
    BY <2>1, <2>2, <2>3, <2>4 DEF Settled
<1>2. IInv /\ CleanWhenQuiet /\ (\A r \in Requests : pc[r] # "destroyed")
        => (Quiet => Settled)
  BY <1>1
<1> QED
  BY <1>2, Invariance, NothingLeft, NobodyDestroyed, PTL
=============================================================================
