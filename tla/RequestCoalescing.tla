---------------------------- MODULE RequestCoalescing ----------------------------
(***************************************************************************)
(* The request-coalescing filter HttpCacheRCFilter: worker threads run the  *)
(* filter callbacks of HTTP streams; the first stream that asks for a key   *)
(* becomes the INITIAL_LEADER of a group and queries the cache or the       *)
(* origin, and the streams that ask for the same key meanwhile coalesce     *)
(* with it.  A stream on another thread blocks its thread on the group's    *)
(* condition variable; a stream whose thread leads a group is parked in a   *)
(* list instead, and the leader answers it when its own response is there.  *)
(*                                                                         *)
(* One filter object exists per stream, so a filter, its stream and its     *)
(* decoder_callbacks_ are one element of Requests.  A group                 *)
(* (ResponseForCoalescedRequests) is named by the stream that created it,   *)
(* and a cache entry by the stream whose producer writes it.  The LRU order *)
(* of the cache and the blocks of an entry are the business of LRUCache and *)
(* CacheEntry: here the cache is a map and an entry is complete or not.     *)
(***************************************************************************)
EXTENDS Naturals, FiniteSets, Sequences

CONSTANTS
    Threads,        \* Envoy's worker threads
    Requests,       \* HTTP streams, one filter object each
    Keys,           \* values of request_headers_str_key_
    CacheCapacity,  \* cache_capacity of the proto config
    Disconnects,    \* streams whose client or origin may reset them early
    MayTimeout,     \* whether a wait on the condition variable may time out
    Nil             \* nullptr

\* The values of ThreadStatus.
Roles == {"INITIAL_LEADER", "LEADER", "OTHER_GROUP_LEADER", "WAITING"}

ASSUME ConstantsAssumption ==
    /\ Nil \notin Requests \union Threads \union Keys \union Roles
    /\ CacheCapacity \in Nat \ {0}
    /\ Disconnects \subseteq Requests
    /\ MayTimeout \in BOOLEAN

VARIABLES
    \* the filter object of each stream
    pc,           \* where the stream is in the filter's callbacks
    thread,       \* this_thread_id_
    key,          \* request_headers_str_key_
    role,         \* the ThreadStatus getThreadStatus() returned
    wrapper,      \* response_wrapper_rc_ptr_
    callbacks,    \* decoder_callbacks_: the stream the filter serves
    entry_cached, \* entry_cached_
    entry,        \* responseEntryPtr, or the producer's entry
    \* the fields of each group, ResponseForCoalescedRequests
    parked,       \* *waiting_decoder_callbacks_ptr_
    others,       \* *other_rc_groups_ptr_
    shared,       \* shared_response_entry_ptr_
    \* the static members of the filter class
    coalesced_requests,  \* coalesced_requests_
    leader_threads,      \* the keys of leader_threads_for_rc_
    led,                 \* leader_threads_for_rc_[t], as a set of groups
    cache,               \* cache_: the entry of each key
    \* entries, Envoy and history
    complete,     \* entries whose producer has run writeComplete()
    running,      \* the stream whose callback a thread executes
    delivered     \* history: the entries each stream was served

filterVars == <<thread, key, role, wrapper, callbacks, entry_cached, entry>>
groupVars  == <<parked, others, shared>>
ownerVars  == <<leader_threads, led>>
vars == <<pc, filterVars, groupVars, coalesced_requests, ownerVars, cache,
          complete, running, delivered>>

----------------------------------------------------------------------------
(* Control points.  A stream at a Running point occupies its thread.        *)

\* The founder of a group, from its creation until detachCurrentRCGroup().
InMap == {"enlist", "query", "notify", "readHit", "upstream", "insert",
          "body", "finish", "detach"}

\* The points where a thread sleeps on a condition variable or spins on an
\* entry that another thread may still be writing.
Blocked == {"wait", "late", "read"}

\* The points where a stream waits for Envoy and its thread is free.
Suspended == {"new", "upstream", "body", "parked", "done", "dropped", "destroyed"}

Points == InMap \union Blocked \union Suspended
          \union {"join", "serveParked", "disown", "attend", "release"}

Running == Points \ Suspended

Founder(r) == role[r] = "INITIAL_LEADER"

\* From enlist until its thread gives the group up.
Leads(r) == Founder(r) /\ pc[r] \in InMap \union {"serveParked", "disown", "destroyed"}

Idle(t) == running[t] = Nil

Goto(r, p) == pc' = [pc EXCEPT ![r] = p]

\* The callback of stream r returns to the event loop of its thread.
Return(r) == running' = [running EXCEPT ![thread[r]] = Nil]

\* The event loop of r's thread calls back into the filter of stream r.
Enter(r) == /\ Idle(thread[r])
            /\ running' = [running EXCEPT ![thread[r]] = r]

Init ==
    /\ pc = [r \in Requests |-> "new"]
    /\ thread = [r \in Requests |-> Nil]
    /\ key = [r \in Requests |-> Nil]
    /\ role = [r \in Requests |-> Nil]
    /\ wrapper = [r \in Requests |-> Nil]
    /\ callbacks = [r \in Requests |-> r]
    /\ entry_cached = [r \in Requests |-> TRUE]
    /\ entry = [r \in Requests |-> Nil]
    /\ parked = [g \in Requests |-> {}]
    /\ others = [g \in Requests |-> {}]
    /\ shared = [g \in Requests |-> Nil]
    /\ coalesced_requests = [k \in Keys |-> Nil]
    /\ leader_threads = {}
    /\ led = [t \in Threads |-> {}]
    /\ cache = [k \in Keys |-> Nil]
    /\ complete = {}
    /\ running = [t \in Threads |-> Nil]
    /\ delivered = [r \in Requests |-> <<>>]

----------------------------------------------------------------------------
(* decodeHeaders(): getThreadStatus()                                       *)

\* decodeHeaders up to the lookup under mtx_rc_: which group the key has.
\* Mutation: the new group is not published in the map.
GroupOfForgotten(k) == Nil
GroupOf(k) == coalesced_requests[k]

ArriveAt(r, t, k) ==
    /\ pc[r] = "new"
    /\ Idle(t)
    /\ running' = [running EXCEPT ![t] = r]
    /\ thread' = [thread EXCEPT ![r] = t]
    /\ key' = [key EXCEPT ![r] = k]

\* The key has no group: r creates it, in one critical section of mtx_rc_.
FoundGroup(r, t, k) ==
    /\ ArriveAt(r, t, k)
    /\ GroupOf(k) = Nil
    /\ coalesced_requests' = [coalesced_requests EXCEPT ![k] = r]
    /\ wrapper' = [wrapper EXCEPT ![r] = r]
    /\ role' = [role EXCEPT ![r] = "INITIAL_LEADER"]
    /\ Goto(r, "enlist")
    /\ UNCHANGED <<callbacks, entry_cached, entry, groupVars, ownerVars, cache,
                   complete, delivered>>

\* The key has a group: r keeps a pointer to it and releases mtx_rc_.
JoinGroup(r, t, k) ==
    /\ ArriveAt(r, t, k)
    /\ GroupOf(k) # Nil
    /\ wrapper' = [wrapper EXCEPT ![r] = GroupOf(k)]
    /\ Goto(r, "join")
    /\ UNCHANGED <<role, callbacks, entry_cached, entry, groupVars,
                   coalesced_requests, ownerVars, cache, complete, delivered>>

\* The groups of thread t whose key is not k: what erase(k), or an assignment
\* to [k], leaves of leader_threads_for_rc_[t].
LedExceptKey(t, k) == {g \in led[t] : key[g] # k}

\* The founder records itself as a leader, under shared_mtx_threads_map_.
Enlist(r) ==
    /\ pc[r] = "enlist"
    /\ leader_threads' = leader_threads \union {thread[r]}
    /\ led' = [led EXCEPT ![thread[r]] = LedExceptKey(thread[r], key[r]) \union {r}]
    /\ Goto(r, "query")
    /\ UNCHANGED <<filterVars, groupVars, coalesced_requests, cache, complete,
                   running, delivered>>

\* Whether r's own thread is leader_thread_id_ of r's group.
\* Mutation: every joiner is parked with its group.
AnyThreadLeads(r) == TRUE
OwnThreadLeads(r) == thread[wrapper[r]] = thread[r]

\* LEADER: r is parked with its group, which r's own thread leads.
ParkWithOwnGroup(r) ==
    /\ pc[r] = "join"
    /\ OwnThreadLeads(r)
    /\ parked' = [parked EXCEPT ![wrapper[r]] = @ \union {r}]
    /\ role' = [role EXCEPT ![r] = "LEADER"]
    /\ Goto(r, "parked")
    /\ Return(r)
    /\ UNCHANGED <<thread, key, wrapper, callbacks, entry_cached, entry, others,
                   shared, coalesced_requests, ownerVars, cache, complete,
                   delivered>>

\* isLeaderOfOtherRCGroup(): whether thread t may not sleep.
\* Mutation: the test is left out, every joiner sleeps.
NeverLeadsOther(t) == FALSE
LeadsOther(t) == t \in leader_threads

\* OTHER_GROUP_LEADER: r is parked with one of the groups its thread leads,
\* whichever unordered_map::begin() gives.
ParkWithOtherGroup(r) ==
    /\ pc[r] = "join"
    /\ ~OwnThreadLeads(r)
    /\ LeadsOther(thread[r])
    /\ \E g \in led[thread[r]] : others' = [others EXCEPT ![g] = @ \union {r}]
    /\ role' = [role EXCEPT ![r] = "OTHER_GROUP_LEADER"]
    /\ Goto(r, "parked")
    /\ Return(r)
    /\ UNCHANGED <<thread, key, wrapper, callbacks, entry_cached, entry, parked,
                   shared, coalesced_requests, ownerVars, cache, complete,
                   delivered>>

\* WAITING: r's thread leads nothing and enters waitForResponseAndServe().
StartWaiting(r) ==
    /\ pc[r] = "join"
    /\ ~OwnThreadLeads(r)
    /\ ~LeadsOther(thread[r])
    /\ role' = [role EXCEPT ![r] = "WAITING"]
    /\ Goto(r, "wait")
    /\ UNCHANGED <<thread, key, wrapper, callbacks, entry_cached, entry,
                   groupVars, coalesced_requests, ownerVars, cache, complete,
                   running, delivered>>

----------------------------------------------------------------------------
(* The founder: the cache, the origin, and the entry its group shares       *)

\* cache_.at() finds an entry; the filter stays in decodeHeaders.
CacheHit(r) ==
    /\ pc[r] = "query"
    /\ cache[key[r]] # Nil
    /\ entry' = [entry EXCEPT ![r] = cache[key[r]]]
    /\ Goto(r, "notify")
    /\ UNCHANGED <<thread, key, role, wrapper, callbacks, entry_cached, groupVars,
                   coalesced_requests, ownerVars, cache, complete, running,
                   delivered>>

\* A miss: the producer creates its entry, and the stream goes upstream.
CacheMiss(r) ==
    /\ pc[r] = "query"
    /\ cache[key[r]] = Nil
    /\ entry_cached' = [entry_cached EXCEPT ![r] = FALSE]
    /\ entry' = [entry EXCEPT ![r] = r]
    /\ Goto(r, "upstream")
    /\ Return(r)
    /\ UNCHANGED <<thread, key, role, wrapper, callbacks, groupVars,
                   coalesced_requests, ownerVars, cache, complete, delivered>>

\* encodeHeaders with the first headers: a 2xx response is inserted into the
\* cache first, any other goes straight to the group.
OriginHeaders(r, successful) ==
    /\ pc[r] = "upstream"
    /\ Enter(r)
    /\ Goto(r, IF successful THEN "insert" ELSE "notify")
    /\ UNCHANGED <<filterVars, groupVars, coalesced_requests, ownerVars, cache,
                   complete, delivered>>

Cached(c) == {k \in Keys : c[k] # Nil}

\* cache_.insert(): the new entry is in; if the cache is over its capacity one
\* entry goes.  The victim is any other one, a bigger choice than LRU's.
Insert(r) ==
    /\ pc[r] = "insert"
    /\ LET inserted == [cache EXCEPT ![key[r]] = r] IN
       IF Cardinality(Cached(inserted)) <= CacheCapacity
       THEN cache' = inserted
       ELSE \E victim \in Cached(inserted) \ {key[r]} :
               cache' = [inserted EXCEPT ![victim] = Nil]
    /\ Goto(r, "notify")
    /\ UNCHANGED <<filterVars, groupVars, coalesced_requests, ownerVars, complete,
                   running, delivered>>

\* notifyWaitingCoalescedRequests(): under mtx_rc_, so a waiter has either not
\* tested the predicate yet or is asleep and is woken: Wake needs no signal.
Publish(r) ==
    /\ pc[r] = "notify"
    /\ shared' = [shared EXCEPT ![r] = entry[r]]

\* On the hit path the founder goes on to serve the entry to its own stream.
NotifyHit(r) ==
    /\ Publish(r)
    /\ entry_cached[r]
    /\ Goto(r, "readHit")
    /\ UNCHANGED <<filterVars, parked, others, coalesced_requests, ownerVars,
                   cache, complete, running, delivered>>

\* On the miss path the headers end the stream, or the rest is to come.
NotifyMiss(r) ==
    /\ Publish(r)
    /\ ~entry_cached[r]
    /\ \/ Goto(r, "finish") /\ UNCHANGED running
       \/ Goto(r, "body") /\ Return(r)
    /\ UNCHANGED <<filterVars, parked, others, coalesced_requests, ownerVars,
                   cache, complete, delivered>>

\* encodeData and encodeTrailers write blocks, which CacheEntry models; the
\* event that matters here is the one that ends the stream.
OriginEnd(r) ==
    /\ pc[r] = "body"
    /\ Enter(r)
    /\ Goto(r, "finish")
    /\ UNCHANGED <<filterVars, groupVars, coalesced_requests, ownerVars, cache,
                   complete, delivered>>

Deliver(q, e) == delivered' = [delivered EXCEPT ![q] = Append(@, e)]

\* writeComplete(): what it adds to the complete entries.
\* Mutations: the block counts are never stored; the producer's
\* pointer to the entry has been moved into the cache before.
CompletedByNone(r) == {}
CompletedMoved(r) == {Nil}
CompletedBy(r) == {r}

\* encodeComplete() starts.  r's own stream counts as served from here on; Envoy
\* passes the end of the response on when the callback returns, unhindered.
Finish(r) ==
    /\ pc[r] = "finish"
    /\ complete' = complete \union CompletedBy(r)
    /\ Deliver(r, r)
    /\ Goto(r, "detach")
    /\ UNCHANGED <<filterVars, groupVars, coalesced_requests, ownerVars, cache,
                   running>>

\* serveCachedResponse() returns once it has read an end of the entry.
ServeHit(r) ==
    /\ pc[r] = "readHit"
    /\ entry[r] \in complete
    /\ Deliver(r, entry[r])
    /\ Goto(r, "detach")
    /\ UNCHANGED <<filterVars, groupVars, coalesced_requests, ownerVars, cache,
                   complete, running>>

----------------------------------------------------------------------------
(* The founder: its group is over                                           *)

\* detachCurrentRCGroup().
Detach(r) ==
    /\ pc[r] = "detach"
    /\ coalesced_requests' = [coalesced_requests EXCEPT ![key[r]] = Nil]
    /\ Goto(r, "serveParked")
    /\ UNCHANGED <<filterVars, groupVars, ownerVars, cache, complete, running,
                   delivered>>

\* cache_entry_producer_.getCacheEntryPtr(): null unless initCacheEntry() ran.
ProducerEntry(r) == IF entry_cached[r] THEN Nil ELSE r

\* serveResponseToCurrentRCGroup().  The streams of the list are r's thread's
\* own and the entry is complete, so nothing comes in between.  Where a stream
\* of the list is destroyed, or the entry is null, the code's behaviour is
\* undefined and the model has no step.
ServeParked(r) ==
    /\ pc[r] = "serveParked"
    /\ \A q \in parked[r] : pc[q] = "parked" /\ ProducerEntry(r) \in complete
    /\ delivered' = [q \in Requests |-> IF q \in parked[r]
                                        THEN Append(delivered[q], ProducerEntry(r))
                                        ELSE delivered[q]]
    /\ pc' = [q \in Requests |-> IF q = r THEN "disown"
                                 ELSE IF q \in parked[r] THEN "done" ELSE pc[q]]
    /\ UNCHANGED <<filterVars, groupVars, coalesced_requests, ownerVars, cache,
                   complete, running>>

\* Whether streams of other groups are parked with the group of r.
\* Mutation: the founder forgets them.
NoneToAttend(r) == FALSE
ToAttend(r) == others[r] # {}

\* attendToOtherRCGroups(): r's thread no longer leads the group.
Disown(r) ==
    /\ pc[r] = "disown"
    /\ led' = [led EXCEPT ![thread[r]] = LedExceptKey(thread[r], key[r])]
    /\ Goto(r, IF ToAttend(r) THEN "attend" ELSE "release")
    /\ UNCHANGED <<filterVars, groupVars, coalesced_requests, leader_threads,
                   cache, complete, running, delivered>>

\* What list::splice() makes of the target's list.
\* Mutation: the target's own streams are lost.
SplicedOver(g, r) == others[r]
Spliced(g, r) == others[g] \union others[r]

\* r's thread still leads some group: that one takes over r's list, and r's
\* callback returns without releasing the thread.
Splice(r) ==
    /\ pc[r] = "attend"
    /\ \E g \in led[thread[r]] :
          others' = [others EXCEPT ![g] = Spliced(g, r), ![r] = {}]
    /\ Goto(r, "done")
    /\ Return(r)
    /\ UNCHANGED <<filterVars, parked, shared, coalesced_requests, ownerVars,
                   cache, complete, delivered>>

\* The group r waits for when it attends to the stream q.
\* Mutation: r keeps the group it had.
OwnGroupKept(r, q) == wrapper[r]
AttendedGroup(r, q) == wrapper[q]

\* The thread leads nothing any more: r takes the callbacks and the group of a
\* stream of its list, and enters waitForResponseAndServe() for it.  others[r]
\* keeps what the loop has still to visit; in the code the list stays whole and
\* the iterator advances.  A destroyed q would leave a dangling callback and a
\* weak_ptr that may be empty: no step.
AttendNext(r, q) ==
    /\ pc[r] = "attend"
    /\ led[thread[r]] = {}
    /\ q \in others[r]
    /\ pc[q] = "parked"
    /\ others' = [others EXCEPT ![r] = @ \ {q}]
    /\ callbacks' = [callbacks EXCEPT ![r] = q]
    /\ wrapper' = [wrapper EXCEPT ![r] = AttendedGroup(r, q)]
    /\ Goto(r, "wait")
    /\ UNCHANGED <<thread, key, role, entry_cached, entry, parked, shared,
                   coalesced_requests, ownerVars, cache, complete, running,
                   delivered>>

AttendedAll(r) ==
    /\ pc[r] = "attend"
    /\ others[r] = {}
    /\ Goto(r, "release")
    /\ UNCHANGED <<filterVars, groupVars, coalesced_requests, ownerVars, cache,
                   complete, running, delivered>>

\* Whether the thread gives up its place in leader_threads_for_rc_.
\* Mutation: it never does.
NeverReleases(t) == FALSE
LeadsNothing(t) == led[t] = {}

\* releaseLeaderThreadIfPossible().  The shared lock is dropped before the
\* unique one is taken, but only t itself writes the entry of t.
Release(r) ==
    /\ pc[r] = "release"
    /\ leader_threads' = IF LeadsNothing(thread[r]) THEN leader_threads \ {thread[r]}
                                                    ELSE leader_threads
    /\ Goto(r, "done")
    /\ Return(r)
    /\ UNCHANGED <<filterVars, groupVars, coalesced_requests, led, cache, complete,
                   delivered>>

----------------------------------------------------------------------------
(* waitForResponseAndServe(), for r's own stream or for one r attends to    *)

\* The wait is over because the response is there; it is read again below,
\* without the lock, but is never written twice.
Wake(r) ==
    /\ pc[r] = "wait"
    /\ shared[wrapper[r]] # Nil
    /\ entry' = [entry EXCEPT ![r] = shared[wrapper[r]]]
    /\ Goto(r, "read")
    /\ UNCHANGED <<thread, key, role, wrapper, callbacks, entry_cached, groupVars,
                   coalesced_requests, ownerVars, cache, complete, running,
                   delivered>>

\* COND_VAR_TIMEOUT passes first: mtx_rc_ is released, and what the group
\* shares has still to be read, without the lock.  The founder may be writing it
\* then: the read finds the old pointer or the new one (a torn one is undefined).
Timeout(r) ==
    /\ MayTimeout
    /\ pc[r] = "wait"
    /\ shared[wrapper[r]] = Nil
    /\ Goto(r, "late")
    /\ UNCHANGED <<filterVars, groupVars, coalesced_requests, ownerVars, cache,
                   complete, running, delivered>>

\* The read after a timeout finds a response that came in between.
LateRead(r) ==
    /\ pc[r] = "late"
    /\ shared[wrapper[r]] # Nil
    /\ entry' = [entry EXCEPT ![r] = shared[wrapper[r]]]
    /\ Goto(r, "read")
    /\ UNCHANGED <<thread, key, role, wrapper, callbacks, entry_cached, groupVars,
                   coalesced_requests, ownerVars, cache, complete, running,
                   delivered>>

\* waitForResponseAndServe() returns.  If r served its own stream, so does its
\* callback; otherwise the founder r goes on with its list.
Resume(r, outcome) ==
    \/ /\ callbacks[r] = r
       /\ Goto(r, outcome)
       /\ Return(r)
    \/ /\ callbacks[r] # r
       /\ pc' = [s \in Requests |-> IF s = r THEN "attend"
                                    ELSE IF s = callbacks[r] THEN outcome
                                    ELSE pc[s]]
       /\ UNCHANGED running

\* ... or does not: the error is logged, and the stream is left as it is.
Drop(r) ==
    /\ pc[r] = "late"
    /\ shared[wrapper[r]] = Nil
    /\ Resume(r, "dropped")
    /\ UNCHANGED <<filterVars, groupVars, coalesced_requests, ownerVars, cache,
                   complete, delivered>>

\* serveCachedResponse() returns once it has read an end of the entry; until
\* then it spins on a block counter, and r's thread with it.
Serve(r) ==
    /\ pc[r] = "read"
    /\ entry[r] \in complete
    /\ Deliver(callbacks[r], entry[r])
    /\ Resume(r, "done")
    /\ UNCHANGED <<filterVars, groupVars, coalesced_requests, ownerVars, cache,
                   complete>>

----------------------------------------------------------------------------
(* Envoy resets the stream                                                  *)

\* onDestroy() is empty: nothing of the group, of the maps or of the lists
\* changes, and no encode callback comes for r any more.
Disconnect(r) ==
    /\ r \in Disconnects
    /\ pc[r] \in {"upstream", "body", "parked"}
    /\ Idle(thread[r])
    /\ Goto(r, "destroyed")
    /\ UNCHANGED <<filterVars, groupVars, coalesced_requests, ownerVars, cache,
                   complete, running, delivered>>

\* Every stream has run its course: answered, or dropped after a timeout.
Terminated ==
    /\ \A r \in Requests : pc[r] \in {"done", "dropped"}
    /\ UNCHANGED vars

----------------------------------------------------------------------------

\* What the thread that runs r does next without waiting for anybody's event.
ThreadStep(r) ==
    \/ Enlist(r)
    \/ ParkWithOwnGroup(r)
    \/ ParkWithOtherGroup(r)
    \/ StartWaiting(r)
    \/ CacheHit(r)
    \/ CacheMiss(r)
    \/ Insert(r)
    \/ NotifyHit(r)
    \/ NotifyMiss(r)
    \/ Finish(r)
    \/ ServeHit(r)
    \/ Detach(r)
    \/ ServeParked(r)
    \/ Disown(r)
    \/ Splice(r)
    \/ \E q \in Requests : AttendNext(r, q)
    \/ AttendedAll(r)
    \/ Release(r)
    \/ Wake(r)
    \/ LateRead(r)
    \/ Drop(r)
    \/ Serve(r)

OriginStep(r) ==
    \/ \E successful \in BOOLEAN : OriginHeaders(r, successful)
    \/ OriginEnd(r)

Arrive(r) == \E t \in Threads, k \in Keys : FoundGroup(r, t, k) \/ JoinGroup(r, t, k)

Next ==
    \/ \E r \in Requests : Arrive(r)
    \/ \E r \in Requests : ThreadStep(r)
    \/ \E r \in Requests : OriginStep(r)
    \/ \E r \in Requests : Timeout(r)
    \/ \E r \in Requests : Disconnect(r)
    \/ Terminated

Spec == Init /\ [][Next]_vars

\* A thread that can go on does so, and the origin answers, or Envoy answers in
\* its place with a local reply, as long as the stream is not reset.  Nothing
\* makes a client send a request, a wait time out or a stream be reset.
Fairness ==
    \A r \in Requests : WF_vars(ThreadStep(r)) /\ WF_vars(OriginStep(r))

FairSpec == Spec /\ Fairness

\* wait_for() returns after COND_VAR_TIMEOUT: no wait lasts for ever.  The runs that
\* pass do without, and so rest on no timeout.
TimedSpec == FairSpec /\ \A r \in Requests : WF_vars(Timeout(r))

----------------------------------------------------------------------------
(* Properties                                                               *)

TypeOK ==
    /\ pc \in [Requests -> Points]
    /\ thread \in [Requests -> Threads \union {Nil}]
    /\ key \in [Requests -> Keys \union {Nil}]
    /\ role \in [Requests -> Roles \union {Nil}]
    /\ wrapper \in [Requests -> Requests \union {Nil}]
    /\ callbacks \in [Requests -> Requests]
    /\ entry_cached \in [Requests -> BOOLEAN]
    /\ entry \in [Requests -> Requests \union {Nil}]
    /\ parked \in [Requests -> SUBSET Requests]
    /\ others \in [Requests -> SUBSET Requests]
    /\ shared \in [Requests -> Requests \union {Nil}]
    /\ coalesced_requests \in [Keys -> Requests \union {Nil}]
    /\ leader_threads \subseteq Threads
    /\ led \in [Threads -> SUBSET Requests]
    /\ cache \in [Keys -> Requests \union {Nil}]
    /\ complete \subseteq Requests
    /\ running \in [Threads -> Requests \union {Nil}]
    /\ delivered \in [Requests -> Seq(Requests)]

\* The promise of coalescing: at most one stream at a time asks the cache and the
\* origin for a key, whatever the threads the streams arrive on.  LRUCache relies
\* on it: its operations on one key never overlap.
Fetching(r) == pc[r] \in {"query", "upstream", "insert", "notify", "body", "finish"}

OneFetchPerKey ==
    \A r, s \in Requests :
        Fetching(r) /\ Fetching(s) /\ key[r] = key[s] => r = s

\* A thread that sleeps in waitOnCondVar() or spins in serveCachedResponse() for
\* another thread's group leads no group itself, so threads never wait for one
\* another in a circle.
BlockedLeadsNothing ==
    \A r \in Requests : pc[r] \in Blocked => led[thread[r]] = {}

\* A thread that sleeps for a response, or spins for the end of an entry, does so
\* for a founder that has still to notify its group, or to complete the entry, and
\* whose own thread is neither asleep nor spinning: it gets there when its origin
\* answers, unless its stream was reset.
Awake(g) == \A s \in Requests : pc[s] \in Blocked => thread[s] # thread[g]

WaitedForAtWork ==
    \A r \in Requests :
        /\ pc[r] \in {"wait", "late"} /\ shared[wrapper[r]] = Nil =>
              /\ pc[wrapper[r]] \in {"enlist", "query", "upstream", "insert", "notify",
                                    "destroyed"}
              /\ Awake(wrapper[r])
        /\ pc[r] = "read" /\ entry[r] \notin complete =>
              /\ pc[entry[r]] \in {"body", "finish", "destroyed"}
              /\ Awake(entry[r])

\* isLeaderOfOtherRCGroup() takes begin() of its thread's groups as soon as the
\* thread is in the map: there always is one then.
LeaderMapAccessSafe ==
    \A r \in Requests :
        pc[r] = "join" /\ thread[r] \in leader_threads => led[thread[r]] # {}

\* serveResponseToCurrentRCGroup() serves the producer's entry, which a founder
\* that hit the cache has none of: nobody is ever parked with such a founder.
NullNeverServed ==
    \A r \in Requests : parked[r] # {} => ProducerEntry(r) # Nil

\* A founder that hits the cache serves its own stream on a thread that may lead
\* other groups; it would spin there if the entry were still being written.
HitIsComplete ==
    \A r \in Requests : pc[r] \in {"query", "readHit"} /\ cache[key[r]] # Nil
                            => cache[key[r]] \in complete

\* The group a stream belongs to: a founder that attends to others borrows their
\* response_wrapper_rc_ptr_.
GroupJoined(q) == IF Founder(q) THEN q ELSE wrapper[q]

\* A stream is served at most once, with the response its group shares, and that
\* is a response for the stream's own key, even when a founder of another key
\* attends to it.
AnsweredByOwnGroup ==
    \A q \in Requests :
        delivered[q] # <<>> =>
            /\ delivered[q] = <<shared[GroupJoined(q)]>>
            /\ key[shared[GroupJoined(q)]] = key[q]

\* A group whose founder goes on to serve it, and to attend to others.
Attends(g) == Leads(g) /\ pc[g] # "destroyed"

\* g will come to the parked stream q before its thread lets go of g.
Keeps(g, q) ==
    \/ q \in parked[g] /\ Attends(g) /\ pc[g] # "disown"
    \/ q \in others[g] /\ (Attends(g) \/ pc[g] \in Blocked \union {"attend"})
    \/ callbacks[g] = q /\ pc[g] \in Blocked

\* q is in a list of a founder that was reset: nobody comes to it any more.
Strands(g, q) == pc[g] = "destroyed" /\ q \in parked[g] \union others[g]

\* No list but g's has the stream q.
InNoOther(g, q) == \A h \in Requests : Keeps(h, q) \/ Strands(h, q) => h = g

\* A stream whose callbacks are parked is in exactly one list, and some group has
\* still to come to that list, whatever was spliced or attended meanwhile; a founder
\* that is reset breaks it.
NoParkedLost ==
    \A q \in Requests :
        pc[q] = "parked" => \E g \in Requests : Keeps(g, q) /\ InNoOther(g, q)

\* With resets: a parked stream is in exactly one list, and either some group has
\* still to come to that list, or it is the list of a founder that was reset.  No
\* other stream is lost, whatever was spliced, attended or timed out meanwhile.
LostOnlyToResets ==
    \A q \in Requests :
        pc[q] = "parked" => \E g \in Requests :
            (Keeps(g, q) \/ Strands(g, q)) /\ InNoOther(g, q)

\* README.md:22, "notify all waiting requests to stream the response": when the
\* group that a parked stream waits for has its response, complete, some founder has
\* still to serve the stream, on whichever list its thread has put it.
CompleteReachesParked ==
    \A q \in Requests :
        pc[q] = "parked" /\ shared[wrapper[q]] \in complete
            => \E g \in Requests : Keeps(g, q)

\* Envoy binds a stream to one worker: only that thread may use its callbacks,
\* and the lists of callbacks are read and written by it alone, without a lock.
CallbacksOnOwnThread ==
    \A g, q \in Requests :
        q \in parked[g] \union others[g] \union {callbacks[g]} => thread[q] = thread[g]

\* When no callback runs and no fetch is under way, coalesced_requests_ has null
\* pointers and leader_threads_for_rc_ nothing, and nobody is parked, but for the
\* groups whose founder was reset: these keep their key, their thread and the
\* streams parked with them for good.
Quiet == \A r \in Requests : pc[r] \in {"new", "parked", "done", "dropped", "destroyed"}

CleanWhenQuiet ==
    Quiet =>
        /\ \A k \in Keys : coalesced_requests[k] # Nil =>
                               pc[coalesced_requests[k]] = "destroyed"
        /\ \A t \in leader_threads : led[t] # {}
        /\ \A t \in Threads : \A g \in led[t] : Founder(g) /\ pc[g] = "destroyed"
        /\ \A q \in Requests : pc[q] = "parked" =>
               \E g \in led[thread[q]] : q \in parked[g] \union others[g]

\* http_cache_rc_filter.cc:253, "Serve response to all requests processed by this
\* thread": the callbacks a founder is about to serve, or to attend to, are those
\* of streams that Envoy has not destroyed.
CallbacksAlive ==
    \A r, q \in Requests :
        \/ pc[r] = "serveParked" /\ q \in parked[r]
        \/ pc[r] = "attend" /\ led[thread[r]] = {} /\ q \in others[r]
        => pc[q] # "destroyed"

\* A group leaves the map only once the entry it shares is complete: until then
\* the next stream for the key must find the group, not the cache.
GroupOutlivesFetch ==
    [][\A k \in Keys :
          coalesced_requests[k] # Nil /\ coalesced_requests'[k] # coalesced_requests[k]
              => shared[coalesced_requests[k]] \in complete]_vars

\* README.md:22, "notify all waiting requests": whatever thread a stream arrives
\* on and whatever its status in the group, it is served in the end, unless a wait
\* for it passes COND_VAR_TIMEOUT; a stream that is reset breaks it.
EveryRequestConcluded ==
    \A r \in Requests : pc[r] # "new" ~> delivered[r] # <<>> \/ pc[r] = "dropped"

\* A worker thread always comes back to its event loop, even where no wait ever
\* times out; a stream that is reset breaks it.
WorkerReturns ==
    \A t \in Threads : running[t] # Nil ~> running[t] = Nil

\* cache_entry.cc:164, "Loop that ends with the block counter being equal to the
\* desired number of blocks": a thread that serves an entry comes to its end.
ServeLoopEnds ==
    \A r \in Requests : pc[r] = "read" ~> pc[r] # "read"

----------------------------------------------------------------------------
(* The abstract specification                                               *)

SF == INSTANCE SingleFlight WITH
          asked    <- key,
          group    <- [q \in Requests |-> GroupJoined(q)],
          flight   <- coalesced_requests,
          response <- shared,
          landed   <- complete,
          answers  <- delivered

\* Coalescing as its clients see it: see SingleFlight.
SingleFlightSpec == SF!Spec

==============================================================================
