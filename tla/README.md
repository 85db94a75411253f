# Verification of the HTTP cache filter with request coalescing

TLA+ modules, TLC runs and TLAPS proofs for the Envoy filter in `src/`: an HTTP
cache in memory (`HTTPLRURAMCache`), cache entries that are written and read at
the same time (`CacheEntryProducer`, `CacheEntryConsumer`, `RingBufferQueue`),
and a filter (`HttpCacheRCFilter`) that lets only the first of several equal
requests go to the origin and serves the others from its response.

`PROJECT.json` lists, for tools: the components, the TLC runs, one mutant of
the code for every property, the lines of `src/` behind every definition, the
findings, the hazards and the theorems. This file explains them.

## 1. The system

| Component | State | Operations |
|---|---|---|
| Filter `HttpCacheRCFilter` (`http_cache_rc_filter.{h,cc}`) | per stream: key, thread, `response_wrapper_rc_ptr_`, `decoder_callbacks_`, `entry_cached_`; per group: leader thread, list of parked streams, list of parked streams of other groups, shared entry, condition variable; static: `cache_`, `mtx_rc_`, `coalesced_requests_`, `shared_mtx_threads_map_`, `leader_threads_for_rc_` | `decodeHeaders`, `encodeHeaders/Data/Trailers/Complete`, `onDestroy` (empty) and their helpers |
| LRU cache `HTTPLRURAMCache` (`http_lru_ram_cache.{h,cc}`) | `capacity_`, `cache_map_`, `LRU_list_`, one `shared_mutex` | `initCacheCapacity`, `at`, `insert` |
| Cache entry (`cache_entry.{h,cc}`) | three lists of buffers, two block counts; in the producer the current count, an offset and flags; in the consumer a parser and three positions; static: the array of ones and the flag that it is filled | `writeHeaders/Data/Trailers`, `headersWriteComplete`, `dataWriteComplete`, `writeComplete`; the consumer's constructor, `serveCachedResponse` |
| Ring buffer `RingBufferQueue` (`ring_buffer.{h,cc}`) | a block counter; per block a version, a size, 64 bytes | `write`, `read` |
| Configuration, factory (`http_cache_rc_config*`, `http_cache_rc.proto`) | two capacities in each configuration, immutable | validation, `createFilter`, the filter's constructor |

**Interaction.** Envoy runs the callbacks of a stream on one worker thread, the
stream's own; there are several workers. The filter objects of all streams share
the static members. `decodeHeaders` looks the key up in `coalesced_requests_`
under `mtx_rc_` and gives the stream one of four roles:

* `INITIAL_LEADER`: it founds the key's group, asks the cache, and on a miss lets
  Envoy go upstream. With the origin's first headers it inserts its entry into the
  cache and publishes it to its group, then writes the response into it; at the end
  it takes the group out of the map and serves the streams parked with it.
* `WAITING`: its thread leads nothing, so it sleeps on the group's condition
  variable (with a timeout), then reads the entry and spins on block counters for
  what is not written yet.
* `LEADER`: its own thread leads the group and must not sleep; the stream is parked
  with the group.
* `OTHER_GROUP_LEADER`: its own thread leads another group and must not sleep; the
  stream is parked with one of those. When that group is over, the list is spliced
  to another group of the thread, or, if there is none, attended to: now the thread
  may sleep.

**What is hard.** Threads that block each other through condition variables and
busy-waits; lists that move between founders; pointers to streams that Envoy may
destroy; state found under a shared lock and used under a unique one; lock-free
blocks; block counts that are known only at the end; a framing whose delimiters are
also possible contents; statics that the first object sets up for all; timeouts and resets.
Section 7 lists what came out.

**What makes each component correct.**

* Filter: one fetch a key at a time; no thread sleeps for another while it leads;
  every stream is served once, from its own group, on its own thread; nothing is
  left behind; every stream is served in the end.
* LRU cache: to its callers an LRU cache with atomic operations; map and list agree; the size is bounded;
  no iterator or reference dangles.
* Cache entry: what a consumer sends is what the origin sent, in order, whole, with
  `end_stream` where it was; the counts are those of the blocks; serving ends.
* Ring buffer: an append-only log; no byte is copied out while it is copied in.

## 2. The modules

    SingleFlight        LRU        BlockLog     LiveEntry   abstract specifications
         ^               ^            ^             ^
    RequestCoalescing  LRUCache   RingBuffer    CacheEntry  one action per atomic step
         |               |            |             |
         |    cache      |            |   a buffer  |
         +---------------+            +-- is a log -+
         |  one founder a key (OneFetchPerKey)      |
         +------- an entry is complete or not ------+

| Module | Models | Kind |
|---|---|---|
| `SingleFlight` | what coalescing promises its clients | abstract |
| `RequestCoalescing` | `http_cache_rc_filter.*` | detailed, refines `SingleFlight` |
| `RequestCoalescingProofs` | | proofs: who fetches, who leads, who waits |
| `RequestServingProofs` | | proofs: lists, answers, the refinement, whom threads wait for |
| `LRU` | an LRU cache whose lookups, puts and trims are atomic | abstract |
| `LRUCache` | `http_lru_ram_cache.*`, configuration and factory | detailed, refines `LRU` |
| `LRUCacheProofs` | | proofs: types, configuration, map and list, size |
| `LRUCacheRefinement` | | proofs: the refinement |
| `BlockLog` | an append-only log of whole messages | abstract |
| `RingBuffer` | `ring_buffer.*` | detailed, refines `BlockLog` |
| `RingBufferProofs` | | proofs |
| `LiveEntry` | a response that is followed while it is made | abstract |
| `CacheEntry` | `cache_entry.*` | detailed, refines `LiveEntry` |
| `CacheEntryProofs` | | proofs: types, positions, counts |
| `CacheEntryFraming` | | proofs: one block, written and parsed |
| `CacheEntryRefinement` | | proofs: the refinement, nobody is stuck |
| `MC...` | | small instances for TLC |

The components are composed by assume and guarantee rather than in one state space:

* `RingBuffer` implements `BlockLog` (proved), so `CacheEntry` writes and reads a
  block in one step: a buffer is a sequence of blocks to which blocks are appended.
* `CacheEntry` shows (`LiveEntrySpec`, which is proved, and `ServeReturns`) that serving ends,
  with the whole response, once the producer has run `writeComplete()`, and not before. So `RequestCoalescing`
  keeps of an entry only whether it is in `complete`, and its action `Serve` waits
  for that.
* `RequestCoalescing` shows that one stream at a time fetches a key (proved). So in
  `LRUCache` operations on one key never overlap: the guard `Quiet(k)` of `Begin`.
* `RequestCoalescing` evicts any entry but the new one, a superset of what the LRU
  cache does.

## 3. How the models correspond to the code

An action is one critical section, one atomic access, or one stretch of code between
two points where another thread can tell the difference. The comment above an action
names the code; `PROJECT.json` gives the lines.

### RequestCoalescing

A stream, its filter object and its decoder callbacks are one element of `Requests`;
a group is named by the stream that created it, an entry by the stream whose producer
writes it. `pc[r]` is where r is in the callbacks; `running[t]` is the stream whose
callback thread t executes, so a thread runs one callback at a time and a callback
that blocks keeps its thread.

| Code | Actions |
|---|---|
| `getThreadStatus`, `isLeaderOfOtherRCGroup` | `FoundGroup`, `Enlist`, `JoinGroup`, then `ParkWithOwnGroup`, `ParkWithOtherGroup` or `StartWaiting` |
| `decodeHeaders`, the cache | `CacheHit`, `NotifyHit`, `ServeHit`; `CacheMiss` |
| `encodeHeaders`, `encodeData`, `encodeTrailers`, `encodeComplete` | `OriginHeaders`, `Insert`, `NotifyMiss`, `OriginEnd`, `Finish` |
| `detachCurrentRCGroup`, `serveResponseToCurrentRCGroup` | `Detach`, `ServeParked` |
| `attendToOtherRCGroups`, `releaseLeaderThreadIfPossible` | `Disown`, `Splice`, `AttendNext`, `AttendedAll`, `Release` |
| `waitOnCondVar`, `waitForResponseAndServe` | `Wake`, `Timeout`, `LateRead`, `Drop`, `Serve` |
| `onDestroy` (empty), Envoy resetting a stream | `Disconnect` |

`leader_threads_for_rc_` has two parts: `leader_threads`, the keys of the outer map,
and `led[t]`, the groups in the inner map of t. `unordered_map::begin()` is any of
them. Where the code would use a destroyed stream's callbacks or a null entry it is
undefined behaviour, and the model has no step.

The key string, the status code and the log are abstracted: a key is a model value, a
status is successful or not. A status that is no number makes `encodeHeaders` stop
without a word; Envoy's codecs never deliver one, so it is not modelled.

### LRUCache

A node of the list, an iterator of the map and a reference into a node are all named
by their key. `stale` holds the threads whose iterator or reference has been freed by
somebody else between their shared and their unique lock; what such a thread does is
undefined and it takes no step.

| Code | Actions |
|---|---|
| `downcastAndValidate`, `createFilter` | `CreateFilterFactory` |
| the filter's constructor, `initCacheCapacity` | `ConstructFirst`, `ConstructLater`; `InitCacheCapacity` |
| `at` | `AtMiss`, `AtFront`; `AtFind`, `Promote` |
| `insert` | `InsertFind`, `Overwrite`, `Put`, `CheckFits`; `CheckFull`, `Evict` |

`factories` has the capacities of the configurations that passed validation. Any number of
listeners may have one, and their filters share the one static cache, whose capacity the
first constructor sets: between its test (`http_cache_rc_filter.cc:12`) and
`initCacheCapacity`, which tests again, another thread may set it.

### RingBuffer

One action per access: `Reserve` (the counter; the single producer makes load and add
one step), `LoadVersion`, `StoreSize`, `CopyIn`, `PublishVersion`; `BeginRead`,
`LoadSize`, `CopyOut`, `MarkRead`. Versions wrap around at `Modulus`. The accesses are
ordered by acquire and release, so that interleaving single accesses covers what the
build can do.

### CacheEntry

What a write call has to write is a list of strings and delimiters (`CallItems`). They go
into blocks as in the code, one block a step (`WriteBlock`): `FullBlock`, `OffsetAfter` and
`Remainder` are the branches of `writeToBlock()`, `first_write` and `data_offset` what
`writeStringToBuffer()` keeps between its calls; a new buffer comes first where the last one
is full (`EmplaceBuffer`). The producer's other actions are the filter's callbacks; they
include the flags `is_first_data_` and `is_first_trailers_` of the filter.

A consumer waits for a buffer (`GetBuffer`), reads and parses a block (`ReadBlock`), and
leaves a section when it has read its count (`LeaveSection`); `ServeCachedResponse` starts the
next stream with the same consumer, as a founder does for its parked streams. A byte is `One`
(0xFF), `Zero` or another value.

The static array of ones starts as `Zeros`. The constructor of a consumer sets the flag first
and fills the array afterwards (`Construct`, `FillOnes`). The test and the store of the flag
are one step: two constructors that both find it unset fill the array with the same bytes, and
neither goes on before it has. An array that is filled in part is, to a comparison with a
delimiter, an array of zeros. `FounderThere`: the filter that creates an entry is constructed,
its consumer with it, before there is anything to write or to serve.

## 4. The runs

| Run | Instance | Shows |
|---|---|---|
| `rc_safety` | 2 threads, 3 keys, 5 streams, capacity 1 | all safety properties of the filter, its refinement of `SingleFlight`, no deadlock |
| `rc_resets` | 2 threads, 3 keys, 4 streams, resets and timeouts | what survives them: one fetch, no circular wait and no chain of waits, complete hits, own answers, no parked stream lost but in the list of a founder that was reset, `SingleFlight` |
| `rc_live` | 2 threads, 2 keys, 3 streams, timeouts | every stream is served unless its wait timed out, every thread returns |
| `rc_reset_dangles` | 2 streams, resets and timeouts | finding: destroyed callbacks are used |
| `rc_reset_spins` | 2 streams, resets and timeouts, every wait ends | finding: a thread spins for ever |
| `rc_reset_strands` | 2 threads, 2 keys, 3 streams, resets and timeouts | finding: nobody serves a parked stream, although its group has its response |
| `lru` | 2 threads, 3 keys, configurations with 0-2 | an LRU cache, evictions and overlapping operations included; map and list agree, size bounded, configured before use; all up to the first undefined step |
| `lru_race` | 2 threads, 3 keys, capacity 2 | finding: a reference dangles |
| `ring` | 2 readers, 3 blocks, versions modulo 4 | `BlockLog`, no racy copy, readable exactly when published |
| `entry` | 63 responses, buffers of 1-3 blocks | `LiveEntry`, offsets, counts, positions, nobody is stuck, termination |
| `entry_no_data` | trailers without data | finding: consumers spin |
| `entry_ones_race` | 2 consumers, headers only | finding: the end of a response is missed |

The bounds are chosen for what has to happen in them:

* Five streams and three keys: with two threads, one thread can lead two groups while
  a stream of the third key is parked with one of them, its list is spliced to the
  other, which has a list already, and then attended to. The mutant that loses a list
  in `Splice` needs exactly this. Capacity 1 makes every second insertion evict.
* `rc_safety` has neither timeouts nor resets, so that five streams are within reach.
  `rc_resets` has both, and the same properties but for the types and those that concern a
  founder alone; the proofs of section 5 have them with resets and timeouts, for any number.
  A reset loses streams that are parked with the founder, so `NoParkedLost` becomes `LostOnlyToResets`.
  `WaitedForAtWork` is a matter of both, so it is checked there.
* `rc_live`: three streams on two keys are a founder, one that waits for it and one parked
  with it or with another group of its thread; the wait may time out, and the founder
  that attends to a parked stream may find itself timed out, too. Three streams do not reach
  `Splice`, which takes two groups of one thread and a stream parked with the one that is over
  first, and four streams are out of reach for liveness (more than 20 million states). That a
  splice loses nobody rests on `NoParkedLost` and `LostOnlyToResets`, on the runs
  that check them with four and five streams, and on their theorems.
* `rc_reset_strands`: a founder that is reset, a stream of the other key that is parked with it,
  and the founder of that stream's group.
* Keys only differ, so symmetry is sound; no run with a liveness property uses it.
* Two threads in the cache: whatever goes wrong in a gap between two critical sections is
  between one thread that holds an iterator or a reference and one that frees it.
* `lru` leaves operations overlap as they like, with room for one key or for two of the three, so
  that insertions evict in each other's gaps. What it says is said up to the first use of a dangling
  reference: a thread that is in `stale` takes no step, the others go on. `LRU` allows
  what the code's critical sections make unavoidable and no more: an insertion puts its
  node in one step and owes the cache a trim, which comes later; a trim counts the keys whose
  node an insertion has withdrawn and not yet put back, because insertions that found
  the cache full are not told when another one withdraws a node.
* Capacity 0 is in the sets of the cache so that validation has something to refuse.
* A version modulo 4 wraps after two reads instead of 2^31; `RingBufferProofs` has it
  for every even modulus.
* Blocks of two bytes: strings of 0 to 3 bytes have no block, part of one, exactly one
  and more than one; contents of two `One` bytes look like a delimiter. Consumers only
  read the entry and, but for the array of ones, share nothing with each other, so one is enough
  in `entry`; it starts and restarts at any moment, so it follows the producer and comes late.
  `entry_ones_race` has the two that the race takes.
  `MaxCount` stands for UINT32_MAX and is larger than every count.

`CHECK_DEADLOCK FALSE` is said where the system may stop: after a reset (`rc_resets`,
`rc_reset_dangles`, `rc_reset_spins`, `rc_reset_strands`) or an undefined step (`lru`), and where
the producer is done and the consumers spin (`entry_no_data`, `entry_ones_race`). Elsewhere
deadlock is checked; `Terminated` in `RequestCoalescing` stands for the end in which every
stream has run its course.

**Fairness.** `RequestCoalescing`: weak fairness of `ThreadStep(r)`, because a thread that
is not blocked is scheduled, and of `OriginStep(r)`, because the origin answers or Envoy
sends a local reply in its place. None of it makes a client send a request, a wait time out
or a stream be reset. The code's `wait_for` (`http_cache_rc_filter.cc:227`) always returns;
`rc_live` passes without relying on it, and so shows that the notification alone wakes every
sleeper. Where a founder may be reset it does not, so `rc_reset_spins`
takes `TimedSpec`, which adds weak fairness of `Timeout(r)`, and `ServeLoopEnds`, which is about
the spin alone: what it refutes is no sleep that the timeout would end. Weak fairness is enough for `Wake` and `Serve`: a response that is
shared stays shared and an entry that is complete stays complete. `CacheEntry`: weak
fairness of the producer (the origin goes on) and of each consumer that has begun.
`LRUCache` and `RingBuffer` have safety properties only; their operations do not wait.

## 5. What is proved

TLAPS checks the following for every value of the constants that satisfies the named
assumption of the module.

**RequestCoalescingProofs**, with resets and timeouts, for any number of threads, streams
and keys, from `ConstantsAssumption`: `TypeCorrect`, `OneFetch` (OneFetchPerKey),
`NoCircularWait` (BlockedLeadsNothing), `LeaderMapSafe`, `NullNever`, `HitComplete`.
None of these is inductive. `IInv` joins seven parts:

* `TypeOK`; `IPlace`, what the control point of a stream says of its fields (which points
  only a founder reaches, that whom a founder attends to is no founder);
* `IMap`, the groups in `coalesced_requests_` are exactly those whose founder is between
  `FoundGroup` and `Detach`, or was destroyed there. `OneFetchPerKey` follows, because two
  streams that fetch one key would both be the group of that key;
* `IRun`, a thread runs one callback at a time, of a stream bound to it. It is needed for
  everything that is only safe because nothing else runs on that thread;
* `ILed`, a thread is in `leader_threads_for_rc_` exactly if it leads a group or is about
  to give up its place; a blocked thread leads none;
* `IJoin`, a joiner whose own thread leads its group finds that group still open and waiting
  for the origin, hence with a producer's entry;
* `ICache`, what the cache has for a key was fetched for it and is complete, or its fetcher's
  group is still in the map. `HitIsComplete` follows with `IMap`.

One lemma per part shows that each action preserves it (`TypeStep`, `PlaceStep`, `MapStep`,
`RunStep`, `LedStep`, `JoinStep`, `CacheStep`).

**RequestServingProofs**, also with resets and timeouts: `OwnThread` (CallbacksOnOwnThread),
`NoneLost` (LostOnlyToResets), `NothingLeft` (CleanWhenQuiet), `OwnGroupAnswers`
(AnsweredByOwnGroup), `GroupOutlives` (GroupOutlivesFetch), `SingleFlightImplemented`
(SingleFlightSpec) and `NoChains` (WaitedForAtWork); with `Disconnects = {}`,
`NoneLostWithoutResets` (NoParkedLost). `IInv` says nothing of the lists of parked streams nor of answers; two
more invariants do.

* `ParkedInv`. `IGroups`: a thread is listed with every group it leads, one a key. `IJoined`:
  whom a stream joins is a founder of its key. `ILists`: a stream is in the list its role
  says, on its own thread, and in one list at most. `IAttended`: a founder that borrows the
  callbacks of a parked stream borrows its group, too, and has taken it off every list.
  `IParked`: somebody is `Expected` for a parked stream. The hard step is `Splice`: the
  target has to be a group that has still to come to its own list, which follows from `led`
  being exact, and from the lists of two groups of one thread being disjoint. `IParked` counts
  a founder that was reset among those who are expected: `LostOnlyToResets` says so (`Strands`),
  and without resets there is none, which gives `NoParkedLost`.
* `ServedInv`. `IEntry` and `IShared`: what a founder has in hand and what its group shares at
  each control point, `Early` before the group has a response and `Late` after it is complete.
  `IComplete`: a complete entry is a founder's that is through with it. `IWaited`: a thread
  that reads an entry reads what the group it waited for shares. `IDelivered`: whoever has been
  answered was answered once, by its group, and has run its course, so nobody is answered twice.
* For the refinement, `INew`: a stream that has not arrived asks for nothing. `FoundGroup` and
  `JoinGroup` are an `Ask` (`AskStep`), `NotifyHit` and `NotifyMiss` a `Settle`, `Finish` a
  `Land`, `Detach` a `Close`, and `ServeHit`, `ServeParked` and `Serve` an `Answer`
  (`AnswerStep`); every other step is a stutter (`ImplementsStep`).

* `NoChains` is the safety half of the two liveness properties: a thread that sleeps for a
  response, or spins for the end of an entry, does so for a founder that has still to answer or
  to complete the entry, and whose thread is itself neither asleep nor spinning; only a reset
  keeps that founder from it. `ServedInv` says where the founder can be, given that nothing
  is shared yet or that the entry is not complete, `IReset` adds that a founder that was reset
  shares its own entry or nothing, and its thread is awake because a blocked thread leads
  nothing (`ILed`) while `led` has every group that is led (`IGroups`).
* `AllSettled`: with `Disconnects = {}`, `NothingLeft` has no exception. Nothing is left of any
  group, timeouts or not, so resets are the only source of what `CleanWhenQuiet` allows.

Steps are grouped by what they leave alone (`FounderFrame`, `WaitFrame`, `ConcludeFrame`,
`JoinFrame`, `DataFrame`), so that each conjunct is proved for a handful of cases.

**LRUCacheProofs**, about every behaviour from `CacheAssumption`: `TypeCorrect`,
`ConfiguredFirst` (ConfiguredBeforeUse), `MapAndList` (MapAndListAgree) and `Bounded`
(SizeBound). `IInv` adds to these that operations on one key exclude each other
(`Exclusive`), that the nodes of the list have different keys, which are those of the map
(`Listed`), and what a thread carries from one critical section to the next, as long as it is
not stale (`Holding`). `SizeBound` is inductive only because it counts the insertions that have
still to look at the capacity along with those that have decided to evict.

**LRUCacheRefinement**, about every behaviour, too: `LRUImplemented` (AtomicLRU). The step that
needs an argument is `Evict`: between `CheckFull` and `Evict` others may take nodes out, and
the node that goes must still be the last one and one too many. `Prepared` adds two facts to `IInv`
about a thread that is not stale. `Crowded`: who is to evict does so from a cache that is over
its capacity, if the keys are counted that insertions have withdrawn and not put back
(`Pending`). An overwrite takes a node out and counts as pending from then on, and an eviction by
somebody else frees the last node, so that whoever else was to evict it is stale; without
`Pending` the invariant is false and so is the refinement. `Current`: who is to promote
has a node of the list. That the node evicted is the last one is in `Holding`. Where
somebody is stale nothing is claimed of what that thread does next, since it does nothing; what
`lru_race` finds is that threads get there.

**RingBufferProofs**, from `RingAssumption`: `TypeCorrect` (no block past the capacity),
`ReadableExactly` (PublishedReadable), `CopiesDisjoint` (NoRacyCopy) and `LogImplemented`, the
refinement of `BlockLog`. `IInv` adds to the type that an unpublished block has version 0,
that a published one has an odd version and a message for its contents, that the producer has
in place what it has stored so far, and that a reader is at a published block, with an odd
version in hand. That a mark keeps a version odd through an overflow is the lemma
`MarkedOdd`.

**CacheEntryProofs**, from `EntryAssumption`, for any responses, number of consumers, sizes of
blocks and of buffers: `TypeCorrect`, `OffsetSafe` (OffsetInString), `NeverAhead`
(ReadersBehind), and `CountsAreExact` (CountsExact). The invariant `EntryInv` adds that the
length of a key is within the text it is in (`KeyInText`) and that all buffers of a section but
the last are full (`Filled`), so that a position in a list of buffers is a number of blocks.
`CountsAreExact` assumes `DataFirst`, that a response with trailers has data, which is what
`entry_no_data` shows to be needed. Its invariant `Counting` has one conjunct per section: what
the current count is the count of while that section is written.

**CacheEntryFraming** and **CacheEntryRefinement**, from `EntryAssumption`, for any responses,
sizes, capacities and number of consumers: `EntryStreams` (LiveEntrySpec), the cache entry is a
`LiveEntry`, and `NobodyStuck` (NeverStuck), nobody spins on a buffer, a block or a count that
never comes once the producer is through. They have four hypotheses, each of them the
counterpart of something the code relies on:

* `DataFirst`, as above: `entry_no_data` refutes it without.
* `NamesAreTokens`: names of headers and trailers are not empty and have no 0xFF in them. The
  parser tells a key from a delimiter by that ("parser is expecting non-empty keys",
  `cache_entry.cc:245`), and HTTP field names are tokens. Values and data are any strings,
  blocks of 0xFF included.
* `OnesFirst`: the array of ones is there before a stream is served. `entry_ones_race` refutes
  it without. `EntryStreamsLater` has the same conclusions without it for an array that was
  filled when the entry was created, which is every entry but those of the first moments of a
  process, and `FounderStreams` for the only consumer of an entry, whatever became of the array
  before (`OnesByFounder`: its own constructor fills it in time).
* `Bounded`: no section has UINT32_MAX blocks, the number that stands for "not known yet".

That a parser undoes a framing sounds like induction over strings, which the prover cannot do.
It is not needed, because the program takes a block a step, and the induction is that of the
behaviour. A **mark** is a point in the response as it is framed: how many calls are complete,
which string or delimiter of the next one is due, how many of its bytes are behind.
`CacheEntryFraming` is about one block at one mark: a producer that is at a mark writes
`BlockAt` it and gets to its `Succ` (`WriteAt`), and a parser that keeps what it should at a
mark (`Keeps`), and is given that block, keeps what it should at the next one, and makes the
call of the origin exactly when the block is a delimiter (`ParseAt`, from `ParseDataAt`,
`ParseKeyAt`, `ParseValueAt` and `ParseStopAt`).

`CacheEntryRefinement` puts them together. `FrameInv` says that there are marks, one for each
position of each section, so that a block that is written is the one due at the mark of its
position and leads to the next position's (`Placed`); the producer is at the last mark of its
section (`AtWork`), the sections before are over and those after are empty (`Apart`); each
consumer has made the calls before the mark of its position and its parser keeps what it should
there (`Reading`). With them go that the calls left to the producer are the last of the origin's
(`Remaining`), and that a response that ends in a section leaves its count there (`Ended`).
Marks are not state: a step that writes a block extends the witness by one position, every other
step keeps it. There is one lemma for each kind of step (`MakeMarked`, `EmplaceMarked`, `WriteMarked`,
`CompleteMarked`; `QuietMarked`, `ServeMarked`, `ReadMarked`, `LeaveMarked`), and `ProducerFrame` and
`ConsumerFrame` say besides what the step is to `LiveEntry`.

**Only model-checked**: all liveness, `EveryRequestConcluded`, `WorkerReturns` and
`ServeReturns`. Liveness under fairness and ENABLED are beyond the prover. Their safety halves are
proved: `NoChains` and `NobodyStuck`. What the findings refute is, of course, not proved.

## 6. What is not modelled

* The key string: that two different requests can have the same concatenation of headers
  is a matter of strings, not of states.
* A torn read of `shared_response_entry_ptr_` after a timeout: both defined outcomes are
  modelled, the data race is listed as a hazard.
* The null pointers that stay in `coalesced_requests_` (a key that has no group and one with a
  null group are the same to the code).
* `Buffer::Instance` and Envoy's filter manager: `encodeData` is taken to drain what it is
  given, callbacks to come in HTTP order, for one stream on one thread. A status that is no
  number makes `encodeHeaders` stop; Envoy's codecs deliver none.
* `decodeData` and `decodeTrailers`: the filter has those of its base class, which return
  `Continue`. For a request with a body, Envoy would resume on them a stream that is parked,
  waiting or being served and let it go upstream as well. The models have requests that end with their
  headers.
* The overwriting branch of `insert()` is modelled, because the cache offers it, but the filter
  does not reach it: a founder inserts after a miss, and holds its key's group until then.
* Steps whose behaviour C++ leaves undefined: where an earlier action makes one possible, the
  model has no step, and a run says so (`rc_reset_dangles`, `lru_race`).
* The getters of the configuration, the registration of the factory, logging.
* Tests, scripts and build files.

## 7. Findings

* **A reset stream is served all the same** (`rc_reset_dangles`). `onDestroy()` is empty
  (`http_cache_rc_filter.h:64`), so a stream that is reset while it is parked stays in its
  founder's list, and the loops at `http_cache_rc_filter.cc:258` and `:287` make calls on callbacks
  that are destroyed.
* **A reset founder takes its followers' threads with it** (`rc_reset_spins`). The group stays in
  the map, `writeComplete()` never runs, and a follower that has read the shared entry spins in
  `serveCachedResponse()` for good, with its worker thread. (A follower that still sleeps is
  released by the timeout; the run assumes that it is.)
* **A reset founder strands streams of other groups** (`rc_reset_strands`). It stays in
  `leader_threads_for_rc_` (`onDestroy()` again), so `isLeaderOfOtherRCGroup()`
  (`http_cache_rc_filter.cc:203`) parks streams of other keys with its group. That group is never
  over, and nobody comes to its list: such a stream is not served, although the group it waits for
  has its whole response.
* **References into the LRU list dangle** (`lru_race`). `insert()` drops the shared lock with a
  reference to the key of the last node, which a promotion, an overwrite or another eviction
  frees before `erase()` reads it; `at()` drops it with an iterator that an eviction frees.
* **Trailers without data** (`entry_no_data`). The first call of `headersWriteComplete()` is in
  `encodeData()`. Without data, `writeComplete()` takes the branch for a response of headers
  only, and stores a number of header blocks that the header buffers never reach.
* **The array of ones is announced before it is filled** (`entry_ones_race`). A consumer that is
  constructed between the two statements of `cache_entry.cc:134-136` compares delimiters with
  zeros, takes the end of the response for contents, and spins.

Also seen, and stated in the models as the code has it:

* A wait that passes `COND_VAR_TIMEOUT` logs an error and leaves the stream as it is: nobody
  answers it any more (`Drop`, the `dropped` of `EveryRequestConcluded`).
* What a reset leaves in the static maps is the reset founder's own group and nothing else
  (`CleanWhenQuiet`).
* A stream served trailers gets a second `encodeTrailers()` for the block that ends them
  (`Streamed`).

## 8. Plan

Done: the components of section 1 that run, their abstract specifications, and the proofs of
section 5, which have every safety property, every action property and every refinement of the
passing runs.

Left, in this order:

1. `RequestCoalescing`: the null pointers left in `coalesced_requests_`, with a property that bounds
   the map, should `detachCurrentRCGroup()` come to erase its key.
2. `RequestCoalescing`: what `onDestroy()` would have to do for `CallbacksAlive`,
   `CompleteReachesParked` and `ServeLoopEnds` to hold with resets, as a variant of `Disconnect`.
3. `Bounded` from a bound on the sizes of a response, in place of the hypothesis.
