# Verification of the SynchroTraceGen backend of Sigil2

This directory holds TLA+ models of the SynchroTraceGen backend of Sigil2, together with TLC
configurations that model-check them and TLAPS proofs about them.

SynchroTraceGen turns the stream of primitives of an instrumented program into per-thread
SynchroTrace event traces. The primitives are compute, memory, sync and context events,
delivered in one global order by the Sigil2 `EventManager`.

## The system and how its parts interact

- **EventManager** (`src/src/Sigil2/EventManager.cpp`) buffers primitives. `bufferEvent()`
  stores each one in `ev_buf[used]`, together with its notify function and a pointer to the
  live observer list of its kind. `flushEvents()` calls the notify function of each entry in
  order, which calls every observer in that list, and then sets `used = 0`. `finish()` flushes
  the buffer and then runs the cleanup observers. The backend registers its handlers with
  `addObserver()` and its teardown with `addCleanup()`.
- **EventHandlers**, the dispatcher (`src/unnamed/part_001`, lines 393-729), keeps:
  - a cursor (`currentTID`, `cachedTCxt`);
  - one `ThreadContext` per thread (`tcxts`);
  - the global pthread summary: `newThreadsInOrder`, `threadSpawns`, `barrierParticipants`.

  A `SWAP` sync primitive moves the cursor to another thread and flushes the outgoing thread's
  aggregators. Every other primitive goes to the current thread's context. `CREATE` and
  `BARRIER` also update the summary, which `onExit` writes.
- **ThreadContext** (lines 730-965) holds a compute aggregator (`stComp`), a communication
  aggregator (`stComm`), the EID counter `events` and a logger. The static byte-granular
  shadow memory is shared by all threads.
  - A load is classified byte by byte against the shadow memory. A byte last written by
    another thread, and not read by this thread since, is a communication edge.
  - A store updates the shadow writer and writer-EID and clears the reader set.
  - Aggregates are flushed to the logger when the cap `primsPerStCompEv` is reached, when the
    other kind of event starts, at a sync, at a swap, and in the destructor. Each aggregate
    flush increments the EID counter; an overflow is fatal.
- **AddrSet** (lines 286-392) is the set of address ranges in an aggregate, kept coalesced by a
  recursive `insert()`.
- **CapnLogger** (`src/unnamed/part_000`) encodes each record as a Cap'n Proto orphan. Every
  `eventsPerMessage` events it writes one packed `EventStream` message to a gzip file. The
  destructor writes the last partial batch.

## Modules

| Module | Models | State | Actions |
|---|---|---|---|
| `SynchroTraceGen` | EventHandlers + ThreadContext + shadow memory + aggregators | `writer`, `writerEid`, `readers` (shadow); `tc` (per-thread contexts: aggregators, `events`, instruction count, the records its logger received, overflow flag); `cur`; `threadOrder`, `spawns`, `barriers` (summary); `destroyed`, `phase`, `nprims` | `Swap` (onSwapTCxt), `Sync` (onSyncEv + onCreate/onBarrier + convertAndFlush + onSync), `Iop`, `Flop`, `Read` (onRead), `Write` (onWrite), `Instr` (onInstr), `EndOfInput` (EventManager::finish), `Destroy` (~ThreadContext), `OnExit` |
| `MCSynchroTraceGen` | model values for TLC | | |
| `AddrSet` | `AddrSet::insert`, `clear` | `ms` (the multiset), `pending` (the argument of the running activation) | `Insert`, `Clear`, `InsertFirst`, `Step` (one branch of one activation) |
| `AddrPointSet` | what an AddrSet promises: a set of addresses | `pts` | `PInsert`, `PClear` |
| `CapnLogger` | one thread's CapnLogger | `orphans`, `events`, `written` (messages in the file), `state`; history `logged` | `Flush(ev)` (all four flush overloads and instrMarker), `Close` (destructor) |
| `CapnLoggerStream` | the file as a stream: `Stream == FlattenSeq(written) \o orphans`, and the properties about it | | |
| `EventManager` | `EventManager.cpp`, all of it | `buf` (`ev_buf[0..used-1]`), `i` (the running loop's index), `pc` (which loop runs); `obs` (per kind, the registration point of each observer), `recv` (what each observer was called with), `cleanups` (per cleanup: not run, or how many primitives had been notified when it ran); history `produced`, `delivered` | `AddObserver(k)`, `AddCleanup`, `BufferEvent(k)`, `FlushEvents`, `FlushStep` (one loop iteration, with `Notify`), `FlushDone` (`used = 0`), `Finish`, `CleanupStep`, `CleanupDone` |
| `SynchroTraceGenProofs` | TLAPS proofs about `SynchroTraceGen` | | |
| `EventManagerProofs` | TLAPS proofs about `EventManager` | | |
| `ThreadContextProofs` | TLAPS proofs about the aggregation caps of `SynchroTraceGen` | | |
| `ShadowMemoryProofs` | TLAPS proofs about the communication edges and the logs of `SynchroTraceGen` | | |
| `AddrSetProofs` | TLAPS proofs about `AddrSet` and its refinement of `AddrPointSet` | | |
| `CapnLoggerProofs` | TLAPS proofs about the batching of `CapnLogger` | | |

Each action models a whole handler, with every flush, shadow update and limit check it does.
For example, `Read` does the following in one step:
- the per-byte classification;
- the reader-set update;
- the edge insertion;
- the `commFlushIfActive`/`incReads` or `compFlushIfActive` choice;
- the trailing `checkCompFlushLimit`.

A flush that overflows the EID counter sets the context's `overflow` flag. `SetCtx` then moves
`phase` to `"fatal"`: `fatal()` ends the process, so nothing further happens.

Data is abstracted:
- address ranges are sets of bytes, with the coalescing algorithm checked separately in `AddrSet`;
- a communication event's edge list is the set of <<producer, producer EID, byte>> triples it covers;
- encoder records are records of the fields the encoder writes.

The shadow memory class (`STShadowMemory`) is not under `src/`, so its behaviour comes from its
call sites. When `updateWriter` throws `out_of_range`, the bytes it has already changed are a
nondeterministic choice between none and the prefix before the first unmapped byte.

`AddrSet` unrolls `insert()`'s recursion. `Insert(r)` starts a call. Each `Step` is one
activation: it either finishes the call or erases a range and recurs on the fused range.
Addresses are fixed-width: `Succ` wraps `x + 1` at `AddrMax`, as `Addr` arithmetic does.
`AddrSet` is shown to refine `AddrPointSet` via `INSTANCE AddrPointSet WITH pts <- Covered`, where
`Covered` is the union of the ranges when no call is running. The property is `AbsSpec`.

`EventManager` runs the two loops of `flushEvents()` and `finish()` one iteration per step,
while the frontend is blocked. A buffered primitive is a record of its kind, a serial number
and the observer list (`list`) its entry points to, so that a wrong pointer is visible.
Registration may happen between buffering and flushing: as in the code, the new observer is
then called with primitives buffered before it existed. `SynchroTraceGen` does not instantiate
`EventManager`. There the delivery is the `Consume` step of each handler and `finish()` is
`EndOfInput`, which is sound because `EventManager` shows that delivery is in order and
complete.

The `map` of `PROJECT.json` gives, for every definition that models code, the lines it translates.

## Runs

### Passing runs

| Run | Config | Checks | Bounds |
|---|---|---|---|
| core | `MCSynchroTraceGen.cfg` | `OnlyCurrentThreadAccumulates`, `ForeignReadsRecorded`, `NoDuplicateEdges`, `AggregateEidsContiguous`, `CompressionCap`, `PthreadSummaryConsistent` | 2 threads, 3 bytes (1 unmapped), accesses of 1-2 bytes, BARRIER and CREATE, Cap 2, EidMax 3, 6 primitives; about 2.7 M states |
| core_exit | `MCSynchroTraceGenExit.cfg` | `TypeOK`, `AggregateEidsContiguous`, `AllFlushedEventually` | 2 threads, 2 bytes, EidMax 1 (so the counter overflows), 6 primitives; teardown to the end |
| addrset | `MCAddrSet.cfg` | `TypeOK`, `Coalesced`, `InsertReturns`, `AbsSpec` | addresses 0..5, inserted ranges within 0..4 |
| eventmanager | `MCEventManager.cfg` | `StreamConserved`, `ObserversReceiveInOrder`, `CleanupSeesAll` | 3 primitives of any of the 4 kinds, 1 observer per kind, 1 cleanup; about 760 K states |
| eventmanager_live | `MCEventManagerLive.cfg` | `EventuallyDelivered` | as eventmanager |
| capn | `MCCapnLogger.cfg` | `OrphanCountMatches`, `StreamPreserved`, `LosslessAtClose`, `MessagesBounded` | 2 events per message, 5 records, gzwrite/gzclose failures |

What each passing run shows:
- **core**:
  - only the current thread ever holds unflushed events;
  - every foreign read since the last store has its edge, logged or pending;
  - no edge is reported twice;
  - the aggregate EIDs are 0, 1, 2, ... in order;
  - no compute event exceeds the cap;
  - the pthread summary agrees with the traces.
- **core_exit**:
  - EIDs stay in range when the counter overflows (the run becomes fatal instead);
  - the record logged with the last EID before the overflow is still numbered right, and a
    missed overflow check (a wrapped counter that goes unnoticed) breaks
    `AggregateEidsContiguous`; `core` cannot reach the overflow in 6 primitives;
  - under fairness every aggregate is eventually flushed.
  The pthread summary is checked on `core` only: after an overflow the run is fatal, and
  before it `core_exit`'s barrier and spawn behaviours are among `core`'s.
- **addrset**: with inputs below the largest address, `insert()`
  - keeps the ranges disjoint and non-adjacent;
  - always returns;
  - covers exactly the union of the inserted ranges.
- **eventmanager**:
  - the notified primitives, followed by those still in the buffer, are exactly those
    buffered, so the flush loop and `used = 0` lose, duplicate and reorder nothing;
  - every observer of kind k is called with exactly the primitives of kind k notified since
    its registration, in order;
  - a cleanup runs only after every buffered primitive has been notified.
- **eventmanager_live**: every buffered primitive is eventually notified.
- **capn**:
  - the batch counter matches the orphans held;
  - the file followed by the pending batch is the records handed over, in order, so batching loses, duplicates and reorders nothing;
  - after close the file holds every record;
  - no message is empty or oversized, and all messages but the last are full.

### Violation runs

Each violation run checks one statement of `spec.md` that the code does not meet. TLC finds a
counterexample to each.

| Run | Property | What the code does |
|---|---|---|
| both_aggregators | `AtMostOneAggregatorActive` | `onWrite` (part_001:860) does not flush a pending comm event, so both aggregators are active. |
| producer_eid | `ProducerEidNamesStore` | A store during a pending comm event records an EID the compute event holding it will not get, so a reader's edge names the wrong producer event. |
| sync_eid | `EidsUnique` | `onSync` (889) logs with the current EID without incrementing it. |
| read_range_leak | `ReadRangesOnlyWithReads` | Local bytes of a comm load go into the compute read ranges (827). |
| addrset_wrap | `AbsSpec` | After `<<0,0>>`, inserting `<<0,5>>` with 5 the largest address makes `range.second + 1` (335) wrap to 0: the range is merged as the left neighbour of `<<0,0>>` and bytes 1..5 are lost. `it->second + 1` (328) wraps the same way. |
| capn_read_ranges | `ReadRangesEncoded` | `readAddrs` are filled from `uniqueWriteAddrs` (part_000:93). |

### Why the bounds are enough

- **core**: two threads and one sync address are enough for each cross-thread case:
  - a foreign read;
  - a re-read;
  - a read after an overwrite;
  - a swap with pending work;
  - a shared barrier.

  Cap 2 with 2-byte accesses reaches the cap both exactly and from below. The unmapped byte
  exercises the `out_of_range` paths. Six primitives are enough for store, swap, load, swap
  and a flush.
- **core_exit**: EidMax 1 makes the second aggregate flush overflow.
- **addrset**: AddrMax 5 allows three separate ranges and every merge branch.
- **eventmanager**: three primitives allow one buffered before and one after a registration,
  and a flush in between. Any order of the four kinds occurs. One observer per kind and one
  cleanup is enough: the loops treat every observer of a list alike. Two of each made the state
  space too large for the run's time.
- **capn**: five records with batches of two give full batches, partial batches and a
  failure at every point.

Each passing property has a mutant in `PROJECT.json`: a plausible bug in the mapped code (a
dropped flush, a missing reset, an off-by-one, a missing erase) that makes TLC report the
property violated under that run's configuration.

### Deadlock and fairness

- `CHECK_DEADLOCK FALSE` is set where the system really stops:
  - the backend after `onExit` or `fatal()`;
  - the logger after its destructor.
- `SynchroTraceGen` assumes weak fairness of `EndOfInput`, `Destroy(t)` and `OnExit`. The
  justification: the input stream is finite, and teardown runs the `ThreadContext` destructors
  and `onExit` unconditionally.
- `EventManager` assumes weak fairness of `Finish` and of the steps of both loops, and none of
  buffering or registration. The frontend calls `finish()` when its input ends, and the loops
  are plain `for` loops over finite vectors. Its runs set `CHECK_DEADLOCK FALSE` because the
  manager stops after `finish()`.
- `AddrSet` assumes weak fairness of the insert steps, because `insert()` is a synchronous call.
- No fairness is assumed for the primitives themselves.

## Proofs (TLAPS, `SynchroTraceGenProofs.tla`)

The proofs hold for every value of the constants that satisfies the named assumptions of
`SynchroTraceGen`: thread ids in 1..128, `Cap` in 1..100, `EidMax` > 0, and so on.

- **`TypeCorrect`**: `Spec => []TypeOK`. `TypeOK` is inductive.
  - `InitTypeOK` covers the initial states.
  - `NextTypeOK` has one case per action, built on lemmas about the helpers:
    - `IncrEidType`, `CompFlushType`, `CommFlushType` and `CheckLimitType` say each context
      operator maps `Ctx` to `Ctx`;
    - `ParticipantInsert` covers the barrier-list update;
    - `AccessBytes` says the bytes of an access are addresses;
    - `ReadCommits` and `WriteCommits` give the typed context each memory handler commits.

  In particular, the EID counter never leaves `0..EidMax`: the wrap happens only together with
  `fatal()`.
- **`OnlyCurrentAccumulates`**: `Spec => []OnlyCurrentThreadAccumulates`.
  - The property alone is not inductive. An aggregate flush that overflows leaves its event
    active, and `Destroy` acts on threads other than `cur`.
  - The inductive invariant is `IInv == TypeOK /\ OverflowFatal /\ OnlyCurrentThreadAccumulates`,
    where `OverflowFatal` says that no context has overflowed unless the phase is `"fatal"`.
    TLC checked `IInv` first as an invariant.
  - The proof shows `Init => IInv` and `IInv /\ [Next]_vars => IInv'`, with one case per
    action. Lemma `FlushBothQuiet` carries the swap case: a non-overflowing `FlushOutgoing`
    leaves both aggregators inactive.

## Proofs (TLAPS, `EventManagerProofs.tla`)

These hold for every value of `MaxEvents`, `MaxObs` and `MaxCleanups` in `Nat`, with `NotRun` not a number.

- **`TypeCorrect`**: `Spec => []TypeOK`, with `TypeOK` inductive. Lemma `NotifyType` covers the
  update of the observer logs.
- **`Conserved`**: `Spec => []StreamConserved`.
- **`CleanupAfterDelivery`**: `Spec => []CleanupSeesAll`.

Neither property is inductive alone. `IInv` adds three facts:
- while a loop runs, its index is within the buffer, so that `FlushDone` (`i >= used`) drops nothing;
- no cleanup has run before finish() reaches its cleanup loop;
- by then the buffer is empty and `delivered = produced`.

TLC checked `IInv` as an invariant first. `NextIInv` has one case per action, built on two
sequence lemmas:
- `AppendConcat` carries `BufferEvent`;
- `ShiftOne` carries one flush iteration: moving `buf[i+1]` from the pending suffix to the end
  of `delivered` keeps the concatenation.

`FlushEvents` and `Finish` use `SubSeqFull`, and `FlushDone` uses `SubSeqEmpty`.
`ObserversReceiveInOrder` is only model-checked, because it uses `SelectSeq`, about which the
library proves nothing.

## Proofs (TLAPS, `ThreadContextProofs.tla`)

These proofs extend `SynchroTraceGenProofs` and rest on the same assumptions on the constants.

- **`CompressionBounded`**: `Spec => []CompressionCap`. Unless an EID overflow has ended the
  run, the following bounds hold for every compression level `Cap`:
  - every compute event a thread has logged has at most `Cap` reads and at most `Cap` writes;
  - a pending aggregator stays below `Cap`.
- The inductive invariant is `CapIInv == IInv /\ CapInv`, where `IInv` is the invariant of
  `SynchroTraceGenProofs`. `CapInv` says that, outside `"fatal"`, every context is capped:
  - the counters of its aggregators are below `Cap`;
  - every compute record in its log is within `Cap`.
- `IInv` is part of the strengthening for two reasons:
  - an overflowing flush leaves an event active, which is harmless only because `phase` is
    then `"fatal"`;
  - only the current thread's context changes.
- There is one lemma per context operator (`CompFlushCap`, `CommFlushCap`, `IncOtherCap`,
  `OnSyncCap`, `ReadCap`, `WriteCap`), and `CheckLimitCap` carries the key step:
  `checkCompFlushLimit` runs after every counted load or store. A counter that reaches `Cap`
  is therefore flushed before the next access is counted.

## Proofs (TLAPS, `ShadowMemoryProofs.tla`)

These proofs extend `SynchroTraceGenProofs` and rest on the same assumptions on the constants.

- **`ForeignReadsHold`**: `Spec => []ForeignReadsRecorded`. A thread that has loaded a byte
  since another thread's last store to it holds the edge for that store, logged or pending.
- **`NoDuplicateEdgesHolds`**: `Spec => []NoDuplicateEdges`. No edge is in two records of a
  log, or in a record and the pending event.
- **`AggregateEidsHold`**: `Spec => []AggregateEidsContiguous`. Until a thread's counter
  overflows, each compute or communication record carries the number of such records its
  thread logged before it, and the counter equals their total.
- Both invariants speak of the edges of a context, `CtxEdges(c)`: those of its logged
  communication records and those of its pending event. Neither is inductive alone. The
  inductive invariant is
  `EdgeIInv == IInv /\ ReadsRecorded /\ WriterEidCurrent /\ EdgesPast /\ EdgeSeen /\ AllDisjoint`:
  - `ReadsRecorded` and `AllDisjoint` are the two properties, stated per context;
  - `WriterEidCurrent`: outside `"fatal"`, the EID the shadow memory holds for a byte is below
    its writer's counter, or equal to it while the writer's compute event is still open;
  - `EdgesPast`: outside `"fatal"`, every edge names an EID below its producer's counter;
  - `EdgeSeen`: a thread holding an edge whose store is still the byte's last store is among
    the byte's readers.
  TLC checked `EdgeIInv` first as an invariant of `core` and `core_exit`.
- The argument: a load sees another thread's store only after a swap. The swap flushed the
  producer, so its EID moved past the store's EID (`WriterEidCurrent` and
  `OnlyCurrentThreadAccumulates` give `EdgesPast` for new edges). A store is therefore tagged
  with an EID that no existing edge names, and clearing the readers keeps `EdgeSeen`. A load
  takes edges only for bytes whose reader set lacks the thread, so by `EdgeSeen` each new edge
  is not yet held, which keeps `AllDisjoint`.
- `Keeps(c, d)` says that a context change keeps the log (it only appends), the edges, their
  disjointness, the overflow flag, and an EID that only moves forward. There is one lemma per
  context operator (`CompFlushKeeps`, `CommFlushKeeps`, `CheckLimitKeeps`, `IncKeeps`,
  `OnSyncKeeps`, `InstrKeeps`). `CtxStepEdge` turns them into the invariant step for every
  handler that leaves the shadow memory alone. `WriteEdge` and `ReadEdge` carry the two memory
  handlers.
- The same step lemma shows that every step keeps `Grows(tc[t], tc'[t])`: the log only
  extends, and the EID does not fall unless the context has overflowed.
- `AggregateEidsHold` adds `AggNumbered(c)` to `Keeps` and `Grows`: every aggregate record's
  EID is `AggCount(c.trace, i - 1)`, the number of aggregates before position `i`, and without
  overflow `c.events = AggCount(c.trace, Len(c.trace))`. `AggCountAppend` shows that appending
  a record leaves the earlier counts alone and adds 1 to the total exactly when the record is an
  aggregate. `AppendNumbered` is the step every flush cites: a compute or communication flush
  logs its record with the current counter and increments it, and a sync or marker record
  leaves the counter alone.

## Proofs (TLAPS, `AddrSetProofs.tla`)

- **`CoalescedHolds`**: `NoWrap => (Spec => []Coalesced)`.
- **`TypeCorrect`**: `NoWrap => (Spec => []TypeOK)`. It needs `NoWrap` as well: with
  `InputMax = AddrMax = 5`, inserting `(0, 0)` and then `(2, 5)` computes
  `range.second + 1 = 0 = it->first`, and `insert()` recurs on the malformed range `(2, 0)`.
  TLC finds this trace when `TypeOK` is checked with the constants of `AddrSetWrap.cfg`.
- **`Refinement`**: `NoWrap => (Spec => AbsSpec)`. `AddrSet` implements `AddrPointSet` under
  `pts <- Covered`.
- `NoWrap` is `InputMax < AddrMax`: no inserted range contains the top address. Without it
  the property is false, not merely unproved. `Succ(AddrMax)` wraps to 0, and the
  `addrset_wrap` run finds the refinement violated when `InputMax = AddrMax`. On a 64-bit
  address space, the hypothesis says that no access ends at `2^64 - 1`.
- The inductive invariant is `IInv == TypeOK /\ InBounds /\ Coalesced`. `InBounds` says that
  every endpoint in `ms` and in `pending` is at most `InputMax`, so no `Succ` taken by
  `insert()` wraps. TLC checked `IInv` first on `addrset` and on a run with `AddrMax = 8`.
- `CandidateSpec` is the key lemma. The candidate that `insert()` compares with is the least
  range whose end reaches `Pred(range.begin)`. It is the only range of a coalesced set that
  the new range can overlap or touch on its left. Two cases follow:
  - when the new range does not touch the candidate, it can be placed before it;
  - when it does touch the candidate, the merged range replaces it.
- `SetMin` and `SetMax` are defined with `CHOOSE`. Lemmas `MinExists` and `MaxExists` show that
  the least and greatest elements exist, by `WFMin` over the lexicographic order on address
  pairs (`WellFoundedInduction`). The library's induction theorems that take an operator
  parameter are not used.
- For the refinement:
  - `Insert` maps to `PInsert` and `Clear` maps to `PClear`;
  - every merge step of a recursive activation keeps `Covered`, so it maps to a stutter
    (`MergeCovered`, `StepCovered`, `DoneCovered`);
  - `UnionRemove` and `UnionAdd` relate the union of the ranges to set difference and union.

`Covered` in `AddrSet` and `CommEdges` in `SynchroTraceGen` are written
`(UNION S) \cup T` with explicit parentheses. SANY and TLC read `UNION S \cup T` as
`(UNION S) \cup T`, but tlapm 1.4.5 reads it as `UNION (S \cup T)`. The parentheses make
both tools read the formula the way the source means it.

## Proofs (TLAPS, `CapnLoggerProofs.tla`)

- **`OrphanCountHolds`**: `Spec => []OrphanCountMatches`.
- **`MessagesBoundedHolds`**: `Spec => []MessagesBounded`.
- **`TypeCorrect`**: `Spec => []TypeOK`.
- All three hold for every `EventsPerMessage` in `Nat \ {0}`, with no assumption on the
  outcome of `gzwrite` or `gzclose`.
- The inductive invariant is
  `CIInv == TypeOK /\ OrphanCountMatches /\ BatchOpen /\ MessagesBounded /\ FullWhileOpen`:
  - `BatchOpen`: while the logger is open the batch is below `EventsPerMessage`. Without it, a
    flush could find the counter already past the limit and write an oversized message;
  - `FullWhileOpen`: while the logger is open every written message is full, and afterwards
    all but the last are. Without it, the destructor's partial message could follow another
    partial one.
  TLC checked `CIInv` first as an invariant for `EventsPerMessage` 1, 2 and 3.
- `AppendMessage` is the lemma both actions cite. Appending a message of 1 to
  `EventsPerMessage` events to a file of full messages keeps every message in bounds, leaves
  all but the last full, and leaves all full when the new one is.
- `OrphanType` shows that every record translates to an orphan of the file's types.
- `FlushCIInv` has one case for a batch that fills and is written, one for a write that fails,
  and one for a batch that grows. `CloseCIInv` has one case for the destructor's partial
  message and one for no message.

Out of the prover's reach, and left to TLC:
- the liveness properties `AllFlushedEventually`, `InsertReturns` and `EventuallyDelivered`;
- `ObserversReceiveInOrder` and `PthreadSummaryConsistent`, which use `SelectSeq`, about which
  the library proves nothing;
- the stream properties of `CapnLoggerStream` (`StreamPreserved`, `LosslessAtClose`,
  `ReadRangesEncoded`). They use `FlattenSeq`, a recursive function. Relating it to `Append`
  needs induction with an operator parameter, which the installed provers cannot
  instantiate. These properties are kept out of `CapnLogger` so that the batching proofs
  above do not depend on them.

## Not modelled

- `TextLogger` and `NullLogger`: their code is not under `src/`.
- The statistics: they feed only `sigil.stats.out`.
- Option parsing: its outcome is the constant `Cap` and the logger choice.
- The capacity of the `EventManager` buffer. Its size is declared in `EventManager.hpp`, which is
  not under `src/`, and so is the frontend that must flush before it fills. The model buffers
  at most `MaxEvents` primitives.
- The older `STSyncEvent`/`STInstrEvent` text formatting, and the declarations in `part_002`.

The hazards with no property are listed with their reasons in `PROJECT.json`. They include:
- the unchecked capacity in `bufferEvent`;
- a size-0 store;
- a failed `gzwrite`, after which the file ends mid-stream (`StreamPreserved` is checked only
  outside the fatal state);
- `finish()` never being called: `EventuallyDelivered` assumes it is, and its caller, the
  frontend, is not under `src/`.

## Plan for later work

- A violation run for a size-0 store, which inserts `(begin, begin - 1)`.
- Composing `CapnLogger` with the thread contexts, so that the file contents are checked
  against the dispatcher's input.
- Proofs of `PthreadSummaryConsistent` and of the `CapnLoggerStream` properties. These need
  lemmas about `SelectSeq` and `FlattenSeq` under `Append`. Each lemma would be proved by
  induction over the sequence, written out by hand for that operator.
