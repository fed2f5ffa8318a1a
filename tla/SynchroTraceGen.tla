-------------------------- MODULE SynchroTraceGen --------------------------
(***************************************************************************)
(* The SynchroTraceGen backend of Sigil2: the dispatcher (EventHandlers),  *)
(* the per-thread ThreadContext with its compute and communication         *)
(* aggregators, and the byte-granular shadow memory they share.            *)
(*                                                                         *)
(* One globally ordered stream of primitives is processed by one thread;   *)
(* a Swap sync primitive moves the dispatcher's cursor (currentTID,        *)
(* cachedTCxt) to another logical thread.  Every action below is one      *)
(* whole handler of EventHandlers, including every flush, shadow update    *)
(* and limit check it performs.                                            *)
(*                                                                         *)
(* Data is abstracted: an address range set is the set of bytes it        *)
(* covers (the coalescing algorithm is in AddrSet.tla), a communication    *)
(* event's edge list is the set of <<producer, producer eid, byte>>        *)
(* triples it covers, and an encoder record is the record of the fields    *)
(* the encoder writes.                                                     *)
(***************************************************************************)
EXTENDS Naturals, Sequences, FiniteSets

CONSTANTS
    Threads,      \* logical thread ids (TID) the frontend may swap to
    Addrs,        \* byte addresses that loads and stores touch
    Unmapped,     \* addresses the shadow memory throws out_of_range for
    MaxSize,      \* largest size of a memory access, in bytes
    SyncAddrs,    \* addresses of sync objects (mutexes, barriers, thread_t)
    SyncKinds,    \* frontend sync kinds the input may carry (Swap aside)
    Cap,          \* primsPerStCompEv, the compression level (-c)
    EidMax,       \* largest value of the EID counter; incrementing it is fatal
    MarkerPeriod, \* instructions between two instruction markers (1 << 12)
    MaxPrims,     \* bound on the length of the input stream
    Undef,        \* SO_UNDEF: no writer recorded for a byte
    NoTID         \* currentTID before the first Swap (cachedTCxt == nullptr)

(* SynchroTraceSim's numbering of the sync kinds (convertAndFlush). *)
STSyncCode ==
    [LOCK |-> 1, UNLOCK |-> 2, CREATE |-> 3, JOIN |-> 4, BARRIER |-> 5,
     CONDWAIT |-> 6, CONDSIG |-> 7, CONDBROAD |-> 8, SPINLOCK |-> 9,
     SPINUNLOCK |-> 10]

ASSUME ThreadsAssumption == Threads \subseteq 1..128 /\ Threads # {}
ASSUME AddrsAssumption   == Addrs \subseteq Nat /\ Unmapped \subseteq Addrs
ASSUME SizeAssumption    == MaxSize \in Nat \ {0}
ASSUME SyncAssumption    == SyncKinds \subseteq DOMAIN STSyncCode
ASSUME CapAssumption     == Cap \in 1..100
ASSUME EidAssumption     == EidMax \in Nat \ {0}
ASSUME MarkerAssumption  == MarkerPeriod \in Nat \ {0}
ASSUME PrimsAssumption   == MaxPrims \in Nat
ASSUME SentinelAssumption == Undef \notin Threads /\ NoTID \notin Threads

VARIABLES
    writer,       \* shadow memory: last writer TID of each byte, or Undef
    writerEid,    \* shadow memory: EID of the last writer's event
    readers,      \* shadow memory: threads that read the byte since the write
    tc,           \* tcxts: the ThreadContext of each thread
    cur,          \* currentTID / cachedTCxt
    threadOrder,  \* newThreadsInOrder
    spawns,       \* threadSpawns: <<spawner, thread_t address>> in order
    barriers,     \* barrierParticipants: <<barrier address, TIDs>> in order
    destroyed,    \* thread contexts already destroyed at teardown
    phase,        \* "run", "teardown", "done", or "fatal" (process exited)
    nprims        \* primitives consumed from the input stream

shadowVars == <<writer, writerEid, readers>>
globalVars == <<cur, threadOrder, spawns, barriers>>
vars == <<writer, writerEid, readers, tc, cur, threadOrder, spawns, barriers,
          destroyed, phase, nprims>>

Eids == 0..EidMax
Elems(s) == {s[i] : i \in DOMAIN s}

(***************************************************************************)
(* Records handed to the encoder (LoggerStrategy::flush, instrMarker).     *)
(***************************************************************************)
Edge == [prod : Threads, peid : Eids, addr : Addrs]
CompRec == [kind : {"comp"}, eid : Eids, iops : Nat, flops : Nat,
            reads : Nat, writes : Nat, rd : SUBSET Addrs, wr : SUBSET Addrs]
CommRec == [kind : {"comm"}, eid : Eids, edges : SUBSET Edge]
SyncRec == [kind : {"sync"}, eid : Eids, type : 1..10, addr : SyncAddrs]
MarkerRec == [kind : {"marker"}, count : {MarkerPeriod}]
Rec == CompRec \cup CommRec \cup SyncRec \cup MarkerRec

(* STCompEvent and STCommEvent state; reset() gives the empty ones. *)
CompState == [iops : Nat, flops : Nat, reads : Nat, writes : Nat,
              rd : SUBSET Addrs, wr : SUBSET Addrs, active : BOOLEAN]
CommState == [edges : SUBSET Edge, active : BOOLEAN]
EmptyComp == [iops |-> 0, flops |-> 0, reads |-> 0, writes |-> 0,
              rd |-> {}, wr |-> {}, active |-> FALSE]
EmptyComm == [edges |-> {}, active |-> FALSE]

(* A ThreadContext: aggregators, the EID counter `events`, the INSTR stat, *)
(* the records its logger has written, and whether an EID increment has   *)
(* overflowed (fatal() was called).                                        *)
Ctx == [comp : CompState, comm : CommState, events : Eids, instrs : Nat,
        trace : Seq(Rec), overflow : BOOLEAN]
NewCtx == [comp |-> EmptyComp, comm |-> EmptyComm, events |-> 0, instrs |-> 0,
           trace |-> << >>, overflow |-> FALSE]

(***************************************************************************)
(* ThreadContext helpers, as operators from a context to a context.  Once *)
(* overflow is set the process has exited, so nothing further happens.     *)
(***************************************************************************)

(* Seeded fault: an EID counter incremented without the overflow check. *)
IncrEidUnchecked(c) ==
    [c EXCEPT !.events = c.events + 1, !.overflow = c.events = EidMax]

(* INCR_EID_OVERFLOW(events): wraps to 0 and reports the overflow. *)
IncrEid(c) ==
    [c EXCEPT !.events = IF c.events = EidMax THEN 0 ELSE c.events + 1,
              !.overflow = c.events = EidMax]

CompRecord(c) ==
    [kind |-> "comp", eid |-> c.events, iops |-> c.comp.iops,
     flops |-> c.comp.flops, reads |-> c.comp.reads, writes |-> c.comp.writes,
     rd |-> c.comp.rd, wr |-> c.comp.wr]

(* compFlushIfActive: logger.flush(stComp, events, tid); reset; bump EID. *)
CompFlushIfActive(c) ==
    IF c.comp.active /\ ~c.overflow
    THEN IncrEid([c EXCEPT !.trace = Append(@, CompRecord(c)),
                           !.comp = EmptyComp])
    ELSE c

(* Seeded fault: a comm flush that forgets INCR_EID_OVERFLOW(events). *)
CommFlushNoIncr(c) ==
    IF c.comm.active /\ ~c.overflow
    THEN [c EXCEPT !.trace = Append(@, [kind |-> "comm", eid |-> c.events,
                                        edges |-> c.comm.edges]),
                   !.comm = EmptyComm]
    ELSE c

(* commFlushIfActive: logger.flush(stComm, events, tid); reset; bump EID. *)
CommFlushIfActive(c) ==
    IF c.comm.active /\ ~c.overflow
    THEN IncrEid([c EXCEPT !.trace = Append(@, [kind |-> "comm",
                                                 eid |-> c.events,
                                                 edges |-> c.comm.edges]),
                           !.comm = EmptyComm])
    ELSE c

(* Seeded fault: the limit tested with > instead of >=. *)
CheckCompFlushLimitGt(c) ==
    IF c.comp.writes > Cap \/ c.comp.reads > Cap
    THEN CompFlushIfActive(c) ELSE c

(* checkCompFlushLimit *)
CheckCompFlushLimit(c) ==
    IF c.comp.writes >= Cap \/ c.comp.reads >= Cap
    THEN CompFlushIfActive(c) ELSE c

(* STCompEvent::incReads / incWrites / incIOP / incFLOP *)
IncReads(c)  == [c EXCEPT !.comp.reads = @ + 1, !.comp.active = TRUE]
IncWrites(c) == [c EXCEPT !.comp.writes = @ + 1, !.comp.active = TRUE]
IncIOP(c)    == [c EXCEPT !.comp.iops = @ + 1, !.comp.active = TRUE]
IncFLOP(c)   == [c EXCEPT !.comp.flops = @ + 1, !.comp.active = TRUE]

(* ThreadContext::onSync: flush both aggregators, then log the sync record *)
(* with the current EID.  The EID is not incremented here.                 *)
OnSyncCtx(c, code, a) ==
    LET c1 == CommFlushIfActive(CompFlushIfActive(c))
    IN  IF c1.overflow THEN c1
        ELSE [c1 EXCEPT !.trace = Append(@, [kind |-> "sync", eid |-> c1.events,
                                             type |-> code, addr |-> a])]

(* Seeded fault: a destructor that flushes the compute event only. *)
DestroyCtxCompOnly(c) == CompFlushIfActive(c)

(* ~ThreadContext: both aggregators are flushed. *)
DestroyCtx(c) == CommFlushIfActive(CompFlushIfActive(c))

(* Seeded fault: onSwapTCxt flushing only the outgoing compute event. *)
FlushOutgoingCompOnly(c) == CompFlushIfActive(c)

(* onSwapTCxt: cachedTCxt->compFlushIfActive(); commFlushIfActive(). *)
FlushOutgoing(c) == CommFlushIfActive(CompFlushIfActive(c))

(* Bytes [start, start+size): the range begin .. begin + size - 1. *)
Bytes(start, size) == start..(start + size - 1)

(* Loads and stores the frontend may issue: <<begin, size>> within Addrs. *)
Accesses ==
    {acc \in Addrs \X (1..MaxSize) : \A i \in 0..(acc[2] - 1) : acc[1] + i \in Addrs}

-----------------------------------------------------------------------------
Init ==
    /\ writer = [a \in Addrs |-> Undef]
    /\ writerEid = [a \in Addrs |-> 0]
    /\ readers = [a \in Addrs |-> {}]
    /\ tc = [t \in Threads |-> NewCtx]
    /\ cur = NoTID
    /\ threadOrder = << >>
    /\ spawns = << >>
    /\ barriers = << >>
    /\ destroyed = {}
    /\ phase = "run"
    /\ nprims = 0

(* Every input primitive is consumed while the run is live; every         *)
(* primitive but Swap needs a current thread (cachedTCxt is dereferenced). *)
Consume ==
    /\ phase = "run"
    /\ nprims < MaxPrims
    /\ nprims' = nprims + 1

(* Commit the current thread's new context; an overflow ends the process. *)
SetCtx(c) ==
    /\ tc' = [tc EXCEPT ![cur] = c]
    /\ phase' = IF c.overflow THEN "fatal" ELSE phase

(***************************************************************************)
(* onSyncEv(SWAP) -> onSwapTCxt(newTID)                                    *)
(***************************************************************************)
Swap(t) ==
    /\ Consume
    /\ t # cur
    /\ threadOrder' = IF t \in Elems(threadOrder) THEN threadOrder
                      ELSE Append(threadOrder, t)
    /\ IF cur # NoTID
       THEN SetCtx(FlushOutgoing(tc[cur]))
       ELSE UNCHANGED <<tc, phase>>
    /\ cur' = t
    /\ UNCHANGED <<shadowVars, spawns, barriers, destroyed>>

(* Seeded fault: onBarrier appending an entry without searching the list. *)
OnBarrierAppend(a, t) == Append(barriers, <<a, {t}>>)

(* onBarrier: add t to the entry of barrier a, or append a new entry. *)
OnBarrier(a, t) ==
    IF \E i \in DOMAIN barriers : barriers[i][1] = a
    THEN LET i == CHOOSE i \in DOMAIN barriers : barriers[i][1] = a
         IN  [barriers EXCEPT ![i][2] = @ \cup {t}]
    ELSE Append(barriers, <<a, {t}>>)

(***************************************************************************)
(* onSyncEv(other kinds): onCreate / onBarrier, then convertAndFlush.      *)
(***************************************************************************)
Sync(k, a) ==
    /\ Consume
    /\ cur # NoTID
    /\ spawns' = IF k = "CREATE" THEN Append(spawns, <<cur, a>>) ELSE spawns
    /\ barriers' = IF k = "BARRIER" THEN OnBarrier(a, cur) ELSE barriers
    /\ SetCtx(OnSyncCtx(tc[cur], STSyncCode[k], a))
    /\ UNCHANGED <<shadowVars, cur, threadOrder, destroyed>>

(* onCompEv(IOP) -> onIop;  onCompEv(FLOP) -> onFlop *)
Iop ==
    /\ Consume
    /\ cur # NoTID
    /\ SetCtx(IncIOP(CommFlushIfActive(tc[cur])))
    /\ UNCHANGED <<shadowVars, globalVars, destroyed>>

Flop ==
    /\ Consume
    /\ cur # NoTID
    /\ SetCtx(IncFLOP(CommFlushIfActive(tc[cur])))
    /\ UNCHANGED <<shadowVars, globalVars, destroyed>>

(* Seeded fault: the isReaderTID test dropped from the comm-edge test. *)
IsCommByteNoReaderCheck(t, a) == writer[a] \notin {t, Undef}

(* A mapped byte read by t is a comm edge: t has not read it since the   *)
(* last store, and the last writer is another, defined thread.           *)
IsCommByte(t, a) == t \notin readers[a] /\ writer[a] \notin {t, Undef}

(***************************************************************************)
(* onMemEv(LOAD) -> onRead(start, bytes).  Each byte is classified against *)
(* the shadow memory as it was before the load (a byte's update does not   *)
(* affect another byte); an out-of-range byte is a local read.             *)
(***************************************************************************)
Read(start, size) ==
    /\ Consume
    /\ cur # NoTID
    /\ LET t == cur
           B == Bytes(start, size)
           Mapped == B \ Unmapped
           CommBytes == {a \in Mapped : IsCommByte(t, a)}
           NewEdges == {[prod |-> writer[a], peid |-> writerEid[a], addr |-> a]
                          : a \in CommBytes}
           c1 == [tc[t] EXCEPT !.comm.edges = @ \cup NewEdges,
                               !.comm.active = @ \/ CommBytes # {},
                               !.comp.rd = @ \cup (B \ CommBytes)]
           c2 == IF CommBytes = {} THEN IncReads(CommFlushIfActive(c1))
                 ELSE CompFlushIfActive(c1)
       IN  /\ readers' = [a \in Addrs |-> IF a \in Mapped THEN readers[a] \cup {t}
                                          ELSE readers[a]]
           /\ SetCtx(CheckCompFlushLimit(c2))
    /\ UNCHANGED <<writer, writerEid, globalVars, destroyed>>

(* Seeded fault: updateWriter leaving the reader sets in place. *)
UpdateWriterKeepReaders(W, t, e) ==
    /\ writer' = [a \in Addrs |-> IF a \in W THEN t ELSE writer[a]]
    /\ writerEid' = [a \in Addrs |-> IF a \in W THEN e ELSE writerEid[a]]
    /\ UNCHANGED readers

(* shadow.updateWriter over the bytes W: writer (t, e), readers cleared. *)
UpdateWriter(W, t, e) ==
    /\ writer' = [a \in Addrs |-> IF a \in W THEN t ELSE writer[a]]
    /\ writerEid' = [a \in Addrs |-> IF a \in W THEN e ELSE writerEid[a]]
    /\ readers' = [a \in Addrs |-> IF a \in W THEN {} ELSE readers[a]]

(***************************************************************************)
(* onMemEv(STORE) -> onWrite(start, bytes).  shadow.updateWriter records   *)
(* (tid, events) and clears the readers of each byte; when the range meets *)
(* an unmapped byte it throws, after updating either no byte or the bytes  *)
(* before the first unmapped one (STShadowMemory is not in the sources).   *)
(***************************************************************************)
Write(start, size) ==
    /\ Consume
    /\ cur # NoTID
    /\ LET t == cur
           B == Bytes(start, size)
           Prefix == {a \in B : \A u \in B \cap Unmapped : a < u}
           c1 == [IncWrites(tc[t]) EXCEPT !.comp.wr = @ \cup B]
       IN  /\ \E W \in IF B \cap Unmapped = {} THEN {B} ELSE {{}, Prefix} :
                 UpdateWriter(W, t, tc[t].events)
           /\ SetCtx(CheckCompFlushLimit(c1))
    /\ UNCHANGED <<globalVars, destroyed>>

(* onCxtEv(INSTR) -> onInstr: a marker every MarkerPeriod instructions. *)
Instr ==
    /\ Consume
    /\ cur # NoTID
    /\ LET n == tc[cur].instrs + 1
       IN  tc' = [tc EXCEPT ![cur].instrs = n,
                            ![cur].trace = IF n % MarkerPeriod = 0
                                           THEN Append(@, [kind |-> "marker",
                                                           count |-> MarkerPeriod])
                                           ELSE @]
    /\ UNCHANGED <<shadowVars, globalVars, destroyed, phase>>

(***************************************************************************)
(* End of the input stream: the backend is torn down and each created      *)
(* ThreadContext is destroyed (in the map's order, which we leave open),   *)
(* flushing what it still holds; onExit then writes the summaries.         *)
(***************************************************************************)
EndOfInput ==
    /\ phase = "run"
    /\ phase' = "teardown"
    /\ UNCHANGED <<shadowVars, tc, globalVars, destroyed, nprims>>

Destroy(t) ==
    /\ phase = "teardown"
    /\ t \in Elems(threadOrder) \ destroyed
    /\ tc' = [tc EXCEPT ![t] = DestroyCtx(tc[t])]
    /\ destroyed' = destroyed \cup {t}
    /\ phase' = IF tc'[t].overflow THEN "fatal" ELSE phase
    /\ UNCHANGED <<shadowVars, globalVars, nprims>>

OnExit ==
    /\ phase = "teardown"
    /\ destroyed = Elems(threadOrder)
    /\ phase' = "done"
    /\ UNCHANGED <<shadowVars, tc, globalVars, destroyed, nprims>>

Next ==
    \/ \E t \in Threads : Swap(t)
    \/ \E k \in SyncKinds, a \in SyncAddrs : Sync(k, a)
    \/ Iop \/ Flop \/ Instr
    \/ \E acc \in Accesses : Read(acc[1], acc[2])
    \/ \E acc \in Accesses : Write(acc[1], acc[2])
    \/ EndOfInput
    \/ \E t \in Threads : Destroy(t)
    \/ OnExit

(* The input stream is finite, so it ends; teardown runs to completion. *)
Fairness ==
    /\ WF_vars(EndOfInput)
    /\ \A t \in Threads : WF_vars(Destroy(t))
    /\ WF_vars(OnExit)

Spec == Init /\ [][Next]_vars /\ Fairness

-----------------------------------------------------------------------------
(***************************************************************************)
(* Properties                                                              *)
(***************************************************************************)
Active(t) == tc[t].comp.active \/ tc[t].comm.active
Trace(t) == tc[t].trace
RecsOfKind(t, K) == {r \in Elems(Trace(t)) : r.kind \in K}

(* Every <<producer, eid, byte>> edge thread t has logged or still holds. *)
CommEdges(t) ==
    (UNION {r.edges : r \in RecsOfKind(t, {"comm"})}) \cup tc[t].comm.edges

(* Number of compute and communication records among the first n records. *)
AggCount(tr, n) == Cardinality({j \in 1..n : tr[j].kind \in {"comp", "comm"}})

(* Type invariant. *)
TypeOK ==
    /\ writer \in [Addrs -> Threads \cup {Undef}]
    /\ writerEid \in [Addrs -> Eids]
    /\ readers \in [Addrs -> SUBSET Threads]
    /\ tc \in [Threads -> Ctx]
    /\ cur \in Threads \cup {NoTID}
    /\ threadOrder \in Seq(Threads)
    /\ spawns \in Seq(Threads \X SyncAddrs)
    /\ barriers \in Seq(SyncAddrs \X SUBSET Threads)
    /\ destroyed \subseteq Threads
    /\ phase \in {"run", "teardown", "done", "fatal"}
    /\ nprims \in 0..MaxPrims

(* Only the thread under the dispatcher's cursor holds unflushed events:  *)
(* onSwapTCxt flushes both aggregators of the outgoing thread, so no      *)
(* event of a swapped-out thread is left to be merged with later work.    *)
OnlyCurrentThreadAccumulates ==
    phase # "fatal" => \A t \in Threads \ {cur} : ~Active(t)

(* Communication is never missed: if thread t has read byte a since its   *)
(* last store by another thread w, then t has an edge from (w, the EID w  *)
(* stored a under) for a, logged or pending.  This rests on onRead and    *)
(* updateWriter/updateReader together (the reader set is cleared by a     *)
(* store and set by the load that produced the edge).                     *)
ForeignReadsRecorded ==
    \A a \in Addrs \ Unmapped, t \in Threads :
        (t \in readers[a] /\ writer[a] \notin {t, Undef})
            => [prod |-> writer[a], peid |-> writerEid[a], addr |-> a] \in CommEdges(t)

(* No communication edge is reported twice: the comm records of a thread, *)
(* and its pending comm event, carry pairwise disjoint edge sets.  A      *)
(* second read of the same store must not produce a new edge, and a later *)
(* store must carry a new producer EID.                                   *)
NoDuplicateEdges ==
    \A t \in Threads :
        LET tr == Trace(t) IN
        /\ \A i, j \in DOMAIN tr :
              (i < j /\ tr[i].kind = "comm" /\ tr[j].kind = "comm")
                 => tr[i].edges \cap tr[j].edges = {}
        /\ \A i \in DOMAIN tr :
              tr[i].kind = "comm" => tr[i].edges \cap tc[t].comm.edges = {}

(* The compute and communication records of a thread carry the EIDs      *)
(* 0, 1, 2, ... in the order they are written, and the EID counter is the *)
(* number written so far: every flush increments the counter exactly once.*)
AggregateEidsContiguous ==
    \A t \in Threads :
        LET tr == Trace(t) IN
        /\ \A i \in DOMAIN tr :
              tr[i].kind \in {"comp", "comm"} => tr[i].eid = AggCount(tr, i - 1)
        /\ ~tc[t].overflow => tc[t].events = AggCount(tr, Len(tr))

(* The compression level bounds every compute event: a logged compute     *)
(* record has at most Cap reads and Cap writes, and a pending one fewer   *)
(* than Cap (the assertion in checkCompFlushLimit).                       *)
CompressionCap ==
    phase # "fatal" =>
        \A t \in Threads :
            /\ \A r \in RecsOfKind(t, {"comp"}) : r.reads <= Cap /\ r.writes <= Cap
            /\ tc[t].comp.active => tc[t].comp.reads < Cap /\ tc[t].comp.writes < Cap

(* The pthread summary (sigil.pthread.out) agrees with the traces: each   *)
(* barrier address has one entry whose TIDs are exactly the threads that  *)
(* logged a barrier-wait on it; each thread's spawn entries are, in       *)
(* order, the addresses of its create records; every thread that logged  *)
(* anything is listed once in newThreadsInOrder.                          *)
SpawnAddrs(t) ==
    LET s == SelectSeq(spawns, LAMBDA p : p[1] = t)
    IN  [i \in DOMAIN s |-> s[i][2]]

SyncAddrsOf(t, code) ==
    LET s == SelectSeq(Trace(t), LAMBDA r : r.kind = "sync" /\ r.type = code)
    IN  [i \in DOMAIN s |-> s[i].addr]

PthreadSummaryConsistent ==
    phase # "fatal" =>
        /\ \A i, j \in DOMAIN barriers : barriers[i][1] = barriers[j][1] => i = j
        /\ \A b \in SyncAddrs, t \in Threads :
              (\E i \in DOMAIN barriers : barriers[i][1] = b /\ t \in barriers[i][2])
                 <=> b \in Elems(SyncAddrsOf(t, STSyncCode.BARRIER))
        /\ \A t \in Threads : SpawnAddrs(t) = SyncAddrsOf(t, STSyncCode.CREATE)
        /\ \A i, j \in DOMAIN threadOrder : threadOrder[i] = threadOrder[j] => i = j
        /\ \A t \in Threads : Trace(t) # << >> => t \in Elems(threadOrder)

(* Nothing is lost at exit: eventually every aggregator has been flushed  *)
(* for good (the ThreadContext destructors), unless the run died.         *)
AllFlushedEventually ==
    <>[](phase = "fatal" \/ \A t \in Threads : ~Active(t))

(***************************************************************************)
(* Statements of the spec that the code does not meet (violation runs).    *)
(***************************************************************************)

(* Spec section 3: at most one of the compute and communication           *)
(* aggregators of a thread is active; a memory primitive that would       *)
(* activate one first flushes the other.                                  *)
AtMostOneAggregatorActive ==
    \A t \in Threads : ~(tc[t].comp.active /\ tc[t].comm.active)

(* Spec section 5: a CommEdge's producer EID references the writer        *)
(* thread's event at the time of the store, i.e. the compute event of the *)
(* producer that holds the store of that byte.                            *)
ProducerEidNamesStore ==
    \A t \in Threads : \A e \in CommEdges(t) :
        \/ \E r \in RecsOfKind(e.prod, {"comp"}) : r.eid = e.peid /\ e.addr \in r.wr
        \/ /\ tc[e.prod].comp.active
           /\ tc[e.prod].events = e.peid
           /\ e.addr \in tc[e.prod].comp.wr

(* Spec sections 3 and 8: a thread's EIDs have no duplicates.             *)
EidsUnique ==
    \A t \in Threads :
        LET tr == Trace(t) IN
        \A i, j \in DOMAIN tr :
            (i < j /\ tr[i].kind # "marker" /\ tr[j].kind # "marker")
                => tr[i].eid # tr[j].eid

(* Spec sections 4.7 and 9: the bytes of a load classified as a           *)
(* communication event are dropped from the compute aggregator, so a      *)
(* compute record that counts no local read carries no read range.        *)
ReadRangesOnlyWithReads ==
    \A t \in Threads : \A r \in RecsOfKind(t, {"comp"}) : r.reads = 0 => r.rd = {}

=============================================================================
