------------------------ MODULE ThreadContextProofs ------------------------
(***************************************************************************)
(* Proofs about the ThreadContext aggregation of SynchroTraceGen: the     *)
(* compression level bounds every compute event (CompressionCap).  They   *)
(* rest on lemmas saying what each ThreadContext operator does to the     *)
(* compute counters and to the records logged so far.                    *)
(***************************************************************************)
EXTENDS SynchroTraceGenProofs

(* A compute record respects the compression level. *)
CompCapped(r) == r.kind = "comp" => r.reads <= Cap /\ r.writes <= Cap

(* Every compute record of a trace respects the compression level. *)
LogCapped(tr) == \A j \in DOMAIN tr : CompCapped(tr[j])

(* A context whose pending compute event is below the level and whose     *)
(* logged compute records are within it.                                  *)
CtxCapped(c) ==
    /\ c.comp.reads < Cap /\ c.comp.writes < Cap
    /\ LogCapped(c.trace)

(* The counts of a context's pending compute event are at most the level. *)
CountsAtMost(c) == c.comp.reads <= Cap /\ c.comp.writes <= Cap

-----------------------------------------------------------------------------
(***************************************************************************)
(* What the ThreadContext operators do to the counters and the log.        *)
(***************************************************************************)

(* Logging a record that respects the level keeps a capped log capped. *)
LEMMA LogAppend ==
  ASSUME NEW tr \in Seq(Rec), LogCapped(tr), NEW r \in Rec, CompCapped(r)
  PROVE  LogCapped(Append(tr, r))
<1>1. /\ DOMAIN Append(tr, r) = 1..(Len(tr) + 1)
      /\ \A j \in 1..Len(tr) : Append(tr, r)[j] = tr[j]
      /\ Append(tr, r)[Len(tr) + 1] = r
  BY AppendProperties
<1>2. \A j \in 1..(Len(tr) + 1) : j \in 1..Len(tr) \/ j = Len(tr) + 1  OBVIOUS
<1>. QED  BY <1>1, <1>2 DEF LogCapped

(* INCR_EID_OVERFLOW touches neither the aggregators nor the log. *)
LEMMA IncrEidKeeps ==
  ASSUME NEW c \in Ctx
  PROVE  /\ IncrEid(c).comp = c.comp
         /\ IncrEid(c).trace = c.trace
  BY DEF IncrEid, Ctx

(* compFlushIfActive logs the pending compute event, which is within the *)
(* level, and then its counters are zero; or it does nothing.             *)
LEMMA CompFlushCap ==
  ASSUME NEW c \in Ctx, LogCapped(c.trace), CountsAtMost(c)
  PROVE  LET d == CompFlushIfActive(c)
         IN  /\ LogCapped(d.trace)
             /\ d.comp.reads <= c.comp.reads /\ d.comp.writes <= c.comp.writes
             /\ c.comp.active /\ ~c.overflow => d.comp.reads = 0 /\ d.comp.writes = 0
             /\ c.overflow => d = c
<1>1. CASE c.comp.active /\ ~c.overflow
  <2> DEFINE e == [c EXCEPT !.trace = Append(@, CompRecord(c)), !.comp = EmptyComp]
  <2>1. CompRecord(c) \in Rec /\ CompCapped(CompRecord(c))
    <3>1. c.comp \in CompState /\ c.events \in Eids  BY DEF Ctx
    <3>2. CompRecord(c) \in CompRec  BY <3>1 DEF CompRecord, CompRec, CompState
    <3>. QED  BY <3>2 DEF Rec, CompCapped, CompRecord, CountsAtMost
  <2>2. Append(c.trace, CompRecord(c)) \in Seq(Rec)  BY <2>1 DEF Ctx
  <2>3. e \in Ctx  BY <2>2, EmptyTypes DEF Ctx
  <2>4. e.trace = Append(c.trace, CompRecord(c)) /\ e.comp = EmptyComp  BY DEF Ctx
  <2>5. LogCapped(e.trace)  BY <2>1, <2>4, LogAppend DEF Ctx
  <2> DEFINE d == CompFlushIfActive(c)
  <2>6. d = IncrEid(e)  BY <1>1 DEF CompFlushIfActive
  <2>7. d.trace = e.trace /\ d.comp = EmptyComp  BY <2>3, <2>4, <2>6, IncrEidKeeps
  <2>8. c.comp \in CompState  BY DEF Ctx
  <2>9. c.comp.reads \in Nat /\ c.comp.writes \in Nat  BY <2>8 DEF CompState
  <2>10. d.comp.reads = 0 /\ d.comp.writes = 0  BY <2>7 DEF EmptyComp
  <2>. QED  BY <1>1, <2>5, <2>7, <2>9, <2>10
<1>2. CASE ~(c.comp.active /\ ~c.overflow)
  <2>1. CompFlushIfActive(c) = c  BY <1>2 DEF CompFlushIfActive
  <2>0. c.comp \in CompState  BY DEF Ctx
  <2>2. c.comp.reads \in Nat /\ c.comp.writes \in Nat  BY <2>0 DEF CompState
  <2>. QED  BY <1>2, <2>1, <2>2
<1>. QED  BY <1>1, <1>2

(* commFlushIfActive logs a communication record and leaves the compute   *)
(* event alone.                                                           *)
LEMMA CommFlushCap ==
  ASSUME NEW c \in Ctx, LogCapped(c.trace)
  PROVE  LET d == CommFlushIfActive(c)
         IN  /\ LogCapped(d.trace)
             /\ d.comp = c.comp
             /\ c.overflow => d = c
<1>1. CASE c.comm.active /\ ~c.overflow
  <2> DEFINE r == [kind |-> "comm", eid |-> c.events, edges |-> c.comm.edges]
             e == [c EXCEPT !.trace = Append(@, r), !.comm = EmptyComm]
  <2>1. r \in Rec /\ CompCapped(r)
    <3>1. c.comm \in CommState /\ c.events \in Eids  BY DEF Ctx
    <3>2. r \in CommRec  BY <3>1 DEF CommRec, CommState
    <3>. QED  BY <3>2 DEF Rec, CompCapped
  <2>2. Append(c.trace, r) \in Seq(Rec)  BY <2>1 DEF Ctx
  <2>3. e \in Ctx  BY <2>2, EmptyTypes DEF Ctx
  <2>4. e.trace = Append(c.trace, r) /\ e.comp = c.comp  BY DEF Ctx
  <2>5. LogCapped(e.trace)  BY <2>1, <2>4, LogAppend DEF Ctx
  <2>6. CommFlushIfActive(c) = IncrEid(e)  BY <1>1 DEF CommFlushIfActive
  <2>. QED  BY <1>1, <2>3, <2>4, <2>5, <2>6, IncrEidKeeps
<1>2. CASE ~(c.comm.active /\ ~c.overflow)
  BY <1>2 DEF CommFlushIfActive
<1>. QED  BY <1>1, <1>2

(* Flushing both aggregators of a capped context leaves it capped. *)
LEMMA FlushBothCap ==
  ASSUME NEW c \in Ctx, CtxCapped(c)
  PROVE  CtxCapped(CommFlushIfActive(CompFlushIfActive(c)))
<1> DEFINE c1 == CompFlushIfActive(c)
<1>1. c1 \in Ctx  BY CompFlushType
<1>0. c.comp \in CompState /\ c1.comp \in CompState  BY <1>1 DEF Ctx
<1>1a. /\ c.comp.reads \in Nat /\ c.comp.writes \in Nat
       /\ c1.comp.reads \in Nat /\ c1.comp.writes \in Nat
  BY <1>0 DEF CompState
<1>2. CountsAtMost(c)  BY <1>1a, CapAssumption DEF CtxCapped, CountsAtMost
<1>3. LogCapped(c1.trace) /\ c1.comp.reads < Cap /\ c1.comp.writes < Cap
  BY <1>1a, <1>2, CompFlushCap, CapAssumption DEF CtxCapped
<1>. QED  BY <1>1, <1>3, CommFlushCap DEF CtxCapped

(* checkCompFlushLimit, applied to an active compute event whose counts   *)
(* are at most the level (or to one below it), leaves the context capped, *)
(* unless a flush overflowed the EID counter.                              *)
LEMMA CheckLimitCap ==
  ASSUME NEW c \in Ctx, LogCapped(c.trace), CountsAtMost(c),
         c.comp.active \/ (c.comp.reads < Cap /\ c.comp.writes < Cap)
  PROVE  LET d == CheckCompFlushLimit(c)
         IN  d.overflow \/ CtxCapped(d)
<1>0. c.comp \in CompState  BY DEF Ctx
<1>1. c.comp.reads \in Nat /\ c.comp.writes \in Nat  BY <1>0 DEF CompState
<1>2. CASE c.comp.writes >= Cap \/ c.comp.reads >= Cap
  <2>1. CheckCompFlushLimit(c) = CompFlushIfActive(c)
    BY <1>2 DEF CheckCompFlushLimit
  <2>2. c.comp.active  BY <1>1, <1>2, CapAssumption
  <2>3. CASE c.overflow
    BY <2>1, <2>3, CompFlushCap
  <2>4. CASE ~c.overflow
    BY <2>1, <2>2, <2>4, CompFlushCap, CapAssumption DEF CtxCapped
  <2>. QED  BY <2>3, <2>4
<1>3. CASE ~(c.comp.writes >= Cap \/ c.comp.reads >= Cap)
  <2>1. CheckCompFlushLimit(c) = c  BY <1>3 DEF CheckCompFlushLimit
  <2>. QED  BY <1>1, <1>3, <2>1, CapAssumption DEF CtxCapped
<1>. QED  BY <1>2, <1>3

(* The increments of the other counters leave the capped state alone. *)
LEMMA IncOtherCap ==
  ASSUME NEW c \in Ctx, CtxCapped(c)
  PROVE  CtxCapped(IncIOP(c)) /\ CtxCapped(IncFLOP(c))
<1>1. c.comp \in CompState  BY DEF Ctx
<1>2. /\ IncIOP(c).trace = c.trace
      /\ IncIOP(c).comp = [c.comp EXCEPT !.iops = @ + 1, !.active = TRUE]
  BY DEF IncIOP, Ctx
<1>3. /\ IncFLOP(c).trace = c.trace
      /\ IncFLOP(c).comp = [c.comp EXCEPT !.flops = @ + 1, !.active = TRUE]
  BY DEF IncFLOP, Ctx
<1>4. /\ [c.comp EXCEPT !.iops = @ + 1, !.active = TRUE].reads = c.comp.reads
      /\ [c.comp EXCEPT !.iops = @ + 1, !.active = TRUE].writes = c.comp.writes
      /\ [c.comp EXCEPT !.flops = @ + 1, !.active = TRUE].reads = c.comp.reads
      /\ [c.comp EXCEPT !.flops = @ + 1, !.active = TRUE].writes = c.comp.writes
  BY <1>1 DEF CompState
<1>. QED  BY <1>2, <1>3, <1>4 DEF CtxCapped

(* ThreadContext::onSync flushes both aggregators and logs a sync record. *)
LEMMA OnSyncCap ==
  ASSUME NEW c \in Ctx, CtxCapped(c), NEW code \in 1..10, NEW a \in SyncAddrs
  PROVE  CtxCapped(OnSyncCtx(c, code, a))
<1> DEFINE c1 == CommFlushIfActive(CompFlushIfActive(c))
           r == [kind |-> "sync", eid |-> c1.events, type |-> code, addr |-> a]
<1>1. c1 \in Ctx /\ CtxCapped(c1)  BY CompFlushType, CommFlushType, FlushBothCap
<1>2. r \in Rec /\ CompCapped(r)
  <2>1. r \in SyncRec  BY <1>1 DEF SyncRec, Ctx
  <2>. QED  BY <2>1 DEF Rec, CompCapped
<1>3. LogCapped(Append(c1.trace, r))  BY <1>1, <1>2, LogAppend DEF Ctx, CtxCapped
<1>4. CtxCapped([c1 EXCEPT !.trace = Append(c1.trace, r)])
  BY <1>1, <1>3 DEF CtxCapped, Ctx
<1>. QED  BY <1>1, <1>4 DEF OnSyncCtx

-----------------------------------------------------------------------------
(***************************************************************************)
(* CompressionCap.  It is not inductive by itself: an inactive compute    *)
(* event must also be below the level (its counters are zero), so that a  *)
(* load or store that activates it reaches the level at most; and, as for *)
(* OnlyCurrentThreadAccumulates, a flush whose EID increment overflowed   *)
(* leaves a context beyond the level only once the run is fatal.          *)
(***************************************************************************)
CapInv == phase # "fatal" => \A t \in Threads : CtxCapped(tc[t])

CapIInv == IInv /\ CapInv

LEMMA InitCapIInv == Init => CapIInv
<1> SUFFICES ASSUME Init PROVE CapIInv  OBVIOUS
<1>1. IInv  BY InitIInv
<1>2. \A t \in Threads : tc[t] = NewCtx  BY DEF Init
<1>3. \A t \in Threads : CtxCapped(tc[t])
  BY <1>2, CapAssumption DEF CtxCapped, LogCapped, NewCtx, EmptyComp
<1>. QED  BY <1>1, <1>3 DEF CapIInv, CapInv

(* A handler committing a context of the current thread that is capped, *)
(* or has overflowed, keeps every context capped while the run lives.    *)
LEMMA SetCtxCap ==
  ASSUME CapIInv, phase # "fatal", NEW c \in Ctx, cur \in Threads, SetCtx(c),
         c.overflow \/ CtxCapped(c), phase' # "fatal"
  PROVE  \A t \in Threads : CtxCapped(tc'[t])
<1>1. tc' = [tc EXCEPT ![cur] = c] /\ phase' = IF c.overflow THEN "fatal" ELSE phase
  BY DEF SetCtx
<1>2. CtxCapped(c)  BY <1>1
<1>. QED  BY <1>1, <1>2 DEF CapIInv, IInv, CapInv, TypeOK

(* onRead's update of the communication aggregator keeps it well typed. *)
LEMMA CommUpdate ==
  ASSUME NEW cm \in CommState, NEW E \in SUBSET Edge, NEW S
  PROVE  [cm EXCEPT !.edges = @ \cup E, !.active = @ \/ S # {}] \in CommState
  BY DEF CommState

(* onRead commits a capped context, or one that has overflowed. *)
LEMMA ReadCap ==
  ASSUME CapIInv, phase # "fatal", NEW acc \in Accesses, Read(acc[1], acc[2])
  PROVE  \E c \in Ctx : SetCtx(c) /\ (c.overflow \/ CtxCapped(c))
<1> DEFINE start == acc[1]
           size == acc[2]
           t == cur
           B == Bytes(start, size)
           Mapped == B \ Unmapped
           CommBytes == {a \in Mapped : IsCommByte(t, a)}
           NewEdges == {[prod |-> writer[a], peid |-> writerEid[a], addr |-> a]
                          : a \in CommBytes}
           c == tc[t]
           c1 == [c EXCEPT !.comm.edges = @ \cup NewEdges,
                           !.comm.active = @ \/ CommBytes # {},
                           !.comp.rd = @ \cup (B \ CommBytes)]
           c2 == IF CommBytes = {} THEN IncReads(CommFlushIfActive(c1))
                 ELSE CompFlushIfActive(c1)
<1>1. t \in Threads /\ c \in Ctx  BY CurType DEF Read, CapIInv, IInv
<1>2. CtxCapped(c)  BY <1>1 DEF CapIInv, IInv, CapInv
<1>3. B \subseteq Addrs  BY AccessBytes
<1>4. NewEdges \subseteq Edge  BY <1>3 DEF IsCommByte, Edge, CapIInv, IInv, TypeOK
<1>5. c1 \in Ctx
  <2>0. c.comm \in CommState /\ c.comp \in CompState  BY <1>1 DEF Ctx
  <2>1. [c.comm EXCEPT !.edges = @ \cup NewEdges,
                       !.active = @ \/ CommBytes # {}] \in CommState
    BY <2>0, <1>4, CommUpdate
  <2>2. [c.comp EXCEPT !.rd = @ \cup (B \ CommBytes)] \in CompState
    BY <2>0, <1>3, SMTT(30) DEF CompState
  <2>. QED  BY <1>1, <2>1, <2>2 DEF Ctx
<1>6. /\ c1.trace = c.trace
      /\ c1.comp.reads = c.comp.reads /\ c1.comp.writes = c.comp.writes
      /\ c1.comp.active = c.comp.active
  <2>0. c.comp \in CompState  BY <1>1 DEF Ctx
  <2>. QED  BY <1>1, <2>0 DEF Ctx, CompState
<1>7. CtxCapped(c1)  BY <1>2, <1>6 DEF CtxCapped
<1>8. c2 \in Ctx  BY <1>5, CommFlushType, CompFlushType, IncTypes
<1>9. /\ LogCapped(c2.trace) /\ CountsAtMost(c2)
      /\ c2.comp.active \/ (c2.comp.reads < Cap /\ c2.comp.writes < Cap)
  <2> HIDE DEF c1, c2
  <2>0. c1.comp \in CompState  BY <1>5 DEF Ctx
  <2>1. c1.comp.reads \in Nat /\ c1.comp.writes \in Nat  BY <2>0 DEF CompState
  <2>2. CASE CommBytes = {}
    <3> DEFINE x == CommFlushIfActive(c1)
    <3>1. x \in Ctx /\ LogCapped(x.trace) /\ x.comp = c1.comp
      BY <1>5, <1>7, CommFlushType, CommFlushCap DEF CtxCapped
    <3>2. /\ c2.trace = x.trace
          /\ c2.comp.reads = c1.comp.reads + 1 /\ c2.comp.writes = c1.comp.writes
          /\ c2.comp.active
      <4>1. c2 = IncReads(x)  BY <2>2 DEF c2
      <4>2. /\ IncReads(x).trace = x.trace
            /\ IncReads(x).comp = [x.comp EXCEPT !.reads = @ + 1, !.active = TRUE]
        BY <3>1 DEF IncReads, Ctx
      <4>3. x.comp \in CompState  BY <3>1 DEF Ctx
      <4>4. /\ [x.comp EXCEPT !.reads = @ + 1, !.active = TRUE].reads = x.comp.reads + 1
            /\ [x.comp EXCEPT !.reads = @ + 1, !.active = TRUE].writes = x.comp.writes
            /\ [x.comp EXCEPT !.reads = @ + 1, !.active = TRUE].active
        BY <4>3 DEF CompState
      <4>. QED  BY <3>1, <4>1, <4>2, <4>4
    <3>. QED  BY <1>7, <2>1, <3>1, <3>2, CapAssumption DEF CtxCapped, CountsAtMost
  <2>3. CASE CommBytes # {}
    <3>1. c2 = CompFlushIfActive(c1)  BY <2>3 DEF c2
    <3>2. CountsAtMost(c1)  BY <1>7, <2>1, CapAssumption DEF CtxCapped, CountsAtMost
    <3>3. /\ LogCapped(c2.trace)
          /\ c2.comp.reads <= c1.comp.reads /\ c2.comp.writes <= c1.comp.writes
      BY <1>5, <1>7, <3>1, <3>2, CompFlushCap DEF CtxCapped
    <3>4. c2.comp \in CompState  BY <1>8 DEF Ctx
    <3>5. c2.comp.reads \in Nat /\ c2.comp.writes \in Nat  BY <3>4 DEF CompState
    <3>. QED  BY <1>7, <2>1, <3>3, <3>5, CapAssumption DEF CtxCapped, CountsAtMost
  <2>. QED  BY <2>2, <2>3
<1>10. LET d == CheckCompFlushLimit(c2) IN d.overflow \/ CtxCapped(d)
  BY <1>8, <1>9, CheckLimitCap
<1>11. CheckCompFlushLimit(c2) \in Ctx  BY <1>8, CheckLimitType
<1>12. SetCtx(CheckCompFlushLimit(c2))  BY DEF Read
<1>. QED  BY <1>10, <1>11, <1>12

(* onWrite commits a capped context, or one that has overflowed. *)
LEMMA WriteCap ==
  ASSUME CapIInv, phase # "fatal", NEW acc \in Accesses, Write(acc[1], acc[2])
  PROVE  \E c \in Ctx : SetCtx(c) /\ (c.overflow \/ CtxCapped(c))
<1> DEFINE start == acc[1]
           size == acc[2]
           t == cur
           B == Bytes(start, size)
           c == tc[t]
           c1 == [IncWrites(c) EXCEPT !.comp.wr = @ \cup B]
<1>1. t \in Threads /\ c \in Ctx  BY CurType DEF Write, CapIInv, IInv
<1>2. CtxCapped(c)  BY <1>1 DEF CapIInv, IInv, CapInv
<1>3. B \subseteq Addrs  BY AccessBytes
<1>4. IncWrites(c) \in Ctx  BY <1>1, IncTypes
<1>5. c1 \in Ctx
  <2>1. [IncWrites(c).comp EXCEPT !.wr = @ \cup B] \in CompState
    BY <1>3, <1>4 DEF Ctx, CompState
  <2>. QED  BY <1>4, <2>1 DEF Ctx
<1>7. c.comp.reads \in Nat /\ c.comp.writes \in Nat
  <2>1. c.comp \in CompState  BY <1>1 DEF Ctx
  <2>. QED  BY <2>1 DEF CompState
<1>6. /\ c1.trace = c.trace /\ c1.comp.active
      /\ c1.comp.reads = c.comp.reads /\ c1.comp.writes = c.comp.writes + 1
  <2> DEFINE w == [c.comp EXCEPT !.writes = @ + 1, !.active = TRUE]
  <2>1. c.comp \in CompState  BY <1>1 DEF Ctx
  <2>2. IncWrites(c).trace = c.trace /\ IncWrites(c).comp = w  BY <1>1 DEF IncWrites, Ctx
  <2>3. w \in CompState /\ w.reads = c.comp.reads /\ w.writes = c.comp.writes + 1 /\ w.active
    <3>1. c.comp.writes + 1 \in Nat  BY <2>1 DEF CompState
    <3>2. w \in CompState  BY <2>1, <3>1 DEF CompState
    <3>3. w.reads = c.comp.reads /\ w.writes = c.comp.writes + 1  BY <2>1 DEF CompState
    <3>4. w.active  BY <2>1, Zenon DEF CompState
    <3>. QED  BY <3>2, <3>3, <3>4
  <2>4. c1.trace = IncWrites(c).trace /\ c1.comp = [w EXCEPT !.wr = @ \cup B]
    BY <1>4, <2>2 DEF Ctx
  <2>5. /\ [w EXCEPT !.wr = @ \cup B].reads = w.reads
        /\ [w EXCEPT !.wr = @ \cup B].writes = w.writes
        /\ [w EXCEPT !.wr = @ \cup B].active = w.active
    BY <2>3 DEF CompState
  <2>. QED  BY <2>2, <2>3, <2>4, <2>5
<1>8. LogCapped(c1.trace) /\ CountsAtMost(c1)
  BY <1>2, <1>6, <1>7, CapAssumption DEF CtxCapped, CountsAtMost
<1>9. LET d == CheckCompFlushLimit(c1) IN d.overflow \/ CtxCapped(d)
  BY <1>5, <1>6, <1>8, CheckLimitCap
<1>10. CheckCompFlushLimit(c1) \in Ctx  BY <1>5, CheckLimitType
<1>11. SetCtx(CheckCompFlushLimit(c1))  BY DEF Write
<1>. QED  BY <1>9, <1>10, <1>11


(* In a fatal state every action is disabled: only stuttering steps remain. *)
LEMMA FatalStays ==
  ASSUME phase = "fatal", [Next]_vars PROVE UNCHANGED vars
<1>1. ~Consume  BY DEF Consume
<1>. QED  BY <1>1 DEF Next, Swap, Sync, Iop, Flop, Instr, Read, Write,
                       EndOfInput, Destroy, OnExit

LEMMA NextCapIInv == CapIInv /\ [Next]_vars => CapIInv'
<1> SUFFICES ASSUME CapIInv, [Next]_vars PROVE CapIInv'
  OBVIOUS
<1>0. IInv' /\ TypeOK' /\ OverflowFatal'
  <2>1. IInv'  BY NextIInv DEF CapIInv
  <2>. QED  BY <2>1 DEF IInv
<1>a. CASE phase = "fatal"
  BY <1>a, <1>0, FatalStays DEF CapIInv, IInv, CapInv, vars
<1>b. CASE phase # "fatal"
  <2> SUFFICES ASSUME phase' # "fatal" PROVE \A t \in Threads : CtxCapped(tc'[t])
    BY <1>0 DEF CapIInv, IInv, CapInv
  <2>0. \A t \in Threads : CtxCapped(tc[t]) /\ ~tc[t].overflow
    BY <1>b DEF CapIInv, IInv, CapInv, OverflowFatal
  <2>1. ASSUME NEW t \in Threads, Swap(t) PROVE \A u \in Threads : CtxCapped(tc'[u])
    <3>1. CASE cur = NoTID  BY <2>0, <2>1, <3>1 DEF Swap
    <3>2. CASE cur # NoTID
      <4>1. cur \in Threads /\ tc[cur] \in Ctx  BY <3>2, CurType DEF CapIInv, IInv
      <4>2. FlushOutgoing(tc[cur]) \in Ctx /\ CtxCapped(FlushOutgoing(tc[cur]))
        BY <2>0, <4>1, FlushBothType, FlushBothCap DEF FlushOutgoing
      <4>3. SetCtx(FlushOutgoing(tc[cur]))  BY <2>1, <3>2 DEF Swap
      <4>. QED  BY <1>b, <4>1, <4>2, <4>3, SetCtxCap
    <3>. QED  BY <3>1, <3>2
  <2>2. ASSUME NEW k \in SyncKinds, NEW a \in SyncAddrs, Sync(k, a)
        PROVE \A u \in Threads : CtxCapped(tc'[u])
    <3>1. cur \in Threads /\ tc[cur] \in Ctx  BY <2>2, CurType DEF Sync, CapIInv, IInv
    <3>2. STSyncCode[k] \in 1..10  BY SyncCodeType
    <3> DEFINE d == OnSyncCtx(tc[cur], STSyncCode[k], a)
    <3>3. d \in Ctx /\ CtxCapped(d)  BY <2>0, <3>1, <3>2, OnSyncType, OnSyncCap
    <3>4. SetCtx(d)  BY <2>2 DEF Sync
    <3>. QED  BY <1>b, <3>1, <3>3, <3>4, SetCtxCap
  <2>3. CASE Iop
    <3>1. cur \in Threads /\ tc[cur] \in Ctx  BY <2>3, CurType DEF Iop, CapIInv, IInv
    <3> DEFINE x == CommFlushIfActive(tc[cur])
    <3>2. x \in Ctx /\ CtxCapped(x)
      BY <2>0, <3>1, CommFlushType, CommFlushCap DEF CtxCapped
    <3>3. IncIOP(x) \in Ctx /\ CtxCapped(IncIOP(x))  BY <3>2, IncTypes, IncOtherCap
    <3>4. SetCtx(IncIOP(x))  BY <2>3 DEF Iop
    <3>. QED  BY <1>b, <3>1, <3>3, <3>4, SetCtxCap
  <2>4. CASE Flop
    <3>1. cur \in Threads /\ tc[cur] \in Ctx  BY <2>4, CurType DEF Flop, CapIInv, IInv
    <3> DEFINE x == CommFlushIfActive(tc[cur])
    <3>2. x \in Ctx /\ CtxCapped(x)
      BY <2>0, <3>1, CommFlushType, CommFlushCap DEF CtxCapped
    <3>3. IncFLOP(x) \in Ctx /\ CtxCapped(IncFLOP(x))  BY <3>2, IncTypes, IncOtherCap
    <3>4. SetCtx(IncFLOP(x))  BY <2>4 DEF Flop
    <3>. QED  BY <1>b, <3>1, <3>3, <3>4, SetCtxCap
  <2>5. CASE Instr
    <3>1. cur \in Threads /\ tc[cur] \in Ctx  BY <2>5, CurType DEF Instr, CapIInv, IInv
    <3> DEFINE c == tc[cur]
               n == c.instrs + 1
               m == [kind |-> "marker", count |-> MarkerPeriod]
    <3>2. m \in Rec /\ CompCapped(m)  BY DEF Rec, MarkerRec, CompCapped
    <3>3. LogCapped(Append(c.trace, m))  BY <2>0, <3>1, <3>2, LogAppend DEF CtxCapped, Ctx
    <3>4. /\ CtxCapped([c EXCEPT !.instrs = n, !.trace = Append(c.trace, m)])
          /\ CtxCapped([c EXCEPT !.instrs = n, !.trace = c.trace])
      BY <2>0, <3>1, <3>3 DEF CtxCapped, Ctx
    <3>5. tc' = [tc EXCEPT ![cur] = IF n % MarkerPeriod = 0
                                      THEN [c EXCEPT !.instrs = n,
                                                     !.trace = Append(c.trace, m)]
                                      ELSE [c EXCEPT !.instrs = n, !.trace = c.trace]]
      BY <2>5, <3>1 DEF Instr, CapIInv, IInv, TypeOK
    <3>. QED  BY <2>0, <3>4, <3>5
  <2>6. ASSUME NEW acc \in Accesses, Read(acc[1], acc[2])
        PROVE \A u \in Threads : CtxCapped(tc'[u])
    <3>1. cur \in Threads  BY <2>6, ReadCommits DEF CapIInv, IInv
    <3>2. PICK c \in Ctx : SetCtx(c) /\ (c.overflow \/ CtxCapped(c))
      BY <1>b, <2>6, ReadCap
    <3>. QED  BY <1>b, <3>1, <3>2, SetCtxCap
  <2>7. ASSUME NEW acc \in Accesses, Write(acc[1], acc[2])
        PROVE \A u \in Threads : CtxCapped(tc'[u])
    <3>1. cur \in Threads  BY <2>7, WriteCommits DEF CapIInv, IInv
    <3>2. PICK c \in Ctx : SetCtx(c) /\ (c.overflow \/ CtxCapped(c))
      BY <1>b, <2>7, WriteCap
    <3>. QED  BY <1>b, <3>1, <3>2, SetCtxCap
  <2>8. CASE EndOfInput  BY <2>0, <2>8 DEF EndOfInput
  <2>9. ASSUME NEW t \in Threads, Destroy(t) PROVE \A u \in Threads : CtxCapped(tc'[u])
    <3>1. tc[t] \in Ctx  BY DEF CapIInv, IInv, TypeOK
    <3>2. CtxCapped(DestroyCtx(tc[t]))  BY <2>0, <3>1, FlushBothCap DEF DestroyCtx
    <3>3. tc' = [tc EXCEPT ![t] = DestroyCtx(tc[t])]  BY <2>9 DEF Destroy
    <3>. QED  BY <2>0, <3>2, <3>3 DEF CapIInv, IInv, TypeOK
  <2>10. CASE OnExit  BY <2>0, <2>10 DEF OnExit
  <2>11. CASE UNCHANGED vars  BY <2>0, <2>11 DEF vars
  <2>. QED  BY <2>1, <2>2, <2>3, <2>4, <2>5, <2>6, <2>7, <2>8, <2>9, <2>10, <2>11
            DEF Next
<1>. QED  BY <1>a, <1>b

(* The capped contexts give CompressionCap: a logged compute record is    *)
(* one element of the trace.                                              *)
LEMMA CapInvCompression == CapIInv => CompressionCap
<1> SUFFICES ASSUME CapIInv, phase # "fatal", NEW t \in Threads
             PROVE  /\ \A r \in RecsOfKind(t, {"comp"}) : r.reads <= Cap /\ r.writes <= Cap
                    /\ tc[t].comp.active => tc[t].comp.reads < Cap /\ tc[t].comp.writes < Cap
  BY DEF CompressionCap
<1>1. CtxCapped(tc[t])  BY DEF CapIInv, IInv, CapInv
<1>2. ASSUME NEW r \in RecsOfKind(t, {"comp"}) PROVE r.reads <= Cap /\ r.writes <= Cap
  <2>1. PICK j \in DOMAIN Trace(t) : r = Trace(t)[j] /\ r.kind = "comp"
    BY DEF RecsOfKind, Elems
  <2>. QED  BY <1>1, <2>1 DEF CtxCapped, LogCapped, CompCapped, Trace
<1>. QED  BY <1>1, <1>2 DEF CtxCapped

(* THEOREM: for every compression level, a compute event SynchroTraceGen   *)
(* logs has at most primsPerStCompEv reads and as many writes, and a      *)
(* pending one fewer (checkCompFlushLimit flushes at the level, and every *)
(* load or store adds one), unless an EID overflow has ended the run.     *)
THEOREM CompressionBounded == Spec => []CompressionCap
<1>1. Spec => []CapIInv  BY InitCapIInv, NextCapIInv, PTL DEF Spec
<1>. QED  BY <1>1, CapInvCompression, PTL


=============================================================================
