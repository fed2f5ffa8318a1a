------------------------- MODULE ShadowMemoryProofs -------------------------
(***************************************************************************)
(* Proofs about communication detection in SynchroTraceGen: onRead and     *)
(* the shadow memory's updateWriter/updateReader never miss a             *)
(* communication edge (ForeignReadsRecorded) and never report one twice   *)
(* (NoDuplicateEdges).                                                     *)
(***************************************************************************)
EXTENDS SynchroTraceGenProofs, FiniteSetTheorems

(* The communication records of a log. *)
CommRecs(tr) == {r \in Elems(tr) : r.kind = "comm"}

(* The edges a context has logged in communication records or still holds. *)
CtxEdges(c) == (UNION {r.edges : r \in CommRecs(c.trace)}) \cup c.comm.edges

(* The communication records of a context's log, and its pending          *)
(* communication event, carry pairwise disjoint edge sets.                *)
EdgesDisjoint(c) ==
    /\ \A i, j \in DOMAIN c.trace :
          (i < j /\ c.trace[i].kind = "comm" /\ c.trace[j].kind = "comm")
             => c.trace[i].edges \cap c.trace[j].edges = {}
    /\ \A i \in DOMAIN c.trace :
          c.trace[i].kind = "comm" => c.trace[i].edges \cap c.comm.edges = {}

(* ForeignReadsRecorded, with the edges of a thread read off its context. *)
ReadsRecorded ==
    \A a \in Addrs \ Unmapped, t \in Threads :
        (t \in readers[a] /\ writer[a] \notin {t, Undef})
            => [prod |-> writer[a], peid |-> writerEid[a], addr |-> a] \in CtxEdges(tc[t])

(* NoDuplicateEdges, context by context. *)
AllDisjoint == \A t \in Threads : EdgesDisjoint(tc[t])

(* The EID recorded for a byte's last store is one its writer has already *)
(* passed, or the EID of the writer's compute event that is still open.   *)
(* A compute event closes only by a flush, which increments the EID.      *)
WriterEidCurrent ==
    phase # "fatal" =>
        \A a \in Addrs : writer[a] \in Threads =>
            \/ writerEid[a] < tc[writer[a]].events
            \/ writerEid[a] = tc[writer[a]].events /\ tc[writer[a]].comp.active

(* Every edge a thread holds names an EID its producer has passed: the    *)
(* producer was swapped out, and so flushed, before the load that saw it. *)
EdgesPast ==
    phase # "fatal" =>
        \A t \in Threads : \A e \in CtxEdges(tc[t]) : e.peid < tc[e.prod].events

(* A thread holding the edge of a byte's current store is among the       *)
(* byte's readers, so a second load of it is not a communication.         *)
EdgeSeen ==
    \A t \in Threads : \A e \in CtxEdges(tc[t]) :
        writer[e.addr] = e.prod /\ writerEid[e.addr] = e.peid => t \in readers[e.addr]

(* The inductive invariant behind ForeignReadsRecorded and NoDuplicateEdges. *)
EdgeIInv ==
    /\ IInv
    /\ ReadsRecorded
    /\ WriterEidCurrent
    /\ EdgesPast
    /\ EdgeSeen
    /\ AllDisjoint

-----------------------------------------------------------------------------
(***************************************************************************)
(* What the ThreadContext operators do to the edges and the EID counter.  *)
(***************************************************************************)

(* The aggregate records of c's log are numbered 0, 1, 2, ... in order,   *)
(* and, unless the counter has overflowed, the next EID is their number:  *)
(* AggregateEidsContiguous for one context.                              *)
AggNumbered(c) ==
    /\ \A i \in DOMAIN c.trace :
          c.trace[i].kind \in {"comp", "comm"} => c.trace[i].eid = AggCount(c.trace, i - 1)
    /\ ~c.overflow => c.events = AggCount(c.trace, Len(c.trace))

(* d's log extends c's log: records are only appended. *)
LogExtends(c, d) ==
    /\ Len(c.trace) <= Len(d.trace)
    /\ \A i \in 1..Len(c.trace) : d.trace[i] = c.trace[i]

(* d keeps what c has: the log, the same edges, pairwise disjoint if c's  *)
(* were, the numbering of the aggregates, an overflow once it has         *)
(* happened, and an EID that only moves forward; the compute event is     *)
(* closed only by a flush, which increments the EID.                      *)
Keeps(c, d) ==
    /\ LogExtends(c, d)
    /\ AggNumbered(c) => AggNumbered(d)
    /\ CtxEdges(d) = CtxEdges(c)
    /\ EdgesDisjoint(c) => EdgesDisjoint(d)
    /\ c.overflow => d.overflow
    /\ ~d.overflow =>
          \/ c.events < d.events
          \/ c.events = d.events /\ (c.comp.active => d.comp.active)

(* What a handler may do to a context as the trace sees it: extend its  *)
(* log, and move its EID forward unless the context has overflowed.      *)
Grows(c, d) ==
    /\ LogExtends(c, d)
    /\ AggNumbered(c) => AggNumbered(d)
    /\ ~d.overflow => c.events <= d.events

(* A step grows every thread's context. *)
AllGrow == \A t \in Threads : Grows(tc[t], tc'[t])

(* The elements of a sequence after an append. *)
LEMMA ElemsAppend ==
  ASSUME NEW S, NEW s \in Seq(S), NEW x \in S
  PROVE  Elems(Append(s, x)) = Elems(s) \cup {x}
<1>1. /\ DOMAIN Append(s, x) = 1..(Len(s) + 1)
      /\ \A i \in 1..Len(s) : Append(s, x)[i] = s[i]
      /\ Append(s, x)[Len(s) + 1] = x
  BY AppendProperties
<1>2. DOMAIN s = 1..Len(s)  OBVIOUS
<1>. QED  BY <1>1, <1>2 DEF Elems

(* The aggregate records among the first n of a log are finitely many. *)
LEMMA AggCountType ==
  ASSUME NEW tr \in Seq(Rec), NEW n \in Nat
  PROVE  /\ IsFiniteSet({j \in 1..n : tr[j].kind \in {"comp", "comm"}})
         /\ AggCount(tr, n) \in Nat
<1>1. IsFiniteSet(1..n)  BY FS_Interval
<1>2. IsFiniteSet({j \in 1..n : tr[j].kind \in {"comp", "comm"}})  BY <1>1, FS_Subset
<1>. QED  BY <1>2, FS_CardinalityType DEF AggCount

(* Appending a record leaves the counts of the old prefixes alone and     *)
(* adds one to the whole log's count exactly when the record is an        *)
(* aggregate.                                                             *)
LEMMA AggCountAppend ==
  ASSUME NEW tr \in Seq(Rec), NEW r \in Rec
  PROVE  /\ \A n \in 0..Len(tr) : AggCount(Append(tr, r), n) = AggCount(tr, n)
         /\ AggCount(Append(tr, r), Len(tr) + 1) =
              AggCount(tr, Len(tr)) + (IF r.kind \in {"comp", "comm"} THEN 1 ELSE 0)
<1> DEFINE K == {"comp", "comm"}
           L == Len(tr)
           s == Append(tr, r)
           S(q, n) == {j \in 1..n : q[j].kind \in K}
<1>1. /\ s \in Seq(Rec) /\ Len(s) = L + 1
      /\ \A j \in 1..L : s[j] = tr[j]
      /\ s[L + 1] = r
  BY AppendProperties
<1>2. \A n \in 0..L : AggCount(s, n) = AggCount(tr, n)
  <2>1. \A n \in 0..L : S(s, n) = S(tr, n)  BY <1>1
  <2>. QED  BY <2>1 DEF AggCount
<1>3. /\ IsFiniteSet(S(tr, L))
      /\ L + 1 \notin S(tr, L)
  BY AggCountType
<1>9. /\ AggCount(s, L + 1) = Cardinality(S(s, L + 1))
      /\ AggCount(tr, L) = Cardinality(S(tr, L))
  BY DEF AggCount
<1> HIDE DEF S
<1>4. CASE r.kind \in K
  <2>1. S(s, L + 1) = S(tr, L) \cup {L + 1}  BY <1>1, <1>4 DEF S
  <2>2. Cardinality(S(s, L + 1)) = Cardinality(S(tr, L)) + 1
    BY <1>3, <2>1, FS_AddElement
  <2>3. Cardinality(S(tr, L)) \in Nat  BY <1>3, FS_CardinalityType
  <2>. QED  BY <1>2, <1>4, <1>9, <2>2, <2>3
<1>5. CASE r.kind \notin K
  <2>1. S(s, L + 1) = S(tr, L)  BY <1>1, <1>5 DEF S
  <2>2. Cardinality(S(tr, L)) \in Nat  BY <1>3, FS_CardinalityType
  <2>. QED  BY <1>2, <1>5, <1>9, <2>1, <2>2
<1>. QED  BY <1>2, <1>4, <1>5

(* Appending a record keeps the numbering when an aggregate is appended  *)
(* with the current EID before any overflow, and the EID then moves on by *)
(* one, or by none for any other record, unless the new context overflowed. *)
LEMMA AppendNumbered ==
  ASSUME NEW c \in Ctx, NEW d, NEW r \in Rec, AggNumbered(c),
         d.trace = Append(c.trace, r),
         r.kind \in {"comp", "comm"} => ~c.overflow /\ r.eid = c.events,
         ~d.overflow => /\ ~c.overflow
                        /\ d.events = c.events + IF r.kind \in {"comp", "comm"} THEN 1 ELSE 0
  PROVE  AggNumbered(d)
<1> DEFINE L == Len(c.trace)
<1>1. /\ c.trace \in Seq(Rec)
      /\ DOMAIN d.trace = 1..(L + 1) /\ Len(d.trace) = L + 1
      /\ \A j \in 1..L : d.trace[j] = c.trace[j]
      /\ d.trace[L + 1] = r
      /\ DOMAIN c.trace = 1..L
  BY AppendProperties DEF Ctx
<1>2. /\ \A n \in 0..L : AggCount(d.trace, n) = AggCount(c.trace, n)
      /\ AggCount(d.trace, L + 1) =
           AggCount(c.trace, L) + IF r.kind \in {"comp", "comm"} THEN 1 ELSE 0
  BY <1>1, AggCountAppend
<1>3. ASSUME NEW i \in DOMAIN d.trace, d.trace[i].kind \in {"comp", "comm"}
      PROVE  d.trace[i].eid = AggCount(d.trace, i - 1)
  <2>1. CASE i \in 1..L
    BY <1>1, <1>2, <1>3, <2>1 DEF AggNumbered
  <2>2. CASE i = L + 1
    <3>1. ~c.overflow /\ r.eid = c.events  BY <1>1, <1>3, <2>2
    <3>2. c.events = AggCount(c.trace, L)  BY <3>1 DEF AggNumbered
    <3>. QED  BY <1>1, <1>2, <2>2, <3>1, <3>2
  <2>. QED  BY <1>1, <2>1, <2>2
<1>4. ~d.overflow => d.events = AggCount(d.trace, Len(d.trace))
  BY <1>1, <1>2 DEF AggNumbered
<1>. QED  BY <1>3, <1>4 DEF AggNumbered

(* Appending to a context's log extends it. *)
LEMMA AppendExtends ==
  ASSUME NEW c \in Ctx, NEW d, NEW r \in Rec, d.trace = Append(c.trace, r)
  PROVE  LogExtends(c, d)
<1>1. c.trace \in Seq(Rec)  BY DEF Ctx
<1>. QED  BY <1>1, AppendProperties DEF LogExtends

(* The edges of a well-typed context are edges. *)
LEMMA CtxEdgesType ==
  ASSUME NEW c \in Ctx PROVE CtxEdges(c) \subseteq Edge
<1>1. \A r \in CommRecs(c.trace) : r \in CommRec
  BY DEF CommRecs, Elems, Ctx, Rec, CompRec, SyncRec, MarkerRec
<1>. QED  BY <1>1 DEF CtxEdges, CommRec, Ctx, CommState

(* Logging a record that is not a communication record. *)
LEMMA AppendOther ==
  ASSUME NEW c \in Ctx, NEW d \in Ctx, NEW r \in Rec, r.kind # "comm",
         d.trace = Append(c.trace, r), d.comm = c.comm
  PROVE  CtxEdges(d) = CtxEdges(c) /\ (EdgesDisjoint(c) => EdgesDisjoint(d))
<1>1. c.trace \in Seq(Rec)  BY DEF Ctx
<1>2. CommRecs(d.trace) = CommRecs(c.trace)  BY <1>1, ElemsAppend DEF CommRecs
<1>3. /\ DOMAIN d.trace = 1..(Len(c.trace) + 1)
      /\ \A i \in 1..Len(c.trace) : d.trace[i] = c.trace[i]
      /\ d.trace[Len(c.trace) + 1] = r
      /\ DOMAIN c.trace = 1..Len(c.trace)
  BY <1>1, AppendProperties
<1>4. EdgesDisjoint(c) => EdgesDisjoint(d)  BY <1>3 DEF EdgesDisjoint
<1>. QED  BY <1>2, <1>4 DEF CtxEdges

(* Logging the pending communication event and emptying it. *)
LEMMA AppendComm ==
  ASSUME NEW c \in Ctx, NEW d \in Ctx,
         d.trace = Append(c.trace, [kind |-> "comm", eid |-> c.events,
                                    edges |-> c.comm.edges]),
         d.comm.edges = {}
  PROVE  CtxEdges(d) = CtxEdges(c) /\ (EdgesDisjoint(c) => EdgesDisjoint(d))
<1> DEFINE r == [kind |-> "comm", eid |-> c.events, edges |-> c.comm.edges]
<1>1. c.trace \in Seq(Rec) /\ r \in Rec
  BY DEF Ctx, Rec, CommRec, CommState
<1>2. CommRecs(d.trace) = CommRecs(c.trace) \cup {r}  BY <1>1, ElemsAppend DEF CommRecs
<1>3. CtxEdges(d) = CtxEdges(c)  BY <1>2 DEF CtxEdges
<1>4. /\ DOMAIN d.trace = 1..(Len(c.trace) + 1)
      /\ \A i \in 1..Len(c.trace) : d.trace[i] = c.trace[i]
      /\ d.trace[Len(c.trace) + 1] = r
      /\ DOMAIN c.trace = 1..Len(c.trace)
  BY <1>1, AppendProperties
<1>5. EdgesDisjoint(c) => EdgesDisjoint(d)  BY <1>4 DEF EdgesDisjoint
<1>. QED  BY <1>3, <1>5

LEMMA KeepsRefl ==
  ASSUME NEW c \in Ctx PROVE Keeps(c, c)
  BY DEF Keeps, LogExtends

LEMMA KeepsTrans ==
  ASSUME NEW c \in Ctx, NEW d \in Ctx, NEW e \in Ctx, Keeps(c, d), Keeps(d, e)
  PROVE  Keeps(c, e)
<1>1. c.events \in Nat /\ d.events \in Nat /\ e.events \in Nat  BY DEF Ctx, Eids
<1>2. Len(c.trace) \in Nat /\ Len(d.trace) \in Nat /\ Len(e.trace) \in Nat  BY DEF Ctx
<1>3. LogExtends(c, e)  BY <1>2 DEF Keeps, LogExtends
<1>. QED  BY <1>1, <1>3 DEF Keeps

LEMMA GrowsRefl ==
  ASSUME NEW c \in Ctx PROVE Grows(c, c)
  BY DEF Grows, LogExtends, Ctx, Eids

LEMMA KeepsGrows ==
  ASSUME NEW c \in Ctx, NEW d \in Ctx, Keeps(c, d) PROVE Grows(c, d)
<1>1. c.events \in Nat /\ d.events \in Nat  BY DEF Ctx, Eids
<1>. QED  BY <1>1 DEF Keeps, Grows

(* A context change that leaves the log, the communication event, the EID *)
(* and the overflow flag alone and does not close the compute event.      *)
LEMMA KeepsSame ==
  ASSUME NEW c \in Ctx, NEW d,
         d.trace = c.trace, d.comm = c.comm, d.events = c.events,
         d.overflow = c.overflow, c.comp.active => d.comp.active
  PROVE  Keeps(c, d)
  BY DEF Keeps, CtxEdges, EdgesDisjoint, LogExtends, AggNumbered

(* compFlushIfActive logs a compute record and increments the EID. *)
LEMMA CompFlushKeeps ==
  ASSUME NEW c \in Ctx PROVE Keeps(c, CompFlushIfActive(c))
<1>1. CASE c.comp.active /\ ~c.overflow
  <2> DEFINE r == CompRecord(c)
             e == [c EXCEPT !.trace = Append(@, r), !.comp = EmptyComp]
             d == IncrEid(e)
  <2>1. r \in Rec /\ r.kind # "comm"
    <3>1. c.comp \in CompState /\ c.events \in Eids  BY DEF Ctx
    <3>2. r \in CompRec  BY <3>1 DEF CompRecord, CompRec, CompState
    <3>. QED  BY <3>2 DEF Rec, CompRec
  <2>2. Append(c.trace, r) \in Seq(Rec)  BY <2>1 DEF Ctx
  <2>3. e \in Ctx  BY <2>2, EmptyTypes DEF Ctx
  <2>4. e.trace = Append(c.trace, r) /\ e.comm = c.comm  BY DEF Ctx
  <2>5. CtxEdges(e) = CtxEdges(c) /\ (EdgesDisjoint(c) => EdgesDisjoint(e))
    BY <2>1, <2>3, <2>4, AppendOther
  <2>6. d.trace = e.trace /\ d.comm = e.comm /\ e.events = c.events /\ ~e.overflow
    BY <1>1, <2>3 DEF IncrEid, Ctx
  <2>7. CtxEdges(d) = CtxEdges(e) /\ (EdgesDisjoint(e) => EdgesDisjoint(d))
    BY <2>6 DEF CtxEdges, EdgesDisjoint
  <2>8. LogExtends(c, d)  BY <2>1, <2>4, <2>6, AppendExtends
  <2>9. ~d.overflow => d.events = c.events + 1
    BY <2>3, <2>6 DEF IncrEid, Ctx
  <2>10. c.events \in Nat  BY DEF Ctx, Eids
  <2>11. d = CompFlushIfActive(c)  BY <1>1 DEF CompFlushIfActive
  <2>12. AggNumbered(c) => AggNumbered(d)
    <3>1. r.kind = "comp" /\ r.eid = c.events  BY DEF CompRecord
    <3>. QED  BY <1>1, <2>1, <2>4, <2>6, <2>9, <3>1, AppendNumbered
  <2>. QED  BY <1>1, <2>5, <2>7, <2>8, <2>9, <2>10, <2>11, <2>12 DEF Keeps
<1>2. CASE ~(c.comp.active /\ ~c.overflow)
  BY <1>2, KeepsRefl DEF CompFlushIfActive
<1>. QED  BY <1>1, <1>2

(* commFlushIfActive logs the pending edges and increments the EID. *)
LEMMA CommFlushKeeps ==
  ASSUME NEW c \in Ctx PROVE Keeps(c, CommFlushIfActive(c))
<1>1. CASE c.comm.active /\ ~c.overflow
  <2> DEFINE r == [kind |-> "comm", eid |-> c.events, edges |-> c.comm.edges]
             e == [c EXCEPT !.trace = Append(@, r), !.comm = EmptyComm]
             d == IncrEid(e)
  <2>1. r \in Rec  BY DEF Ctx, Rec, CommRec, CommState
  <2>2. Append(c.trace, r) \in Seq(Rec)  BY <2>1 DEF Ctx
  <2>3. e \in Ctx  BY <2>2, EmptyTypes DEF Ctx
  <2>4. e.trace = Append(c.trace, r) /\ e.comm.edges = {}  BY DEF EmptyComm
  <2>5. CtxEdges(e) = CtxEdges(c) /\ (EdgesDisjoint(c) => EdgesDisjoint(e))
    BY <2>3, <2>4, AppendComm
  <2>6. d.trace = e.trace /\ d.comm = e.comm /\ e.events = c.events /\ ~e.overflow
    BY <1>1, <2>3 DEF IncrEid, Ctx
  <2>7. CtxEdges(d) = CtxEdges(e) /\ (EdgesDisjoint(e) => EdgesDisjoint(d))
    BY <2>6 DEF CtxEdges, EdgesDisjoint
  <2>8. LogExtends(c, d)  BY <2>1, <2>4, <2>6, AppendExtends
  <2>9. ~d.overflow => d.events = c.events + 1
    BY <2>3, <2>6 DEF IncrEid, Ctx
  <2>10. c.events \in Nat  BY DEF Ctx, Eids
  <2>11. d = CommFlushIfActive(c)  BY <1>1 DEF CommFlushIfActive
  <2>12. AggNumbered(c) => AggNumbered(d)
    <3>1. r.kind \in {"comp", "comm"} /\ r.eid = c.events  OBVIOUS
    <3>2. d.trace = Append(c.trace, r)  BY <2>4, <2>6
    <3>3. ~d.overflow => ~c.overflow /\ d.events = c.events + 1  BY <1>1, <2>9
    <3> HIDE DEF r, e, d
    <3>. QED  BY <1>1, <2>1, <3>1, <3>2, <3>3, AppendNumbered
  <2>. QED  BY <1>1, <2>5, <2>7, <2>8, <2>9, <2>10, <2>11, <2>12 DEF Keeps
<1>2. CASE ~(c.comm.active /\ ~c.overflow)
  BY <1>2, KeepsRefl DEF CommFlushIfActive
<1>. QED  BY <1>1, <1>2

LEMMA CheckLimitKeeps ==
  ASSUME NEW c \in Ctx PROVE Keeps(c, CheckCompFlushLimit(c))
  BY CompFlushKeeps, KeepsRefl DEF CheckCompFlushLimit

(* The four counters of STCompEvent open the compute event. *)
LEMMA IncKeeps ==
  ASSUME NEW c \in Ctx
  PROVE  /\ Keeps(c, IncReads(c))
         /\ Keeps(c, IncWrites(c))
         /\ Keeps(c, IncIOP(c))
         /\ Keeps(c, IncFLOP(c))
<1>0. /\ IncReads(c).comp = [c.comp EXCEPT !.reads = @ + 1, !.active = TRUE]
      /\ IncWrites(c).comp = [c.comp EXCEPT !.writes = @ + 1, !.active = TRUE]
      /\ IncIOP(c).comp = [c.comp EXCEPT !.iops = @ + 1, !.active = TRUE]
      /\ IncFLOP(c).comp = [c.comp EXCEPT !.flops = @ + 1, !.active = TRUE]
  BY DEF IncReads, IncWrites, IncIOP, IncFLOP, Ctx
<1>1. /\ IncReads(c).comp.active
      /\ IncWrites(c).comp.active
      /\ IncIOP(c).comp.active
      /\ IncFLOP(c).comp.active
  BY <1>0 DEF Ctx, CompState
<1>2. /\ IncReads(c).trace = c.trace /\ IncReads(c).comm = c.comm
      /\ IncReads(c).events = c.events /\ IncReads(c).overflow = c.overflow
      /\ IncWrites(c).trace = c.trace /\ IncWrites(c).comm = c.comm
      /\ IncWrites(c).events = c.events /\ IncWrites(c).overflow = c.overflow
      /\ IncIOP(c).trace = c.trace /\ IncIOP(c).comm = c.comm
      /\ IncIOP(c).events = c.events /\ IncIOP(c).overflow = c.overflow
      /\ IncFLOP(c).trace = c.trace /\ IncFLOP(c).comm = c.comm
      /\ IncFLOP(c).events = c.events /\ IncFLOP(c).overflow = c.overflow
  BY DEF IncReads, IncWrites, IncIOP, IncFLOP, Ctx
<1>. QED  BY <1>1, <1>2, KeepsSame

(* Both aggregators flushed (onSwapTCxt, ~ThreadContext). *)
LEMMA FlushBothKeeps ==
  ASSUME NEW c \in Ctx PROVE Keeps(c, CommFlushIfActive(CompFlushIfActive(c)))
<1>1. CompFlushIfActive(c) \in Ctx /\ CommFlushIfActive(CompFlushIfActive(c)) \in Ctx
  BY CompFlushType, CommFlushType
<1>. QED  BY <1>1, CompFlushKeeps, CommFlushKeeps, KeepsTrans

(* ThreadContext::onSync flushes both and logs a sync record. *)
LEMMA OnSyncKeeps ==
  ASSUME NEW c \in Ctx, NEW code \in 1..10, NEW a \in SyncAddrs
  PROVE  Keeps(c, OnSyncCtx(c, code, a))
<1> DEFINE c1 == CommFlushIfActive(CompFlushIfActive(c))
           r == [kind |-> "sync", eid |-> c1.events, type |-> code, addr |-> a]
           d == [c1 EXCEPT !.trace = Append(c1.trace, r)]
<1>1. c1 \in Ctx /\ Keeps(c, c1)  BY FlushBothKeeps, CompFlushType, CommFlushType
<1> HIDE DEF c1
<1>2. CASE c1.overflow  BY <1>1, <1>2 DEF OnSyncCtx, c1
<1>3. CASE ~c1.overflow
  <2>1. r \in Rec /\ r.kind # "comm"
    <3>1. r \in SyncRec  BY <1>1 DEF SyncRec, Ctx
    <3>. QED  BY <3>1 DEF Rec
  <2>2. Append(c1.trace, r) \in Seq(Rec)  BY <1>1, <2>1 DEF Ctx
  <2>3. d \in Ctx  BY <1>1, <2>2 DEF Ctx
  <2>4. /\ d.trace = Append(c1.trace, r) /\ d.comm = c1.comm
        /\ d.events = c1.events /\ d.overflow = c1.overflow /\ d.comp = c1.comp
    BY <1>1 DEF Ctx
  <2> HIDE DEF r, d
  <2>5. CtxEdges(d) = CtxEdges(c1) /\ (EdgesDisjoint(c1) => EdgesDisjoint(d))
    BY <1>1, <2>1, <2>3, <2>4, AppendOther
  <2>6. LogExtends(c1, d)  BY <1>1, <2>1, <2>4, AppendExtends
  <2>9. AggNumbered(c1) => AggNumbered(d)
    <3>1. r.kind \notin {"comp", "comm"}  BY DEF r
    <3>2. c1.events \in Nat  BY <1>1 DEF Ctx, Eids
    <3>3. ~d.overflow => ~c1.overflow /\ d.events = c1.events + 0  BY <2>4, <3>2
    <3>. QED  BY <1>1, <2>1, <2>4, <3>1, <3>3, AppendNumbered
  <2>7. Keeps(c1, d)  BY <1>1, <2>4, <2>5, <2>6, <2>9 DEF Keeps
  <2>8. OnSyncCtx(c, code, a) = d  BY <1>3 DEF OnSyncCtx, c1, d, r
  <2>. QED  BY <1>1, <2>3, <2>7, <2>8, KeepsTrans
<1>. QED  BY <1>2, <1>3

-----------------------------------------------------------------------------
(***************************************************************************)
(* The invariant holds initially and is kept by every handler.            *)
(***************************************************************************)
LEMMA InitEdgeIInv == Init => EdgeIInv
<1> SUFFICES ASSUME Init PROVE EdgeIInv  OBVIOUS
<1>1. IInv  BY InitIInv
<1>2. \A t \in Threads : tc[t] = NewCtx  BY DEF Init
<1>3. CommRecs(<< >>) = {}  BY DEF CommRecs, Elems
<1>4. \A t \in Threads : CtxEdges(tc[t]) = {} /\ EdgesDisjoint(tc[t])
  BY <1>2, <1>3 DEF CtxEdges, EdgesDisjoint, NewCtx, EmptyComm
<1>5. \A a \in Addrs : readers[a] = {} /\ writer[a] = Undef  BY DEF Init
<1>. QED  BY <1>1, <1>4, <1>5, SentinelAssumption
          DEF EdgeIInv, ReadsRecorded, WriterEidCurrent, EdgesPast, EdgeSeen,
              AllDisjoint

(* A handler that replaces one context by one that keeps it, and leaves   *)
(* the shadow memory alone, keeps the invariant.                          *)
LEMMA CtxStepEdge ==
  ASSUME EdgeIInv, IInv', phase # "fatal", NEW u \in Threads, NEW d \in Ctx,
         tc' = [tc EXCEPT ![u] = d], Keeps(tc[u], d),
         UNCHANGED <<writer, writerEid, readers>>
  PROVE  /\ ReadsRecorded' /\ WriterEidCurrent' /\ EdgesPast' /\ EdgeSeen' /\ AllDisjoint'
         /\ AllGrow
<1>0. /\ tc \in [Threads -> Ctx]
      /\ tc'[u] = d
      /\ \A v \in Threads \ {u} : tc'[v] = tc[v]
  BY DEF EdgeIInv, IInv, TypeOK
<1>1. \A v \in Threads : Keeps(tc[v], tc'[v])  BY <1>0, KeepsRefl
<1>2. \A v \in Threads : CtxEdges(tc'[v]) = CtxEdges(tc[v])  BY <1>1 DEF Keeps
<1>3. ReadsRecorded'  BY <1>2 DEF EdgeIInv, ReadsRecorded
<1>4. EdgeSeen'  BY <1>2 DEF EdgeIInv, EdgeSeen
<1>5. AllDisjoint'  BY <1>1 DEF EdgeIInv, AllDisjoint, Keeps
<1>6. ASSUME phase' # "fatal"
      PROVE  \A v \in Threads :
                /\ tc[v].events <= tc'[v].events
                /\ tc[v].events = tc'[v].events /\ tc[v].comp.active
                     => tc'[v].comp.active
  <2>1. \A v \in Threads : ~tc'[v].overflow  BY <1>6 DEF IInv, OverflowFatal
  <2>2. \A v \in Threads : tc[v].events \in Nat /\ tc'[v].events \in Nat
    BY <1>0 DEF Ctx, Eids
  <2>. QED  BY <1>1, <2>1, <2>2 DEF Keeps
<1>7. WriterEidCurrent'
  <2>1. SUFFICES ASSUME phase' # "fatal", NEW a \in Addrs, writer'[a] \in Threads
                 PROVE  \/ writerEid'[a] < tc'[writer'[a]].events
                        \/ writerEid'[a] = tc'[writer'[a]].events
                           /\ tc'[writer'[a]].comp.active
    BY DEF WriterEidCurrent
  <2> DEFINE w == writer[a]
  <2>2. writerEid[a] \in Nat /\ writer'[a] = w /\ writerEid'[a] = writerEid[a]
    BY DEF EdgeIInv, IInv, TypeOK, Eids
  <2>3. w \in Threads /\ tc[w].events \in Nat /\ tc'[w].events \in Nat
    BY <1>0, <2>1, <2>2 DEF Ctx, Eids
  <2>4. /\ tc[w].events <= tc'[w].events
        /\ tc[w].events = tc'[w].events /\ tc[w].comp.active => tc'[w].comp.active
    BY <1>6, <2>1, <2>3
  <2>5. \/ writerEid[a] < tc[w].events
        \/ writerEid[a] = tc[w].events /\ tc[w].comp.active
    BY <2>3 DEF EdgeIInv, WriterEidCurrent
  <2>. QED  BY <2>2, <2>3, <2>4, <2>5
<1>8. EdgesPast'
  <2>1. SUFFICES ASSUME phase' # "fatal", NEW v \in Threads, NEW e \in CtxEdges(tc'[v])
                 PROVE  e.peid < tc'[e.prod].events
    BY DEF EdgesPast
  <2>2. e \in CtxEdges(tc[v]) /\ e \in Edge  BY <1>0, <1>2, CtxEdgesType
  <2>3. e.prod \in Threads /\ e.peid \in Nat  BY <2>2 DEF Edge, Eids
  <2>4. e.peid < tc[e.prod].events  BY <2>2, <2>3 DEF EdgeIInv, EdgesPast
  <2>5. tc[e.prod].events \in Nat /\ tc'[e.prod].events \in Nat  BY <1>0, <2>3 DEF Ctx, Eids
  <2>6. tc[e.prod].events <= tc'[e.prod].events  BY <1>6, <2>1, <2>3
  <2>. QED  BY <2>3, <2>4, <2>5, <2>6
<1>9. AllGrow
  <2>1. \A v \in Threads : tc[v] \in Ctx /\ tc'[v] \in Ctx  BY <1>0
  <2>. QED  BY <1>1, <2>1, KeepsGrows DEF AllGrow
<1>. QED  BY <1>3, <1>4, <1>5, <1>7, <1>8, <1>9

(* onWrite: the stored bytes get the writer's current EID, which no edge  *)
(* names yet (EdgesPast), and the writer's compute event is open or has   *)
(* been flushed with that EID.                                            *)
LEMMA WriteEdge ==
  ASSUME EdgeIInv, IInv', NEW acc \in Accesses, Write(acc[1], acc[2])
  PROVE  /\ ReadsRecorded' /\ WriterEidCurrent' /\ EdgesPast' /\ EdgeSeen' /\ AllDisjoint'
         /\ AllGrow
<1> DEFINE t == cur
           c == tc[t]
           E == c.events
           B == Bytes(acc[1], acc[2])
           c1 == [IncWrites(c) EXCEPT !.comp.wr = @ \cup B]
           d == CheckCompFlushLimit(c1)
<1>1. t \in Threads /\ c \in Ctx /\ phase = "run"
  BY CurType DEF Write, Consume, EdgeIInv, IInv
<1>2. PICK W \in SUBSET Addrs : UpdateWriter(W, t, E)  BY WriteCommits DEF EdgeIInv, IInv
<1>3. /\ IncWrites(c) \in Ctx
      /\ IncWrites(c).comp = [c.comp EXCEPT !.writes = @ + 1, !.active = TRUE]
  BY <1>1, IncTypes DEF IncWrites, Ctx
<1>4. /\ c1 \in Ctx
      /\ c1.trace = c.trace /\ c1.comm = c.comm
      /\ c1.events = E /\ c1.overflow = c.overflow /\ c1.comp.active
  <2>1. B \subseteq Addrs  BY AccessBytes
  <2>2. c1.comp = [IncWrites(c).comp EXCEPT !.wr = @ \cup B]  BY <1>3 DEF Ctx
  <2>3. c1.comp \in CompState /\ c1.comp.active  BY <1>1, <1>3, <2>1, <2>2 DEF CompState, Ctx
  <2>4. c1.trace = c.trace /\ c1.comm = c.comm /\ c1.events = E /\ c1.overflow = c.overflow
    BY <1>3 DEF IncWrites, Ctx
  <2>. QED  BY <1>3, <2>3, <2>4 DEF Ctx
<1> HIDE DEF c1
<1>5. d \in Ctx /\ Keeps(c1, d) /\ Keeps(c, c1)
  BY <1>1, <1>4, CheckLimitType, CheckLimitKeeps, KeepsSame
<1>6. Keeps(c, d)  BY <1>1, <1>4, <1>5, KeepsTrans
<1> HIDE DEF d
<1>7. tc' = [tc EXCEPT ![t] = d]  BY DEF Write, SetCtx, d, c1
<1>8. /\ tc \in [Threads -> Ctx]
      /\ tc'[t] = d
      /\ \A v \in Threads \ {t} : tc'[v] = tc[v]
  BY <1>1, <1>7 DEF EdgeIInv, IInv, TypeOK
<1>20. \A v \in Threads : tc'[v] \in Ctx  BY <1>5, <1>8
<1>21. \A v \in Threads : tc[v].events \in Nat /\ tc'[v].events \in Nat
  BY <1>8, <1>20 DEF Ctx, Eids
<1>9. \A v \in Threads : Keeps(tc[v], tc'[v])  BY <1>6, <1>8, KeepsRefl
<1>10. \A v \in Threads : CtxEdges(tc'[v]) = CtxEdges(tc[v])  BY <1>9 DEF Keeps
<1>11. /\ \A a \in Addrs : writer'[a] = IF a \in W THEN t ELSE writer[a]
       /\ \A a \in Addrs : writerEid'[a] = IF a \in W THEN E ELSE writerEid[a]
       /\ \A a \in Addrs : readers'[a] = IF a \in W THEN {} ELSE readers[a]
  BY <1>2 DEF UpdateWriter
<1>12. ReadsRecorded'  BY <1>10, <1>11 DEF EdgeIInv, ReadsRecorded
<1>13. AllDisjoint'  BY <1>9 DEF EdgeIInv, AllDisjoint, Keeps
<1>14. EdgeSeen'
  <2>1. SUFFICES ASSUME NEW v \in Threads, NEW e \in CtxEdges(tc'[v]),
                        writer'[e.addr] = e.prod, writerEid'[e.addr] = e.peid
                 PROVE  v \in readers'[e.addr]
    BY DEF EdgeSeen
  <2>2. e \in CtxEdges(tc[v]) /\ e \in Edge  BY <1>8, <1>10, CtxEdgesType
  <2>3. e.addr \in Addrs /\ e.prod \in Threads /\ e.peid \in Nat  BY <2>2 DEF Edge, Eids
  <2>4. CASE e.addr \in W
    <3>1. e.prod = t /\ e.peid = E  BY <1>11, <2>1, <2>3, <2>4
    <3>2. e.peid < E  BY <1>1, <2>2, <3>1 DEF EdgeIInv, EdgesPast
    <3>3. E \in Nat  BY <1>1 DEF Ctx, Eids
    <3>. QED  BY <3>1, <3>2, <3>3
  <2>5. CASE e.addr \notin W  BY <1>11, <2>1, <2>2, <2>3, <2>5 DEF EdgeIInv, EdgeSeen
  <2>. QED  BY <2>4, <2>5
<1>15. ASSUME phase' # "fatal"
       PROVE  \A v \in Threads :
                 /\ tc[v].events <= tc'[v].events
                 /\ tc[v].events = tc'[v].events /\ tc[v].comp.active
                      => tc'[v].comp.active
  <2>1. \A v \in Threads : ~tc'[v].overflow  BY <1>15 DEF IInv, OverflowFatal
  <2>. QED  BY <1>9, <1>21, <2>1 DEF Keeps
<1>16. EdgesPast'
  <2>1. SUFFICES ASSUME phase' # "fatal", NEW v \in Threads, NEW e \in CtxEdges(tc'[v])
                 PROVE  e.peid < tc'[e.prod].events
    BY DEF EdgesPast
  <2>2. e \in CtxEdges(tc[v]) /\ e \in Edge  BY <1>8, <1>10, CtxEdgesType
  <2>3. e.prod \in Threads /\ e.peid \in Nat  BY <2>2 DEF Edge, Eids
  <2>4. e.peid < tc[e.prod].events  BY <1>1, <2>2, <2>3 DEF EdgeIInv, EdgesPast
  <2>5. tc[e.prod].events \in Nat /\ tc'[e.prod].events \in Nat  BY <1>21, <2>3
  <2>6. tc[e.prod].events <= tc'[e.prod].events  BY <1>15, <2>1, <2>3
  <2>. QED  BY <2>3, <2>4, <2>5, <2>6
<1>17. WriterEidCurrent'
  <2>1. SUFFICES ASSUME phase' # "fatal", NEW a \in Addrs, writer'[a] \in Threads
                 PROVE  \/ writerEid'[a] < tc'[writer'[a]].events
                        \/ writerEid'[a] = tc'[writer'[a]].events
                           /\ tc'[writer'[a]].comp.active
    BY DEF WriterEidCurrent
  <2>2. CASE a \in W
    <3>1. writer'[a] = t /\ writerEid'[a] = E  BY <1>11, <2>2
    <3>2. ~d.overflow  BY <1>8, <1>1, <2>1 DEF IInv, OverflowFatal
    <3>3. E < d.events \/ (E = d.events /\ d.comp.active)  BY <1>4, <1>5, <3>2 DEF Keeps
    <3>. QED  BY <1>8, <3>1, <3>3
  <2>3. CASE a \notin W
    <3> DEFINE w == writer[a]
    <3>1. writer'[a] = w /\ writerEid'[a] = writerEid[a] /\ writerEid[a] \in Nat
      BY <1>11, <2>3 DEF EdgeIInv, IInv, TypeOK, Eids
    <3>2. w \in Threads /\ tc[w].events \in Nat /\ tc'[w].events \in Nat
      BY <1>21, <2>1, <3>1
    <3>3. /\ tc[w].events <= tc'[w].events
          /\ tc[w].events = tc'[w].events /\ tc[w].comp.active => tc'[w].comp.active
      BY <1>15, <2>1, <3>2
    <3>4. \/ writerEid[a] < tc[w].events
          \/ writerEid[a] = tc[w].events /\ tc[w].comp.active
      BY <1>1, <3>2 DEF EdgeIInv, WriterEidCurrent
    <3>. QED  BY <3>1, <3>2, <3>3, <3>4
  <2>. QED  BY <2>2, <2>3
<1>18. AllGrow  BY <1>8, <1>9, <1>20, KeepsGrows DEF AllGrow
<1>. QED  BY <1>12, <1>13, <1>14, <1>16, <1>17, <1>18

(* onRead's update of the aggregators before any flush: the new edges     *)
(* join the pending communication event, and the log, the EID and the     *)
(* compute event's activity stay as they were.                            *)
ReadUpd(c, N, S, R) ==
    [c EXCEPT !.comm.edges = @ \cup N, !.comm.active = @ \/ S # {}, !.comp.rd = @ \cup R]

LEMMA ReadAggregate ==
  ASSUME NEW c \in Ctx, NEW N \in SUBSET Edge, NEW S, NEW R \in SUBSET Addrs
  PROVE  /\ ReadUpd(c, N, S, R) \in Ctx
         /\ ReadUpd(c, N, S, R).trace = c.trace
         /\ ReadUpd(c, N, S, R).events = c.events
         /\ ReadUpd(c, N, S, R).overflow = c.overflow
         /\ ReadUpd(c, N, S, R).comp.active = c.comp.active
         /\ CtxEdges(ReadUpd(c, N, S, R)) = CtxEdges(c) \cup N
         /\ EdgesDisjoint(c) /\ N \cap CtxEdges(c) = {}
              => EdgesDisjoint(ReadUpd(c, N, S, R))
<1> DEFINE c1 == ReadUpd(c, N, S, R)
           cm == [c.comm EXCEPT !.edges = @ \cup N, !.active = @ \/ S # {}]
           cp == [c.comp EXCEPT !.rd = @ \cup R]
<1>1. c1 = [c EXCEPT !.comm = cm, !.comp = cp]  BY DEF Ctx, ReadUpd
<1>2. cm \in CommState /\ cm.edges = c.comm.edges \cup N  BY DEF Ctx, CommState
<1>3. cp \in CompState /\ cp.active = c.comp.active  BY DEF Ctx, CompState
<1> HIDE DEF c1, cm, cp
<1>4. /\ c1 \in Ctx
      /\ c1.trace = c.trace /\ c1.events = c.events
      /\ c1.overflow = c.overflow /\ c1.comp.active = c.comp.active
      /\ c1.comm.edges = c.comm.edges \cup N
  BY <1>1, <1>2, <1>3 DEF Ctx
<1>5. CtxEdges(c1) = CtxEdges(c) \cup N  BY <1>4 DEF CtxEdges
<1>6. ASSUME EdgesDisjoint(c), N \cap CtxEdges(c) = {} PROVE EdgesDisjoint(c1)
  <2>1. \A i \in DOMAIN c.trace :
           c.trace[i].kind = "comm" => c.trace[i].edges \subseteq CtxEdges(c)
    BY DEF CtxEdges, CommRecs, Elems
  <2>. QED  BY <1>4, <1>6, <2>1 DEF EdgesDisjoint
<1>. QED  BY <1>4, <1>5, <1>6 DEF c1

(* onRead: a byte whose last store another thread made, and that this   *)
(* thread has not read since, yields an edge that the thread does not    *)
(* hold yet (EdgeSeen), naming an EID its producer has passed: the       *)
(* producer is not the current thread, so its compute event is closed.   *)
LEMMA ReadEdge ==
  ASSUME EdgeIInv, IInv', NEW acc \in Accesses, Read(acc[1], acc[2])
  PROVE  /\ ReadsRecorded' /\ WriterEidCurrent' /\ EdgesPast' /\ EdgeSeen' /\ AllDisjoint'
         /\ AllGrow
<1> DEFINE t == cur
           c == tc[t]
           B == Bytes(acc[1], acc[2])
           Mapped == B \ Unmapped
           CommBytes == {a \in Mapped : IsCommByte(t, a)}
           NewEdges == {[prod |-> writer[a], peid |-> writerEid[a], addr |-> a]
                          : a \in CommBytes}
           c1 == [c EXCEPT !.comm.edges = @ \cup NewEdges,
                           !.comm.active = @ \/ CommBytes # {},
                           !.comp.rd = @ \cup (B \ CommBytes)]
           c2 == IF CommBytes = {} THEN IncReads(CommFlushIfActive(c1))
                 ELSE CompFlushIfActive(c1)
           d == CheckCompFlushLimit(c2)
<1>1. t \in Threads /\ c \in Ctx /\ phase = "run"
  BY CurType DEF Read, Consume, EdgeIInv, IInv
<1>2. B \subseteq Addrs  BY AccessBytes
<1>3. NewEdges \subseteq Edge  BY <1>2 DEF IsCommByte, Edge, TypeOK, EdgeIInv, IInv
<1>4. /\ c1 \in Ctx
      /\ c1.trace = c.trace /\ c1.events = c.events
      /\ c1.overflow = c.overflow /\ c1.comp.active = c.comp.active
      /\ CtxEdges(c1) = CtxEdges(c) \cup NewEdges
      /\ EdgesDisjoint(c) /\ NewEdges \cap CtxEdges(c) = {} => EdgesDisjoint(c1)
  <2>1. B \ CommBytes \in SUBSET Addrs /\ NewEdges \in SUBSET Edge  BY <1>2, <1>3
  <2> HIDE DEF c1
  <2>2. c1 = ReadUpd(c, NewEdges, CommBytes, B \ CommBytes)  BY DEF c1, ReadUpd
  <2> HIDE DEF NewEdges, CommBytes, B, c2, d
  <2> DEFINE u == ReadUpd(c, NewEdges, CommBytes, B \ CommBytes)
  <2>3. /\ u \in Ctx
        /\ u.trace = c.trace
        /\ u.events = c.events
        /\ u.overflow = c.overflow
        /\ u.comp.active = c.comp.active
        /\ CtxEdges(u) = CtxEdges(c) \cup NewEdges
        /\ EdgesDisjoint(c) /\ NewEdges \cap CtxEdges(c) = {} => EdgesDisjoint(u)
    <3>1. c \in Ctx  BY <1>1
    <3> HIDE DEF c
    <3>. QED  BY <3>1, <2>1, ReadAggregate
  <2> HIDE DEF u
  <2>. QED  BY <2>2, <2>3 DEF u
<1> HIDE DEF c1
<1>5. c2 \in Ctx /\ Keeps(c1, c2)
  <2>1. CASE CommBytes = {}
    <3>1. CommFlushIfActive(c1) \in Ctx  BY <1>4, CommFlushType
    <3>2. IncReads(CommFlushIfActive(c1)) \in Ctx  BY <3>1, IncTypes
    <3>3. Keeps(c1, IncReads(CommFlushIfActive(c1)))
      BY <1>4, <3>1, <3>2, CommFlushKeeps, IncKeeps, KeepsTrans
    <3>. QED  BY <2>1, <3>2, <3>3
  <2>2. CASE CommBytes # {}
    BY <1>4, <2>2, CompFlushType, CompFlushKeeps
  <2>. QED  BY <2>1, <2>2
<1> HIDE DEF c2
<1>6. d \in Ctx /\ Keeps(c1, d)  BY <1>4, <1>5, CheckLimitType, CheckLimitKeeps, KeepsTrans
<1> HIDE DEF d
<1>7. /\ tc' = [tc EXCEPT ![t] = d]
      /\ UNCHANGED <<writer, writerEid>>
      /\ readers' = [a \in Addrs |-> IF a \in Mapped THEN readers[a] \cup {t}
                                     ELSE readers[a]]
  BY DEF Read, SetCtx, d, c2, c1
<1>8. /\ tc \in [Threads -> Ctx]
      /\ tc'[t] = d
      /\ \A v \in Threads \ {t} : tc'[v] = tc[v]
  BY <1>1, <1>7 DEF EdgeIInv, IInv, TypeOK
<1>9. \A v \in Threads : tc'[v] \in Ctx  BY <1>6, <1>8
<1>10. \A v \in Threads : tc[v].events \in Nat /\ tc'[v].events \in Nat
  BY <1>8, <1>9 DEF Ctx, Eids
<1>11. \A a \in Addrs : readers[a] \subseteq readers'[a]  BY <1>7
(* The new edges are new. *)
<1>12. NewEdges \cap CtxEdges(c) = {}
  <2>1. SUFFICES ASSUME NEW a \in CommBytes,
                        [prod |-> writer[a], peid |-> writerEid[a], addr |-> a] \in CtxEdges(c)
                 PROVE  FALSE
    OBVIOUS
  <2>2. t \notin readers[a]  BY DEF IsCommByte
  <2>. QED  BY <1>1, <2>1, <2>2 DEF EdgeIInv, EdgeSeen
(* What the handler does to the thread's context, as seen from tc[t]. *)
<1>13. /\ CtxEdges(tc'[t]) = CtxEdges(c) \cup NewEdges
       /\ EdgesDisjoint(tc'[t])
       /\ c.overflow => d.overflow
       /\ ~d.overflow => \/ c.events < d.events
                         \/ c.events = d.events /\ (c.comp.active => d.comp.active)
  BY <1>4, <1>6, <1>8, <1>12, <1>1 DEF Keeps, EdgeIInv, AllDisjoint
<1>14. \A v \in Threads \ {t} : CtxEdges(tc'[v]) = CtxEdges(tc[v])  BY <1>8
<1>15. AllDisjoint'  BY <1>8, <1>13 DEF EdgeIInv, AllDisjoint
<1>16. ASSUME phase' # "fatal"
       PROVE  \A v \in Threads :
                 /\ tc[v].events <= tc'[v].events
                 /\ tc[v].events = tc'[v].events /\ tc[v].comp.active
                      => tc'[v].comp.active
  <2>1. \A v \in Threads : ~tc'[v].overflow  BY <1>16 DEF IInv, OverflowFatal
  <2>. QED  BY <1>8, <1>10, <1>13, <2>1
<1>17. ReadsRecorded'
  <2>1. SUFFICES ASSUME NEW a \in Addrs \ Unmapped, NEW v \in Threads,
                        v \in readers'[a], writer'[a] \notin {v, Undef}
                 PROVE  [prod |-> writer[a], peid |-> writerEid[a], addr |-> a]
                          \in CtxEdges(tc'[v])
    BY <1>7 DEF ReadsRecorded
  <2>2. CASE v \in readers[a]
    <3>1. [prod |-> writer[a], peid |-> writerEid[a], addr |-> a] \in CtxEdges(tc[v])
      BY <1>7, <2>1, <2>2 DEF EdgeIInv, ReadsRecorded
    <3>. QED  BY <1>13, <1>14, <3>1
  <2>3. CASE v \notin readers[a]
    <3>1. v = t /\ a \in Mapped  BY <1>7, <2>1, <2>3
    <3>2. a \in CommBytes  BY <1>7, <2>1, <2>3, <3>1 DEF IsCommByte
    <3>. QED  BY <1>13, <3>1, <3>2
  <2>. QED  BY <2>2, <2>3
<1>18. EdgeSeen'
  <2>1. SUFFICES ASSUME NEW v \in Threads, NEW e \in CtxEdges(tc'[v]),
                        writer'[e.addr] = e.prod, writerEid'[e.addr] = e.peid
                 PROVE  v \in readers'[e.addr]
    BY DEF EdgeSeen
  <2>2. e \in Edge  BY <1>9, <2>1, CtxEdgesType
  <2>3. e.addr \in Addrs  BY <2>2 DEF Edge
  <2>4. CASE e \in CtxEdges(tc[v])
    BY <1>7, <1>11, <2>1, <2>3, <2>4 DEF EdgeIInv, EdgeSeen
  <2>5. CASE e \notin CtxEdges(tc[v])
    <3>1. v = t /\ e \in NewEdges  BY <1>13, <1>14, <2>5
    <3>2. PICK a \in CommBytes : e = [prod |-> writer[a], peid |-> writerEid[a], addr |-> a]
      BY <3>1
    <3>3. e.addr = a /\ a \in Mapped /\ a \in Addrs  BY <1>2, <3>2
    <3>. QED  BY <1>7, <3>1, <3>3
  <2>. QED  BY <2>4, <2>5
<1>19. EdgesPast'
  <2>1. SUFFICES ASSUME phase' # "fatal", NEW v \in Threads, NEW e \in CtxEdges(tc'[v])
                 PROVE  e.peid < tc'[e.prod].events
    BY DEF EdgesPast
  <2>2. e \in Edge  BY <1>9, <2>1, CtxEdgesType
  <2>3. e.prod \in Threads /\ e.peid \in Nat  BY <2>2 DEF Edge, Eids
  <2>4. tc[e.prod].events <= tc'[e.prod].events  BY <1>16, <2>1, <2>3
  <2>5. e.peid < tc[e.prod].events
    <3>1. CASE e \in CtxEdges(tc[v])  BY <1>1, <2>3, <3>1 DEF EdgeIInv, EdgesPast
    <3>2. CASE e \notin CtxEdges(tc[v])
      <4>1. v = t /\ e \in NewEdges  BY <1>13, <1>14, <3>2
      <4>2. PICK a \in CommBytes : e = [prod |-> writer[a], peid |-> writerEid[a], addr |-> a]
        BY <4>1
      <4>3. a \in Addrs /\ writer[a] \in Threads \ {t} /\ e.prod = writer[a]
        BY <1>2, <2>3, <4>2 DEF IsCommByte
      <4>4. ~tc[writer[a]].comp.active
        BY <1>1, <4>3 DEF EdgeIInv, IInv, OnlyCurrentThreadAccumulates, Active
      <4>. QED  BY <1>1, <4>2, <4>3, <4>4 DEF EdgeIInv, WriterEidCurrent
    <3>. QED  BY <3>1, <3>2
  <2>. QED  BY <1>10, <2>3, <2>4, <2>5
<1>20. WriterEidCurrent'
  <2>1. SUFFICES ASSUME phase' # "fatal", NEW a \in Addrs, writer'[a] \in Threads
                 PROVE  \/ writerEid'[a] < tc'[writer'[a]].events
                        \/ writerEid'[a] = tc'[writer'[a]].events
                           /\ tc'[writer'[a]].comp.active
    BY DEF WriterEidCurrent
  <2> DEFINE w == writer[a]
  <2>2. writer'[a] = w /\ writerEid'[a] = writerEid[a] /\ writerEid[a] \in Nat
    BY <1>7 DEF EdgeIInv, IInv, TypeOK, Eids
  <2>3. w \in Threads  BY <2>1, <2>2
  <2>4. /\ tc[w].events <= tc'[w].events
        /\ tc[w].events = tc'[w].events /\ tc[w].comp.active => tc'[w].comp.active
    BY <1>16, <2>1, <2>3
  <2>5. \/ writerEid[a] < tc[w].events
        \/ writerEid[a] = tc[w].events /\ tc[w].comp.active
    BY <1>1, <2>3 DEF EdgeIInv, WriterEidCurrent
  <2>. QED  BY <1>10, <2>2, <2>3, <2>4, <2>5
(* The loads leave the log and the EID alone; the flushes extend them. *)
<1>21. AllGrow
  <2>1. Grows(c1, d)  BY <1>4, <1>6, KeepsGrows
  <2>2. Grows(c, tc'[t])  BY <1>4, <1>8, <2>1 DEF Grows, LogExtends, AggNumbered
  <2>3. \A v \in Threads \ {t} : Grows(tc[v], tc'[v])  BY <1>8, GrowsRefl
  <2>. QED  BY <2>2, <2>3 DEF AllGrow
<1>. QED  BY <1>15, <1>17, <1>18, <1>19, <1>20, <1>21

(* onInstr logs an instruction marker or nothing. *)
LEMMA InstrKeeps ==
  ASSUME NEW c \in Ctx, NEW n \in Nat, NEW logIt \in BOOLEAN
  PROVE  LET m == [kind |-> "marker", count |-> MarkerPeriod]
             d == [c EXCEPT !.instrs = n,
                            !.trace = IF logIt THEN Append(c.trace, m) ELSE c.trace]
         IN  d \in Ctx /\ Keeps(c, d)
<1> DEFINE m == [kind |-> "marker", count |-> MarkerPeriod]
           d == [c EXCEPT !.instrs = n,
                          !.trace = IF logIt THEN Append(c.trace, m) ELSE c.trace]
<1>1. m \in Rec /\ m.kind # "comm"  BY DEF Rec, MarkerRec
<1>2. Append(c.trace, m) \in Seq(Rec)  BY <1>1 DEF Ctx
<1>3. d \in Ctx  BY <1>2 DEF Ctx
<1>4. d.comm = c.comm /\ d.events = c.events /\ d.overflow = c.overflow /\ d.comp = c.comp
  BY DEF Ctx
<1>5. CASE logIt
  <2>1. d.trace = Append(c.trace, m)  BY <1>5 DEF Ctx
  <2>2. CtxEdges(d) = CtxEdges(c) /\ (EdgesDisjoint(c) => EdgesDisjoint(d))
    <3> HIDE DEF d, m
    <3>. QED  BY <1>1, <1>3, <2>1, <1>4, AppendOther
  <2>3. LogExtends(c, d)
    <3> HIDE DEF d, m
    <3>. QED  BY <1>1, <2>1, AppendExtends
  <2>4. AggNumbered(c) => AggNumbered(d)
    <3>1. m.kind \notin {"comp", "comm"}  OBVIOUS
    <3>2. c.events \in Nat  BY DEF Ctx, Eids
    <3>3. ~d.overflow => ~c.overflow /\ d.events = c.events + 0  BY <1>4, <3>2
    <3> HIDE DEF d, m
    <3>. QED  BY <1>1, <2>1, <3>1, <3>3, AppendNumbered
  <2>. QED  BY <1>3, <1>4, <2>2, <2>3, <2>4 DEF Keeps
<1>6. CASE ~logIt
  <2>1. d.trace = c.trace  BY <1>6 DEF Ctx
  <2>. QED  BY <1>3, <1>4, <2>1, KeepsSame
<1>. QED  BY <1>5, <1>6

LEMMA NextEdgeStep == EdgeIInv /\ [Next]_vars => EdgeIInv' /\ AllGrow
<1> SUFFICES ASSUME EdgeIInv, [Next]_vars PROVE EdgeIInv' /\ AllGrow
  OBVIOUS
<1>0. IInv'  BY NextIInv DEF EdgeIInv
<1> DEFINE Rest == ReadsRecorded' /\ WriterEidCurrent' /\ EdgesPast' /\ EdgeSeen'
                   /\ AllDisjoint' /\ AllGrow
<1> SUFFICES Rest  BY <1>0 DEF EdgeIInv
<1>00. tc \in [Threads -> Ctx]  BY DEF EdgeIInv, IInv, TypeOK
<1>1. ASSUME NEW t \in Threads, Swap(t) PROVE Rest
  <2>1. phase # "fatal" /\ UNCHANGED <<writer, writerEid, readers>>
    BY <1>1 DEF Swap, Consume, shadowVars
  <2>2. CASE cur = NoTID
    <3>1. tc' = tc /\ phase' = phase  BY <1>1, <2>2 DEF Swap
    <3>2. AllGrow  BY <1>00, <3>1, GrowsRefl DEF AllGrow
    <3>. QED  BY <2>1, <3>1, <3>2 DEF EdgeIInv, ReadsRecorded, WriterEidCurrent, EdgesPast,
                                      EdgeSeen, AllDisjoint
  <2>3. CASE cur # NoTID
    <3>1. cur \in Threads /\ tc[cur] \in Ctx  BY <2>3, CurType DEF EdgeIInv, IInv
    <3>2. FlushOutgoing(tc[cur]) \in Ctx /\ Keeps(tc[cur], FlushOutgoing(tc[cur]))
      BY <3>1, FlushBothType, FlushBothKeeps DEF FlushOutgoing
    <3>3. tc' = [tc EXCEPT ![cur] = FlushOutgoing(tc[cur])]  BY <1>1, <2>3 DEF Swap, SetCtx
    <3>. QED  BY <1>0, <2>1, <3>1, <3>2, <3>3, CtxStepEdge
  <2>. QED  BY <2>2, <2>3
<1>2. ASSUME NEW k \in SyncKinds, NEW a \in SyncAddrs, Sync(k, a) PROVE Rest
  <2>1. /\ phase # "fatal" /\ UNCHANGED <<writer, writerEid, readers>>
        /\ cur \in Threads /\ tc[cur] \in Ctx
    BY <1>2, CurType DEF Sync, Consume, shadowVars, EdgeIInv, IInv
  <2>2. STSyncCode[k] \in 1..10  BY SyncCodeType
  <2>3. /\ OnSyncCtx(tc[cur], STSyncCode[k], a) \in Ctx
        /\ Keeps(tc[cur], OnSyncCtx(tc[cur], STSyncCode[k], a))
    BY <2>1, <2>2, OnSyncType, OnSyncKeeps
  <2>4. tc' = [tc EXCEPT ![cur] = OnSyncCtx(tc[cur], STSyncCode[k], a)]
    BY <1>2 DEF Sync, SetCtx
  <2>. QED  BY <1>0, <2>1, <2>3, <2>4, CtxStepEdge
<1>3. CASE Iop
  <2>1. /\ phase # "fatal" /\ UNCHANGED <<writer, writerEid, readers>>
        /\ cur \in Threads /\ tc[cur] \in Ctx
    BY <1>3, CurType DEF Iop, Consume, shadowVars, EdgeIInv, IInv
  <2>2. CommFlushIfActive(tc[cur]) \in Ctx  BY <2>1, CommFlushType
  <2>3. /\ IncIOP(CommFlushIfActive(tc[cur])) \in Ctx
        /\ Keeps(tc[cur], IncIOP(CommFlushIfActive(tc[cur])))
    BY <2>1, <2>2, IncTypes, IncKeeps, CommFlushKeeps, KeepsTrans
  <2>4. tc' = [tc EXCEPT ![cur] = IncIOP(CommFlushIfActive(tc[cur]))]
    BY <1>3 DEF Iop, SetCtx
  <2>. QED  BY <1>0, <2>1, <2>3, <2>4, CtxStepEdge
<1>4. CASE Flop
  <2>1. /\ phase # "fatal" /\ UNCHANGED <<writer, writerEid, readers>>
        /\ cur \in Threads /\ tc[cur] \in Ctx
    BY <1>4, CurType DEF Flop, Consume, shadowVars, EdgeIInv, IInv
  <2>2. CommFlushIfActive(tc[cur]) \in Ctx  BY <2>1, CommFlushType
  <2>3. /\ IncFLOP(CommFlushIfActive(tc[cur])) \in Ctx
        /\ Keeps(tc[cur], IncFLOP(CommFlushIfActive(tc[cur])))
    BY <2>1, <2>2, IncTypes, IncKeeps, CommFlushKeeps, KeepsTrans
  <2>4. tc' = [tc EXCEPT ![cur] = IncFLOP(CommFlushIfActive(tc[cur]))]
    BY <1>4 DEF Flop, SetCtx
  <2>. QED  BY <1>0, <2>1, <2>3, <2>4, CtxStepEdge
<1>5. CASE Instr
  <2>1. /\ phase # "fatal" /\ UNCHANGED <<writer, writerEid, readers>>
        /\ cur \in Threads /\ tc[cur] \in Ctx
    BY <1>5, CurType DEF Instr, Consume, shadowVars, EdgeIInv, IInv
  <2> DEFINE c == tc[cur]
             n == c.instrs + 1
             m == [kind |-> "marker", count |-> MarkerPeriod]
             d == [c EXCEPT !.instrs = n,
                            !.trace = IF n % MarkerPeriod = 0 THEN Append(c.trace, m)
                                      ELSE c.trace]
  <2>2. n \in Nat  BY <2>1 DEF Ctx
  <2>3. d \in Ctx /\ Keeps(c, d)  BY <2>1, <2>2, InstrKeeps
  <2>4. tc' = [tc EXCEPT ![cur] = d]  BY <1>5, <2>1 DEF Instr, EdgeIInv, IInv, TypeOK
  <2>. QED  BY <1>0, <2>1, <2>3, <2>4, CtxStepEdge
<1>6. ASSUME NEW acc \in Accesses, Read(acc[1], acc[2]) PROVE Rest
  BY <1>0, <1>6, ReadEdge
<1>7. ASSUME NEW acc \in Accesses, Write(acc[1], acc[2]) PROVE Rest
  BY <1>0, <1>7, WriteEdge
<1>8. CASE EndOfInput \/ OnExit
  <2>1. /\ phase # "fatal" /\ phase' # "fatal"
        /\ UNCHANGED <<writer, writerEid, readers, tc>>
    BY <1>8 DEF EndOfInput, OnExit, shadowVars
  <2>2. AllGrow  BY <1>00, <2>1, GrowsRefl DEF AllGrow
  <2>. QED  BY <2>1, <2>2 DEF EdgeIInv, ReadsRecorded, WriterEidCurrent, EdgesPast,
                        EdgeSeen, AllDisjoint
<1>9. ASSUME NEW t \in Threads, Destroy(t) PROVE Rest
  <2>1. /\ phase # "fatal" /\ UNCHANGED <<writer, writerEid, readers>>
        /\ tc[t] \in Ctx
        /\ tc' = [tc EXCEPT ![t] = DestroyCtx(tc[t])]
    BY <1>9 DEF Destroy, shadowVars, EdgeIInv, IInv, TypeOK
  <2>2. DestroyCtx(tc[t]) \in Ctx /\ Keeps(tc[t], DestroyCtx(tc[t]))
    BY <2>1, FlushBothType, FlushBothKeeps DEF DestroyCtx
  <2>. QED  BY <1>0, <2>1, <2>2, CtxStepEdge
<1>10. CASE UNCHANGED vars
  <2>1. AllGrow  BY <1>00, <1>10, GrowsRefl DEF AllGrow, vars
  <2>. QED  BY <1>10, <2>1 DEF vars, EdgeIInv, ReadsRecorded, WriterEidCurrent, EdgesPast,
                               EdgeSeen, AllDisjoint
<1>. QED  BY <1>1, <1>2, <1>3, <1>4, <1>5, <1>6, <1>7, <1>8, <1>9, <1>10 DEF Next

LEMMA NextEdgeIInv == EdgeIInv /\ [Next]_vars => EdgeIInv'
  BY NextEdgeStep

(* The invariant's edge conjuncts are the two properties the runs check. *)
LEMMA EdgeIInvProps == EdgeIInv => ForeignReadsRecorded /\ NoDuplicateEdges
<1> SUFFICES ASSUME EdgeIInv PROVE ForeignReadsRecorded /\ NoDuplicateEdges
  OBVIOUS
<1>1. \A t \in Threads : CommEdges(t) = CtxEdges(tc[t])
  BY DEF CommEdges, RecsOfKind, Trace, CtxEdges, CommRecs
<1>2. ForeignReadsRecorded  BY <1>1 DEF EdgeIInv, ReadsRecorded, ForeignReadsRecorded
<1>3. NoDuplicateEdges  BY DEF EdgeIInv, AllDisjoint, EdgesDisjoint, NoDuplicateEdges, Trace
<1>. QED  BY <1>2, <1>3

(* THEOREM: communication is never missed.  Whatever the interleaving of  *)
(* Swaps, loads and stores of the threads, a thread that has loaded a     *)
(* byte since another thread's last store to it holds, logged or pending, *)
(* the edge <<writer, writer EID, byte>> (onRead with updateWriter and    *)
(* updateReader of the shadow memory).                                    *)
THEOREM ForeignReadsHold == Spec => []ForeignReadsRecorded
<1>1. Spec => []EdgeIInv  BY InitEdgeIInv, NextEdgeIInv, PTL DEF Spec
<1>. QED  BY <1>1, EdgeIInvProps, PTL

(* THEOREM: no communication edge is reported twice.  The communication   *)
(* records a thread logs, and its pending communication event, carry      *)
(* pairwise disjoint edge sets: a second load of the same store is not a  *)
(* communication (the reader set), and a later store by the same thread   *)
(* carries a new EID (the producer was flushed before the load).          *)
THEOREM NoDuplicateEdgesHolds == Spec => []NoDuplicateEdges
<1>1. Spec => []EdgeIInv  BY InitEdgeIInv, NextEdgeIInv, PTL DEF Spec
<1>. QED  BY <1>1, EdgeIInvProps, PTL


(* Every thread's aggregates are numbered.                               *)
AllNumbered == \A t \in Threads : AggNumbered(tc[t])

LEMMA InitNumbered == Init => AllNumbered
<1> SUFFICES ASSUME Init, NEW t \in Threads PROVE AggNumbered(tc[t])
  BY DEF AllNumbered
<1>1. tc[t] = NewCtx  BY DEF Init
<1>2. AggCount(<< >>, 0) = 0  BY FS_EmptySet DEF AggCount
<1>. QED  BY <1>1, <1>2 DEF AggNumbered, NewCtx

(* Every handler keeps the numbering, because it grows every context.    *)
LEMMA NextNumbered == EdgeIInv /\ AllNumbered /\ [Next]_vars => AllNumbered'
  BY NextEdgeStep DEF AllGrow, Grows, AllNumbered

(* THEOREM: the aggregate EIDs of every thread are 0, 1, 2, ... in the   *)
(* order of its log, and the thread's EID counter is the number of        *)
(* aggregates logged so far unless it has overflowed.  compFlushIfActive  *)
(* and commFlushIfActive log with the current EID and then increment it,  *)
(* onSync logs a sync record with that EID without incrementing, and     *)
(* no other handler writes to the log except for instruction markers.     *)
THEOREM AggregateEidsHold == Spec => []AggregateEidsContiguous
<1>1. Spec => [](EdgeIInv /\ AllNumbered)
  BY InitEdgeIInv, InitNumbered, NextEdgeIInv, NextNumbered, PTL DEF Spec
<1>2. AllNumbered => AggregateEidsContiguous
  BY DEF AllNumbered, AggNumbered, AggregateEidsContiguous, Trace
<1>. QED  BY <1>1, <1>2, PTL

=============================================================================
