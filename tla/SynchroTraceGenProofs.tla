----------------------- MODULE SynchroTraceGenProofs -----------------------
(***************************************************************************)
(* Proofs about SynchroTraceGen that hold for every value of the          *)
(* constants satisfying the module's assumptions.                         *)
(***************************************************************************)
EXTENDS SynchroTraceGen, SequenceTheorems, TLAPS

(***************************************************************************)
(* Lemmas: each ThreadContext operator maps a well-typed context to a      *)
(* well-typed context.                                                     *)
(***************************************************************************)
LEMMA EmptyTypes == EmptyComp \in CompState /\ EmptyComm \in CommState
  BY DEF EmptyComp, EmptyComm, CompState, CommState

LEMMA NewCtxType == NewCtx \in Ctx
  BY EmptyTypes, EidAssumption DEF NewCtx, Ctx, Eids

LEMMA IncrEidType ==
  ASSUME NEW c \in Ctx PROVE IncrEid(c) \in Ctx
<1>1. c.events \in 0..EidMax  BY DEF Ctx, Eids
<1>2. (IF c.events = EidMax THEN 0 ELSE c.events + 1) \in 0..EidMax
  BY <1>1, EidAssumption
<1>. QED  BY <1>2 DEF IncrEid, Ctx, Eids

LEMMA CompFlushType ==
  ASSUME NEW c \in Ctx PROVE CompFlushIfActive(c) \in Ctx
<1>1. CompRecord(c) \in Rec
  <2>1. c.comp \in CompState /\ c.events \in Eids  BY DEF Ctx
  <2>2. CompRecord(c) \in CompRec  BY <2>1 DEF CompRecord, CompRec, CompState
  <2>. QED  BY <2>2 DEF Rec
<1>2. Append(c.trace, CompRecord(c)) \in Seq(Rec)  BY <1>1 DEF Ctx
<1>3. [c EXCEPT !.trace = Append(@, CompRecord(c)), !.comp = EmptyComp] \in Ctx
  BY <1>2, EmptyTypes DEF Ctx
<1>. QED  BY <1>3, IncrEidType DEF CompFlushIfActive

LEMMA CommFlushType ==
  ASSUME NEW c \in Ctx PROVE CommFlushIfActive(c) \in Ctx
<1> DEFINE r == [kind |-> "comm", eid |-> c.events, edges |-> c.comm.edges]
<1>1. r \in Rec
  <2>1. c.comm \in CommState /\ c.events \in Eids  BY DEF Ctx
  <2>2. r \in CommRec  BY <2>1 DEF CommRec, CommState
  <2>. QED  BY <2>2 DEF Rec
<1>2. Append(c.trace, r) \in Seq(Rec)  BY <1>1 DEF Ctx
<1>3. [c EXCEPT !.trace = Append(@, r), !.comm = EmptyComm] \in Ctx
  BY <1>2, EmptyTypes DEF Ctx
<1>. QED  BY <1>3, IncrEidType DEF CommFlushIfActive

LEMMA CheckLimitType ==
  ASSUME NEW c \in Ctx PROVE CheckCompFlushLimit(c) \in Ctx
  BY CompFlushType DEF CheckCompFlushLimit

LEMMA IncTypes ==
  ASSUME NEW c \in Ctx
  PROVE  /\ IncReads(c) \in Ctx
         /\ IncWrites(c) \in Ctx
         /\ IncIOP(c) \in Ctx
         /\ IncFLOP(c) \in Ctx
<1>1. c.comp \in CompState  BY DEF Ctx
<1>2. /\ c.comp.reads + 1 \in Nat
      /\ c.comp.writes + 1 \in Nat
      /\ c.comp.iops + 1 \in Nat
      /\ c.comp.flops + 1 \in Nat
  BY <1>1 DEF CompState
<1>3. /\ [c.comp EXCEPT !.reads = @ + 1, !.active = TRUE] \in CompState
      /\ [c.comp EXCEPT !.writes = @ + 1, !.active = TRUE] \in CompState
      /\ [c.comp EXCEPT !.iops = @ + 1, !.active = TRUE] \in CompState
      /\ [c.comp EXCEPT !.flops = @ + 1, !.active = TRUE] \in CompState
  BY <1>1, <1>2 DEF CompState
<1>. QED  BY <1>3 DEF IncReads, IncWrites, IncIOP, IncFLOP, Ctx

LEMMA FlushBothType ==
  ASSUME NEW c \in Ctx
  PROVE  /\ FlushOutgoing(c) \in Ctx
         /\ DestroyCtx(c) \in Ctx
  BY CompFlushType, CommFlushType DEF FlushOutgoing, DestroyCtx

LEMMA OnSyncType ==
  ASSUME NEW c \in Ctx, NEW code \in 1..10, NEW a \in SyncAddrs
  PROVE  OnSyncCtx(c, code, a) \in Ctx
<1> DEFINE c1 == CommFlushIfActive(CompFlushIfActive(c))
           r == [kind |-> "sync", eid |-> c1.events, type |-> code, addr |-> a]
<1>1. c1 \in Ctx  BY CompFlushType, CommFlushType
<1>2. r \in Rec
  <2>1. r \in SyncRec  BY <1>1 DEF SyncRec, Ctx
  <2>. QED  BY <2>1 DEF Rec
<1>3. Append(c1.trace, r) \in Seq(Rec)  BY <1>1, <1>2 DEF Ctx
<1>4. [c1 EXCEPT !.trace = Append(c1.trace, r)] \in Ctx  BY <1>1, <1>3 DEF Ctx
<1>. QED  BY <1>1, <1>4 DEF OnSyncCtx

LEMMA SyncCodeType ==
  ASSUME NEW k \in SyncKinds PROVE STSyncCode[k] \in 1..10
  BY SyncAssumption DEF STSyncCode

(* Adding a TID to the participant set of one entry keeps a list of      *)
(* <<address, TIDs>> pairs such a list.                                   *)
LEMMA ParticipantInsert ==
  ASSUME NEW A, NEW T, NEW s \in Seq(A \X SUBSET T), NEW i \in DOMAIN s,
         NEW t \in T
  PROVE  [s EXCEPT ![i][2] = @ \cup {t}] \in Seq(A \X SUBSET T)
<1>1. i \in 1..Len(s)  OBVIOUS
<1>2. s[i] \in A \X SUBSET T  OBVIOUS
<1>3. s[i][1] \in A /\ s[i][2] \subseteq T  BY <1>2
<1>4. <<s[i][1], s[i][2] \cup {t}>> \in A \X SUBSET T  BY <1>3
<1>5. [s[i] EXCEPT ![2] = @ \cup {t}] = <<s[i][1], s[i][2] \cup {t}>>  BY <1>2
<1>6. [s EXCEPT ![i][2] = @ \cup {t}] = [s EXCEPT ![i] = <<s[i][1], s[i][2] \cup {t}>>]
  BY <1>5, Zenon
<1>7. [s EXCEPT ![i] = <<s[i][1], s[i][2] \cup {t}>>] \in Seq(A \X SUBSET T)
  BY <1>1, <1>4, ExceptSeq
<1>. QED  BY <1>6, <1>7

(* onBarrier keeps the participants list a list of <<address, TIDs>>. *)
LEMMA OnBarrierType ==
  ASSUME barriers \in Seq(SyncAddrs \X SUBSET Threads),
         NEW a \in SyncAddrs, NEW t \in Threads
  PROVE  OnBarrier(a, t) \in Seq(SyncAddrs \X SUBSET Threads)
<1>1. CASE \E i \in DOMAIN barriers : barriers[i][1] = a
  <2> DEFINE i == CHOOSE i \in DOMAIN barriers : barriers[i][1] = a
  <2>1. i \in DOMAIN barriers  BY <1>1
  <2>2. [barriers EXCEPT ![i][2] = @ \cup {t}] \in Seq(SyncAddrs \X SUBSET Threads)
    BY <2>1, ParticipantInsert
  <2>. QED  BY <1>1, <2>2 DEF OnBarrier
<1>2. CASE ~\E i \in DOMAIN barriers : barriers[i][1] = a
  BY <1>2 DEF OnBarrier
<1>. QED  BY <1>1, <1>2

-----------------------------------------------------------------------------
(***************************************************************************)
(* Type correctness: TypeOK is inductive.                                  *)
(***************************************************************************)
LEMMA InitTypeOK == Init => TypeOK
<1> SUFFICES ASSUME Init PROVE TypeOK  OBVIOUS
<1>1. writerEid \in [Addrs -> Eids]  BY EidAssumption DEF Init, Eids
<1>2. tc \in [Threads -> Ctx]  BY NewCtxType DEF Init
<1>3. nprims \in 0..MaxPrims  BY PrimsAssumption DEF Init
<1>. QED  BY <1>1, <1>2, <1>3 DEF Init, TypeOK

(* Consuming a primitive keeps the input count within its bound. *)
LEMMA ConsumeType ==
  ASSUME TypeOK, Consume PROVE nprims' \in 0..MaxPrims
<1>1. nprims \in 0..MaxPrims /\ nprims < MaxPrims /\ nprims' = nprims + 1
  BY DEF TypeOK, Consume
<1>. QED  BY <1>1, PrimsAssumption

(* Committing a well-typed context of the current thread keeps tc typed.  *)
LEMMA SetCtxType ==
  ASSUME TypeOK, NEW c \in Ctx, cur \in Threads, SetCtx(c)
  PROVE  tc' \in [Threads -> Ctx] /\ phase' \in {"run", "teardown", "done", "fatal"}
  BY DEF SetCtx, TypeOK

(* The current thread of every handler but Swap is a thread. *)
LEMMA CurType ==
  ASSUME TypeOK, cur # NoTID PROVE cur \in Threads /\ tc[cur] \in Ctx
  BY DEF TypeOK

(* The bytes of a load or store the frontend issues are addresses. *)
LEMMA AccessBytes ==
  ASSUME NEW acc \in Accesses PROVE Bytes(acc[1], acc[2]) \subseteq Addrs
<1>0. /\ acc \in Addrs \X (1..MaxSize)
      /\ \A i \in 0..(acc[2] - 1) : acc[1] + i \in Addrs
  BY Zenon DEF Accesses
<1>1. acc[1] \in Addrs /\ acc[2] \in 1..MaxSize  BY <1>0, Zenon
<1>2. acc[1] \in Nat  BY <1>1, AddrsAssumption, Zenon
<1>5. acc[2] \in Nat  BY <1>1, SizeAssumption
<1>3. SUFFICES ASSUME NEW x \in acc[1]..(acc[1] + acc[2] - 1) PROVE x \in Addrs
  BY DEF Bytes
<1>4. x - acc[1] \in 0..(acc[2] - 1) /\ acc[1] + (x - acc[1]) = x  BY <1>2, <1>5
<1>. QED  BY <1>0, <1>4

(* onRead commits a well-typed context of the current thread. *)
LEMMA ReadCommits ==
  ASSUME TypeOK, NEW acc \in Accesses, Read(acc[1], acc[2])
  PROVE  cur \in Threads /\ \E c \in Ctx : SetCtx(c)
<1> DEFINE start == acc[1]
           size == acc[2]
           t == cur
           B == Bytes(start, size)
           Mapped == B \ Unmapped
           CommBytes == {a \in Mapped : IsCommByte(t, a)}
           NewEdges == {[prod |-> writer[a], peid |-> writerEid[a], addr |-> a]
                          : a \in CommBytes}
           c == tc[t]
           c1 == [c EXCEPT !.comm.edges = @ \cup NewEdges,
                           !.comm.active = @ \/ CommBytes # {},
                           !.comp.rd = @ \cup (B \ CommBytes)]
           c2 == IF CommBytes = {} THEN IncReads(CommFlushIfActive(c1))
                 ELSE CompFlushIfActive(c1)
<1>1. t \in Threads /\ c \in Ctx  BY CurType DEF Read
<1>2. B \subseteq Addrs  BY AccessBytes
<1>3. NewEdges \subseteq Edge  BY <1>2 DEF IsCommByte, Edge, TypeOK
<1>4. /\ [c.comm EXCEPT !.edges = @ \cup NewEdges,
                        !.active = @ \/ CommBytes # {}] \in CommState
      /\ [c.comp EXCEPT !.rd = @ \cup (B \ CommBytes)] \in CompState
  BY <1>1, <1>2, <1>3 DEF Ctx, CompState, CommState
<1>5. c1 \in Ctx  BY <1>1, <1>4 DEF Ctx
<1>6. c2 \in Ctx  BY <1>5, CommFlushType, CompFlushType, IncTypes
<1>7. CheckCompFlushLimit(c2) \in Ctx  BY <1>6, CheckLimitType
<1>8. SetCtx(CheckCompFlushLimit(c2))  BY DEF Read
<1>. QED  BY <1>1, <1>7, <1>8

(* onWrite commits a well-typed context of the current thread and updates *)
(* the shadow memory over some set of bytes.                              *)
LEMMA WriteCommits ==
  ASSUME TypeOK, NEW acc \in Accesses, Write(acc[1], acc[2])
  PROVE  /\ cur \in Threads
         /\ \E c \in Ctx : SetCtx(c)
         /\ \E W \in SUBSET Addrs : UpdateWriter(W, cur, tc[cur].events)
<1> DEFINE start == acc[1]
           size == acc[2]
           t == cur
           B == Bytes(start, size)
           c1 == [IncWrites(tc[t]) EXCEPT !.comp.wr = @ \cup B]
<1>1. t \in Threads /\ tc[t] \in Ctx  BY CurType DEF Write
<1>2. B \subseteq Addrs  BY AccessBytes
<1>3. IncWrites(tc[t]) \in Ctx  BY <1>1, IncTypes
<1>4. [IncWrites(tc[t]).comp EXCEPT !.wr = @ \cup B] \in CompState
  BY <1>2, <1>3 DEF Ctx, CompState
<1>5. c1 \in Ctx  BY <1>3, <1>4 DEF Ctx
<1>6. CheckCompFlushLimit(c1) \in Ctx  BY <1>5, CheckLimitType
<1>7. SetCtx(CheckCompFlushLimit(c1))  BY DEF Write
<1>8. \E W \in SUBSET Addrs : UpdateWriter(W, t, tc[t].events)  BY <1>2 DEF Write
<1>. QED  BY <1>1, <1>6, <1>7, <1>8

LEMMA NextTypeOK == TypeOK /\ [Next]_vars => TypeOK'
<1> SUFFICES ASSUME TypeOK, [Next]_vars PROVE TypeOK'
  OBVIOUS
<1>1. ASSUME NEW t \in Threads, Swap(t) PROVE TypeOK'
  <2>1. /\ UNCHANGED <<writer, writerEid, readers, spawns, barriers, destroyed>>
        /\ cur' \in Threads
        /\ Consume
    BY <1>1 DEF Swap, shadowVars
  <2>2. threadOrder' \in Seq(Threads)  BY <1>1 DEF Swap, TypeOK
  <2>3. tc' \in [Threads -> Ctx] /\ phase' \in {"run", "teardown", "done", "fatal"}
    <3>1. CASE cur # NoTID
      <4>1. cur \in Threads /\ tc[cur] \in Ctx  BY <3>1, CurType
      <4>2. FlushOutgoing(tc[cur]) \in Ctx  BY <4>1, FlushBothType
      <4>3. SetCtx(FlushOutgoing(tc[cur]))  BY <1>1, <3>1 DEF Swap
      <4>. QED  BY <4>1, <4>2, <4>3, SetCtxType
    <3>2. CASE cur = NoTID
      BY <1>1, <3>2 DEF Swap, TypeOK
    <3>. QED  BY <3>1, <3>2
  <2>4. nprims' \in 0..MaxPrims  BY <2>1, ConsumeType
  <2>. QED  BY <2>1, <2>2, <2>3, <2>4 DEF TypeOK
<1>2. ASSUME NEW k \in SyncKinds, NEW a \in SyncAddrs, Sync(k, a) PROVE TypeOK'
  <2>1. /\ cur \in Threads /\ tc[cur] \in Ctx
        /\ Consume
        /\ UNCHANGED <<writer, writerEid, readers, cur, threadOrder, destroyed>>
    BY <1>2, CurType DEF Sync, shadowVars
  <2>2. spawns' \in Seq(Threads \X SyncAddrs)  BY <1>2, <2>1 DEF Sync, TypeOK
  <2>3. barriers' \in Seq(SyncAddrs \X SUBSET Threads)
    <3>1. OnBarrier(a, cur) \in Seq(SyncAddrs \X SUBSET Threads)
      BY <2>1, OnBarrierType DEF TypeOK
    <3>. QED  BY <1>2, <3>1 DEF Sync, TypeOK
  <2>4. OnSyncCtx(tc[cur], STSyncCode[k], a) \in Ctx
    BY <2>1, SyncCodeType, OnSyncType
  <2>5. tc' \in [Threads -> Ctx] /\ phase' \in {"run", "teardown", "done", "fatal"}
    BY <1>2, <2>1, <2>4, SetCtxType DEF Sync
  <2>6. nprims' \in 0..MaxPrims  BY <2>1, ConsumeType
  <2>. QED  BY <2>1, <2>2, <2>3, <2>5, <2>6 DEF TypeOK
<1>3. CASE Iop
  <2>1. /\ cur \in Threads /\ tc[cur] \in Ctx
        /\ Consume
        /\ UNCHANGED <<writer, writerEid, readers, cur, threadOrder, spawns,
                       barriers, destroyed>>
    BY <1>3, CurType DEF Iop, shadowVars, globalVars
  <2>2. CommFlushIfActive(tc[cur]) \in Ctx  BY <2>1, CommFlushType
  <2>3. IncIOP(CommFlushIfActive(tc[cur])) \in Ctx  BY <2>2, IncTypes
  <2>4. tc' \in [Threads -> Ctx] /\ phase' \in {"run", "teardown", "done", "fatal"}
    BY <1>3, <2>1, <2>3, SetCtxType DEF Iop
  <2>5. nprims' \in 0..MaxPrims  BY <2>1, ConsumeType
  <2>. QED  BY <2>1, <2>4, <2>5 DEF TypeOK
<1>4. CASE Flop
  <2>1. /\ cur \in Threads /\ tc[cur] \in Ctx
        /\ Consume
        /\ UNCHANGED <<writer, writerEid, readers, cur, threadOrder, spawns,
                       barriers, destroyed>>
    BY <1>4, CurType DEF Flop, shadowVars, globalVars
  <2>2. CommFlushIfActive(tc[cur]) \in Ctx  BY <2>1, CommFlushType
  <2>3. IncFLOP(CommFlushIfActive(tc[cur])) \in Ctx  BY <2>2, IncTypes
  <2>4. tc' \in [Threads -> Ctx] /\ phase' \in {"run", "teardown", "done", "fatal"}
    BY <1>4, <2>1, <2>3, SetCtxType DEF Flop
  <2>5. nprims' \in 0..MaxPrims  BY <2>1, ConsumeType
  <2>. QED  BY <2>1, <2>4, <2>5 DEF TypeOK
<1>5. CASE Instr
  <2>1. /\ cur \in Threads /\ tc[cur] \in Ctx
        /\ Consume
        /\ UNCHANGED <<writer, writerEid, readers, cur, threadOrder, spawns,
                       barriers, destroyed, phase>>
    BY <1>5, CurType DEF Instr, shadowVars, globalVars
  <2> DEFINE c == tc[cur]
             n == c.instrs + 1
             m == [kind |-> "marker", count |-> MarkerPeriod]
  <2>2. n \in Nat  BY <2>1 DEF Ctx
  <2>3. m \in Rec  BY DEF Rec, MarkerRec
  <2>4. Append(c.trace, m) \in Seq(Rec)  BY <2>1, <2>3 DEF Ctx
  <2>5. /\ [c EXCEPT !.instrs = n, !.trace = Append(c.trace, m)] \in Ctx
        /\ [c EXCEPT !.instrs = n, !.trace = c.trace] \in Ctx
    BY <2>1, <2>2, <2>4 DEF Ctx
  <2>6. tc' = [tc EXCEPT ![cur] = IF n % MarkerPeriod = 0
                                    THEN [c EXCEPT !.instrs = n,
                                                   !.trace = Append(c.trace, m)]
                                    ELSE [c EXCEPT !.instrs = n, !.trace = c.trace]]
    BY <1>5, <2>1 DEF Instr, TypeOK
  <2>7. tc' \in [Threads -> Ctx]  BY <2>1, <2>5, <2>6 DEF TypeOK
  <2>8. nprims' \in 0..MaxPrims  BY <2>1, ConsumeType
  <2>. QED  BY <2>1, <2>7, <2>8 DEF TypeOK
<1>6. ASSUME NEW acc \in Accesses, Read(acc[1], acc[2]) PROVE TypeOK'
  <2>1. /\ Consume
        /\ UNCHANGED <<writer, writerEid, cur, threadOrder, spawns, barriers,
                       destroyed>>
    BY <1>6 DEF Read, globalVars
  <2>2. cur \in Threads  BY <1>6, ReadCommits
  <2>3. PICK c \in Ctx : SetCtx(c)  BY <1>6, ReadCommits
  <2>4. tc' \in [Threads -> Ctx] /\ phase' \in {"run", "teardown", "done", "fatal"}
    BY <2>2, <2>3, SetCtxType
  <2>5. readers' \in [Addrs -> SUBSET Threads]  BY <1>6, <2>2 DEF Read, TypeOK
  <2>6. nprims' \in 0..MaxPrims  BY <2>1, ConsumeType
  <2>. QED  BY <2>1, <2>4, <2>5, <2>6 DEF TypeOK
<1>7. ASSUME NEW acc \in Accesses, Write(acc[1], acc[2]) PROVE TypeOK'
  <2>1. /\ Consume
        /\ UNCHANGED <<cur, threadOrder, spawns, barriers, destroyed>>
    BY <1>7 DEF Write, globalVars
  <2>2. cur \in Threads /\ tc[cur] \in Ctx  BY <1>7, WriteCommits DEF TypeOK
  <2>3. PICK c \in Ctx : SetCtx(c)  BY <1>7, WriteCommits
  <2>4. tc' \in [Threads -> Ctx] /\ phase' \in {"run", "teardown", "done", "fatal"}
    BY <2>2, <2>3, SetCtxType
  <2>5. PICK W \in SUBSET Addrs : UpdateWriter(W, cur, tc[cur].events)
    BY <1>7, WriteCommits
  <2>6. /\ writer' \in [Addrs -> Threads \cup {Undef}]
        /\ writerEid' \in [Addrs -> Eids]
        /\ readers' \in [Addrs -> SUBSET Threads]
    BY <2>2, <2>5 DEF UpdateWriter, Ctx, TypeOK
  <2>7. nprims' \in 0..MaxPrims  BY <2>1, ConsumeType
  <2>. QED  BY <2>1, <2>4, <2>6, <2>7 DEF TypeOK
<1>8. CASE EndOfInput  BY <1>8 DEF EndOfInput, TypeOK, shadowVars, globalVars
<1>9. ASSUME NEW t \in Threads, Destroy(t) PROVE TypeOK'
  <2>1. tc[t] \in Ctx  BY DEF TypeOK
  <2>2. DestroyCtx(tc[t]) \in Ctx  BY <2>1, FlushBothType
  <2>3. tc' \in [Threads -> Ctx]  BY <1>9, <2>2 DEF Destroy, TypeOK
  <2>. QED  BY <1>9, <2>3 DEF Destroy, TypeOK, shadowVars, globalVars
<1>10. CASE OnExit  BY <1>10 DEF OnExit, TypeOK, shadowVars, globalVars
<1>11. CASE UNCHANGED vars  BY <1>11 DEF vars, TypeOK
<1>. QED  BY <1>1, <1>2, <1>3, <1>4, <1>5, <1>6, <1>7, <1>8, <1>9, <1>10, <1>11
          DEF Next

(* THEOREM: every reachable state of SynchroTraceGen is well typed: the   *)
(* shadow memory maps bytes to a TID or SO_UNDEF and an EID, every       *)
(* ThreadContext holds typed aggregators, an EID within the counter's    *)
(* range and a trace of well-formed records, and the pthread metadata    *)
(* lists are sequences of TIDs and sync addresses.                       *)
THEOREM TypeCorrect == Spec => []TypeOK
  BY InitTypeOK, NextTypeOK, PTL DEF Spec
-----------------------------------------------------------------------------
(***************************************************************************)
(* Only the current thread accumulates.  The invariant is not inductive by *)
(* itself: a flush that overflowed the EID counter leaves an aggregator    *)
(* active, so the proof also needs that an overflowed context exists only *)
(* once the process has gone fatal (fatal() runs right after the failed    *)
(* INCR_EID_OVERFLOW).                                                     *)
(***************************************************************************)
OverflowFatal == phase # "fatal" => \A t \in Threads : ~tc[t].overflow

IInv == TypeOK /\ OverflowFatal /\ OnlyCurrentThreadAccumulates

(* Flushing both aggregators of a context that has not overflowed either  *)
(* overflows or leaves both aggregators inactive.                        *)
LEMMA FlushBothQuiet ==
  ASSUME NEW c \in Ctx, ~c.overflow,
         ~CommFlushIfActive(CompFlushIfActive(c)).overflow
  PROVE  LET d == CommFlushIfActive(CompFlushIfActive(c))
         IN  ~d.comp.active /\ ~d.comm.active
<1> DEFINE c1 == CompFlushIfActive(c)
           d == CommFlushIfActive(c1)
<1>1. c1 \in Ctx  BY CompFlushType
<1>2. ~c1.comp.active /\ c1.comm = c.comm
  <2>1. CASE c.comp.active
    BY <2>1 DEF CompFlushIfActive, IncrEid, EmptyComp, Ctx
  <2>2. CASE ~c.comp.active
    BY <2>2 DEF CompFlushIfActive
  <2>. QED  BY <2>1, <2>2
<1>3. ~c1.overflow
  <2>1. CASE c1.comm.active /\ ~c1.overflow  BY <2>1
  <2>2. CASE ~(c1.comm.active /\ ~c1.overflow)
    BY <2>2 DEF CommFlushIfActive
  <2>. QED  BY <2>1, <2>2
<1>4. ~d.comp.active /\ ~d.comm.active
  <2>1. CASE c1.comm.active
    BY <1>1, <1>2, <1>3, <2>1 DEF CommFlushIfActive, IncrEid, EmptyComm, Ctx
  <2>2. CASE ~c1.comm.active
    BY <1>2, <2>2 DEF CommFlushIfActive
  <2>. QED  BY <2>1, <2>2
<1>. QED  BY <1>4

LEMMA InitIInv == Init => IInv
<1> SUFFICES ASSUME Init PROVE IInv  OBVIOUS
<1>1. TypeOK  BY InitTypeOK
<1>2. \A t \in Threads : tc[t] = NewCtx  BY DEF Init
<1>. QED  BY <1>1, <1>2 DEF IInv, OverflowFatal, OnlyCurrentThreadAccumulates,
                            Active, NewCtx, EmptyComp, EmptyComm

(* A handler that commits context c of the current thread, leaving cur   *)
(* and every other context alone, preserves both invariants.             *)
LEMMA SetCtxIInv ==
  ASSUME IInv, NEW c \in Ctx, cur \in Threads, SetCtx(c), cur' = cur
  PROVE  OverflowFatal' /\ OnlyCurrentThreadAccumulates'
<1>1. tc' = [tc EXCEPT ![cur] = c] /\ phase' = IF c.overflow THEN "fatal" ELSE phase
  BY DEF SetCtx
<1>2. \A u \in Threads \ {cur} : tc'[u] = tc[u]  BY <1>1 DEF IInv, TypeOK
<1>3. OverflowFatal'
  <2>1. SUFFICES ASSUME phase' # "fatal" PROVE \A u \in Threads : ~tc'[u].overflow
    BY DEF OverflowFatal
  <2>2. ~c.overflow /\ phase # "fatal"  BY <1>1, <2>1
  <2>3. tc'[cur] = c  BY <1>1 DEF IInv, TypeOK
  <2>. QED  BY <1>2, <2>2, <2>3 DEF IInv, OverflowFatal
<1>4. OnlyCurrentThreadAccumulates'
  <2>1. SUFFICES ASSUME phase' # "fatal"
                 PROVE \A u \in Threads \ {cur'} : ~Active(u)'
    BY DEF OnlyCurrentThreadAccumulates
  <2>2. phase # "fatal"  BY <1>1, <2>1
  <2>. QED  BY <1>2, <2>2 DEF IInv, OnlyCurrentThreadAccumulates, Active
<1>. QED  BY <1>3, <1>4

LEMMA NextIInv == IInv /\ [Next]_vars => IInv'
<1> SUFFICES ASSUME IInv, [Next]_vars PROVE IInv'
  OBVIOUS
<1>0. TypeOK'  BY NextTypeOK DEF IInv
<1> DEFINE Goal == OverflowFatal' /\ OnlyCurrentThreadAccumulates'
<1> USE DEF Goal
<1> SUFFICES Goal  BY <1>0 DEF IInv
<1>1. ASSUME NEW t \in Threads, Swap(t) 
       PROVE  OverflowFatal' /\ OnlyCurrentThreadAccumulates'
  <2>1. cur' = t  BY <1>1 DEF Swap
  <2>2. CASE cur = NoTID
    <3>1. tc' = tc /\ phase' = phase  BY <1>1, <2>2 DEF Swap
    <3>2. phase = "run"  BY <1>1 DEF Swap, Consume
    <3>3. \A u \in Threads : ~Active(u)
      BY <2>2, <3>2, SentinelAssumption DEF IInv, OnlyCurrentThreadAccumulates
    <3>. QED  BY <3>1, <3>3 DEF IInv, OverflowFatal, OnlyCurrentThreadAccumulates,
                                Active
  <2>3. CASE cur # NoTID
    <3> DEFINE d == FlushOutgoing(tc[cur])
    <3>1. cur \in Threads /\ tc[cur] \in Ctx  BY <2>3, CurType DEF IInv
    <3>2. d \in Ctx  BY <3>1, FlushBothType
    <3>3. tc' = [tc EXCEPT ![cur] = d] /\ phase' = IF d.overflow THEN "fatal" ELSE phase
      BY <1>1, <2>3 DEF Swap, SetCtx
    <3>4. SUFFICES ASSUME phase' # "fatal"
                   PROVE  OverflowFatal' /\ OnlyCurrentThreadAccumulates'
      BY DEF IInv, OverflowFatal, OnlyCurrentThreadAccumulates
    <3>5. ~d.overflow /\ phase # "fatal"  BY <3>3, <3>4
    <3>6. ~tc[cur].overflow  BY <3>1, <3>5 DEF IInv, OverflowFatal
    <3>7. ~d.comp.active /\ ~d.comm.active
      BY <3>1, <3>5, <3>6, FlushBothQuiet DEF FlushOutgoing
    <3>8. tc'[cur] = d /\ \A u \in Threads \ {cur} : tc'[u] = tc[u]
      BY <3>1, <3>3 DEF IInv, TypeOK
    <3>9. OverflowFatal'  BY <3>5, <3>8 DEF IInv, OverflowFatal
    <3>10. OnlyCurrentThreadAccumulates'
      BY <2>1, <3>5, <3>7, <3>8 DEF IInv, OnlyCurrentThreadAccumulates, Active
    <3>. QED  BY <3>9, <3>10
  <2>. QED  BY <2>2, <2>3
<1>2. ASSUME NEW k \in SyncKinds, NEW a \in SyncAddrs, Sync(k, a) 
       PROVE  OverflowFatal' /\ OnlyCurrentThreadAccumulates'
  <2>1. cur \in Threads /\ tc[cur] \in Ctx /\ cur' = cur
    BY <1>2, CurType DEF Sync, IInv
  <2>2. STSyncCode[k] \in 1..10  BY SyncCodeType
  <2>3. OnSyncCtx(tc[cur], STSyncCode[k], a) \in Ctx  BY <2>1, <2>2, OnSyncType
  <2>. QED  BY <1>2, <2>1, <2>3, SetCtxIInv DEF Sync
<1>3. CASE Iop
  <2>1. cur \in Threads /\ tc[cur] \in Ctx /\ cur' = cur
    BY <1>3, CurType DEF Iop, IInv, globalVars
  <2>2. IncIOP(CommFlushIfActive(tc[cur])) \in Ctx  BY <2>1, CommFlushType, IncTypes
  <2>. QED  BY <1>3, <2>1, <2>2, SetCtxIInv DEF Iop
<1>4. CASE Flop
  <2>1. cur \in Threads /\ tc[cur] \in Ctx /\ cur' = cur
    BY <1>4, CurType DEF Flop, IInv, globalVars
  <2>2. IncFLOP(CommFlushIfActive(tc[cur])) \in Ctx  BY <2>1, CommFlushType, IncTypes
  <2>. QED  BY <1>4, <2>1, <2>2, SetCtxIInv DEF Flop
<1>5. CASE Instr
  <2>1. cur \in Threads /\ tc[cur] \in Ctx /\ cur' = cur /\ phase' = phase
    BY <1>5, CurType DEF Instr, IInv, globalVars
  <2>2. \A u \in Threads : /\ tc'[u].overflow = tc[u].overflow
                           /\ tc'[u].comp = tc[u].comp
                           /\ tc'[u].comm = tc[u].comm
    BY <1>5, <2>1 DEF Instr, IInv, TypeOK
  <2>. QED  BY <2>1, <2>2 DEF IInv, OverflowFatal, OnlyCurrentThreadAccumulates,
                              Active
<1>6. ASSUME NEW acc \in Accesses, Read(acc[1], acc[2])
       PROVE  OverflowFatal' /\ OnlyCurrentThreadAccumulates'
  <2>1. cur' = cur  BY <1>6 DEF Read, globalVars
  <2>2. cur \in Threads  BY <1>6, ReadCommits DEF IInv
  <2>3. PICK c \in Ctx : SetCtx(c)  BY <1>6, ReadCommits DEF IInv
  <2>. QED  BY <2>1, <2>2, <2>3, SetCtxIInv
<1>7. ASSUME NEW acc \in Accesses, Write(acc[1], acc[2])
       PROVE  OverflowFatal' /\ OnlyCurrentThreadAccumulates'
  <2>1. cur' = cur  BY <1>7 DEF Write, globalVars
  <2>2. cur \in Threads  BY <1>7, WriteCommits DEF IInv
  <2>3. PICK c \in Ctx : SetCtx(c)  BY <1>7, WriteCommits DEF IInv
  <2>. QED  BY <2>1, <2>2, <2>3, SetCtxIInv
<1>8. CASE EndOfInput
  BY <1>8 DEF EndOfInput, IInv, OverflowFatal, OnlyCurrentThreadAccumulates,
              Active, globalVars
<1>9. ASSUME NEW t \in Threads, Destroy(t) 
       PROVE  OverflowFatal' /\ OnlyCurrentThreadAccumulates'
  <2> DEFINE d == DestroyCtx(tc[t])
  <2>1. tc[t] \in Ctx  BY DEF IInv, TypeOK
  <2>2. /\ tc' = [tc EXCEPT ![t] = d]
        /\ phase' = IF d.overflow THEN "fatal" ELSE phase
        /\ cur' = cur
    BY <1>9, <2>1 DEF Destroy, IInv, TypeOK, globalVars
  <2>3. SUFFICES ASSUME phase' # "fatal"
                 PROVE  OverflowFatal' /\ OnlyCurrentThreadAccumulates'
    BY DEF IInv, OverflowFatal, OnlyCurrentThreadAccumulates
  <2>4. ~d.overflow /\ phase # "fatal"  BY <2>2, <2>3
  <2>5. ~tc[t].overflow  BY <2>4 DEF IInv, OverflowFatal
  <2>6. ~d.comp.active /\ ~d.comm.active  BY <2>1, <2>4, <2>5, FlushBothQuiet DEF DestroyCtx
  <2>7. tc'[t] = d /\ \A u \in Threads \ {t} : tc'[u] = tc[u]
    BY <2>2 DEF IInv, TypeOK
  <2>8. OverflowFatal'  BY <2>4, <2>7 DEF IInv, OverflowFatal
  <2>9. OnlyCurrentThreadAccumulates'
    BY <2>2, <2>4, <2>6, <2>7 DEF IInv, OnlyCurrentThreadAccumulates, Active
  <2>. QED  BY <2>8, <2>9
<1>10. CASE OnExit
  BY <1>10 DEF OnExit, IInv, OverflowFatal, OnlyCurrentThreadAccumulates,
               Active, globalVars
<1>11. CASE UNCHANGED vars
  BY <1>11 DEF vars, IInv, OverflowFatal, OnlyCurrentThreadAccumulates, Active
<1>. QED  BY <1>1, <1>2, <1>3, <1>4, <1>5, <1>6, <1>7, <1>8, <1>9, <1>10, <1>11
          DEF Next

(* THEOREM: whatever the interleaving of Swaps and primitives, no thread   *)
(* other than the dispatcher's current one holds an unflushed compute or   *)
(* communication event (onSwapTCxt flushes the outgoing ThreadContext     *)
(* before the cursor moves), unless an EID overflow has ended the run.     *)
THEOREM OnlyCurrentAccumulates == Spec => []OnlyCurrentThreadAccumulates
<1>1. IInv => OnlyCurrentThreadAccumulates  BY DEF IInv
<1>. QED  BY InitIInv, NextIInv, <1>1, PTL DEF Spec

=============================================================================
