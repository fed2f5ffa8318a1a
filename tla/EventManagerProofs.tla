------------------------- MODULE EventManagerProofs -------------------------
(***************************************************************************)
(* Proofs about EventManager that hold for every value of the constants   *)
(* satisfying its assumptions: the buffer and the observer logs stay well *)
(* typed, no primitive is lost, duplicated or reordered on its way to the *)
(* observers, and finish() calls the cleanups only after every primitive  *)
(* has been notified.                                                     *)
(***************************************************************************)
EXTENDS EventManager, SequenceTheorems, TLAPS

(***************************************************************************)
(* Lemmas about the sequence operations the buffer is built from.          *)
(***************************************************************************)

(* Appending to the buffer appends to the stream it completes. *)
LEMMA AppendConcat ==
  ASSUME NEW S, NEW s \in Seq(S), NEW t \in Seq(S), NEW e \in S
  PROVE  s \o Append(t, e) = Append(s \o t, e)
<1>1. Append(t, e) = t \o <<e>>  BY AppendIsConcat
<1>2. Append(s \o t, e) = (s \o t) \o <<e>>  BY ConcatProperties, AppendIsConcat
<1>3. <<e>> \in Seq(S)  OBVIOUS
<1>. QED  BY <1>1, <1>2, <1>3, ConcatAssociative

(* One iteration of the flush loop moves the next primitive from the     *)
(* pending part of the buffer to the end of the notified stream.         *)
LEMMA ShiftOne ==
  ASSUME NEW S, NEW d \in Seq(S), NEW s \in Seq(S), NEW n \in 0..(Len(s) - 1)
  PROVE  Append(d, s[n + 1]) \o SubSeq(s, n + 2, Len(s))
            = d \o SubSeq(s, n + 1, Len(s))
<1> DEFINE L == Len(s)
           a == Append(d, s[n + 1])
           tl == SubSeq(s, n + 2, L)
           sub == SubSeq(s, n + 1, L)
           lhs == a \o tl
           rhs == d \o sub
<1>1. s[n + 1] \in S  OBVIOUS
<1>2. /\ tl \in Seq(S) /\ Len(tl) = L - n - 1
      /\ \A k \in 1..(L - n - 1) : tl[k] = s[n + 1 + k]
  <2>1. \A k \in (n + 2)..L : s[k] \in S  OBVIOUS
  <2>. QED  BY <2>1, SubSeqProperties
<1>3. /\ sub \in Seq(S) /\ Len(sub) = L - n
      /\ \A k \in 1..(L - n) : sub[k] = s[n + k]
  <2>1. \A k \in (n + 1)..L : s[k] \in S  OBVIOUS
  <2>. QED  BY <2>1, SubSeqProperties
<1>4. /\ a \in Seq(S) /\ Len(a) = Len(d) + 1
      /\ \A k \in 1..Len(d) : a[k] = d[k]
      /\ a[Len(d) + 1] = s[n + 1]
  BY <1>1, AppendProperties
<1>5. Len(d) \in Nat /\ L \in Nat /\ n \in 0..(L - 1)  OBVIOUS
<1> HIDE DEF L, a, tl, sub, lhs, rhs
<1>6. /\ lhs \in Seq(S) /\ Len(lhs) = Len(a) + Len(tl)
      /\ \A k \in 1..(Len(a) + Len(tl)) :
            lhs[k] = IF k <= Len(a) THEN a[k] ELSE tl[k - Len(a)]
  BY <1>2, <1>4, ConcatProperties DEF lhs
<1>7. Len(lhs) = Len(d) + L - n  BY <1>2, <1>4, <1>5, <1>6
<1>8. rhs \in Seq(S) /\ Len(rhs) = Len(d) + L - n
  BY <1>3, <1>5, ConcatProperties DEF rhs
<1>9. \A k \in 1..Len(rhs) :
         rhs[k] = IF k <= Len(d) THEN d[k] ELSE sub[k - Len(d)]
  BY <1>3, ConcatProperties DEF rhs
<1>10. \A k \in 1..Len(lhs) : lhs[k] = rhs[k]
  <2> TAKE k \in 1..Len(lhs)
  <2>0. k \in Nat /\ 1 <= k /\ k <= Len(d) + L - n /\ k \in 1..Len(rhs)  BY <1>5, <1>7, <1>8
  <2>a. lhs[k] = IF k <= Len(a) THEN a[k] ELSE tl[k - Len(a)]  BY <1>6
  <2>b. rhs[k] = IF k <= Len(d) THEN d[k] ELSE sub[k - Len(d)]  BY <2>0, <1>9
  <2>1. CASE k <= Len(d)
    <3>1. lhs[k] = a[k]  BY <2>0, <2>1, <2>a, <1>4, <1>5
    <3>2. a[k] = d[k]  BY <2>0, <2>1, <1>4
    <3>. QED  BY <2>1, <2>b, <3>1, <3>2
  <2>2. CASE k = Len(d) + 1
    <3>1. lhs[k] = s[n + 1]  BY <2>2, <2>a, <1>4
    <3>2. rhs[k] = sub[1]  BY <2>2, <2>b, <1>5
    <3>3. sub[1] = s[n + 1]  BY <1>3, <1>5
    <3>. QED  BY <3>1, <3>2, <3>3
  <2>3. CASE k > Len(d) + 1
    <3>1. k - (Len(d) + 1) \in 1..(L - n - 1) /\ k - Len(d) \in 1..(L - n)
      BY <2>0, <2>3, <1>5
    <3>2. lhs[k] = tl[k - (Len(d) + 1)]  BY <2>0, <2>3, <2>a, <1>4, <1>5
    <3>3. tl[k - (Len(d) + 1)] = s[n + 1 + (k - (Len(d) + 1))]  BY <3>1, <1>2
    <3>4. rhs[k] = sub[k - Len(d)]  BY <2>0, <2>3, <2>b, <1>5
    <3>5. sub[k - Len(d)] = s[n + (k - Len(d))]  BY <3>1, <1>3
    <3>6. n + 1 + (k - (Len(d) + 1)) = n + (k - Len(d))  BY <2>0, <1>5
    <3>. QED  BY <3>2, <3>3, <3>4, <3>5, <3>6
  <2>. QED  BY <2>0, <2>1, <2>2, <2>3, <1>5
<1>11. lhs \in Seq(S) /\ rhs \in Seq(S) /\ Len(lhs) = Len(rhs)  BY <1>6, <1>7, <1>8
<1>12. lhs = rhs  BY <1>10, <1>11, SeqEqual, Zenon
<1>. QED  BY <1>12 DEF lhs, rhs, a, tl, sub, L

(***************************************************************************)
(* Type correctness.                                                       *)
(***************************************************************************)
LEMMA InitTypeOK == Init => TypeOK
  BY DEF Init, TypeOK, Kinds

(* Notifying a well-typed primitive keeps the observer logs typed. *)
LEMMA NotifyType ==
  ASSUME TypeOK, NEW e \in Event, Notify(e)
  PROVE  /\ recv' \in [Kinds -> Seq(Seq(Event))]
         /\ \A k \in Kinds : Len(recv'[k]) = Len(obs[k])
         /\ delivered' \in Seq(Event)
<1>1. e.list \in Kinds  BY DEF Event
<1> DEFINE r == recv[e.list]
<1>2. r \in Seq(Seq(Event))  BY <1>1 DEF TypeOK
<1>3. [j \in DOMAIN r |-> Append(r[j], e)] \in Seq(Seq(Event))
  <2>1. \A j \in DOMAIN r : Append(r[j], e) \in Seq(Event)  BY <1>2, AppendProperties
  <2>2. DOMAIN r = 1..Len(r) /\ Len(r) \in Nat  BY <1>2
  <2>3. [j \in 1..Len(r) |-> Append(r[j], e)] \in [1..Len(r) -> Seq(Event)]  BY <2>1, <2>2
  <2>. QED  BY <2>2, <2>3, SeqDef
<1>4. Len([j \in DOMAIN r |-> Append(r[j], e)]) = Len(r)  BY <1>2
<1>. QED  BY <1>1, <1>3, <1>4, AppendProperties DEF Notify, TypeOK

LEMMA NextTypeOK == TypeOK /\ [Next]_vars => TypeOK'
<1> SUFFICES ASSUME TypeOK, [Next]_vars PROVE TypeOK'
  OBVIOUS
<1>1. ASSUME NEW k \in Kinds, AddObserver(k) PROVE TypeOK'
  <2>1. Append(obs[k], Len(delivered)) \in Seq(Nat)  BY DEF TypeOK
  <2>2. Append(recv[k], << >>) \in Seq(Seq(Event))  BY DEF TypeOK
  <2>. QED  BY <1>1, <2>1, <2>2 DEF AddObserver, TypeOK
<1>2. ASSUME NEW k \in Kinds, BufferEvent(k) PROVE TypeOK'
  <2>1. Len(produced) + 1 \in 1..MaxEvents  BY <1>2, EventsAssumption DEF BufferEvent, TypeOK
  <2>2. [kind |-> k, id |-> Len(produced) + 1, list |-> ObserverList(k)] \in Event
    BY <2>1 DEF Event, ObserverList
  <2>. QED  BY <1>2, <2>2, AppendProperties DEF BufferEvent, TypeOK
<1>3. CASE AddCleanup  BY <1>3 DEF AddCleanup, TypeOK
<1>4. CASE FlushEvents  BY <1>4 DEF FlushEvents, TypeOK
<1>5. CASE FlushStep
  <2>1. buf[i + 1] \in Event  BY <1>5 DEF FlushStep, TypeOK
  <2>. QED  BY <1>5, <2>1, NotifyType DEF FlushStep, TypeOK
<1>6. CASE FlushDone  BY <1>6 DEF FlushDone, TypeOK
<1>7. CASE Finish  BY <1>7 DEF Finish, TypeOK
<1>8. CASE CleanupStep
  <2>1. Len(delivered) \in Nat  BY DEF TypeOK
  <2>. QED  BY <1>8, <2>1 DEF CleanupStep, TypeOK
<1>9. CASE CleanupDone  BY <1>9 DEF CleanupDone, TypeOK
<1>10. CASE UNCHANGED vars  BY <1>10 DEF vars, TypeOK
<1>. QED  BY <1>1, <1>2, <1>3, <1>4, <1>5, <1>6, <1>7, <1>8, <1>9, <1>10 DEF Next

(* The buffer and the observer logs are always well typed. *)
THEOREM TypeCorrect == Spec => []TypeOK
  BY InitTypeOK, NextTypeOK, PTL DEF Spec


(***************************************************************************)
(* Conservation of the stream and the order of finish().                  *)
(*                                                                         *)
(* StreamConserved alone is not inductive: a FlushStep needs the loop     *)
(* index inside the buffer, and FlushDone needs it at the end of the      *)
(* buffer, so that `used = 0` drops nothing.  CleanupSeesAll needs to     *)
(* know that no cleanup has run before finish() reaches its cleanup loop, *)
(* and that by then the buffer is empty and everything was notified.      *)
(***************************************************************************)
IInv ==
    /\ TypeOK
    /\ StreamConserved
    /\ pc \in Flushing => i <= Len(buf)
    /\ pc \in {"idle", "flush", "finflush"} =>
           \A c \in DOMAIN cleanups : cleanups[c] = NotRun
    /\ pc \in {"cleanup", "done"} => buf = << >> /\ delivered = produced
    /\ CleanupSeesAll

LEMMA InitIInv == Init => IInv
<1> SUFFICES ASSUME Init PROVE IInv  OBVIOUS
<1>1. TypeOK  BY InitTypeOK
<1>2. Pending = << >>  BY DEF Init, Pending, Flushing
<1>3. StreamConserved  BY <1>2 DEF Init, StreamConserved
<1>. QED  BY <1>1, <1>3 DEF Init, IInv, CleanupSeesAll

(* The steps that leave the stream, the loop and the cleanups alone. *)
LEMMA QuietStep ==
  ASSUME IInv, TypeOK',
         UNCHANGED <<buf, i, pc, cleanups, produced, delivered>>
  PROVE  IInv'
BY DEF IInv, StreamConserved, Pending, CleanupSeesAll

LEMMA NextIInv == IInv /\ [Next]_vars => IInv'
<1> SUFFICES ASSUME IInv, [Next]_vars PROVE IInv'
  OBVIOUS
<1>0. TypeOK /\ TypeOK'  BY NextTypeOK DEF IInv
<1>1. ASSUME NEW k \in Kinds, AddObserver(k) PROVE IInv'
  BY <1>0, <1>1, QuietStep DEF AddObserver
<1>2. ASSUME NEW k \in Kinds, BufferEvent(k) PROVE IInv'
  <2> DEFINE e == [kind |-> k, id |-> Len(produced) + 1, list |-> ObserverList(k)]
  <2>1. buf' = Append(buf, e) /\ produced' = Append(produced, e)
        /\ pc' = "idle" /\ pc = "idle"
        /\ UNCHANGED <<i, cleanups, delivered>>
    BY <1>2 DEF BufferEvent
  <2>2. e \in Event  BY <1>0, <2>1 DEF TypeOK
  <2>3. Pending = buf /\ Pending' = buf'  BY <2>1 DEF Pending, Flushing
  <2>a. delivered \in Seq(Event) /\ buf \in Seq(Event)  BY <1>0 DEF TypeOK
  <2> HIDE DEF e
  <2>4. delivered \o Append(buf, e) = Append(delivered \o buf, e)
    BY <2>a, <2>2, AppendConcat
  <2>5. StreamConserved'  BY <2>1, <2>3, <2>4 DEF IInv, StreamConserved
  <2>. QED  BY <1>0, <2>1, <2>5 DEF IInv, CleanupSeesAll, Flushing
<1>3. CASE AddCleanup
  <2>1. cleanups' = Append(cleanups, NotRun) /\ pc = "idle" /\ pc' = "idle"
        /\ UNCHANGED <<buf, i, produced, delivered>>
    BY <1>3 DEF AddCleanup
  <2>2. \A c \in DOMAIN cleanups' : cleanups'[c] = NotRun
    BY <1>0, <2>1, AppendProperties DEF IInv, TypeOK
  <2>. QED  BY <1>0, <2>1, <2>2 DEF IInv, StreamConserved, Pending, CleanupSeesAll
<1>4. ASSUME FlushEvents \/ Finish PROVE IInv'
  <2>1. pc = "idle" /\ pc' \in Flushing /\ i' = 0
        /\ UNCHANGED <<buf, cleanups, produced, delivered>>
    BY <1>4 DEF FlushEvents, Finish, Flushing
  <2>2. SubSeq(buf, 1, Len(buf)) = buf  BY <1>0, SubSeqFull DEF TypeOK
  <2>3. Pending' = Pending  BY <2>1, <2>2 DEF Pending, Flushing
  <2>. QED  BY <1>0, <2>1, <2>3 DEF IInv, StreamConserved, CleanupSeesAll, Flushing
<1>5. CASE FlushStep
  <2>1. pc \in Flushing /\ i < Len(buf) /\ i' = i + 1
        /\ delivered' = Append(delivered, buf[i + 1])
        /\ UNCHANGED <<buf, pc, cleanups, produced>>
    BY <1>5 DEF FlushStep, Notify
  <2>2. i \in 0..(Len(buf) - 1)  BY <1>0, <2>1 DEF TypeOK
  <2>3. Append(delivered, buf[i + 1]) \o SubSeq(buf, i + 2, Len(buf))
           = delivered \o SubSeq(buf, i + 1, Len(buf))
    <3>1. delivered \in Seq(Event) /\ buf \in Seq(Event)  BY <1>0 DEF TypeOK
    <3>. QED  BY <3>1, <2>2, ShiftOne
  <2>4. StreamConserved'
    <3>1. Pending = SubSeq(buf, i + 1, Len(buf))  BY <2>1 DEF Pending
    <3>2. i' + 1 = i + 2  BY <1>0, <2>1 DEF TypeOK
    <3>3. Pending' = SubSeq(buf, i + 2, Len(buf))  BY <2>1, <3>2 DEF Pending
    <3>4. delivered \o Pending = produced  BY DEF IInv, StreamConserved
    <3>. QED  BY <2>1, <2>3, <3>1, <3>3, <3>4, Zenon DEF StreamConserved
  <2>5. i' <= Len(buf')  BY <1>0, <2>1 DEF TypeOK
  <2>. QED  BY <1>0, <2>1, <2>4, <2>5 DEF IInv, CleanupSeesAll, Flushing
<1>6. CASE FlushDone
  <2>1. pc \in Flushing /\ i >= Len(buf) /\ buf' = << >>
        /\ pc' \in {"idle", "cleanup"}
        /\ UNCHANGED <<cleanups, produced, delivered>>
    BY <1>6 DEF FlushDone
  <2>2. i = Len(buf)  BY <1>0, <2>1 DEF IInv, TypeOK
  <2>3. Pending = << >>
    BY <1>0, <2>1, <2>2, SubSeqEmpty DEF Pending, TypeOK
  <2>4. delivered = produced
    BY <1>0, <2>3, ConcatEmptySeq DEF IInv, StreamConserved, TypeOK
  <2>5. Pending' = << >>  BY <2>1 DEF Pending, Flushing
  <2>6. StreamConserved'
    BY <1>0, <2>1, <2>4, <2>5, ConcatEmptySeq DEF StreamConserved, TypeOK
  <2>. QED  BY <1>0, <2>1, <2>4, <2>6 DEF IInv, CleanupSeesAll, Flushing
<1>7. CASE CleanupStep
  <2>1. pc = "cleanup" /\ i < Len(cleanups)
        /\ cleanups' = [cleanups EXCEPT ![i + 1] = Len(delivered)]
        /\ UNCHANGED <<buf, pc, produced, delivered>>
    BY <1>7 DEF CleanupStep
  <2>2. delivered = produced  BY <2>1 DEF IInv
  <2>3. CleanupSeesAll'
    BY <1>0, <2>1, <2>2 DEF IInv, CleanupSeesAll, TypeOK
  <2>. QED  BY <1>0, <2>1, <2>3 DEF IInv, StreamConserved, Pending, Flushing
<1>8. CASE CleanupDone
  BY <1>0, <1>8 DEF CleanupDone, IInv, StreamConserved, Pending, Flushing, CleanupSeesAll
<1>9. CASE UNCHANGED vars
  BY <1>0, <1>9, QuietStep DEF vars
<1>. QED  BY <1>1, <1>2, <1>3, <1>4, <1>5, <1>6, <1>7, <1>8, <1>9 DEF Next

(* No primitive is lost, duplicated or reordered between bufferEvent()  *)
(* and the observers, whatever the bounds.                               *)
THEOREM Conserved == Spec => []StreamConserved
<1>1. Spec => []IInv  BY InitIInv, NextIInv, PTL DEF Spec
<1>. QED  BY <1>1, PTL DEF IInv

(* finish() calls the cleanups only after every buffered primitive was   *)
(* notified, whatever the bounds.                                        *)
THEOREM CleanupAfterDelivery == Spec => []CleanupSeesAll
<1>1. Spec => []IInv  BY InitIInv, NextIInv, PTL DEF Spec
<1>. QED  BY <1>1, PTL DEF IInv

=============================================================================
