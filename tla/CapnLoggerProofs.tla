-------------------------- MODULE CapnLoggerProofs --------------------------
(***************************************************************************)
(* Proofs about the batching of CapnLogger: the batch counter tracks the   *)
(* orphans held, and the file is a sequence of full EventStream messages   *)
(* with at most one partial message, the last, written by the destructor. *)
(***************************************************************************)
EXTENDS CapnLogger, SequenceTheorems, TLAPS

(* While the logger is open no batch is full: flushOrphans() runs as soon *)
(* as the counter reaches EventsPerMessage.                               *)
BatchOpen == state = "open" => events < EventsPerMessage

(* Messages written while the logger is open are full; only the one the    *)
(* destructor writes, necessarily the last, may be shorter.               *)
FullWhileOpen ==
    \A i \in DOMAIN written :
        state = "open" \/ i < Len(written) => Len(written[i]) = EventsPerMessage

CIInv == TypeOK /\ OrphanCountMatches /\ BatchOpen /\ MessagesBounded /\ FullWhileOpen


-----------------------------------------------------------------------------
(* Every record the ThreadContext hands over has an orphan of the file's  *)
(* types; a sync code is translated to one of the ten capnp enumerators.  *)
LEMMA OrphanType ==
  ASSUME NEW ev \in Input PROVE Orphan(ev) \in OrphanSet
<1>1. CASE ev \in CompEv  BY <1>1 DEF CompEv, Orphan, CompOrphan, OrphanSet
<1>2. CASE ev \in CommEv  BY <1>2 DEF CommEv, Orphan, CommOrphan, OrphanSet
<1>3. CASE ev \in SyncEv
  <2>1. ev.type \in 1..10  BY <1>3, SyncTypesAssumption DEF SyncEv
  <2>. QED  BY <1>3, <2>1 DEF SyncEv, Orphan, SyncOrphan, OrphanSet
<1>4. CASE ev \in MarkerEv  BY <1>4 DEF MarkerEv, Orphan, MarkerOrphan, OrphanSet
<1>. QED  BY <1>1, <1>2, <1>3, <1>4 DEF Input

LEMMA InitCIInv == Init => CIInv
<1> SUFFICES ASSUME Init PROVE CIInv  OBVIOUS
<1>1. TypeOK  BY DEF Init, TypeOK
<1>2. OrphanCountMatches /\ BatchOpen  BY BatchAssumption DEF Init, OrphanCountMatches, BatchOpen
<1>3. MessagesBounded /\ FullWhileOpen  BY DEF Init, MessagesBounded, FullWhileOpen
<1>. QED  BY <1>1, <1>2, <1>3 DEF CIInv

(* Appending a message of 1..EventsPerMessage events to a file of full     *)
(* messages: every message is in bounds, all but the last are full, and   *)
(* all are full if the new one is.                                         *)
LEMMA AppendMessage ==
  ASSUME NEW w \in Seq(Seq(OrphanSet)), NEW m \in Seq(OrphanSet),
         \A i \in DOMAIN w : Len(w[i]) = EventsPerMessage,
         Len(m) \in 1..EventsPerMessage
  PROVE  /\ Append(w, m) \in Seq(Seq(OrphanSet))
         /\ \A i \in DOMAIN Append(w, m) : Len(Append(w, m)[i]) \in 1..EventsPerMessage
         /\ \A i \in DOMAIN Append(w, m) :
               i < Len(Append(w, m)) => Len(Append(w, m)[i]) = EventsPerMessage
         /\ Len(m) = EventsPerMessage =>
               \A i \in DOMAIN Append(w, m) : Len(Append(w, m)[i]) = EventsPerMessage
<1>1. /\ Append(w, m) \in Seq(Seq(OrphanSet))
      /\ Len(Append(w, m)) = Len(w) + 1
      /\ \A i \in 1..Len(w) : Append(w, m)[i] = w[i]
      /\ Append(w, m)[Len(w) + 1] = m
  BY AppendProperties
<1>2. DOMAIN Append(w, m) = 1..(Len(w) + 1) /\ DOMAIN w = 1..Len(w)  BY <1>1
<1>3. EventsPerMessage \in Nat \ {0}  BY BatchAssumption
<1>. QED  BY <1>1, <1>2, <1>3

(* A flush() call: the orphan joins the batch, and a batch that reaches   *)
(* EventsPerMessage is written whole, or the write fails and is fatal.    *)
LEMMA FlushCIInv ==
  ASSUME CIInv, NEW ev \in Input, Flush(ev) PROVE CIInv'
<1> DEFINE E == EventsPerMessage
           os == Append(orphans, Orphan(ev))
           n == events + 1
<1>1. /\ state = "open" /\ E \in Nat \ {0}
      /\ orphans \in Seq(OrphanSet) /\ written \in Seq(Seq(OrphanSet))
      /\ events \in Nat /\ Len(orphans) = events /\ events < E
      /\ \A i \in DOMAIN written : Len(written[i]) = E
  BY BatchAssumption DEF Flush, CIInv, TypeOK, OrphanCountMatches, BatchOpen,
                         FullWhileOpen
<1>2. os \in Seq(OrphanSet) /\ Len(os) = n  BY <1>1, OrphanType, AppendProperties
<1>3. logged' \in Seq(Input)  BY AppendProperties DEF Flush, CIInv, TypeOK
<1>4. CASE n = E
  <2>1. orphans' = << >> /\ events' = 0
    BY <1>4 DEF Flush, Emit, WriteBatch
  <2>2. SubSeq(os, 1, n) \in Seq(OrphanSet) /\ Len(SubSeq(os, 1, n)) = E
    BY <1>1, <1>2, <1>4, SubSeqProperties
  <2>3. CASE written' = Append(written, SubSeq(os, 1, n)) /\ state' = state
    <3>1. /\ written' \in Seq(Seq(OrphanSet))
          /\ \A i \in DOMAIN written' : Len(written'[i]) \in 1..E
          /\ \A i \in DOMAIN written' : Len(written'[i]) = E
      BY <1>1, <2>2, <2>3, AppendMessage
    <3>2. TypeOK'  BY <1>1, <1>3, <2>1, <2>3, <3>1 DEF TypeOK
    <3>3. OrphanCountMatches' /\ BatchOpen'
      BY <1>1, <2>1 DEF OrphanCountMatches, BatchOpen
    <3>4. MessagesBounded' /\ FullWhileOpen'
      BY <3>1 DEF MessagesBounded, FullWhileOpen
    <3>. QED  BY <3>2, <3>3, <3>4 DEF CIInv
  <2>4. CASE state' = "fatal" /\ written' = written
    <3>1. TypeOK'  BY <1>1, <1>3, <2>1, <2>4 DEF TypeOK
    <3>2. OrphanCountMatches' /\ BatchOpen'  BY <2>4 DEF OrphanCountMatches, BatchOpen
    <3>3. MessagesBounded' /\ FullWhileOpen'
      BY <1>1, <2>4 DEF MessagesBounded, FullWhileOpen
    <3>. QED  BY <3>1, <3>2, <3>3 DEF CIInv
  <2>. QED  BY <1>4, <2>3, <2>4 DEF Flush, Emit, WriteBatch
<1>5. CASE n # E
  <2>1. orphans' = os /\ events' = n /\ UNCHANGED <<written, state>>
    BY <1>5 DEF Flush, Emit
  <2>2. TypeOK'  BY <1>1, <1>2, <1>3, <2>1 DEF TypeOK
  <2>3. OrphanCountMatches' /\ BatchOpen'
    BY <1>1, <1>2, <1>5, <2>1 DEF OrphanCountMatches, BatchOpen
  <2>4. MessagesBounded' /\ FullWhileOpen'
    BY <2>1 DEF CIInv, MessagesBounded, FullWhileOpen
  <2>. QED  BY <2>2, <2>3, <2>4 DEF CIInv
<1>. QED  BY <1>4, <1>5

(* ~CapnLogger: the partial batch, if any, becomes the last message. *)
LEMMA CloseCIInv ==
  ASSUME CIInv, Close PROVE CIInv'
<1> DEFINE E == EventsPerMessage
<1>1. /\ state = "open" /\ E \in Nat \ {0}
      /\ orphans \in Seq(OrphanSet) /\ written \in Seq(Seq(OrphanSet))
      /\ events \in Nat /\ Len(orphans) = events /\ events < E
      /\ \A i \in DOMAIN written : Len(written[i]) = E
      /\ logged \in Seq(Input)
      /\ UNCHANGED <<events, logged>>
      /\ state' \in {"closed", "fatal"}
      /\ orphans' \in {orphans, << >>}
  BY BatchAssumption DEF Close, CIInv, TypeOK, OrphanCountMatches, BatchOpen,
                         FullWhileOpen
<1>2. OrphanCountMatches' /\ BatchOpen'  BY <1>1 DEF OrphanCountMatches, BatchOpen
<1>5. /\ orphans' \in Seq(OrphanSet) /\ events' \in Nat /\ logged' \in Seq(Input)
      /\ state' \in {"open", "closed", "fatal"}
  <2>1. << >> \in Seq(OrphanSet)  OBVIOUS
  <2>. QED  BY <1>1, <2>1
<1>3. CASE PartialBatchPending /\ written' = Append(written, SubSeq(orphans, 1, events))
  <2>1. /\ SubSeq(orphans, 1, events) \in Seq(OrphanSet)
        /\ Len(SubSeq(orphans, 1, events)) = events
    BY <1>1, SubSeqProperties
  <2>2. events \in 1..E  BY <1>1, <1>3 DEF PartialBatchPending
  <2>3. /\ written' \in Seq(Seq(OrphanSet))
        /\ \A i \in DOMAIN written' : Len(written'[i]) \in 1..E
        /\ \A i \in DOMAIN written' : i < Len(written') => Len(written'[i]) = E
    BY <1>1, <1>3, <2>1, <2>2, AppendMessage
  <2>4. TypeOK'  BY <1>5, <2>3 DEF TypeOK
  <2>5. MessagesBounded' /\ FullWhileOpen'
    <3>1. MessagesBounded'  BY <2>3 DEF MessagesBounded
    <3>2. FullWhileOpen'  BY <1>1, <2>3 DEF FullWhileOpen
    <3>. QED  BY <3>1, <3>2
  <2>. QED  BY <1>2, <2>4, <2>5 DEF CIInv
<1>4. CASE ~(PartialBatchPending /\ written' = Append(written, SubSeq(orphans, 1, events)))
  <2>1. UNCHANGED written  BY <1>4 DEF Close
  <2>2. TypeOK'  BY <1>1, <1>5, <2>1 DEF TypeOK
  <2>3. MessagesBounded' /\ FullWhileOpen'
    BY <1>1, <2>1 DEF MessagesBounded, FullWhileOpen
  <2>. QED  BY <1>2, <2>2, <2>3 DEF CIInv
<1>. QED  BY <1>3, <1>4

LEMMA NextCIInv == CIInv /\ [Next]_vars => CIInv'
<1> SUFFICES ASSUME CIInv, [Next]_vars PROVE CIInv'  OBVIOUS
<1>1. ASSUME NEW ev \in Input, Flush(ev) PROVE CIInv'  BY <1>1, FlushCIInv
<1>2. CASE Close  BY <1>2, CloseCIInv
<1>3. CASE UNCHANGED vars
  BY <1>3 DEF vars, CIInv, TypeOK, OrphanCountMatches, BatchOpen, MessagesBounded,
              FullWhileOpen
<1>. QED  BY <1>1, <1>2, <1>3 DEF Next

(* THEOREM: for every batch size, while the logger is open the batch      *)
(* counter `events` equals the number of orphans held, so flushOrphans()  *)
(* never copies past the orphan vector or leaves an orphan behind.        *)
THEOREM OrphanCountHolds == Spec => []OrphanCountMatches
<1>1. Spec => []CIInv  BY InitCIInv, NextCIInv, PTL DEF Spec
<1>. QED  BY <1>1, PTL DEF CIInv

(* THEOREM: for every batch size, every EventStream message in the file   *)
(* holds between 1 and EventsPerMessage events and all but the last are  *)
(* full, whatever gzwrite and gzclose do: a write that fails ends the     *)
(* logger, and only the destructor writes a partial batch.                *)
THEOREM MessagesBoundedHolds == Spec => []MessagesBounded
<1>1. Spec => []CIInv  BY InitCIInv, NextCIInv, PTL DEF Spec
<1>. QED  BY <1>1, PTL DEF CIInv

(* THEOREM: for every batch size the logger's state keeps its types: the  *)
(* orphans and every written message are sequences of capnp orphans whose *)
(* sync codes are among the ten the file format enumerates.               *)
THEOREM TypeCorrect == Spec => []TypeOK
<1>1. Spec => []CIInv  BY InitCIInv, NextCIInv, PTL DEF Spec
<1>. QED  BY <1>1, PTL DEF CIInv

=============================================================================
