----------------------------- MODULE CapnLogger -----------------------------
(***************************************************************************)
(* STGen::CapnLogger, the packed-binary encoder of one thread.  Each       *)
(* flush() overload builds an Event orphan and appends it to `orphans`;    *)
(* every EventsPerMessage events, flushOrphans() copies the batch into an  *)
(* EventStream message, writes it to the gzip file and starts a new        *)
(* orphanage.  The destructor writes the last, partial batch and closes    *)
(* the file.  A failed gzwrite or gzclose calls fatal().                   *)
(*                                                                         *)
(* `logged` is a history variable: the records the ThreadContext handed    *)
(* to the logger, in order.  The properties compare the file with it.     *)
(***************************************************************************)
EXTENDS Naturals, Sequences

CONSTANTS
    EventsPerMessage, \* events per EventStream message (CapnLogger.hpp)
    AddrSets,         \* address-range sets a compute or comm event carries
    SyncTypes,        \* SynchroTrace sync codes the ThreadContext passes
    MaxLogged         \* bound on the number of records handed to the logger

ASSUME BatchAssumption == EventsPerMessage \in Nat \ {0}
ASSUME SyncTypesAssumption == SyncTypes \subseteq 1..10
ASSUME LoggedAssumption == MaxLogged \in Nat

VARIABLES
    orphans,   \* the Event orphans of the current batch
    events,    \* the batch counter
    written,   \* the EventStream messages written to the gzip file
    state,     \* "open", "closed" (destructor done) or "fatal"
    logged     \* history: the records handed to the logger

vars == <<orphans, events, written, state, logged>>

(* Records a ThreadContext hands over: flush(STCompEvent), flush(STComm-  *)
(* Event), flush(syncType, syncAddr) and instrMarker(limit).              *)
CompEv == [kind : {"comp"}, rd : AddrSets, wr : AddrSets]
CommEv == [kind : {"comm"}, edges : AddrSets]
SyncEv == [kind : {"sync"}, type : SyncTypes]
MarkerEv == [kind : {"marker"}]
Input == CompEv \cup CommEv \cup SyncEv \cup MarkerEv

(* The capnp Event::SyncType enumerators, by SynchroTrace code. *)
CapnSyncType ==
    <<"LOCK", "UNLOCK", "SPAWN", "JOIN", "BARRIER", "COND_WAIT", "COND_SIGNAL",
      "COND_BROADCAST", "SPIN_LOCK", "SPIN_UNLOCK">>

(* flush(STCompEvent): writeAddrs from uniqueWriteAddrs, and readAddrs,   *)
(* too, from uniqueWriteAddrs.                                            *)
CompOrphan(ev) == [kind |-> "comp", wr |-> ev.wr, rd |-> ev.wr]

(* flush(STCommEvent): one edge builder per edge, ranges copied. *)
CommOrphan(ev) == [kind |-> "comm", edges |-> ev.edges]

(* flush(syncType, syncAddr): the code translated to the capnp enum. *)
SyncOrphan(ev) == [kind |-> "sync", type |-> CapnSyncType[ev.type]]

(* instrMarker(limit) *)
MarkerOrphan == [kind |-> "marker"]

Orphan(ev) ==
    CASE ev.kind = "comp" -> CompOrphan(ev)
      [] ev.kind = "comm" -> CommOrphan(ev)
      [] ev.kind = "sync" -> SyncOrphan(ev)
      [] ev.kind = "marker" -> MarkerOrphan

(* Seeded fault: the message built from one event too few. *)
WriteBatchShort(os, n) ==
    /\ orphans' = << >>
    /\ \/ /\ written' = Append(written, SubSeq(os, 1, n - 1))
          /\ UNCHANGED state
       \/ /\ state' = "fatal"
          /\ UNCHANGED written

(* flushOrphans(): the first n orphans become an EventStream message, the *)
(* orphans are cleared and the message is written; gzwrite returning 0   *)
(* is fatal.                                                             *)
WriteBatch(os, n) ==
    /\ orphans' = << >>
    /\ \/ /\ written' = Append(written, SubSeq(os, 1, n))
          /\ UNCHANGED state
       \/ /\ state' = "fatal"
          /\ UNCHANGED written

(* Seeded fault: the batch counter not reset after a full message. *)
EmitNoReset(o) ==
    LET os == Append(orphans, o)
        n == events + 1
    IN  IF n = EventsPerMessage
        THEN WriteBatch(os, n) /\ events' = n
        ELSE orphans' = os /\ events' = n /\ UNCHANGED <<written, state>>

(* The tail every flush overload shares: orphans.emplace_back(orphan);    *)
(* if (++events == eventsPerMessage) { flushOrphans(); events = 0; }      *)
Emit(o) ==
    LET os == Append(orphans, o)
        n == events + 1
    IN  IF n = EventsPerMessage
        THEN WriteBatch(os, n) /\ events' = 0
        ELSE orphans' = os /\ events' = n /\ UNCHANGED <<written, state>>

Init ==
    /\ orphans = << >>
    /\ events = 0
    /\ written = << >>
    /\ state = "open"
    /\ logged = << >>

(* One flush() or instrMarker() call with record ev. *)
Flush(ev) ==
    /\ state = "open"
    /\ Len(logged) < MaxLogged
    /\ logged' = Append(logged, ev)
    /\ Emit(Orphan(ev))

(* Seeded fault: the destructor flushing without testing for a batch. *)
PartialBatchPendingAlways == events >= 0

(* Seeded fault: the destructor flushing only a batch of two or more. *)
PartialBatchPendingOffByOne == events > 1

(* ~CapnLogger: `if (events > 0) flushOrphans();` *)
PartialBatchPending == events > 0

(* ~CapnLogger: write the partial batch, then gzclose (fatal on error). *)
Close ==
    /\ state = "open"
    /\ IF PartialBatchPending
       THEN \/ /\ orphans' = << >>
               /\ written' = Append(written, SubSeq(orphans, 1, events))
               /\ state' \in {"closed", "fatal"}
            \/ /\ orphans' = << >>
               /\ state' = "fatal"
               /\ UNCHANGED written
       ELSE /\ state' \in {"closed", "fatal"}
            /\ UNCHANGED <<orphans, written>>
    /\ UNCHANGED <<events, logged>>

Next ==
    \/ \E ev \in Input : Flush(ev)
    \/ Close

Spec == Init /\ [][Next]_vars

-----------------------------------------------------------------------------
OrphanSet ==
    [kind : {"comp"}, wr : AddrSets, rd : AddrSets]
      \cup [kind : {"comm"}, edges : AddrSets]
      \cup [kind : {"sync"}, type : {CapnSyncType[i] : i \in 1..10}]
      \cup {MarkerOrphan}

(* Type invariant. *)
TypeOK ==
    /\ orphans \in Seq(OrphanSet)
    /\ events \in Nat
    /\ written \in Seq(Seq(OrphanSet))
    /\ state \in {"open", "closed", "fatal"}
    /\ logged \in Seq(Input)

(* flushOrphans() builds a message of `events` events out of orphans[0],  *)
(* ..., orphans[events-1]: the batch counter always equals the number of  *)
(* orphans held while the logger is open, or the copy reads past the     *)
(* orphan vector.                                                         *)
OrphanCountMatches == state = "open" => Len(orphans) = events

(* Every EventStream message holds 1..EventsPerMessage events and all     *)
(* but the last message written are full: a reader never meets an empty  *)
(* message.                                                               *)
MessagesBounded ==
    /\ \A i \in DOMAIN written : Len(written[i]) \in 1..EventsPerMessage
    /\ \A i \in 1..(Len(written) - 1) : Len(written[i]) = EventsPerMessage

=============================================================================
