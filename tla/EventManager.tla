---------------------------- MODULE EventManager ----------------------------
(***************************************************************************)
(* sgl::EventManager, the Sigil2 core's event buffer between the frontend  *)
(* and the backend (src/src/Sigil2/EventManager.cpp).                      *)
(*                                                                         *)
(* bufferEvent() stores a primitive in ev_buf[used] together with the      *)
(* notify function and a pointer to the observer list of its kind.        *)
(* flushEvents() calls ev_buf[i].notify(ev_buf[i]) for i = 0 .. used-1,   *)
(* each of which calls every observer in that list, and then sets used to *)
(* 0.  finish() flushes and then calls every cleanup observer.  The       *)
(* backend registers its handlers with addObserver() and its teardown     *)
(* with addCleanup().                                                      *)
(*                                                                         *)
(* The two loops are modelled one iteration per step, with the loop index *)
(* `i`; the frontend is blocked while they run.  A primitive is a record  *)
(* of its kind and a serial number.  The observers themselves are          *)
(* abstract: `recv` logs what each registered observer was called with.   *)
(* `produced`, `delivered` and the registration points in `obs` are       *)
(* history variables.                                                      *)
(***************************************************************************)
EXTENDS Naturals, Sequences

CONSTANTS
    MaxEvents,    \* bound on the primitives the frontend buffers
    MaxObs,       \* bound on the observers registered for one kind
    MaxCleanups,  \* bound on the cleanup observers registered
    NotRun        \* a cleanup observer that finish() has not called yet

ASSUME EventsAssumption == MaxEvents \in Nat
ASSUME ObsAssumption == MaxObs \in Nat /\ MaxCleanups \in Nat
ASSUME NotRunAssumption == NotRun \notin Nat

VARIABLES
    buf,        \* ev_buf[0 .. used-1]
    i,          \* the index of the running for-loop
    pc,         \* "idle", "flush" (flushEvents), "finflush" (finish's flush),
                \* "cleanup" (finish's cleanup loop), "done"
    obs,        \* per kind, one entry per registered observer: the number
                \* of primitives delivered before it was registered
    recv,       \* per kind, what each registered observer was called with
    cleanups,   \* per cleanup observer: NotRun, or the number of primitives
                \* delivered when finish() called it
    produced,   \* history: the primitives buffered, in order
    delivered   \* history: the primitives notified, in order

vars == <<buf, i, pc, obs, recv, cleanups, produced, delivered>>

(* The four primitive kinds, one bufferEvent/addObserver overload each. *)
Kinds == {"mem", "comp", "sync", "cxt"}

(* A buffered primitive: its kind, its serial number, and the observer   *)
(* list the notify function will walk.                                   *)
Event == [kind : Kinds, id : 1..MaxEvents, list : Kinds]

Flushing == {"flush", "finflush"}

(* Seeded fault: bufferEvent(SglCxtEv) pointing at the sync observers.  *)
ObserverListCopyPaste(k) == IF k = "cxt" THEN "sync" ELSE k

(* ev_buf[used].observers = &<kind>_observers *)
ObserverList(k) == k

Init ==
    /\ buf = << >>
    /\ i = 0
    /\ pc = "idle"
    /\ obs = [k \in Kinds |-> << >>]
    /\ recv = [k \in Kinds |-> << >>]
    /\ cleanups = << >>
    /\ produced = << >>
    /\ delivered = << >>

(* addObserver(obs): <kind>_observers.push_back(obs) *)
AddObserver(k) ==
    /\ pc = "idle"
    /\ Len(obs[k]) < MaxObs
    /\ obs' = [obs EXCEPT ![k] = Append(@, Len(delivered))]
    /\ recv' = [recv EXCEPT ![k] = Append(@, << >>)]
    /\ UNCHANGED <<buf, i, pc, cleanups, produced, delivered>>

(* addCleanup(obs): cleanup_observers.push_back(obs) *)
AddCleanup ==
    /\ pc = "idle"
    /\ Len(cleanups) < MaxCleanups
    /\ cleanups' = Append(cleanups, NotRun)
    /\ UNCHANGED <<buf, i, pc, obs, recv, produced, delivered>>

(* bufferEvent(ev): fill ev_buf[used] with notify, observers and the     *)
(* primitive; used++.                                                    *)
BufferEvent(k) ==
    /\ pc = "idle"
    /\ Len(produced) < MaxEvents
    /\ LET e == [kind |-> k, id |-> Len(produced) + 1, list |-> ObserverList(k)]
       IN  /\ buf' = Append(buf, e)
           /\ produced' = Append(produced, e)
    /\ UNCHANGED <<i, pc, obs, recv, cleanups, delivered>>

(* notify<Kind>Observers(ev): every observer in ev.observers, in order, *)
(* is called with the primitive.                                        *)
Notify(e) ==
    /\ recv' = [recv EXCEPT ![e.list] = [j \in DOMAIN @ |-> Append(@[j], e)]]
    /\ delivered' = Append(delivered, e)

(* Seeded fault: the flush loop starting at index 1. *)
FlushEventsFromOne ==
    /\ pc = "idle"
    /\ pc' = "flush"
    /\ i' = 1
    /\ UNCHANGED <<buf, obs, recv, cleanups, produced, delivered>>

(* flushEvents(), called by the frontend: the loop starts at i = 0. *)
FlushEvents ==
    /\ pc = "idle"
    /\ pc' = "flush"
    /\ i' = 0
    /\ UNCHANGED <<buf, obs, recv, cleanups, produced, delivered>>

(* One iteration: ev_buf[i].notify(ev_buf[i]); ++i. *)
FlushStep ==
    /\ pc \in Flushing
    /\ i < Len(buf)
    /\ Notify(buf[i + 1])
    /\ i' = i + 1
    /\ UNCHANGED <<buf, pc, obs, cleanups, produced>>

(* Seeded fault: the loop ends without `used = 0`. *)
FlushDoneNoReset ==
    /\ pc \in Flushing
    /\ i >= Len(buf)
    /\ pc' = IF pc = "flush" THEN "idle" ELSE "cleanup"
    /\ i' = 0
    /\ UNCHANGED <<buf, obs, recv, cleanups, produced, delivered>>

(* The loop ends: used = 0.  In finish() the cleanup loop starts. *)
FlushDone ==
    /\ pc \in Flushing
    /\ i >= Len(buf)
    /\ buf' = << >>
    /\ pc' = IF pc = "flush" THEN "idle" ELSE "cleanup"
    /\ i' = 0
    /\ UNCHANGED <<obs, recv, cleanups, produced, delivered>>

(* Seeded fault: finish() running the cleanups without flushing first. *)
FinishNoFlush ==
    /\ pc = "idle"
    /\ pc' = "cleanup"
    /\ i' = 0
    /\ UNCHANGED <<buf, obs, recv, cleanups, produced, delivered>>

(* finish(): flushEvents() first. *)
Finish ==
    /\ pc = "idle"
    /\ pc' = "finflush"
    /\ i' = 0
    /\ UNCHANGED <<buf, obs, recv, cleanups, produced, delivered>>

(* One iteration of `for (auto& cleanup : cleanup_observers) cleanup();` *)
CleanupStep ==
    /\ pc = "cleanup"
    /\ i < Len(cleanups)
    /\ cleanups' = [cleanups EXCEPT ![i + 1] = Len(delivered)]
    /\ i' = i + 1
    /\ UNCHANGED <<buf, pc, obs, recv, produced, delivered>>

CleanupDone ==
    /\ pc = "cleanup"
    /\ i >= Len(cleanups)
    /\ pc' = "done"
    /\ UNCHANGED <<buf, i, obs, recv, cleanups, produced, delivered>>

Next ==
    \/ \E k \in Kinds : AddObserver(k) \/ BufferEvent(k)
    \/ AddCleanup
    \/ FlushEvents \/ FlushStep \/ FlushDone
    \/ Finish \/ CleanupStep \/ CleanupDone

(* The frontend calls finish() when its input ends, and both loops run  *)
(* to their end.                                                        *)
Fairness ==
    /\ WF_vars(Finish)
    /\ WF_vars(FlushStep) /\ WF_vars(FlushDone)
    /\ WF_vars(CleanupStep) /\ WF_vars(CleanupDone)

Spec == Init /\ [][Next]_vars /\ Fairness

-----------------------------------------------------------------------------
(* The primitives buffered and not yet notified. *)
Pending == IF pc \in Flushing THEN SubSeq(buf, i + 1, Len(buf)) ELSE buf

(* Type invariant. *)
TypeOK ==
    /\ buf \in Seq(Event)
    /\ i \in Nat
    /\ pc \in {"idle", "flush", "finflush", "cleanup", "done"}
    /\ obs \in [Kinds -> Seq(Nat)]
    /\ recv \in [Kinds -> Seq(Seq(Event))]
    /\ \A k \in Kinds : Len(recv[k]) = Len(obs[k])
    /\ cleanups \in Seq(Nat \cup {NotRun})
    /\ produced \in Seq(Event)
    /\ delivered \in Seq(Event)

(* No primitive is lost, duplicated or reordered between the frontend   *)
(* and the observers: what was notified, followed by what the buffer    *)
(* still holds, is what was buffered.  A flush that forgot `used = 0`,  *)
(* or a loop that skipped or repeated an index, breaks it.              *)
StreamConserved == delivered \o Pending = produced

(* Each observer registered for kind k is called with exactly the        *)
(* primitives of kind k notified since its registration, in order; a     *)
(* primitive buffered before the registration and flushed after it is    *)
(* included, because ev_buf holds a pointer to the live observer list.   *)
ObserversReceiveInOrder ==
    \A k \in Kinds : \A j \in DOMAIN obs[k] :
        recv[k][j] = SelectSeq(SubSeq(delivered, obs[k][j] + 1, Len(delivered)),
                               LAMBDA e : e.kind = k)

(* finish() calls a cleanup observer (the backend's teardown) only after *)
(* every buffered primitive has been notified.                           *)
CleanupSeesAll ==
    \A c \in DOMAIN cleanups :
        cleanups[c] # NotRun => cleanups[c] = Len(produced)

(* Every primitive the frontend buffers is eventually notified. *)
EventuallyDelivered ==
    \A n \in 1..MaxEvents : (Len(produced) >= n) ~> (Len(delivered) >= n)
=============================================================================
