--------------------------- MODULE EventLifecycle ---------------------------
(***************************************************************************)
(* The event status machine of apps/events/state_machine.py together with  *)
(* the one other writer that takes the same row lock,                      *)
(* recalculate_pairs_pre_start of apps/events/scheduling.py.               *)
(*                                                                         *)
(* Several workers call transition_event, recalculate_pairs_pre_start and  *)
(* reconcile_interrupted_transition on one event.  Each call runs in a     *)
(* transaction: SELECT ... FOR UPDATE takes the event's row lock, writes   *)
(* stay in the worker's buffer until the commit makes them durable at      *)
(* once, and an exception or a crash discards the buffer and the lock.     *)
(***************************************************************************)
EXTENDS Integers, Sequences

CONSTANTS
  Worker,     \* processes that call the state machine
  NoWorker,   \* value of the row lock when it is free
  Orphans,    \* EventTransitionLog rows that exist before, never completed
  MaxLog,     \* once the log has this many rows, the only transition
              \* requested is the one to "draft", which is always refused
  MaxSchedule \* no recalculation is requested after this many

Status == {"draft", "registration_open", "locked", "running", "paused",
           "completed", "scheduled", "active", "cancelled"}

\* The legacy statuses are not connected to the machine.
VALID_TRANSITIONS ==
  [s \in Status |->
     CASE s = "draft"             -> {"registration_open"}
       [] s = "registration_open" -> {"locked"}
       [] s = "locked"            -> {"running"}
       [] s = "running"           -> {"paused", "completed"}
       [] s = "paused"            -> {"running", "completed"}
       [] OTHER                   -> {}]

ForbiddenForRecalculation ==
  {"running", "paused", "completed", "cancelled", "active"}

Outcome == {"none", "rolled_forward", "already_consistent", "status_diverged"}
\* The is_complete flag, named as EventTransitionLog.__str__ names its values.
Marker == {"in-progress", "done"}
Row == [from : Status, to : Status, marker : Marker, outcome : Outcome]

ASSUME LifecycleAssumption ==
  /\ NoWorker \notin Worker
  /\ Orphans \in Seq(Row)
  /\ \A i \in 1..Len(Orphans) : /\ Orphans[i].marker = "in-progress"
                                /\ Orphans[i].outcome = "none"
  /\ MaxLog \in Nat
  /\ MaxSchedule \in Nat

VARIABLES
  status,    \* committed Event.status
  log,       \* committed EventTransitionLog rows, oldest first
  schedule,  \* how often the rounds and pairs have been replaced
  lock,      \* worker that holds the event's row lock
  pc,        \* pc[w]: the statement worker w executes next
  call,      \* call[w]: argument of the call (target status or log index)
  view,      \* view[w]: the status w last read
  buf,       \* buf[w]: marker of w's uncommitted log row
  initial    \* status the event was created with (history)

vars == <<status, log, schedule, lock, pc, call, view, buf, initial>>

Steps == {"idle", "t_lock", "t_check", "t_log", "t_status", "t_flip",
          "t_commit", "r_lock", "r_recheck", "r_commit", "c_lock", "c_commit"}


NoRow == "none"
NoCall == [to |-> "draft", row |-> 0]

TypeOK ==
  /\ status \in Status
  /\ log \in Seq(Row)
  /\ schedule \in Nat
  /\ lock \in Worker \cup {NoWorker}
  /\ pc \in [Worker -> Steps]
  /\ call \in [Worker -> [to : Status, row : Nat]]
  /\ view \in [Worker -> Status]
  /\ buf \in [Worker -> Marker \cup {NoRow}]
  /\ initial \in Status

Init ==
  /\ status \in Status
  /\ log = Orphans
  /\ schedule = 0
  /\ lock = NoWorker
  /\ pc = [w \in Worker |-> "idle"]
  /\ call = [w \in Worker |-> NoCall]
  /\ view = [w \in Worker |-> "draft"]
  /\ buf = [w \in Worker |-> NoRow]
  /\ initial = status

-----------------------------------------------------------------------------

Goto(w, from, to) ==
  /\ pc[w] = from
  /\ pc' = [pc EXCEPT ![w] = to]

\* SELECT ... FOR UPDATE: waits for the row lock, then reads the fresh row.
LockEvent(w) ==
  /\ lock = NoWorker
  /\ lock' = w
  /\ view' = [view EXCEPT ![w] = status]

\* The transaction ends: lock, buffer and local variables are gone.
EndTransaction(w) ==
  /\ lock' = IF lock = w THEN NoWorker ELSE lock
  /\ buf' = [buf EXCEPT ![w] = NoRow]
  /\ call' = [call EXCEPT ![w] = NoCall]
  /\ view' = [view EXCEPT ![w] = "draft"]

\* Plausible bug: any other status is accepted.
can_transition_anywhere(from, to) == to # from

can_transition(from, to) == to \in VALID_TRANSITIONS[from]

\* transition_event(event, to): `event` may be a stale object.
TransitionCall(w, to) ==
  /\ Len(log) < MaxLog \/ to = "draft"
  /\ Goto(w, "idle", "t_lock")
  /\ call' = [call EXCEPT ![w] = [to |-> to, row |-> 0]]
  /\ view' = [view EXCEPT ![w] = status]
  /\ UNCHANGED <<status, log, schedule, lock, buf, initial>>

TransitionLock(w) ==
  /\ Goto(w, "t_lock", "t_check")
  /\ LockEvent(w)
  /\ UNCHANGED <<status, log, schedule, call, buf, initial>>

\* Plausible bug: the exception leaves the transaction open and the row locked.
TransitionCheckKeepsLock(w) ==
  /\ pc[w] = "t_check"
  /\ \/ /\ can_transition(view[w], call[w].to)
        /\ pc' = [pc EXCEPT ![w] = "t_log"]
     \/ /\ ~can_transition(view[w], call[w].to)
        /\ pc' = [pc EXCEPT ![w] = "idle"]
  /\ UNCHANGED <<status, log, schedule, lock, call, view, buf, initial>>

\* InvalidTransitionError rolls back and releases the row.
TransitionCheck(w) ==
  /\ pc[w] = "t_check"
  /\ \/ /\ can_transition(view[w], call[w].to)
        /\ pc' = [pc EXCEPT ![w] = "t_log"]
        /\ UNCHANGED <<lock, call, view, buf>>
     \/ /\ ~can_transition(view[w], call[w].to)
        /\ pc' = [pc EXCEPT ![w] = "idle"]
        /\ EndTransaction(w)
  /\ UNCHANGED <<status, log, schedule, initial>>

\* Phase 1: INSERT the in-progress row.
TransitionLog(w) ==
  /\ Goto(w, "t_log", "t_status")
  /\ buf' = [buf EXCEPT ![w] = "in-progress"]
  /\ UNCHANGED <<status, log, schedule, lock, call, view, initial>>

\* Plausible bug: the status is saved outside the transaction (autocommit).
TransitionStatusAutocommit(w) ==
  /\ Goto(w, "t_status", "t_flip")
  /\ status' = call[w].to
  /\ UNCHANGED <<log, schedule, lock, call, view, buf, initial>>

\* Phase 2a: UPDATE the event's status, inside the transaction; others see
\* it at the commit.
TransitionStatus(w) ==
  /\ Goto(w, "t_status", "t_flip")
  /\ UNCHANGED <<status, log, schedule, lock, call, view, buf, initial>>

\* Phase 2b: flip the marker.
TransitionFlip(w) ==
  /\ Goto(w, "t_flip", "t_commit")
  /\ buf' = [buf EXCEPT ![w] = "done"]
  /\ UNCHANGED <<status, log, schedule, lock, call, view, initial>>

\* COMMIT: the row and the status become durable together.
TransitionCommit(w) ==
  /\ Goto(w, "t_commit", "idle")
  /\ log' = Append(log, [from |-> view[w], to |-> call[w].to,
                         marker |-> buf[w], outcome |-> "none"])
  /\ status' = call[w].to
  /\ EndTransaction(w)
  /\ UNCHANGED <<schedule, initial>>

-----------------------------------------------------------------------------

\* recalculate_pairs_pre_start: first look at the object the caller passed.
RecalculateCall(w) ==
  /\ schedule < MaxSchedule
  /\ Goto(w, "idle", "r_lock")
  /\ status \notin ForbiddenForRecalculation
  /\ view' = [view EXCEPT ![w] = status]
  /\ UNCHANGED <<status, log, schedule, lock, call, buf, initial>>

RecalculateLock(w) ==
  /\ Goto(w, "r_lock", "r_recheck")
  /\ LockEvent(w)
  /\ UNCHANGED <<status, log, schedule, call, buf, initial>>

\* Plausible bug: the status is not looked at again under the lock.
RecalculateNoRecheck(w) ==
  /\ Goto(w, "r_recheck", "r_commit")
  /\ UNCHANGED <<status, log, schedule, lock, call, view, buf, initial>>

\* The re-check under the lock; too few participants, no schedule or a
\* violated constraint also ends the call here.
RecalculateRecheck(w) ==
  /\ pc[w] = "r_recheck"
  /\ \/ /\ view[w] \notin ForbiddenForRecalculation
        /\ pc' = [pc EXCEPT ![w] = "r_commit"]
        /\ UNCHANGED <<lock, call, view, buf>>
     \/ /\ pc' = [pc EXCEPT ![w] = "idle"]
        /\ EndTransaction(w)
  /\ UNCHANGED <<status, log, schedule, initial>>

\* persist_schedule replaces rounds and pairs; COMMIT.
RecalculateCommit(w) ==
  /\ Goto(w, "r_commit", "idle")
  /\ schedule' = schedule + 1
  /\ EndTransaction(w)
  /\ UNCHANGED <<status, log, initial>>

-----------------------------------------------------------------------------

\* A new leader picks a row of find_incomplete_transitions.
ReconcileCall(w) ==
  /\ Goto(w, "idle", "c_lock")
  /\ \E i \in 1..Len(log) :
       /\ log[i].marker = "in-progress"
       /\ call' = [call EXCEPT ![w] = [to |-> "draft", row |-> i]]
  /\ UNCHANGED <<status, log, schedule, lock, view, buf, initial>>

ReconcileLock(w) ==
  /\ Goto(w, "c_lock", "c_commit")
  /\ LockEvent(w)
  /\ UNCHANGED <<status, log, schedule, call, buf, initial>>

ReconcileOutcome(s, row) ==
  CASE s = row.to -> "rolled_forward"
    [] s # row.to /\ s = row.from -> "already_consistent"
    [] OTHER -> "status_diverged"

\* The row as reconciliation saves it, the event having status s.
Closed(row, s) ==
  [row EXCEPT !.marker = "done", !.outcome = ReconcileOutcome(s, row)]

\* Plausible bug: the outcome is recorded but the flag is not set.
ReconcileCommitKeepsFlag(w) ==
  /\ Goto(w, "c_commit", "idle")
  /\ LET i == call[w].row
     IN  log' = [log EXCEPT ![i].outcome = ReconcileOutcome(view[w], log[i])]
  /\ EndTransaction(w)
  /\ UNCHANGED <<status, schedule, initial>>

\* The row is closed with its outcome; the event itself is not touched.
ReconcileCommit(w) ==
  /\ Goto(w, "c_commit", "idle")
  /\ LET i == call[w].row
     IN  log' = [log EXCEPT ![i] = Closed(log[i], view[w])]
  /\ EndTransaction(w)
  /\ UNCHANGED <<status, schedule, initial>>

-----------------------------------------------------------------------------

\* The worker or its connection dies: the database rolls the transaction back.
Crash(w) ==
  /\ pc[w] # "idle"
  /\ pc' = [pc EXCEPT ![w] = "idle"]
  /\ EndTransaction(w)
  /\ UNCHANGED <<status, log, schedule, initial>>

WorkerStep(w) ==
  \/ TransitionLock(w) \/ TransitionCheck(w) \/ TransitionLog(w)
  \/ TransitionStatus(w) \/ TransitionFlip(w) \/ TransitionCommit(w)
  \/ RecalculateLock(w) \/ RecalculateRecheck(w) \/ RecalculateCommit(w)
  \/ ReconcileLock(w) \/ ReconcileCommit(w)

Next ==
  \E w \in Worker :
    \/ \E to \in Status : TransitionCall(w, to)
    \/ RecalculateCall(w)
    \/ ReconcileCall(w)
    \/ WorkerStep(w)
    \/ Crash(w)

Spec == Init /\ [][Next]_vars

-----------------------------------------------------------------------------
(* Properties *)

(***************************************************************************)
(* "Audit record for every Event status transition (T-22)"                 *)
(* (EventTransitionLog): the rows that transition_event has committed form *)
(* an unbroken chain from the status the event was created with to its     *)
(* present status, whatever was interrupted, refused or reconciled.        *)
(***************************************************************************)
AuditChain ==
  LET b == Len(Orphans)
  IN  /\ Len(log) >= b
      /\ \A i \in (b + 1)..Len(log) :
           log[i].from = IF i = b + 1 THEN initial ELSE log[i - 1].to
      /\ status = IF Len(log) = b THEN initial ELSE log[Len(log)].to

(***************************************************************************)
(* Concurrent callers with stale Event objects cannot take the event along *)
(* an edge that VALID_TRANSITIONS lacks (transition_event re-reads the row *)
(* under the lock); in particular a completed event stays completed.       *)
(***************************************************************************)
OnlyValidTransitions ==
  [][status' # status => status' \in VALID_TRANSITIONS[status]]_vars

(***************************************************************************)
(* recalculate_pairs_pre_start never replaces the rounds and pairs of an   *)
(* event that has started, even if the start races with the recalculation. *)
(***************************************************************************)
RecalculateOnlyBeforeStart ==
  [][schedule' # schedule => status \notin ForbiddenForRecalculation]_vars

(***************************************************************************)
(* "marks the log is_complete=True so it no longer shows up in future      *)
(* reconciliation scans": a reconciled row is complete, and only rows that *)
(* transition_event did not write itself are ever reconciled.              *)
(***************************************************************************)
ReconciledRowsAreClosed ==
  \A i \in 1..Len(log) :
    log[i].outcome # "none" => log[i].marker = "done" /\ i <= Len(Orphans)

(***************************************************************************)
(* Everyone who asks for the row lock gets an answer: no call waits for    *)
(* ever, although invalid transitions and crashes end calls half-way.      *)
(***************************************************************************)
EveryCallReturns == \A w \in Worker : (pc[w] # "idle") ~> (pc[w] = "idle")

=============================================================================
