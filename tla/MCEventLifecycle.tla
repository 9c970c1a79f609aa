------------------------- MODULE MCEventLifecycle --------------------------
(* Finite instance of EventLifecycle.                                       *)
EXTENDS EventLifecycle

\* One row left over from an earlier deployment, as
\* tests/test_event_state_machine.py creates it.
OneOrphan == <<[from |-> "locked", to |-> "running", marker |-> "in-progress",
                outcome |-> "none"]>>
NoOrphan == <<>>

\* The database hands the row lock to waiters in turn and a running process
\* goes on with its statements; calls and crashes are not forced.
Fairness ==
  \A w \in Worker :
    /\ WF_vars(WorkerStep(w))
    /\ SF_vars(TransitionLock(w) \/ RecalculateLock(w) \/ ReconcileLock(w))

FairSpec == Spec /\ Fairness

=============================================================================
