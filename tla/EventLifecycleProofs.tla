------------------------ MODULE EventLifecycleProofs ------------------------
(***************************************************************************)
(* Proofs about EventLifecycle, for any number of workers and any log      *)
(* history.                                                                *)
(*                                                                         *)
(* The argument is the row lock: while a worker holds it, the status it    *)
(* read is the committed status (LockProtectsView), so the edge that it    *)
(* validated (ValidatedEdge) is still an edge when it commits.             *)
(***************************************************************************)
EXTENDS EventLifecycle, SequenceTheorems, TLAPS

Holding == {"t_check", "t_log", "t_status", "t_flip", "t_commit",
            "r_recheck", "r_commit", "c_commit"}

\* A worker inside its transaction owns the row lock and has read the row.
LockProtectsView ==
  \A w \in Worker : pc[w] \in Holding => lock = w /\ view[w] = status

\* Past the check, the requested transition is allowed from the status read.
ValidatedEdge ==
  \A w \in Worker :
    /\ pc[w] \in {"t_log", "t_status", "t_flip", "t_commit"} =>
         call[w].to \in VALID_TRANSITIONS[view[w]]
    /\ pc[w] = "t_commit" => buf[w] = "done"
    /\ pc[w] = "r_commit" => view[w] \notin ForbiddenForRecalculation

\* A reconciliation works on an existing row that transition_event did not
\* write itself.
ReconcilesOrphans ==
  /\ \A i \in (Len(Orphans) + 1)..Len(log) : log[i].marker = "done"
  /\ \A w \in Worker :
       pc[w] \in {"c_lock", "c_commit"} => call[w].row \in 1..Len(Orphans)

IInv == /\ TypeOK /\ LockProtectsView /\ ValidatedEdge /\ ReconcilesOrphans
        /\ AuditChain /\ ReconciledRowsAreClosed

\* Every step except the two commits that write the event or its log.
Quiet(w) ==
  \/ \E to \in Status : TransitionCall(w, to)
  \/ TransitionLock(w) \/ TransitionCheck(w) \/ TransitionLog(w)
  \/ TransitionStatus(w) \/ TransitionFlip(w)
  \/ RecalculateCall(w) \/ RecalculateLock(w) \/ RecalculateRecheck(w)
  \/ RecalculateCommit(w) \/ ReconcileCall(w) \/ ReconcileLock(w)
  \/ Crash(w)

(* An event starts with the orphan rows only and no call in progress.       *)
LEMMA InitEstablishesIInv == Init => IInv
<1> SUFFICES ASSUME Init PROVE IInv
  OBVIOUS
<1> USE LifecycleAssumption DEF Init
<1>1. TypeOK
  BY DEF TypeOK, Steps, NoCall, NoRow, Marker, Status
<1>2. LockProtectsView /\ ValidatedEdge /\ ReconcilesOrphans
  BY DEF LockProtectsView, ValidatedEdge, ReconcilesOrphans, Holding
<1>3. AuditChain /\ ReconciledRowsAreClosed
  BY DEF AuditChain, ReconciledRowsAreClosed
<1> QED
  BY <1>1, <1>2, <1>3 DEF IInv

(* Closing a row keeps it a row and keeps the edge it records.              *)
LEMMA ClosedRow ==
  ASSUME NEW row \in Row, NEW s \in Status
  PROVE  /\ Closed(row, s) \in Row
         /\ Closed(row, s).from = row.from
         /\ Closed(row, s).to = row.to
         /\ Closed(row, s).marker = "done"
  BY DEF Closed, ReconcileOutcome, Row, Outcome, Marker

(* A step that neither commits a transition nor a reconciliation leaves the *)
(* committed status and log alone.                                          *)
LEMMA QuietSteps ==
  ASSUME NEW w \in Worker, Quiet(w)
  PROVE  UNCHANGED <<status, log, initial>>
  BY DEF Quiet, TransitionCall, TransitionLock, TransitionCheck, TransitionLog,
         TransitionStatus, TransitionFlip, RecalculateCall, RecalculateLock,
         RecalculateRecheck, RecalculateCommit, ReconcileCall, ReconcileLock,
         Crash

(* Steps that do not commit keep the types: only the worker's own locals    *)
(* and the lock change.                                                     *)
LEMMA QuietTypes ==
  ASSUME IInv, NEW w \in Worker, Quiet(w)
  PROVE  TypeOK'
<1> USE LifecycleAssumption DEF IInv, TypeOK
<1>1. status' = status /\ log' = log /\ initial' = initial
  BY QuietSteps
<1>2. CASE \E to \in Status : TransitionCall(w, to)
  BY <1>1, <1>2 DEF TransitionCall, Goto, Steps
<1>3. CASE TransitionLock(w) \/ RecalculateLock(w) \/ ReconcileLock(w)
  BY <1>1, <1>3 DEF TransitionLock, RecalculateLock, ReconcileLock, LockEvent,
                    Goto, Steps
<1>4. CASE EndTransaction(w) /\ pc' = [pc EXCEPT ![w] = "idle"]
           /\ schedule' \in Nat
  BY <1>1, <1>4 DEF EndTransaction, Steps, NoRow, NoCall, Status
<1>5. CASE TransitionCheck(w) \/ RecalculateRecheck(w)
  <2>1. schedule' = schedule
    BY <1>5 DEF TransitionCheck, RecalculateRecheck
  <2>2. CASE UNCHANGED <<lock, call, view, buf>>
             /\ \/ pc' = [pc EXCEPT ![w] = "t_log"]
                \/ pc' = [pc EXCEPT ![w] = "r_commit"]
    BY <1>1, <2>1, <2>2 DEF Steps
  <2> QED
    BY <1>4, <1>5, <2>1, <2>2 DEF TransitionCheck, RecalculateRecheck
<1>6. CASE TransitionLog(w)
  BY <1>1, <1>6 DEF TransitionLog, Goto, Steps, Marker
<1>7. CASE TransitionStatus(w) \/ TransitionFlip(w)
  BY <1>1, <1>7 DEF TransitionStatus, TransitionFlip, Goto, Steps, Marker
<1>8. CASE RecalculateCall(w)
  BY <1>1, <1>8 DEF RecalculateCall, Goto, Steps
<1>9. CASE RecalculateCommit(w)
  BY <1>4, <1>9 DEF RecalculateCommit, Goto
<1>10. CASE ReconcileCall(w)
  <2>1. PICK i \in 1..Len(log) :
               call' = [call EXCEPT ![w] = [to |-> "draft", row |-> i]]
    BY <1>10 DEF ReconcileCall
  <2>2. i \in Nat /\ "draft" \in Status
    BY DEF Status
  <2>3. call' \in [Worker -> [to : Status, row : Nat]]
    BY <2>1, <2>2
  <2> QED
    BY <1>1, <1>10, <2>3 DEF ReconcileCall, Goto, Steps
<1>11. CASE Crash(w)
  BY <1>1, <1>4, <1>11 DEF Crash
<1> QED
  BY <1>2, <1>3, <1>5, <1>6, <1>7, <1>8, <1>9, <1>10, <1>11 DEF Quiet

(* Taking and dropping the row lock keeps every reader's view current.      *)
LEMMA QuietLock ==
  ASSUME IInv, NEW w \in Worker, Quiet(w)
  PROVE  LockProtectsView'
<1> USE LifecycleAssumption DEF IInv, TypeOK, LockProtectsView
<1>1. status' = status
  BY QuietSteps
<1>2. CASE \E to \in Status : TransitionCall(w, to)
  BY <1>1, <1>2 DEF TransitionCall, Goto, Holding
<1>3. CASE TransitionLock(w) \/ RecalculateLock(w) \/ ReconcileLock(w)
  BY <1>1, <1>3 DEF TransitionLock, RecalculateLock, ReconcileLock, LockEvent,
                    Goto, Holding
<1>4. CASE EndTransaction(w) /\ pc' = [pc EXCEPT ![w] = "idle"]
  BY <1>1, <1>4 DEF EndTransaction, Holding
<1>5. CASE TransitionCheck(w) \/ RecalculateRecheck(w)
  <2>1. CASE UNCHANGED <<lock, call, view, buf>>
             /\ pc[w] \in Holding
             /\ \E s \in Steps : pc' = [pc EXCEPT ![w] = s]
    BY <1>1, <2>1
  <2> QED
    BY <1>4, <1>5, <2>1 DEF TransitionCheck, RecalculateRecheck, Holding, Steps
<1>6. CASE TransitionLog(w) \/ TransitionStatus(w) \/ TransitionFlip(w)
  <2>1. UNCHANGED <<lock, view>> /\ pc[w] \in Holding
        /\ \E s \in Steps : pc' = [pc EXCEPT ![w] = s]
    BY <1>6 DEF TransitionLog, TransitionStatus, TransitionFlip, Goto, Holding,
                Steps
  <2> QED
    BY <1>1, <2>1
<1>7. CASE RecalculateCall(w)
  BY <1>1, <1>7 DEF RecalculateCall, Goto, Holding
<1>8. CASE ReconcileCall(w)
  BY <1>1, <1>8 DEF ReconcileCall, Goto, Holding
<1>9. CASE RecalculateCommit(w) \/ Crash(w)
  BY <1>4, <1>9 DEF RecalculateCommit, Crash, Goto
<1> QED
  BY <1>2, <1>3, <1>5, <1>6, <1>7, <1>8, <1>9 DEF Quiet

(* What a worker validated stays validated until it commits or gives up.    *)
LEMMA QuietEdge ==
  ASSUME IInv, NEW w \in Worker, Quiet(w)
  PROVE  ValidatedEdge'
<1> USE LifecycleAssumption DEF IInv, TypeOK, ValidatedEdge
<1>1. CASE \E to \in Status : TransitionCall(w, to)
  BY <1>1 DEF TransitionCall, Goto
<1>2. CASE TransitionLock(w) \/ RecalculateLock(w) \/ ReconcileLock(w)
  BY <1>2 DEF TransitionLock, RecalculateLock, ReconcileLock, LockEvent, Goto
<1>3. CASE EndTransaction(w) /\ pc' = [pc EXCEPT ![w] = "idle"]
  BY <1>3 DEF EndTransaction
<1>4. CASE TransitionCheck(w)
  BY <1>3, <1>4 DEF TransitionCheck, can_transition
<1>5. CASE RecalculateRecheck(w)
  BY <1>3, <1>5 DEF RecalculateRecheck
<1>6. CASE TransitionLog(w)
  BY <1>6 DEF TransitionLog, Goto
<1>7. CASE TransitionStatus(w)
  BY <1>7 DEF TransitionStatus, Goto
<1>8. CASE TransitionFlip(w)
  BY <1>8 DEF TransitionFlip, Goto
<1>9. CASE RecalculateCall(w)
  BY <1>9 DEF RecalculateCall, Goto
<1>10. CASE ReconcileCall(w)
  BY <1>10 DEF ReconcileCall, Goto
<1>11. CASE RecalculateCommit(w) \/ Crash(w)
  BY <1>3, <1>11 DEF RecalculateCommit, Crash, Goto
<1> QED
  BY <1>1, <1>2, <1>4, <1>5, <1>6, <1>7, <1>8, <1>9, <1>10, <1>11 DEF Quiet

(* A reconciliation only ever picks an orphan row.                          *)
LEMMA QuietOrphans ==
  ASSUME IInv, NEW w \in Worker, Quiet(w)
  PROVE  ReconcilesOrphans'
<1> USE LifecycleAssumption DEF IInv, TypeOK, ReconcilesOrphans
<1>1. log' = log
  BY QuietSteps
<1>2. CASE ReconcileCall(w)
  <2>1. PICK i \in 1..Len(log) :
               /\ log[i].marker = "in-progress"
               /\ call' = [call EXCEPT ![w] = [to |-> "draft", row |-> i]]
    BY <1>2 DEF ReconcileCall
  <2>2. i \in 1..Len(Orphans)
    <3> HIDE DEF TypeOK
    <3>1. Len(Orphans) \in Nat /\ Len(log) \in Nat
      BY DEF TypeOK
    <3> HIDE LifecycleAssumption
    <3> QED
      BY <2>1, <3>1
  <2>3. pc' = [pc EXCEPT ![w] = "c_lock"]
    BY <1>2 DEF ReconcileCall, Goto
  <2>4. call'[w].row = i /\ \A v \in Worker \ {w} : call'[v] = call[v]
    BY <2>1
  <2> HIDE DEF TypeOK
  <2>5. ASSUME NEW v \in Worker, pc'[v] \in {"c_lock", "c_commit"}
        PROVE  call'[v].row \in 1..Len(Orphans)
    BY <2>2, <2>3, <2>4, <2>5 DEF TypeOK
  <2> QED
    BY <1>1, <2>5
<1>3. CASE ReconcileLock(w)
  BY <1>1, <1>3 DEF ReconcileLock, Goto
<1>4. CASE /\ \A v \in Worker \ {w} : call'[v] = call[v] /\ pc'[v] = pc[v]
           /\ pc'[w] \notin {"c_lock", "c_commit"}
  BY <1>1, <1>4
<1>5. CASE \E to \in Status : TransitionCall(w, to)
  BY <1>4, <1>5 DEF TransitionCall, Goto
<1>6. CASE TransitionLock(w) \/ RecalculateLock(w) \/ TransitionLog(w)
           \/ TransitionStatus(w) \/ TransitionFlip(w) \/ RecalculateCall(w)
  BY <1>4, <1>6 DEF TransitionLock, RecalculateLock, TransitionLog,
                    TransitionStatus, TransitionFlip, RecalculateCall, Goto
<1>7. CASE TransitionCheck(w) \/ RecalculateRecheck(w)
  BY <1>4, <1>7 DEF TransitionCheck, RecalculateRecheck, EndTransaction
<1>8. CASE RecalculateCommit(w) \/ Crash(w)
  BY <1>4, <1>8 DEF RecalculateCommit, Crash, EndTransaction, Goto
<1> QED
  BY <1>2, <1>3, <1>5, <1>6, <1>7, <1>8 DEF Quiet

(* A step that commits nothing preserves the inductive invariant.           *)
LEMMA QuietStepsPreserveIInv ==
  ASSUME IInv, NEW w \in Worker, Quiet(w)
  PROVE  IInv'
<1>1. AuditChain' /\ ReconciledRowsAreClosed'
  BY QuietSteps DEF IInv, AuditChain, ReconciledRowsAreClosed
<1> QED
  BY <1>1, QuietTypes, QuietLock, QuietEdge, QuietOrphans DEF IInv

(* The COMMIT of transition_event appends the next link of the audit chain. *)
LEMMA TransitionCommitPreservesIInv ==
  ASSUME IInv, NEW w \in Worker, TransitionCommit(w)
  PROVE  IInv' /\ call[w].to \in VALID_TRANSITIONS[status]
<1> DEFINE row == [from |-> view[w], to |-> call[w].to,
                   marker |-> buf[w], outcome |-> "none"]
<1> USE LifecycleAssumption
<1>1. /\ pc[w] = "t_commit" /\ pc' = [pc EXCEPT ![w] = "idle"]
      /\ log' = Append(log, row)
      /\ status' = call[w].to
      /\ EndTransaction(w)
      /\ schedule' = schedule /\ initial' = initial
  BY DEF TransitionCommit, Goto
<1>2. /\ lock = w /\ view[w] = status
      /\ call[w].to \in VALID_TRANSITIONS[view[w]]
      /\ buf[w] = "done"
  BY <1>1 DEF IInv, LockProtectsView, ValidatedEdge, Holding
<1>3. row \in Row
  BY <1>2 DEF Row, IInv, TypeOK, Marker, Outcome
<1> HIDE DEF row
<1>4. /\ log' \in Seq(Row) /\ Len(log') = Len(log) + 1
      /\ log'[Len(log) + 1] = row
      /\ \A i \in 1..Len(log) : log'[i] = log[i]
  BY <1>1, <1>3 DEF IInv, TypeOK
<1>5. row.from = status /\ row.to = status' /\ row.marker = "done"
      /\ row.outcome = "none"
  BY <1>1, <1>2 DEF row
<1>6. TypeOK'
  BY <1>1, <1>4 DEF IInv, TypeOK, EndTransaction, Steps, NoRow, NoCall, Marker,
                    Status
<1>7. LockProtectsView' /\ ValidatedEdge'
  BY <1>1, <1>2 DEF IInv, TypeOK, LockProtectsView, ValidatedEdge,
                    EndTransaction, Holding
<1>8. ReconcilesOrphans'
  BY <1>1, <1>4, <1>5 DEF IInv, TypeOK, AuditChain, ReconcilesOrphans,
                          EndTransaction
<1>9. AuditChain'
  BY <1>1, <1>4, <1>5 DEF IInv, TypeOK, AuditChain
<1>10. ReconciledRowsAreClosed'
  <2> SUFFICES ASSUME NEW j \in 1..Len(log'), log'[j].outcome # "none"
               PROVE  log'[j].marker = "done" /\ j <= Len(Orphans)
    BY DEF ReconciledRowsAreClosed
  <2>1. j \in 1..Len(log) /\ log'[j] = log[j]
    BY <1>4, <1>5 DEF IInv, TypeOK
  <2> QED
    BY <2>1 DEF IInv, ReconciledRowsAreClosed
<1> QED
  BY <1>2, <1>6, <1>7, <1>8, <1>9, <1>10 DEF IInv

(* Reconciliation closes an orphan row and touches neither the event nor    *)
(* the chain.                                                               *)
LEMMA ReconcileCommitPreservesIInv ==
  ASSUME IInv, NEW w \in Worker, ReconcileCommit(w)
  PROVE  IInv' /\ status' = status
<1> DEFINE i == call[w].row
           row == Closed(log[i], view[w])
<1> USE LifecycleAssumption
<1>1. /\ pc[w] = "c_commit" /\ pc' = [pc EXCEPT ![w] = "idle"]
      /\ log' = [log EXCEPT ![i] = row]
      /\ status' = status
      /\ EndTransaction(w)
      /\ schedule' = schedule /\ initial' = initial
  BY DEF ReconcileCommit, Goto
<1>2. i \in 1..Len(Orphans) /\ Len(Orphans) <= Len(log) /\ Len(log) \in Nat
      /\ Len(Orphans) \in Nat
  BY <1>1 DEF IInv, TypeOK, ReconcilesOrphans, AuditChain
<1>3. i \in 1..Len(log) /\ log[i] \in Row /\ view[w] \in Status
  BY <1>2 DEF IInv, TypeOK
<1>4. /\ row \in Row /\ row.marker = "done"
      /\ row.from = log[i].from /\ row.to = log[i].to
  BY <1>3, ClosedRow
<1> HIDE DEF i, row
<1>5. /\ log' \in Seq(Row) /\ Len(log') = Len(log)
      /\ \A j \in 1..Len(log) : log'[j] = IF j = i THEN row ELSE log[j]
  BY <1>1, <1>3, <1>4, ExceptSeq DEF IInv, TypeOK
<1>6. TypeOK'
  BY <1>1, <1>5 DEF IInv, TypeOK, EndTransaction, Steps, NoRow, NoCall, Marker,
                    Status
<1>7. LockProtectsView' /\ ValidatedEdge'
  BY <1>1 DEF IInv, TypeOK, LockProtectsView, ValidatedEdge, EndTransaction,
              Holding
<1>8. ReconcilesOrphans'
  BY <1>1, <1>2, <1>4, <1>5 DEF IInv, TypeOK, ReconcilesOrphans, EndTransaction
<1>9. AuditChain'
  <2>1. \A j \in 1..Len(log) : log'[j].from = log[j].from
                              /\ log'[j].to = log[j].to
    BY <1>4, <1>5
  <2>2. AuditChain /\ status' = status /\ initial' = initial
    BY <1>1 DEF IInv
  <2>3. ASSUME NEW j \in (Len(Orphans) + 1)..Len(log)
        PROVE  log'[j].from = IF j = Len(Orphans) + 1 THEN initial
                              ELSE log'[j - 1].to
    <3>1. j \in 1..Len(log) /\ (j # Len(Orphans) + 1 => j - 1 \in 1..Len(log))
      BY <1>2
    <3>2. log[j].from = IF j = Len(Orphans) + 1 THEN initial ELSE log[j - 1].to
      BY <2>2 DEF AuditChain
    <3> QED
      BY <2>1, <3>1, <3>2
  <2>4. status = IF Len(log) = Len(Orphans) THEN initial ELSE log'[Len(log)].to
    <3>1. Len(log) # Len(Orphans) => Len(log) \in 1..Len(log)
      BY <1>2
    <3> QED
      BY <2>1, <2>2, <3>1 DEF AuditChain
  <2> QED
    BY <1>2, <1>5, <2>2, <2>3, <2>4 DEF AuditChain
<1>10. ReconciledRowsAreClosed'
  <2> SUFFICES ASSUME NEW j \in 1..Len(log'), log'[j].outcome # "none"
               PROVE  log'[j].marker = "done" /\ j <= Len(Orphans)
    BY DEF ReconciledRowsAreClosed
  <2>1. CASE j = i
    BY <1>2, <1>4, <1>5, <2>1
  <2>2. CASE j # i
    <3>1. j \in 1..Len(log) /\ log'[j] = log[j]
      BY <1>5, <2>2
    <3> QED
      BY <3>1 DEF IInv, ReconciledRowsAreClosed
  <2> QED
    BY <2>1, <2>2
<1> QED
  BY <1>1, <1>6, <1>7, <1>8, <1>9, <1>10 DEF IInv

(* The inductive invariant holds in every reachable state.                  *)
THEOREM LifecycleInvariant == Spec => []IInv
<1>1. ASSUME IInv, Next PROVE IInv'
  BY <1>1, QuietStepsPreserveIInv, TransitionCommitPreservesIInv,
     ReconcileCommitPreservesIInv DEF Next, WorkerStep, Quiet
<1>2. ASSUME IInv, UNCHANGED vars PROVE IInv'
  BY <1>2 DEF vars, IInv, TypeOK, LockProtectsView, ValidatedEdge,
              ReconcilesOrphans, AuditChain, ReconciledRowsAreClosed
<1> QED
  BY InitEstablishesIInv, <1>1, <1>2, PTL DEF Spec

(* State machine, log, lock and locals always have their types.             *)
THEOREM LifecycleTypes == Spec => []TypeOK
  BY LifecycleInvariant, PTL DEF IInv

(* The transition log is a complete audit trail of transition_event: an     *)
(* unbroken chain that ends in the present status.                          *)
THEOREM LifecycleAudit == Spec => []AuditChain
  BY LifecycleInvariant, PTL DEF IInv

(* A row that reconcile_interrupted_transition has judged is closed, and is *)
(* never one that transition_event committed itself.                        *)
THEOREM LifecycleReconciled == Spec => []ReconciledRowsAreClosed
  BY LifecycleInvariant, PTL DEF IInv

(* Concurrent callers never take the event along an edge that               *)
(* VALID_TRANSITIONS lacks.                                                 *)
THEOREM LifecycleEdges == Spec => OnlyValidTransitions
<1>1. IInv /\ [Next]_vars =>
        [status' # status => status' \in VALID_TRANSITIONS[status]]_vars
  <2> SUFFICES ASSUME IInv, Next, status' # status
               PROVE  status' \in VALID_TRANSITIONS[status]
    BY DEF vars
  <2>1. PICK w \in Worker : TransitionCommit(w)
    BY QuietSteps, ReconcileCommitPreservesIInv DEF Next, WorkerStep, Quiet
  <2> QED
    BY <2>1, TransitionCommitPreservesIInv DEF TransitionCommit
<1> QED
  BY <1>1, LifecycleInvariant, PTL DEF Spec, OnlyValidTransitions

(* Rounds and pairs are recalculated only while the event has not started.  *)
THEOREM LifecycleRecalculation == Spec => RecalculateOnlyBeforeStart
<1>1. IInv /\ [Next]_vars =>
        [schedule' # schedule => status \notin ForbiddenForRecalculation]_vars
  <2> SUFFICES ASSUME IInv, Next, schedule' # schedule
               PROVE  status \notin ForbiddenForRecalculation
    BY DEF vars
  <2>1. PICK w \in Worker : RecalculateCommit(w)
    BY DEF Next, WorkerStep, TransitionCall, TransitionLock, TransitionCheck,
           TransitionLog, TransitionStatus, TransitionFlip, TransitionCommit,
           RecalculateCall, RecalculateLock, RecalculateRecheck, ReconcileCall,
           ReconcileLock, ReconcileCommit, Crash
  <2> QED
    BY <2>1 DEF RecalculateCommit, Goto, IInv, LockProtectsView, ValidatedEdge,
                Holding
<1> QED
  BY <1>1, LifecycleInvariant, PTL DEF Spec, RecalculateOnlyBeforeStart

=============================================================================
