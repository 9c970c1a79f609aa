---------------------- MODULE ConnectionPresenceProofs ----------------------
(***************************************************************************)
(* Proofs about ConnectionPresence, for every number of sockets, joins,    *)
(* restarts, phases and failures: the status follows the connection,       *)
(* whatever handlers interleave; one connection serves the participant,    *)
(* and the partner is not told of an absence that is over, when handlers   *)
(* do not overlap and one process serves them all.                         *)
(***************************************************************************)
EXTENDS ConnectionPresence, TLAPS

\* docker-compose.prod.yml starts one Daphne process: the tasks that wait for
\* an absence are in the memory of the process that serves the participant.
OneProcess == \A s, t \in Socket : Home[s] = Home[t]

-----------------------------------------------------------------------------
(* The inductive invariants *)

Live(s) == pc[s] \notin {"none", "closed"}

\* A connection opened after the previous one was closed is alone and has
\* loaded the status as it is; its handshake makes it active.
Alone ==
  /\ \A s, t \in Socket : Live(s) /\ Live(t) => s = t
  /\ \A s \in Socket :
       /\ pc[s] \in {"connected", "claim_get", "claim_set", "claim_replace",
                     "clear_key", "clear_task", "mark"} => loaded[s] = status
       /\ pc[s] \in {"notify", "open"} /\ wire[s] = "up" =>
            status # "disconnected"

StatusInv == TypeOK /\ (early = {} => Alone)

\* One handler runs at a time.
Serial ==
  /\ \A s, t \in Busy : s = t
  /\ join # "idle" => Busy = {}

\* Absence tasks are in the memory of a process that serves a socket, and the
\* partner of the next pair has been told nothing.
Tasks ==
  /\ \A p \in Process : watch[p] # Nobody => \E s \in Socket : Home[s] = p
  /\ \A p \in firing : watch[p] # Nobody
  /\ paired = "no" => told = "nothing"

\* A handler that has claimed the connection owns it, one that has found it
\* its own still does; an online connection is the owner, until a handler or
\* a join that has taken that away from it has told it so.
Claimed ==
  \A s \in Socket :
    /\ pc[s] = "claim_set" => prev[s] = owner
    /\ pc[s] \in {"claim_replace", "clear_key", "clear_task", "mark", "notify",
                  "close_delete"} => owner = s
    /\ Online(s) /\ join = "idle" =>
         owner = s \/ \E t \in Socket : pc[t] = "claim_replace" /\ prev[t] = s

\* From the cancelling of the task on, nobody waits for an absence to end; and
\* nobody is online when one begins.
Present ==
  \A s \in Socket :
    /\ pc[s] \in {"mark", "notify"} \/ Online(s) =>
         \A p \in Process : watch[p] = Nobody
    /\ Online(s) => told # "disconnected"
    /\ pc[s] \in {"watch_set", "watch_spawn"} => \A t \in Socket : ~Online(t)

IInv ==
  /\ TypeOK /\ Serial /\ Tasks
  /\ lost = {} => Claimed /\ Present

-----------------------------------------------------------------------------
(* Steps *)

(* One step of one handler.                                                 *)
LEMMA GotoMoves ==
  ASSUME TypeOK, NEW s \in Socket, NEW from, NEW to \in Steps, Goto(s, from, to)
  PROVE  /\ pc' \in [Socket -> Steps] /\ pc[s] = from /\ pc'[s] = to
         /\ \A x \in Socket : x # s => pc'[x] = pc[x]
BY DEF TypeOK, Goto

(* The steps whose failure is logged, and where they lead.                  *)
LEMMA FailurePaths ==
  ASSUME NEW s \in Socket, pc[s] \in DOMAIN AfterFailure
  PROVE  LET to == AfterFailure[pc[s]]
         IN  \/ /\ pc[s] \in {"claim_get", "claim_set", "claim_replace"}
                /\ to = "clear_key"
             \/ pc[s] = "clear_key" /\ to = "clear_task"
             \/ pc[s] = "notify" /\ to = "open"
             \/ pc[s] = "record" /\ to = "close_get"
             \/ pc[s] = "close_delete" /\ to = "watch_set"
             \/ pc[s] \in {"close_get", "watch_set"} /\ to = "closed"
BY DEF AfterFailure

(* A failure that loses an announcement is remembered.                      *)
LEMMA LostFacts ==
  ASSUME TypeOK, NEW step, Fault(step)
  PROVE  /\ faults' \in Nat /\ lost' \subseteq Announcing /\ lost \subseteq lost'
         /\ lost' = {} => step \notin Announcing
BY DEF TypeOK, Fault

(* The handshake keeps the types.                                           *)
LEMMA OpeningTypes ==
  ASSUME TypeOK, NEW s \in Socket,
         \/ Connect(s) \/ Hello(s) \/ ClaimGet(s) \/ ClaimSet(s)
         \/ ClaimReplace(s) \/ ClearKey(s) \/ ClearTask(s)
         \/ MarkReconnected(s) \/ NotifyConnected(s)
  PROVE  TypeOK'
<1> USE DEF TypeOK, Goto, Steps, Handshake, Closing, Status
<1>1. CASE Connect(s)
  BY <1>1 DEF Connect, cache, tasks
<1>2. CASE Hello(s)
  BY <1>2 DEF Hello, cache, tasks, bounds
<1>3. CASE ClaimGet(s)
  BY <1>3 DEF ClaimGet, cache, tasks, bounds
<1>4. CASE ClaimSet(s)
  BY <1>4 DEF ClaimSet, tasks, bounds
<1>5. CASE ClaimReplace(s)
  BY <1>5 DEF ClaimReplace, Members, cache, tasks, bounds
<1>6. CASE ClearKey(s)
  BY <1>6 DEF ClearKey, tasks, bounds
<1>7. CASE ClearTask(s)
  BY <1>7 DEF ClearTask, cache, bounds
<1>8. CASE MarkReconnected(s)
  BY <1>8 DEF MarkReconnected, cache, tasks, bounds
<1>9. CASE NotifyConnected(s)
  BY <1>9 DEF NotifyConnected, Tell, cache, tasks, bounds
<1>10. QED
  BY <1>1, <1>2, <1>3, <1>4, <1>5, <1>6, <1>7, <1>8, <1>9

(* So does the closing,                                                     *)
LEMMA ClosingTypes ==
  ASSUME TypeOK, NEW s \in Socket,
         \/ Drop(s) \/ SessionReplaced(s) \/ DisconnectStart(s)
         \/ RecordDisconnection(s) \/ CloseGet(s) \/ CloseDelete(s)
         \/ WatchSet(s) \/ WatchSpawn(s)
  PROVE  TypeOK'
<1> USE DEF TypeOK, Goto, Steps, Handshake, Closing, Status
<1>1. CASE Drop(s)
  BY <1>1 DEF Drop, cache, tasks, bounds
<1>2. CASE SessionReplaced(s)
  BY <1>2 DEF SessionReplaced, cache, tasks, bounds
<1>3. CASE DisconnectStart(s)
  BY <1>3 DEF DisconnectStart, cache, tasks, bounds
<1>4. CASE RecordDisconnection(s)
  BY <1>4 DEF RecordDisconnection, cache, tasks, bounds
<1>5. CASE CloseGet(s)
  BY <1>5 DEF CloseGet, cache, tasks, bounds
<1>6. CASE CloseDelete(s)
  BY <1>6 DEF CloseDelete, tasks, bounds
<1>7. CASE WatchSet(s)
  BY <1>7 DEF WatchSet, tasks, bounds
<1>8. CASE WatchSpawn(s)
  BY <1>8 DEF WatchSpawn, cache, bounds
<1>9. QED
  BY <1>1, <1>2, <1>3, <1>4, <1>5, <1>6, <1>7, <1>8

(* and the tasks, the environment and the failures.                         *)
LEMMA OtherTypes ==
  ASSUME TypeOK,
         \/ \E p \in Process : TaskStep(p) \/ Restart(p) \/ TaskFails(p)
         \/ JoinInvalidates \/ JoinClearsAbsence \/ JoinSends \/ PhaseChanges
         \/ JoinFails
         \/ \E s \in Socket : \/ StepFails(s) \/ HandlerFails(s, "mark")
                              \/ HandlerFails(s, "connected")
  PROVE  TypeOK'
<1> USE DEF TypeOK
<1>1. ASSUME NEW p \in Process, TaskStep(p)
      PROVE  TypeOK'
  BY <1>1 DEF TaskStep, WatchWakes, WatchNotifies, Tell, cache, bounds
<1>2. ASSUME NEW p \in Process, Restart(p)
      PROVE  TypeOK'
  <2>1. /\ pc' \in [Socket -> Steps] /\ wire' \in [Socket -> {"up", "down"}]
        /\ inbox' \subseteq Socket
    BY <1>2 DEF Restart, Steps
  <2>2. QED
    BY <1>2, <2>1 DEF Restart, cache
<1>3. ASSUME NEW p \in Process, TaskFails(p)
      PROVE  TypeOK'
  BY <1>3, LostFacts DEF TaskFails, cache
<1>4. CASE JoinInvalidates
  BY <1>4 DEF JoinInvalidates, tasks
<1>5. CASE JoinClearsAbsence
  BY <1>5 DEF JoinClearsAbsence, tasks, bounds
<1>6. CASE JoinSends
  BY <1>6 DEF JoinSends, Members, cache, tasks, bounds
<1>7. CASE PhaseChanges
  BY <1>7 DEF PhaseChanges, cache, tasks
<1>8. CASE JoinFails
  BY <1>8, LostFacts DEF JoinFails, cache, tasks
<1>9. ASSUME NEW s \in Socket, StepFails(s)
      PROVE  TypeOK'
  <2>1. pc' \in [Socket -> Steps]
    <3>1. AfterFailure[pc[s]] \in Steps
      BY <1>9, FailurePaths DEF StepFails, Steps, Handshake, Closing
    <3>2. QED
      BY <1>9, <3>1 DEF StepFails
  <2>2. faults' \in Nat /\ lost' \subseteq Announcing
    BY <1>9, LostFacts DEF StepFails
  <2>3. QED
    BY <1>9, <2>1, <2>2 DEF StepFails, cache, tasks
<1>10. ASSUME NEW s \in Socket, NEW from, HandlerFails(s, from)
       PROVE  TypeOK'
  <2>1. faults' \in Nat /\ lost' \subseteq Announcing
    BY <1>10, LostFacts DEF HandlerFails
  <2>2. "open" \in Steps
    BY DEF Steps
  <2>3. QED
    BY <1>10, <2>1, <2>2 DEF HandlerFails, Goto, cache, tasks
<1>11. QED
  BY <1>1, <1>2, <1>3, <1>4, <1>5, <1>6, <1>7, <1>8, <1>9, <1>10

-----------------------------------------------------------------------------
(* The status follows the connection *)

(* A step that leaves the handlers, the connections and the status alone.   *)
LEMMA AloneFrame ==
  ASSUME Alone, UNCHANGED <<pc, wire, loaded, status>>
  PROVE  Alone'
BY DEF Alone, Live

(* The handshake of the only connection.                                    *)
LEMMA OpeningKeepsAlone ==
  ASSUME TypeOK, early = {} => Alone, early' = {}, NEW s \in Socket,
         \/ Connect(s) \/ Hello(s) \/ ClaimGet(s) \/ ClaimSet(s)
         \/ ClaimReplace(s) \/ ClearKey(s) \/ ClearTask(s)
         \/ MarkReconnected(s) \/ NotifyConnected(s)
  PROVE  Alone'
<1>1. CASE Connect(s)
  <2>1. /\ early = {} /\ \A x \in Socket : ~Live(x)
        /\ pc'[s] = "connected" /\ loaded'[s] = status /\ status' = status
        /\ \A x \in Socket : x # s => pc'[x] = pc[x]
    BY <1>1 DEF Connect, Goto, Live, TypeOK
  <2>2. QED
    BY <2>1 DEF Alone, Live
<1>2. CASE MarkReconnected(s)
  <2>1. /\ early = {} /\ pc[s] = "mark" /\ pc'[s] = "notify"
        /\ \A x \in Socket : x # s => pc'[x] = pc[x] /\ loaded'[x] = loaded[x]
        /\ status' = IF loaded[s] = "active" THEN status ELSE "active"
        /\ UNCHANGED wire
    BY <1>2 DEF MarkReconnected, Goto, bounds, TypeOK
  <2>2. \A x \in Socket : x # s => ~Live(x)
    BY <1>2, <2>1 DEF Alone, Live
  <2>3. status' = "active"
    BY <2>1 DEF Alone
  <2>4. QED
    BY <2>1, <2>2, <2>3 DEF Alone, Live
<1>3. CASE \/ Hello(s) \/ ClaimGet(s) \/ ClaimSet(s) \/ ClaimReplace(s)
           \/ ClearKey(s) \/ ClearTask(s) \/ NotifyConnected(s)
  <2>1. /\ early = {} /\ UNCHANGED <<loaded, status, wire>>
        /\ \A x \in Socket : x # s => pc'[x] = pc[x]
        /\ \/ /\ pc[s] \in {"connected", "claim_get", "claim_set",
                            "claim_replace", "clear_key", "clear_task"}
              /\ pc'[s] \in {"claim_get", "claim_set", "claim_replace",
                             "clear_key", "clear_task", "mark"}
           \/ pc[s] = "notify" /\ pc'[s] = "open"
    BY <1>3 DEF Hello, ClaimGet, ClaimSet, ClaimReplace, ClearKey, ClearTask,
                NotifyConnected, Goto, bounds, TypeOK
  <2>2. QED
    BY <2>1 DEF Alone, Live
<1>4. QED
  BY <1>1, <1>2, <1>3

(* Its closing: a connection that is down does not count.                   *)
LEMMA ClosingKeepsAlone ==
  ASSUME TypeOK, early = {} => Alone, early' = {}, NEW s \in Socket,
         \/ Drop(s) \/ SessionReplaced(s) \/ DisconnectStart(s)
         \/ RecordDisconnection(s) \/ CloseGet(s) \/ CloseDelete(s)
         \/ WatchSet(s) \/ WatchSpawn(s)
  PROVE  Alone'
<1>1. early = {}
  BY DEF Drop, SessionReplaced, DisconnectStart, RecordDisconnection, CloseGet,
         CloseDelete, WatchSet, WatchSpawn, bounds
<1>2. CASE Drop(s) \/ SessionReplaced(s)
  <2>1. /\ UNCHANGED <<pc, loaded, status>>
        /\ \A x \in Socket : wire'[x] = "up" => wire[x] = "up"
    BY <1>2 DEF Drop, SessionReplaced, TypeOK
  <2>2. QED
    BY <1>1, <2>1 DEF Alone, Live
<1>3. CASE RecordDisconnection(s)
  <2>1. /\ pc[s] = "record" /\ pc'[s] = "close_get"
        /\ \A x \in Socket : x # s => pc'[x] = pc[x]
    BY <1>3 DEF RecordDisconnection, Goto, TypeOK
  <2>2. \A x \in Socket : x # s => ~Live(x)
    BY <1>1, <2>1 DEF Alone, Live
  <2>3. QED
    BY <2>1, <2>2 DEF Alone, Live
<1>4. CASE \/ DisconnectStart(s) \/ CloseGet(s) \/ CloseDelete(s)
           \/ WatchSet(s) \/ WatchSpawn(s)
  <2>1. /\ UNCHANGED <<loaded, status, wire>>
        /\ \A x \in Socket : x # s => pc'[x] = pc[x]
        /\ pc[s] \in {"connected", "open", "close_get", "close_delete",
                      "watch_set", "watch_spawn"}
        /\ pc'[s] \in {"record", "closed", "close_delete", "watch_set",
                       "watch_spawn"}
    BY <1>4 DEF DisconnectStart, CloseGet, CloseDelete, WatchSet, WatchSpawn,
                Goto, TypeOK
  <2>2. QED
    BY <1>1, <2>1 DEF Alone, Live
<1>5. QED
  BY <1>2, <1>3, <1>4

(* The environment and the failures.                                        *)
LEMMA OtherKeepsAlone ==
  ASSUME TypeOK, early = {} => Alone, early' = {},
         \/ \E p \in Process : TaskStep(p) \/ Restart(p) \/ TaskFails(p)
         \/ JoinInvalidates \/ JoinClearsAbsence \/ JoinSends \/ PhaseChanges
         \/ JoinFails
         \/ \E s \in Socket : \/ StepFails(s) \/ HandlerFails(s, "mark")
                              \/ HandlerFails(s, "connected")
  PROVE  Alone'
<1>1. CASE \/ \E p \in Process : TaskStep(p) \/ TaskFails(p)
           \/ JoinInvalidates \/ JoinClearsAbsence \/ JoinSends
           \/ PhaseChanges \/ JoinFails
  <2>1. early = {} /\ UNCHANGED <<pc, wire, loaded, status>>
    BY <1>1 DEF TaskStep, WatchWakes, WatchNotifies, TaskFails, JoinInvalidates,
       JoinClearsAbsence, JoinSends, PhaseChanges, JoinFails, bounds
  <2>2. QED
    BY <2>1, AloneFrame
<1>2. ASSUME NEW p \in Process, Restart(p)
      PROVE  Alone'
  <2>1. /\ early = {} /\ UNCHANGED <<loaded, status>>
        /\ \A x \in Socket : \/ pc'[x] = "closed"
                             \/ pc'[x] = pc[x] /\ wire'[x] = wire[x]
    BY <1>2 DEF Restart, TypeOK
  <2>2. QED
    BY <2>1 DEF Alone, Live
<1>3. ASSUME NEW s \in Socket, StepFails(s)
      PROVE  Alone'
  <2>1. /\ early = {} /\ UNCHANGED <<loaded, status, wire>>
        /\ \A x \in Socket : x # s => pc'[x] = pc[x]
        /\ pc'[s] = AfterFailure[pc[s]] /\ pc[s] \in DOMAIN AfterFailure
    BY <1>3 DEF StepFails, TypeOK
  <2>2. QED
    BY <2>1, FailurePaths DEF Alone, Live
<1>4. ASSUME NEW s \in Socket, NEW from \in {"mark", "connected"},
             HandlerFails(s, from)
      PROVE  Alone'
  <2>1. /\ early = {} /\ UNCHANGED <<loaded, status>>
        /\ pc[s] = from /\ pc'[s] = "open" /\ wire'[s] = "down"
        /\ \A x \in Socket : x # s => pc'[x] = pc[x] /\ wire'[x] = wire[x]
    BY <1>4 DEF HandlerFails, Goto, TypeOK
  <2>2. QED
    BY <2>1 DEF Alone, Live
<1>5. QED
  BY <1>1, <1>2, <1>3, <1>4

-----------------------------------------------------------------------------
(* One handler at a time *)

(* The handlers that are running.                                           *)
LEMMA BusySteps ==
  \A s \in Socket :
    s \in Busy <=>
      pc[s] \in {"claim_get", "claim_set", "claim_replace", "clear_key",
                 "clear_task", "mark", "notify", "record", "close_get",
                 "close_delete", "watch_set", "watch_spawn"}
BY DEF Busy, Handshake, Closing

(* While one handler runs there is no other, and no join.                   *)
LEMMA OthersRest ==
  ASSUME Serial, NEW s \in Busy
  PROVE  join = "idle" /\ \A x \in Socket : x # s => x \notin Busy
BY DEF Serial

(* The running handler goes on, or another one starts when none is running. *)
LEMMA SerialHandler ==
  ASSUME Serial, NEW s \in Socket, s \in Busy \/ (Busy = {} /\ join = "idle"),
         UNCHANGED join, \A x \in Socket : x # s => pc'[x] = pc[x]
  PROVE  Serial'
<1>1. join = "idle" /\ \A x \in Socket : x # s => x \notin Busy
  BY OthersRest
<1>2. \A x \in Socket : x # s => x \notin Busy'
  BY <1>1 DEF Busy
<1>3. \A x \in Busy' : x \in Socket
  BY DEF Busy
<1>4. QED
  BY <1>1, <1>2, <1>3 DEF Serial

(* No handler starts, and a join only when none is running.                 *)
LEMMA SerialFrame ==
  ASSUME Serial, \A x \in Socket : x \in Busy' => x \in Busy,
         join' # "idle" => join # "idle" \/ Busy = {}
  PROVE  Serial'
<1>1. \A x \in Busy' : x \in Busy
  BY DEF Busy
<1>2. QED
  BY <1>1 DEF Serial

(* Who is running, and the bookkeeping of the tasks, step by step: a handler *)
(* that goes on,                                                            *)
LEMMA HandlerKeepsSerial ==
  ASSUME TypeOK, Serial, Tasks, NEW s \in Socket, HandlerStep(s)
  PROVE  s \in Busy /\ Serial' /\ Tasks' /\ (lost' = {} => lost = {})
<1> USE DEF HandlerStep, ClaimGet, ClaimSet, ClaimReplace, ClearKey, ClearTask,
            MarkReconnected, NotifyConnected, RecordDisconnection, CloseGet,
            CloseDelete, WatchSet, WatchSpawn
<1>1. s \in Busy
  BY BusySteps DEF Goto
<1>2. UNCHANGED <<join, paired, lost>>
  BY DEF bounds
<1>3. \A x \in Socket : x # s => pc'[x] = pc[x]
  BY DEF Goto, TypeOK
<1>4. Serial'
  BY <1>1, <1>2, <1>3, SerialHandler
<1>5. told' = told \/ (paired = "yes" /\ told' = "connected")
  BY DEF Tell
<1>6. Tasks'
  <2>1. CASE UNCHANGED tasks
    BY <1>2, <1>5, <2>1 DEF Tasks, tasks
  <2>2. CASE /\ watch' = [watch EXCEPT ![Home[s]] = Nobody]
             /\ firing' = firing \ {Home[s]}
    <3>1. \A p \in Process : watch'[p] # Nobody => watch[p] # Nobody
      BY <2>2 DEF TypeOK
    <3>2. \A p \in firing' : watch'[p] = watch[p] /\ p \in firing
      BY <2>2 DEF TypeOK
    <3>3. QED
      BY <1>2, <1>5, <3>1, <3>2 DEF Tasks
  <2>3. CASE /\ watch' = [watch EXCEPT ![Home[s]] = s]
             /\ firing' = firing \ {Home[s]}
    <3>1. \A p \in Process : watch'[p] # Nobody => watch[p] # Nobody \/ Home[s] = p
      BY <2>3 DEF TypeOK
    <3>2. \A p \in firing' : watch'[p] = watch[p] /\ p \in firing
      BY <2>3 DEF TypeOK
    <3>3. QED
      BY <1>2, <1>5, <3>1, <3>2 DEF Tasks
  <2>4. QED
    BY <2>1, <2>2, <2>3 DEF tasks
<1>7. QED
  BY <1>1, <1>2, <1>4, <1>6

(* one that starts when none is running,                                    *)
LEMMA StartKeepsSerial ==
  ASSUME TypeOK, Serial, Tasks, NEW s \in Socket,
         Busy = {} /\ join = "idle" /\ HandlerStart(s)
  PROVE  Serial' /\ Tasks' /\ (lost' = {} => lost = {})
<1> USE DEF HandlerStart, Hello, SessionReplaced, DisconnectStart, HandlerFails
<1>1. UNCHANGED <<join, paired, told, watch, firing>>
  BY DEF tasks
<1>2. \A x \in Socket : x # s => pc'[x] = pc[x]
  BY DEF Goto, TypeOK
<1>3. lost' = {} => lost = {}
  BY LostFacts DEF bounds
<1>4. QED
  BY <1>1, <1>2, <1>3, SerialHandler DEF Tasks

(* and everything else.                                                     *)
LEMMA OtherKeepsSerial ==
  ASSUME TypeOK, Serial, Tasks,
         \/ \E s \in Socket : \/ Connect(s) \/ Drop(s) \/ StepFails(s)
                              \/ HandlerFails(s, "mark")
         \/ \E p \in Process : TaskStep(p) \/ Restart(p) \/ TaskFails(p)
         \/ Busy = {} /\ JoinInvalidates
         \/ JoinClearsAbsence \/ JoinSends \/ JoinFails \/ PhaseChanges
  PROVE  Serial' /\ Tasks' /\ (lost' = {} => lost = {})
<1>1. ASSUME NEW s \in Socket, Connect(s) \/ Drop(s)
      PROVE  Serial' /\ Tasks' /\ UNCHANGED lost
  <2>1. /\ UNCHANGED <<join, paired, told, watch, firing, lost>>
        /\ \A x \in Socket : pc'[x] = pc[x] \/ pc'[x] = "connected"
    BY <1>1 DEF Connect, Drop, Goto, TypeOK, tasks, bounds
  <2>2. \A x \in Socket : x \in Busy' => x \in Busy
    BY <2>1 DEF Busy, Handshake, Closing
  <2>3. QED
    BY <2>1, <2>2, SerialFrame DEF Tasks
<1>2. ASSUME NEW s \in Socket, StepFails(s) \/ HandlerFails(s, "mark")
      PROVE  Serial' /\ Tasks' /\ (lost' = {} => lost = {})
  <2>1. /\ UNCHANGED <<join, paired, told, watch, firing>>
        /\ \A x \in Socket : x # s => pc'[x] = pc[x]
        /\ pc[s] \in DOMAIN AfterFailure \/ pc[s] = "mark"
    BY <1>2 DEF StepFails, HandlerFails, Goto, TypeOK, tasks
  <2>2. s \in Busy
    BY <2>1, FailurePaths, BusySteps
  <2>3. lost' = {} => lost = {}
    BY <1>2, LostFacts DEF StepFails, HandlerFails
  <2>4. QED
    BY <2>1, <2>2, <2>3, SerialHandler DEF Tasks
<1>3. ASSUME NEW p \in Process, TaskStep(p) \/ Restart(p) \/ TaskFails(p)
      PROVE  Serial' /\ Tasks' /\ (lost' = {} => lost = {})
  <2>1. /\ UNCHANGED <<join, paired>>
        /\ \A x \in Socket : pc'[x] = pc[x] \/ pc'[x] = "closed"
    BY <1>3 DEF TaskStep, WatchWakes, WatchNotifies, Restart, TaskFails, TypeOK
  <2>2. \A x \in Socket : x \in Busy' => x \in Busy
    BY <2>1 DEF Busy, Handshake, Closing
  <2>3. lost' = {} => lost = {}
    BY <1>3, LostFacts
       DEF TaskStep, WatchWakes, WatchNotifies, Restart, TaskFails, bounds
  <2>4. told' = told \/ (paired = "yes" /\ told' = "disconnected")
    BY <1>3
       DEF TaskStep, WatchWakes, WatchNotifies, Tell, Restart, TaskFails
  <2>5. /\ \A q \in Process : watch'[q] # Nobody => watch[q] # Nobody
        /\ \A q \in firing' : watch'[q] # Nobody
    <3>1. CASE WatchWakes(p)
      BY <3>1 DEF WatchWakes, Tasks, TypeOK
    <3>2. CASE WatchNotifies(p) \/ Restart(p) \/ TaskFails(p)
      <4>1. /\ watch' = [watch EXCEPT ![p] = Nobody] /\ firing' = firing \ {p}
        BY <3>2 DEF WatchNotifies, Restart, TaskFails
      <4>2. QED
        BY <4>1 DEF Tasks, TypeOK
    <3>3. QED
      BY <1>3, <3>1, <3>2 DEF TaskStep
  <2>6. Tasks'
    BY <2>1, <2>4, <2>5 DEF Tasks
  <2>7. QED
    BY <2>1, <2>2, <2>3, <2>6, SerialFrame
<1>4. ASSUME \/ Busy = {} /\ JoinInvalidates
             \/ JoinClearsAbsence \/ JoinSends \/ JoinFails \/ PhaseChanges
      PROVE  Serial' /\ Tasks' /\ (lost' = {} => lost = {})
  <2>1. /\ UNCHANGED <<pc, watch, firing>>
        /\ join' # "idle" => join # "idle" \/ Busy = {}
    BY <1>4 DEF JoinInvalidates, JoinClearsAbsence, JoinSends, JoinFails,
                PhaseChanges, tasks
  <2>2. \A x \in Socket : x \in Busy' => x \in Busy
    BY <2>1 DEF Busy
  <2>3. lost' = {} => lost = {}
    BY <1>4, LostFacts DEF JoinInvalidates, JoinClearsAbsence, JoinSends,
                           JoinFails, PhaseChanges, bounds
  <2>4. (paired' = paired /\ told' = told) \/ told' = "nothing"
    BY <1>4 DEF JoinInvalidates, JoinClearsAbsence, JoinSends, JoinFails,
                PhaseChanges
  <2>5. Tasks'
    BY <2>1, <2>4 DEF Tasks
  <2>6. QED
    BY <2>1, <2>2, <2>3, <2>5, SerialFrame
<1>5. QED
  BY <1>1, <1>2, <1>3, <1>4

-----------------------------------------------------------------------------
(* Ownership and absence *)

(* What is known of the others while the handler of s runs: only the owner  *)
(* is online, or the one whose connection s has taken.                      *)
LEMMA OnlineOthers ==
  ASSUME Serial, Claimed, Present, NEW s \in Socket, s \in Busy
  PROVE  /\ join = "idle" /\ ~Online(s)
         /\ \A x \in Socket : x # s => x \notin Busy
         /\ \A x \in Socket : Online(x) =>
              owner = x \/ (pc[s] = "claim_replace" /\ prev[s] = x)
<1>1. join = "idle" /\ \A x \in Socket : x # s => x \notin Busy
  BY OthersRest
<1>2. ~Online(s)
  BY BusySteps DEF Online
<1>3. ASSUME NEW x \in Socket, Online(x)
      PROVE  owner = x \/ (pc[s] = "claim_replace" /\ prev[s] = x)
  <2>1. owner = x \/ \E t \in Socket : pc[t] = "claim_replace" /\ prev[t] = x
    BY <1>1, <1>3 DEF Claimed
  <2>2. \A t \in Socket : pc[t] = "claim_replace" => t = s
    BY <1>1, BusySteps
  <2>3. QED
    BY <2>1, <2>2
<1>4. QED
  BY <1>1, <1>2, <1>3

(* The steps of a handshake up to the claim.                                *)
LEMMA ClaimKeeps ==
  ASSUME TypeOK, Serial, Claimed, Present, NEW s \in Socket,
         ClaimGet(s) \/ ClaimSet(s) \/ ClaimReplace(s)
  PROVE  Claimed' /\ Present'
<1>1. /\ UNCHANGED <<wire, replaced, watch, told, join>>
      /\ pc[s] \in {"claim_get", "claim_set", "claim_replace"}
      /\ pc'[s] \in {"claim_set", "claim_replace", "clear_key"}
      /\ \A x \in Socket : x # s => pc'[x] = pc[x] /\ prev'[x] = prev[x]
      /\ inbox \subseteq inbox'
  BY DEF ClaimGet, ClaimSet, ClaimReplace, Goto, TypeOK, tasks
<1>2. /\ s \in Busy /\ join = "idle" /\ ~Online(s)
      /\ \A x \in Socket : x # s => x \notin Busy
      /\ \A x \in Socket : Online(x) =>
           owner = x \/ (pc[s] = "claim_replace" /\ prev[s] = x)
  BY <1>1, BusySteps, OnlineOthers
<1>3. \A x \in Socket : Online(x)' => Online(x) /\ x # s
  BY <1>1 DEF Online
<1>4. \A x \in Socket : x # s =>
        /\ pc'[x] \notin {"claim_set", "claim_replace", "clear_key", "clear_task",
                          "mark", "notify", "close_delete", "watch_set",
                          "watch_spawn"}
  BY <1>1, <1>2, BusySteps
<1>5. Present'
  BY <1>1, <1>3, <1>4 DEF Present
<1>6. CASE ClaimGet(s)
  <2>1. owner' = owner /\ prev'[s] = owner /\ pc'[s] = "claim_set"
        /\ pc[s] = "claim_get"
    BY <1>6 DEF ClaimGet, Goto, TypeOK, cache
  <2>2. QED
    BY <1>2, <1>3, <1>4, <1>5, <2>1 DEF Claimed
<1>7. CASE ClaimSet(s)
  <2>1. owner' = s /\ prev'[s] = prev[s] /\ pc'[s] = "claim_replace"
        /\ pc[s] = "claim_set"
    BY <1>7 DEF ClaimSet, Goto, TypeOK
  <2>2. prev[s] = owner
    BY <2>1 DEF Claimed
  <2>3. QED
    BY <1>2, <1>3, <1>4, <1>5, <2>1, <2>2 DEF Claimed
<1>8. CASE ClaimReplace(s)
  <2>1. /\ owner' = owner /\ pc'[s] = "clear_key" /\ pc[s] = "claim_replace"
        /\ inbox' = inbox \cup ({prev[s]} \cap Members)
    BY <1>8 DEF ClaimReplace, Goto, TypeOK, cache
  <2>2. owner = s
    BY <2>1 DEF Claimed
  <2>3. \A x \in Socket : ~Online(x)'
    <3>1. SUFFICES ASSUME NEW x \in Socket, Online(x)'
                   PROVE  FALSE
      OBVIOUS
    <3>2. Online(x) /\ x # s
      BY <1>3, <3>1
    <3>3. prev[s] = x /\ x \in Members
      BY <1>2, <2>2, <3>2 DEF Members, Online
    <3>4. QED
      BY <2>1, <3>1, <3>3 DEF Online
  <2>4. QED
    BY <1>4, <1>5, <2>1, <2>2, <2>3 DEF Claimed
<1>9. QED
  BY <1>6, <1>7, <1>8

(* The rest of a handshake: there is no task any more when it is over.      *)
LEMMA ClearKeeps ==
  ASSUME TypeOK, Serial, Tasks, Claimed, Present, OneProcess, NEW s \in Socket,
         \/ ClearKey(s) \/ ClearTask(s) \/ MarkReconnected(s) \/ NotifyConnected(s)
  PROVE  Claimed' /\ Present'
<1>1. /\ UNCHANGED <<wire, inbox, replaced, owner, prev, join>>
      /\ pc[s] \in {"clear_key", "clear_task", "mark", "notify"}
      /\ pc'[s] \in {"clear_task", "mark", "notify", "open"}
      /\ \A x \in Socket : x # s => pc'[x] = pc[x]
  BY DEF ClearKey, ClearTask, MarkReconnected, NotifyConnected, Goto, TypeOK,
         cache
<1>2. /\ s \in Busy /\ join = "idle" /\ ~Online(s)
      /\ \A x \in Socket : x # s => x \notin Busy
      /\ \A x \in Socket : Online(x) => owner = x
      /\ owner = s
  BY <1>1, BusySteps, OnlineOthers DEF Claimed
<1>3. \A x \in Socket : x # s => ~Online(x)' /\ x \notin Busy'
  BY <1>1, <1>2 DEF Online, Busy
<1>4. Claimed'
  BY <1>1, <1>2, <1>3, BusySteps DEF Claimed, Busy
<1>5. \A x \in Socket : x # s =>
        pc'[x] \notin {"mark", "notify", "watch_set", "watch_spawn"}
  BY <1>3 DEF Busy, Handshake, Closing
<1>6. CASE ClearKey(s)
  <2>1. pc'[s] = "clear_task"
    BY <1>6 DEF ClearKey, Goto, TypeOK
  <2>2. QED
    BY <1>3, <1>4, <1>5, <2>1 DEF Present, Online
<1>7. CASE ClearTask(s)
  <2>1. pc'[s] = "mark" /\ watch' = [watch EXCEPT ![Home[s]] = Nobody]
    BY <1>7 DEF ClearTask, Goto, TypeOK
  <2>2. \A p \in Process : watch'[p] = Nobody
    BY <2>1 DEF Tasks, OneProcess, TypeOK
  <2>3. QED
    BY <1>3, <1>4, <1>5, <2>1, <2>2 DEF Present, Online
<1>8. CASE MarkReconnected(s)
  <2>1. pc[s] = "mark" /\ pc'[s] = "notify" /\ UNCHANGED watch
    BY <1>8 DEF MarkReconnected, Goto, TypeOK, tasks
  <2>2. QED
    BY <1>3, <1>4, <1>5, <2>1 DEF Present, Online
<1>9. CASE NotifyConnected(s)
  <2>1. /\ pc[s] = "notify" /\ pc'[s] = "open" /\ UNCHANGED watch
        /\ told' = IF paired = "yes" THEN "connected" ELSE told
    BY <1>9 DEF NotifyConnected, Goto, TypeOK, tasks, Tell
  <2>2. told' # "disconnected"
    BY <2>1 DEF Tasks, TypeOK
  <2>3. QED
    BY <1>3, <1>4, <1>5, <2>1, <2>2 DEF Present, Online
<1>10. QED
  BY <1>6, <1>7, <1>8, <1>9

(* The handler of a socket that has closed: it gets to an absence only as   *)
(* the owner, and then nobody is online.                                    *)
LEMMA CloseKeeps ==
  ASSUME TypeOK, Serial, Claimed, Present, NEW s \in Socket,
         \/ RecordDisconnection(s) \/ CloseGet(s) \/ CloseDelete(s)
         \/ WatchSet(s) \/ WatchSpawn(s)
  PROVE  Claimed' /\ Present'
<1>1. /\ UNCHANGED <<wire, inbox, replaced, prev, join, told>>
      /\ pc[s] \in {"record", "close_get", "close_delete", "watch_set",
                    "watch_spawn"}
      /\ pc'[s] \in {"close_get", "close_delete", "watch_set", "watch_spawn",
                     "closed"}
      /\ \A x \in Socket : x # s => pc'[x] = pc[x]
  BY DEF RecordDisconnection, CloseGet, CloseDelete, WatchSet, WatchSpawn, Goto,
         TypeOK, cache
<1>2. /\ s \in Busy /\ join = "idle" /\ ~Online(s)
      /\ \A x \in Socket : x # s => x \notin Busy
      /\ \A x \in Socket : Online(x) => owner = x
  BY <1>1, BusySteps, OnlineOthers
<1>3. \A x \in Socket : (Online(x)' => Online(x)) /\ (x # s => x \notin Busy')
  BY <1>1, <1>2 DEF Online, Busy
<1>4. \A x \in Socket : x # s =>
        pc'[x] \notin {"claim_set", "claim_replace", "clear_key", "clear_task",
                       "mark", "notify", "close_delete", "watch_set",
                       "watch_spawn"}
  BY <1>3 DEF Busy, Handshake, Closing
<1>5. CASE RecordDisconnection(s) \/ CloseGet(s)
  <2>1. /\ UNCHANGED <<owner, watch>>
        /\ pc'[s] \in {"close_get", "closed"} \/ (pc'[s] = "close_delete" /\ owner = s)
    BY <1>5 DEF RecordDisconnection, CloseGet, Goto, TypeOK, cache, tasks
  <2>2. QED
    BY <1>1, <1>2, <1>3, <1>4, <2>1 DEF Claimed, Present
<1>6. CASE CloseDelete(s)
  <2>1. /\ owner' = Nobody /\ UNCHANGED watch
        /\ pc[s] = "close_delete" /\ pc'[s] = "watch_set"
    BY <1>6 DEF CloseDelete, Goto, TypeOK, tasks
  <2>2. owner = s
    BY <2>1 DEF Claimed
  <2>3. \A x \in Socket : ~Online(x)'
    BY <1>2, <1>3, <2>2
  <2>4. QED
    BY <1>4, <2>1, <2>3 DEF Claimed, Present
<1>7. CASE WatchSet(s) \/ WatchSpawn(s)
  <2>1. /\ pc[s] \in {"watch_set", "watch_spawn"}
        /\ pc'[s] \in {"watch_spawn", "closed"}
    BY <1>7 DEF WatchSet, WatchSpawn, Goto, TypeOK
  <2>2. \A x \in Socket : ~Online(x)'
    BY <1>3, <2>1 DEF Present
  <2>3. QED
    BY <1>4, <2>1, <2>2 DEF Claimed, Present
<1>8. QED
  BY <1>5, <1>6, <1>7

(* A step that brings nobody online and takes no connection over.           *)
LEMMA PresenceFrame ==
  ASSUME Claimed, Present, UNCHANGED <<owner, prev>>,
         join' = "idle" => join = "idle",
         \A x \in Socket : Online(x)' => Online(x),
         \A x \in Socket :
           \/ pc'[x] = pc[x]
           \/ /\ pc[x] # "claim_replace"
              /\ pc'[x] \in {"connected", "open", "closed", "claim_get", "record",
                             "close_get"},
         \A p \in Process : watch'[p] \in {watch[p], Nobody},
         told' # "disconnected" \/ told' = told
  PROVE  Claimed' /\ Present'
<1>1. Claimed'
  <2>1. ASSUME NEW x \in Socket, Online(x)', join' = "idle"
        PROVE  owner' = x \/ \E t \in Socket : pc'[t] = "claim_replace"
                                               /\ prev'[t] = x
    BY <2>1 DEF Claimed
  <2>2. ASSUME NEW x \in Socket
        PROVE  /\ pc'[x] = "claim_set" => prev'[x] = owner'
               /\ pc'[x] \in {"claim_replace", "clear_key", "clear_task", "mark",
                              "notify", "close_delete"} => owner' = x
    BY <2>2 DEF Claimed
  <2>3. QED
    BY <2>1, <2>2 DEF Claimed
<1>2. Present'
  BY DEF Present
<1>3. QED
  BY <1>1, <1>2

(* The next handler starts.                                                 *)
LEMMA StartKeeps ==
  ASSUME TypeOK, Claimed, Present, NEW s \in Socket, HandlerStart(s)
  PROVE  Claimed' /\ Present'
<1> USE DEF HandlerStart, Hello, SessionReplaced, DisconnectStart, HandlerFails
<1>1. UNCHANGED <<owner, prev, join, watch, told>>
  BY DEF cache, tasks
<1>2. \A x \in Socket :
        \/ pc'[x] = pc[x]
        \/ /\ pc[x] # "claim_replace"
           /\ pc'[x] \in {"connected", "open", "closed", "claim_get", "record",
                          "close_get"}
  BY DEF Goto, TypeOK
<1>3. \A x \in Socket : Online(x)' => Online(x)
  <2>1. CASE Hello(s) \/ DisconnectStart(s)
    BY <2>1 DEF Online, Goto, TypeOK
  <2>2. CASE SessionReplaced(s)
    <3>1. /\ UNCHANGED pc /\ inbox' \cup replaced' = inbox \cup replaced
          /\ \A x \in Socket : wire'[x] = "up" => wire[x] = "up"
      BY <2>2 DEF TypeOK
    <3>2. QED
      BY <3>1 DEF Online
  <2>3. CASE HandlerFails(s, "connected")
    BY <2>3 DEF Online, Goto, TypeOK
  <2>4. QED
    BY <2>1, <2>2, <2>3
<1>4. QED
  BY <1>1, <1>2, <1>3, PresenceFrame

(* A connection is opened, or lost.                                         *)
LEMMA WireKeeps ==
  ASSUME TypeOK, Claimed, Present, NEW s \in Socket, Connect(s) \/ Drop(s)
  PROVE  Claimed' /\ Present'
<1>1. UNCHANGED <<owner, prev, join, watch, told>>
  BY DEF Connect, Drop, cache, tasks
<1>2. \A x \in Socket :
        \/ pc'[x] = pc[x]
        \/ pc[x] # "claim_replace" /\ pc'[x] = "connected"
  BY DEF Connect, Drop, Goto, TypeOK
<1>3. \A x \in Socket : Online(x)' => Online(x)
  BY DEF Connect, Drop, Online, Goto, TypeOK
<1>4. QED
  BY <1>1, <1>2, <1>3, PresenceFrame

(* An absence task runs: if it still waits, nobody is online; and a restart *)
(* ends all connections or none.                                            *)
LEMMA ProcessKeeps ==
  ASSUME TypeOK, Tasks, Claimed, Present, OneProcess, NEW p \in Process,
         TaskStep(p) \/ Restart(p) \/ TaskFails(p)
  PROVE  Claimed' /\ Present'
<1>1. UNCHANGED <<owner, prev, join>>
  BY DEF TaskStep, WatchWakes, WatchNotifies, Restart, TaskFails, cache
<1>2. \A q \in Process : watch'[q] \in {watch[q], Nobody}
  BY DEF TaskStep, WatchWakes, WatchNotifies, Restart, TaskFails, TypeOK
<1>3. CASE WatchWakes(p) \/ TaskFails(p)
  <2>1. UNCHANGED <<pc, wire, inbox, replaced, told>>
    BY <1>3 DEF WatchWakes, TaskFails
  <2>2. \A x \in Socket : Online(x)' => Online(x)
    BY <2>1 DEF Online
  <2>3. QED
    BY <1>1, <1>2, <2>1, <2>2, PresenceFrame
<1>4. CASE WatchNotifies(p)
  <2>1. p \in firing /\ UNCHANGED <<pc, wire, inbox, replaced>>
    BY <1>4 DEF WatchNotifies
  <2>2. \A x \in Socket : ~Online(x)
    BY <2>1 DEF Tasks, Present
  <2>3. \A x \in Socket : ~Online(x)'
    BY <2>1, <2>2 DEF Online
  <2>4. QED
    BY <1>1, <1>2, <2>1, <2>3 DEF Claimed, Present
<1>5. CASE Restart(p)
  <2>1. CASE \E s \in Socket : Home[s] = p
    <3>1. \A x \in Socket : Home[x] = p
      BY <2>1 DEF OneProcess
    <3>2. \A x \in Socket : pc'[x] \in {"none", "closed"}
      BY <1>5, <3>1 DEF Restart, TypeOK
    <3>3. QED
      BY <3>2 DEF Claimed, Present, Online
  <2>2. CASE \A s \in Socket : Home[s] # p
    <3>1. \A x \in Socket : pc'[x] = pc[x] /\ wire'[x] = wire[x]
      BY <1>5, <2>2 DEF Restart, TypeOK
    <3>2. inbox' = inbox /\ replaced' = replaced /\ told' = told
      BY <1>5, <2>2 DEF Restart
    <3>3. \A x \in Socket : Online(x)' => Online(x)
      BY <3>1, <3>2 DEF Online
    <3>4. QED
      BY <1>1, <1>2, <3>1, <3>2, <3>3, PresenceFrame
  <2>3. QED
    BY <2>1, <2>2
<1>6. QED
  BY <1>3, <1>4, <1>5 DEF TaskStep

(* A join takes the connection from its owner and tells the whole group; the *)
(* next partner has been told nothing.                                      *)
LEMMA JoinKeeps ==
  ASSUME TypeOK, Claimed, Present, lost' = {},
         \/ Busy = {} /\ JoinInvalidates
         \/ JoinClearsAbsence \/ JoinSends \/ JoinFails \/ PhaseChanges
  PROVE  Claimed' /\ Present'
<1>1. CASE Busy = {} /\ JoinInvalidates
  <2>1. /\ UNCHANGED <<pc, wire, inbox, replaced, prev, watch, told>>
        /\ join' = "absent"
    BY <1>1 DEF JoinInvalidates, tasks
  <2>2. \A x \in Socket : Online(x)' => Online(x)
    BY <2>1 DEF Online
  <2>3. \A x \in Socket :
          pc'[x] \notin {"claim_set", "claim_replace", "clear_key", "clear_task",
                         "mark", "notify", "close_delete"}
    BY <1>1, <2>1, BusySteps
  <2>4. QED
    BY <2>1, <2>2, <2>3 DEF Claimed, Present
<1>2. CASE JoinClearsAbsence \/ PhaseChanges
  <2>1. /\ UNCHANGED <<pc, wire, inbox, replaced, owner, prev, watch>>
        /\ join' = "idle" => join = "idle"
        /\ told' \in {told, "nothing"}
    BY <1>2 DEF JoinClearsAbsence, PhaseChanges, cache, tasks
  <2>2. \A x \in Socket : Online(x)' => Online(x)
    BY <2>1 DEF Online
  <2>3. QED
    BY <2>1, <2>2, PresenceFrame
<1>3. CASE JoinSends
  <2>1. /\ UNCHANGED <<pc, wire, replaced, owner, prev, watch, told>>
        /\ inbox' = inbox \cup Members
    BY <1>3 DEF JoinSends, cache, tasks
  <2>2. \A x \in Socket : ~Online(x)'
    BY <2>1 DEF Online, Members
  <2>3. QED
    BY <2>1, <2>2 DEF Claimed, Present
<1>4. ~JoinFails
  BY LostFacts DEF JoinFails, Announcing
<1>5. QED
  BY <1>1, <1>2, <1>3, <1>4

(* A failure that loses no announcement changes nothing for the others.     *)
LEMMA FailureKeeps ==
  ASSUME TypeOK, Serial, Claimed, Present, lost' = {}, NEW s \in Socket,
         StepFails(s) \/ HandlerFails(s, "mark")
  PROVE  Claimed' /\ Present'
<1>1. /\ UNCHANGED <<inbox, replaced, owner, prev, join, watch, told>>
      /\ \A x \in Socket : x # s => pc'[x] = pc[x]
  BY DEF StepFails, HandlerFails, Goto, TypeOK, cache, tasks
<1>2. CASE HandlerFails(s, "mark")
  <2>1. /\ pc[s] = "mark" /\ pc'[s] = "open" /\ wire'[s] = "down"
        /\ \A x \in Socket : x # s => wire'[x] = wire[x]
    BY <1>2 DEF HandlerFails, Goto, TypeOK
  <2>2. \A x \in Socket : Online(x)' => Online(x)
    BY <1>1, <2>1 DEF Online
  <2>3. QED
    BY <1>1, <2>1, <2>2, PresenceFrame
<1>3. CASE StepFails(s)
  <2>1. /\ UNCHANGED wire /\ pc[s] \in DOMAIN AfterFailure
        /\ pc'[s] = AfterFailure[pc[s]]
        /\ pc[s] \notin Announcing
    BY <1>3, LostFacts DEF StepFails, TypeOK
  <2>2. \/ pc[s] = "clear_key" /\ pc'[s] = "clear_task"
        \/ pc[s] = "record" /\ pc'[s] = "close_get"
        \/ pc[s] = "close_delete" /\ pc'[s] = "watch_set"
        \/ pc[s] \in {"close_get", "watch_set"} /\ pc'[s] = "closed"
    BY <2>1, FailurePaths DEF Announcing
  <2>3. s \in Busy
    BY <2>2, BusySteps
  <2>4. \A x \in Socket : x # s => x \notin Busy
    BY <2>3, OthersRest
  <2>5. \A x \in Socket : Online(x)' => Online(x)
    BY <1>1, <2>1, <2>2 DEF Online
  <2>6. CASE pc'[s] \in {"close_get", "closed"}
    BY <1>1, <2>2, <2>5, <2>6, PresenceFrame
  <2>7. CASE pc[s] \in {"clear_key", "close_delete"}
    <3>1. owner = s
      BY <2>7 DEF Claimed
    <3>2. \A x \in Socket : ~Online(x)
      BY <2>3, <2>7, <3>1, OnlineOthers
    <3>3. \A x \in Socket : x # s =>
            pc'[x] \notin {"claim_set", "claim_replace", "clear_key",
                           "clear_task", "mark", "notify", "close_delete"}
      BY <1>1, <2>4, BusySteps
    <3>4. QED
      BY <1>1, <2>2, <2>5, <2>7, <3>1, <3>2, <3>3 DEF Claimed, Present
  <2>8. QED
    BY <2>2, <2>6, <2>7
<1>4. QED
  BY <1>2, <1>3

-----------------------------------------------------------------------------
(* The invariants are inductive *)

(* At the start there is no connection.                                     *)
LEMMA PresenceInit == Init => IInv /\ StatusInv
<1> SUFFICES ASSUME Init
             PROVE  IInv /\ StatusInv
  OBVIOUS
<1>1. /\ \A s \in Socket : pc[s] = "none"
      /\ \A p \in Process : watch[p] = Nobody
      /\ firing = {} /\ join = "idle" /\ told = "nothing"
  BY DEF Init
<1>2. TypeOK
  BY DEF Init, TypeOK, Steps, Status
<1>3. Serial /\ Tasks
  BY <1>1 DEF Serial, Busy, Handshake, Closing, Tasks
<1>4. Claimed /\ Present /\ Alone
  BY <1>1 DEF Claimed, Present, Alone, Live, Online
<1>5. QED
  BY <1>2, <1>3, <1>4 DEF IInv, StatusInv

(* Every step keeps the types and the status, whatever handlers interleave. *)
LEMMA StatusNext == StatusInv /\ [Next]_vars => StatusInv'
<1> SUFFICES ASSUME StatusInv, [Next]_vars
             PROVE  StatusInv'
  OBVIOUS
<1> USE DEF StatusInv
<1>1. CASE UNCHANGED vars
  <2>1. TypeOK'
    BY <1>1 DEF vars, TypeOK
  <2>2. early' = {} => Alone'
    BY <1>1, AloneFrame DEF vars
  <2>3. QED
    BY <2>1, <2>2
<1>2. ASSUME NEW s \in Socket, Connect(s) \/ HandlerStart(s) \/ HandlerStep(s) \/ Drop(s)
      PROVE  StatusInv'
  <2>1. CASE HandlerFails(s, "connected")
    BY <2>1, OtherTypes, OtherKeepsAlone
  <2>2. CASE ~HandlerFails(s, "connected")
    BY <1>2, <2>2, OpeningTypes, OpeningKeepsAlone, ClosingTypes, ClosingKeepsAlone
       DEF HandlerStart, HandlerStep
  <2>3. QED
    BY <2>1, <2>2
<1>3. CASE \/ \E p \in Process : TaskStep(p) \/ Restart(p)
           \/ JoinInvalidates \/ JoinClearsAbsence \/ JoinSends \/ PhaseChanges
           \/ Failure
  BY <1>3, OtherTypes, OtherKeepsAlone DEF Failure
<1>4. QED
  BY <1>1, <1>2, <1>3 DEF Next

(* Steps of handlers that do not overlap are steps.                         *)
LEMMA SerialIsNext == SerialNext => Next
BY DEF SerialNext, Next

(* They keep the invariant, if one process serves the participant.          *)
LEMMA PresenceNext ==
  ASSUME OneProcess
  PROVE  IInv /\ [SerialNext]_vars => IInv'
<1> SUFFICES ASSUME IInv, [SerialNext]_vars
             PROVE  IInv'
  OBVIOUS
<1>1. /\ TypeOK /\ Serial /\ Tasks
      /\ lost = {} => Claimed /\ Present
  BY DEF IInv
<1>2. CASE UNCHANGED vars
  <2>1. TypeOK' /\ Serial' /\ Tasks'
    BY <1>1, <1>2 DEF vars, TypeOK, Serial, Tasks, Busy
  <2>2. lost' = {} => Claimed' /\ Present'
    BY <1>1, <1>2 DEF vars, Claimed, Present, Online
  <2>3. QED
    BY <2>1, <2>2 DEF IInv
<1>3. ASSUME NEW s \in Socket, HandlerStep(s)
      PROVE  IInv'
  <2>1. TypeOK'
    BY <1>1, <1>3, OpeningTypes, ClosingTypes DEF HandlerStep
  <2>2. Serial' /\ Tasks' /\ (lost' = {} => lost = {})
    BY <1>1, <1>3, HandlerKeepsSerial
  <2>3. lost' = {} => Claimed' /\ Present'
    BY <1>1, <1>3, <2>2, ClaimKeeps, ClearKeeps, CloseKeeps DEF HandlerStep
  <2>4. QED
    BY <2>1, <2>2, <2>3 DEF IInv
<1>4. ASSUME NEW s \in Socket, Busy = {} /\ join = "idle" /\ HandlerStart(s)
      PROVE  IInv'
  <2>1. TypeOK'
    BY <1>1, <1>4, OpeningTypes, ClosingTypes, OtherTypes DEF HandlerStart
  <2>2. Serial' /\ Tasks' /\ (lost' = {} => lost = {})
    BY <1>1, <1>4, StartKeepsSerial
  <2>3. lost' = {} => Claimed' /\ Present'
    BY <1>1, <1>4, <2>2, StartKeeps
  <2>4. QED
    BY <2>1, <2>2, <2>3 DEF IInv
<1>5. ASSUME NEW s \in Socket, Connect(s) \/ Drop(s)
      PROVE  IInv'
  <2>1. TypeOK'
    BY <1>1, <1>5, OpeningTypes, ClosingTypes
  <2>2. Serial' /\ Tasks' /\ (lost' = {} => lost = {})
    BY <1>1, <1>5, OtherKeepsSerial
  <2>3. lost' = {} => Claimed' /\ Present'
    BY <1>1, <1>5, <2>2, WireKeeps
  <2>4. QED
    BY <2>1, <2>2, <2>3 DEF IInv
<1>6. ASSUME NEW p \in Process, TaskStep(p) \/ Restart(p) \/ TaskFails(p)
      PROVE  IInv'
  <2>1. TypeOK'
    BY <1>1, <1>6, OtherTypes
  <2>2. Serial' /\ Tasks' /\ (lost' = {} => lost = {})
    BY <1>1, <1>6, OtherKeepsSerial
  <2>3. lost' = {} => Claimed' /\ Present'
    BY <1>1, <1>6, <2>2, ProcessKeeps
  <2>4. QED
    BY <2>1, <2>2, <2>3 DEF IInv
<1>7. CASE \/ Busy = {} /\ JoinInvalidates
           \/ JoinClearsAbsence \/ JoinSends \/ JoinFails \/ PhaseChanges
  <2>1. TypeOK'
    BY <1>1, <1>7, OtherTypes
  <2>2. Serial' /\ Tasks' /\ (lost' = {} => lost = {})
    BY <1>1, <1>7, OtherKeepsSerial
  <2>3. lost' = {} => Claimed' /\ Present'
    BY <1>1, <1>7, <2>2, JoinKeeps
  <2>4. QED
    BY <2>1, <2>2, <2>3 DEF IInv
<1>8. ASSUME NEW s \in Socket, StepFails(s) \/ HandlerFails(s, "mark")
      PROVE  IInv'
  <2>1. TypeOK'
    BY <1>1, <1>8, OtherTypes
  <2>2. Serial' /\ Tasks' /\ (lost' = {} => lost = {})
    BY <1>1, <1>8, OtherKeepsSerial
  <2>3. lost' = {} => Claimed' /\ Present'
    BY <1>1, <1>8, <2>2, FailureKeeps
  <2>4. QED
    BY <2>1, <2>2, <2>3 DEF IInv
<1>9. QED
  BY <1>2, <1>3, <1>4, <1>5, <1>6, <1>7, <1>8 DEF SerialNext, Failure

-----------------------------------------------------------------------------
(* Theorems *)

(***************************************************************************)
(* _record_disconnection and _mark_reconnected: in every interleaving of   *)
(* handlers, joins, restarts and failures, and with any number of server   *)
(* processes, a participant whose connection is up is not recorded as      *)
(* disconnected, as long as every connection was opened after the previous *)
(* one was closed.                                                         *)
(***************************************************************************)
THEOREM PresenceStatus == Spec => []StatusFollowsSocket
<1>1. StatusInv => StatusFollowsSocket
  BY DEF StatusInv, Alone, StatusFollowsSocket, Online
<1>2. QED
  BY <1>1, PresenceInit, StatusNext, PTL DEF Spec

(* So it is when handlers do not overlap, as the run has it.                *)
COROLLARY PresenceStatusSerial == SerialSpec => []StatusFollowsSocket
BY SerialIsNext, PresenceStatus, PTL DEF Spec, SerialSpec

(***************************************************************************)
(* The consumer (apps/events/consumers.py), the absence tasks and          *)
(* invalidate_participant_sockets keep the invariant, for every number of  *)
(* connections, joins, restarts, phases and failures.                      *)
(***************************************************************************)
THEOREM PresenceInvariant ==
  ASSUME OneProcess
  PROVE  SerialSpec => []IInv
BY PresenceInit, PresenceNext, PTL DEF SerialSpec

(***************************************************************************)
(* _claim_exclusive_connection and invalidate_participant_sockets: when no *)
(* handler is running, at most one connection serves the participant.      *)
(***************************************************************************)
THEOREM PresenceExclusive ==
  ASSUME OneProcess
  PROVE  SerialSpec => []ExclusiveWhenQuiet
<1>1. IInv => ExclusiveWhenQuiet
  <2> SUFFICES ASSUME Claimed, Busy = {}, join = "idle",
                      NEW s \in Socket, NEW t \in Socket, Online(s), Online(t)
               PROVE  s = t
    BY DEF IInv, ExclusiveWhenQuiet
  <2>1. \A x \in Socket : pc[x] # "claim_replace"
    BY BusySteps
  <2>2. owner = s /\ owner = t
    BY <2>1 DEF Claimed
  <2>3. QED
    BY <2>2
<1>2. QED
  BY <1>1, PresenceInvariant, PTL

(***************************************************************************)
(* _watch_partner_absence: the partner of a participant whose connection   *)
(* is up has not last been told that the participant is gone, unless the   *)
(* announcement of a connection was lost.                                  *)
(***************************************************************************)
THEOREM PresenceNotGone ==
  ASSUME OneProcess
  PROVE  SerialSpec => []NotGoneWhileOnline
<1>1. IInv => NotGoneWhileOnline
  BY DEF IInv, Present, NotGoneWhileOnline
<1>2. QED
  BY <1>1, PresenceInvariant, PTL

=============================================================================
