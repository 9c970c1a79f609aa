------------------------- MODULE ConnectionPresence -------------------------
(***************************************************************************)
(* The connections of one participant in apps/events/consumers.py and what *)
(* the partner is told about them.                                         *)
(*                                                                         *)
(* Every WebSocket has a consumer that runs one handler at a time; each    *)
(* await on the cache, the database or the channel layer is a point where  *)
(* the handlers of other sockets run.  The cache holds the owning channel  *)
(* and the generation of the pending absence; every server process keeps   *)
(* the task that waits for the grace period in its own memory.             *)
(***************************************************************************)
EXTENDS Integers, FiniteSets

CONSTANTS
  Socket,      \* connections the participant may open, one after the other
  Process,     \* server processes
  Home,        \* Home[s]: process that serves socket s
  Nobody,      \* an empty cache key
  MaxJoins,    \* bound on join-link logins
  MaxRestarts, \* bound on process restarts
  MaxPhases,   \* bound on changes between paired and unpaired phases
  MaxFaults    \* bound on failures of the cache, the database or the layer

ASSUME PresenceAssumption ==
  /\ Nobody \notin Socket
  /\ Home \in [Socket -> Process]
  /\ MaxJoins \in Nat
  /\ MaxRestarts \in Nat
  /\ MaxPhases \in Nat
  /\ MaxFaults \in Nat

VARIABLES
  pc,       \* pc[s]: next step of the handler of s, or its state between
  wire,     \* wire[s]: the TCP connection is "up" or "down"
  inbox,    \* sockets with an undelivered session.replaced message
  replaced, \* sockets with _session_replaced set
  prev,     \* prev[s]: the owner s found when it claimed the connection
  loaded,   \* loaded[s]: participant.status as read when s connected
  owner,    \* cache: ws:channel:<participant>
  absent,   \* cache: ws:absent:<participant>; a generation is named after
            \* the socket whose closing started it
  watch,    \* watch[p]: generation of p's absence task, or Nobody
  firing,   \* processes whose task has found its generation in the cache
  status,   \* Participant.status in the database
  told,     \* last partner_state sent to the current partner
  paired,   \* "yes" while current_pair_for_participant finds a pair
  join,     \* progress of invalidate_participant_sockets
  early,    \* sockets opened before the previous one was closed (history)
  joins, restarts, phases, faults,
  lost      \* announcements that a failure swallowed (history)

cache == <<owner, absent>>
tasks == <<watch, firing>>
bounds == <<early, joins, restarts, phases, faults, lost>>
vars == <<pc, wire, inbox, replaced, prev, loaded, owner, absent, watch,
          firing, status, told, paired, join, early, joins,
          restarts, phases, faults, lost>>

Handshake == {"claim_get", "claim_set", "claim_replace", "clear_key",
              "clear_task", "mark", "notify"}
Closing == {"record", "close_get", "close_delete", "watch_set", "watch_spawn"}
\* Steps that make a connection known to its predecessor and to the partner.
Announcing == {"claim_get", "claim_set", "claim_replace", "notify", "send"}
Status == {"waiting", "active", "disconnected"}  \* waiting: also ready, completed
Steps == {"none", "connected", "open", "closed"} \cup Handshake \cup Closing

TypeOK ==
  /\ pc \in [Socket -> Steps]
  /\ wire \in [Socket -> {"up", "down"}]
  /\ inbox \subseteq Socket
  /\ replaced \subseteq Socket
  /\ prev \in [Socket -> Socket \cup {Nobody}]
  /\ loaded \in [Socket -> Status]
  /\ owner \in Socket \cup {Nobody}
  /\ absent \in Socket \cup {Nobody}
  /\ watch \in [Process -> Socket \cup {Nobody}]
  /\ firing \subseteq Process
  /\ status \in Status
  /\ told \in {"nothing", "connected", "disconnected"}
  /\ paired \in {"yes", "no"}
  /\ join \in {"idle", "absent", "send"}
  /\ early \subseteq Socket
  /\ joins \in Nat /\ restarts \in Nat /\ phases \in Nat /\ faults \in Nat
  /\ lost \subseteq Announcing

Init ==
  /\ pc = [s \in Socket |-> "none"]
  /\ wire = [s \in Socket |-> "down"]
  /\ inbox = {}
  /\ replaced = {}
  /\ prev = [s \in Socket |-> Nobody]
  /\ loaded = [s \in Socket |-> "active"]
  /\ owner = Nobody
  /\ absent = Nobody
  /\ watch = [p \in Process |-> Nobody]
  /\ firing = {}
  /\ status \in {"waiting", "active"}
  /\ told = "nothing"
  /\ paired \in {"yes", "no"}
  /\ join = "idle"
  /\ early = {}
  /\ joins = 0 /\ restarts = 0 /\ phases = 0 /\ faults = 0
  /\ lost = {}

Goto(s, from, to) ==
  /\ pc[s] = from
  /\ pc' = [pc EXCEPT ![s] = to]

\* Members of the group participant_<id>.
Members == {s \in Socket : pc[s] \in Handshake \cup {"open"}}

-----------------------------------------------------------------------------
(* Opening *)

\* connect: the session yields the participant, as the database has it now.
Connect(s) ==
  /\ Goto(s, "none", "connected")
  /\ wire' = [wire EXCEPT ![s] = "up"]
  /\ loaded' = [loaded EXCEPT ![s] = status]
  /\ early' = IF \E t \in Socket : pc[t] \notin {"none", "closed"}
              THEN early \cup {s} ELSE early
  /\ UNCHANGED <<inbox, replaced, prev, cache, tasks, status, told, paired,
                 join, joins, restarts, phases, faults, lost>>

\* client.hello: join the groups and answer server.hello.
Hello(s) ==
  /\ Goto(s, "connected", "claim_get")
  /\ UNCHANGED <<wire, inbox, replaced, prev, loaded, cache, tasks, status,
                 told, paired, join, bounds>>

\* _claim_exclusive_connection: cache.get of the previous owner.
ClaimGet(s) ==
  /\ Goto(s, "claim_get", "claim_set")
  /\ prev' = [prev EXCEPT ![s] = owner]
  /\ UNCHANGED <<wire, inbox, replaced, loaded, cache, tasks, status, told,
                 paired, join, bounds>>

\* cache.set of the own channel.
ClaimSet(s) ==
  /\ Goto(s, "claim_set", "claim_replace")
  /\ owner' = s
  /\ UNCHANGED <<wire, inbox, replaced, prev, loaded, absent, tasks, status,
                 told, paired, join, bounds>>

\* Plausible bug: the previous owner is never told.
ClaimReplaceSilent(s) ==
  /\ Goto(s, "claim_replace", "clear_key")
  /\ UNCHANGED <<wire, inbox, replaced, prev, loaded, cache, tasks, status,
                 told, paired, join, bounds>>

\* session.replaced to the previous owner; a message to a channel that is
\* gone is dropped.
ClaimReplace(s) ==
  /\ Goto(s, "claim_replace", "clear_key")
  /\ inbox' = inbox \cup ({prev[s]} \cap Members)
  /\ UNCHANGED <<wire, replaced, prev, loaded, cache, tasks, status, told,
                 paired, join, bounds>>

\* _clear_absence_watch: forget the generation,
ClearKey(s) ==
  /\ Goto(s, "clear_key", "clear_task")
  /\ absent' = Nobody
  /\ UNCHANGED <<wire, inbox, replaced, prev, loaded, owner, tasks, status,
                 told, paired, join, bounds>>

\* and cancel the task, if it runs in this process.
ClearTask(s) ==
  /\ Goto(s, "clear_task", "mark")
  /\ watch' = [watch EXCEPT ![Home[s]] = Nobody]
  /\ firing' = firing \ {Home[s]}
  /\ UNCHANGED <<wire, inbox, replaced, prev, loaded, cache, status, told,
                 paired, join, bounds>>

\* Plausible bug: the disconnections are closed but the status is not saved.
MarkReconnectedUnsaved(s) ==
  /\ Goto(s, "mark", "notify")
  /\ loaded' = [loaded EXCEPT ![s] = "active"]
  /\ UNCHANGED <<wire, inbox, replaced, prev, cache, tasks, status, told, paired,
                 join, bounds>>

\* _mark_reconnected: saves only if the participant as loaded is not active.
MarkReconnected(s) ==
  /\ Goto(s, "mark", "notify")
  /\ status' = IF loaded[s] = "active" THEN status ELSE "active"
  /\ loaded' = [loaded EXCEPT ![s] = "active"]
  /\ UNCHANGED <<wire, inbox, replaced, prev, cache, tasks, told, paired, join,
                 bounds>>

\* anotify_partner_presence reaches the current partner, if there is one.
Tell(state) == told' = IF paired = "yes" THEN state ELSE told

NotifyConnected(s) ==
  /\ Goto(s, "notify", "open")
  /\ Tell("connected")
  /\ UNCHANGED <<wire, inbox, replaced, prev, loaded, cache, tasks, status,
                 paired, join, bounds>>

-----------------------------------------------------------------------------
(* Closing *)

\* The client leaves, the network fails or the heartbeat closes the socket.
Drop(s) ==
  /\ wire[s] = "up"
  /\ wire' = [wire EXCEPT ![s] = "down"]
  /\ UNCHANGED <<pc, inbox, replaced, prev, loaded, cache, tasks, status, told,
                 paired, join, bounds>>

\* session_replaced: tell the client and close.
SessionReplaced(s) ==
  /\ pc[s] = "open"
  /\ s \in inbox
  /\ inbox' = inbox \ {s}
  /\ replaced' = replaced \cup {s}
  /\ wire' = [wire EXCEPT ![s] = "down"]
  /\ UNCHANGED <<pc, prev, loaded, cache, tasks, status, told, paired, join,
                 bounds>>

\* disconnect: leave the groups; only a completed handshake that was not
\* replaced goes on.
DisconnectStart(s) ==
  /\ pc[s] \in {"connected", "open"}
  /\ wire[s] = "down"
  /\ pc' = [pc EXCEPT ![s] =
              IF pc[s] = "open" /\ s \notin replaced THEN "record" ELSE "closed"]
  /\ inbox' = inbox \ {s}
  /\ UNCHANGED <<wire, replaced, prev, loaded, cache, tasks, status, told,
                 paired, join, bounds>>

\* _record_disconnection
RecordDisconnection(s) ==
  /\ Goto(s, "record", "close_get")
  /\ status' = "disconnected"
  /\ loaded' = [loaded EXCEPT ![s] = "disconnected"]
  /\ UNCHANGED <<wire, inbox, replaced, prev, cache, tasks, told, paired, join,
                 bounds>>

\* Plausible bug: ownership is not checked.
CloseGetUnchecked(s) ==
  /\ Goto(s, "close_get", "close_delete")
  /\ UNCHANGED <<wire, inbox, replaced, prev, loaded, cache, tasks, status,
                 told, paired, join, bounds>>

\* _on_live_socket_closed: only the owner starts an absence.
CloseGet(s) ==
  /\ Goto(s, "close_get", IF owner = s THEN "close_delete" ELSE "closed")
  /\ UNCHANGED <<wire, inbox, replaced, prev, loaded, cache, tasks, status,
                 told, paired, join, bounds>>

\* cache.delete of the key, whatever it holds by now.
CloseDelete(s) ==
  /\ Goto(s, "close_delete", "watch_set")
  /\ owner' = Nobody
  /\ UNCHANGED <<wire, inbox, replaced, prev, loaded, absent, tasks, status,
                 told, paired, join, bounds>>

\* _begin_absence_watch: a new generation if there is a pair,
WatchSet(s) ==
  /\ Goto(s, "watch_set", IF paired = "yes" THEN "watch_spawn" ELSE "closed")
  /\ absent' = IF paired = "yes" THEN s ELSE absent
  /\ UNCHANGED <<wire, inbox, replaced, prev, loaded, owner, tasks, status,
                 told, paired, join, bounds>>

\* Plausible bug: the task is never created.
WatchSpawnForgotten(s) ==
  /\ Goto(s, "watch_spawn", "closed")
  /\ UNCHANGED <<wire, inbox, replaced, prev, loaded, cache, tasks, status,
                 told, paired, join, bounds>>

\* and a task for it, which takes the place of an earlier one.
WatchSpawn(s) ==
  /\ Goto(s, "watch_spawn", "closed")
  /\ watch' = [watch EXCEPT ![Home[s]] = s]
  /\ firing' = firing \ {Home[s]}
  /\ UNCHANGED <<wire, inbox, replaced, prev, loaded, cache, status, told,
                 paired, join, bounds>>

-----------------------------------------------------------------------------
(* The absence task *)

\* _watch_partner_absence: the grace period is over, compare generations.
WatchWakes(p) ==
  /\ watch[p] # Nobody
  /\ p \notin firing
  /\ IF absent = watch[p]
     THEN firing' = firing \cup {p} /\ UNCHANGED watch
     ELSE watch' = [watch EXCEPT ![p] = Nobody] /\ UNCHANGED firing
  /\ UNCHANGED <<pc, wire, inbox, replaced, prev, loaded, cache, status, told,
                 paired, join, bounds>>

WatchNotifies(p) ==
  /\ p \in firing
  /\ firing' = firing \ {p}
  /\ watch' = [watch EXCEPT ![p] = Nobody]
  /\ Tell("disconnected")
  /\ UNCHANGED <<pc, wire, inbox, replaced, prev, loaded, cache, status, paired,
                 join, bounds>>

-----------------------------------------------------------------------------
(* Environment *)

\* join_participant -> invalidate_participant_sockets: delete the owner,
JoinInvalidates ==
  /\ join = "idle"
  /\ joins < MaxJoins
  /\ joins' = joins + 1
  /\ join' = "absent"
  /\ owner' = Nobody
  /\ UNCHANGED <<pc, wire, inbox, replaced, prev, loaded, absent, tasks, status,
                 told, paired, early, restarts, phases, faults, lost>>

\* delete the generation,
JoinClearsAbsence ==
  /\ join = "absent"
  /\ join' = "send"
  /\ absent' = Nobody
  /\ UNCHANGED <<pc, wire, inbox, replaced, prev, loaded, owner, tasks, status,
                 told, paired, bounds>>

\* then session.replaced to the whole group.
JoinSends ==
  /\ join = "send"
  /\ join' = "idle"
  /\ inbox' = inbox \cup Members
  /\ UNCHANGED <<pc, wire, replaced, prev, loaded, cache, tasks, status, told,
                 paired, bounds>>

\* Process p restarts: its sockets and its task vanish without a handler.
Restart(p) ==
  /\ restarts < MaxRestarts
  /\ restarts' = restarts + 1
  /\ LET here == {s \in Socket : Home[s] = p /\ pc[s] # "none"}
     IN  /\ pc' = [s \in Socket |-> IF s \in here THEN "closed" ELSE pc[s]]
         /\ wire' = [s \in Socket |-> IF s \in here THEN "down" ELSE wire[s]]
         /\ inbox' = inbox \ here
  /\ watch' = [watch EXCEPT ![p] = Nobody]
  /\ firing' = firing \ {p}
  /\ UNCHANGED <<replaced, prev, loaded, cache, status, told, paired, join,
                 early, joins, phases, faults, lost>>

\* The event moves between a paired phase and a break; the next partner has
\* been told nothing.
PhaseChanges ==
  /\ phases < MaxPhases
  /\ phases' = phases + 1
  /\ paired' = IF paired = "yes" THEN "no" ELSE "yes"
  /\ told' = "nothing"
  /\ UNCHANGED <<pc, wire, inbox, replaced, prev, loaded, cache, tasks, status,
                 join, early, joins, restarts, faults, lost>>

-----------------------------------------------------------------------------
(* Failures of the cache, the database or the channel layer *)

Fault(step) ==
  /\ faults < MaxFaults
  /\ faults' = faults + 1
  /\ lost' = lost \cup ({step} \cap Announcing)

\* Where a handler goes on after the exception of a step was logged.
AfterFailure ==
  [claim_get |-> "clear_key", claim_set |-> "clear_key",
   claim_replace |-> "clear_key", clear_key |-> "clear_task", notify |-> "open",
   record |-> "close_get", close_get |-> "closed", close_delete |-> "watch_set",
   watch_set |-> "closed"]

StepFails(s) ==
  /\ pc[s] \in DOMAIN AfterFailure
  /\ pc' = [pc EXCEPT ![s] = AfterFailure[pc[s]]]
  /\ Fault(pc[s])
  /\ UNCHANGED <<wire, inbox, replaced, prev, loaded, cache, tasks, status, told,
                 paired, join, early, joins, restarts, phases>>

\* receive: any other exception of a handler ends in _fatal, which closes.
HandlerFails(s, from) ==
  /\ Goto(s, from, "open")
  /\ wire' = [wire EXCEPT ![s] = "down"]
  /\ Fault(from)
  /\ UNCHANGED <<inbox, replaced, prev, loaded, cache, tasks, status, told,
                 paired, join, early, joins, restarts, phases>>

\* The task cannot read the generation or reach the partner, and ends.
TaskFails(p) ==
  /\ watch[p] # Nobody
  /\ watch' = [watch EXCEPT ![p] = Nobody]
  /\ firing' = firing \ {p}
  /\ Fault("task")
  /\ UNCHANGED <<pc, wire, inbox, replaced, prev, loaded, cache, status, told,
                 paired, join, early, joins, restarts, phases>>

\* The second delete or the group_send fails; the sockets are not told.
JoinFails ==
  /\ join # "idle"
  /\ join' = "idle"
  /\ Fault("send")
  /\ UNCHANGED <<pc, wire, inbox, replaced, prev, loaded, cache, tasks, status,
                 told, paired, early, joins, restarts, phases>>

-----------------------------------------------------------------------------

\* A handler that has started goes on.
HandlerStep(s) ==
  \/ ClaimGet(s) \/ ClaimSet(s) \/ ClaimReplace(s) \/ ClearKey(s)
  \/ ClearTask(s) \/ MarkReconnected(s) \/ NotifyConnected(s)
  \/ RecordDisconnection(s) \/ CloseGet(s) \/ CloseDelete(s)
  \/ WatchSet(s) \/ WatchSpawn(s)

\* A consumer takes up its next message.
HandlerStart(s) ==
  \/ Hello(s) \/ SessionReplaced(s) \/ DisconnectStart(s)
  \/ HandlerFails(s, "connected")

Failure ==
  \/ \E s \in Socket : StepFails(s) \/ HandlerFails(s, "mark")
  \/ \E p \in Process : TaskFails(p)
  \/ JoinFails

TaskStep(p) == WatchWakes(p) \/ WatchNotifies(p)

Next ==
  \/ \E s \in Socket : Connect(s) \/ HandlerStart(s) \/ HandlerStep(s) \/ Drop(s)
  \/ \E p \in Process : TaskStep(p) \/ Restart(p)
  \/ JoinInvalidates \/ JoinClearsAbsence \/ JoinSends \/ PhaseChanges
  \/ Failure

Spec == Init /\ [][Next]_vars

Busy == {s \in Socket : pc[s] \in Handshake \cup Closing}

\* Handlers do not overlap: the next one starts when no other is running.
SerialNext ==
  \/ \E s \in Socket : \/ Connect(s) \/ Drop(s) \/ HandlerStep(s)
                       \/ Busy = {} /\ join = "idle" /\ HandlerStart(s)
  \/ \E p \in Process : TaskStep(p) \/ Restart(p)
  \/ Busy = {} /\ JoinInvalidates
  \/ JoinClearsAbsence \/ JoinSends
  \/ PhaseChanges
  \/ Failure

SerialSpec == Init /\ [][SerialNext]_vars

\* A handler is started for every message and runs on; the timer fires.
Fairness ==
  /\ \A s \in Socket :
       /\ WF_vars(HandlerStep(s))
       /\ SF_vars(Busy = {} /\ join = "idle" /\ (SessionReplaced(s) \/ DisconnectStart(s)))
  /\ \A p \in Process : WF_vars(TaskStep(p))
  /\ WF_vars(JoinClearsAbsence \/ JoinSends)

FairSerialSpec == SerialSpec /\ Fairness

-----------------------------------------------------------------------------
(* Properties *)

\* s serves the participant: its handshake is over and nothing ends it.
Online(s) ==
  pc[s] = "open" /\ wire[s] = "up" /\ s \notin inbox \cup replaced

(***************************************************************************)
(* "Long absence only. Replaced/stale sockets never mark the partner       *)
(* gone." (call_room_logic.py; _watch_partner_absence): the partner of a   *)
(* participant whose connection is up has not last been told that the      *)
(* participant is gone.  Only the loss of an announcement may break this;  *)
(* a failure to clear the generation, to delete the owner or to record the *)
(* disconnection may not.                                                  *)
(***************************************************************************)
NotGoneWhileOnline ==
  told = "disconnected" /\ lost = {} => \A s \in Socket : ~Online(s)

(***************************************************************************)
(* "Participant already has an active WebSocket: close 4001" (protocol.md, *)
(* ERR_ALREADY_CONNECTED; _claim_exclusive_connection): when no handler is *)
(* running, at most one connection serves the participant.                 *)
(***************************************************************************)
ExclusiveWhenQuiet ==
  Busy = {} /\ join = "idle" /\ lost = {} =>
    \A s, t \in Socket : Online(s) /\ Online(t) => s = t

\* All connections are closed; no restart, join or failure so far.
Away == \A s \in Socket : pc[s] \in {"none", "closed"}
Undisturbed == joins = 0 /\ restarts = 0 /\ faults = 0

(***************************************************************************)
(* A participant who stays away is reported (_begin_absence_watch,         *)
(* _watch_partner_absence): if the partner believes the participant        *)
(* connected and all connections are closed, the partner is told otherwise *)
(* unless the participant, the next phase or a disturbance comes first.    *)
(***************************************************************************)
AbsenceIsReported ==
  (Away /\ told = "connected" /\ paired = "yes" /\ Undisturbed)
    ~> (told = "disconnected" \/ ~Away \/ paired = "no" \/ ~Undisturbed)

(***************************************************************************)
(* The status operators see (_record_disconnection, _mark_reconnected):    *)
(* whatever was restarted or failed, a participant whose connection is up  *)
(* is not recorded as disconnected, as long as every connection was opened *)
(* after the previous one was closed.  Otherwise it may have loaded a      *)
(* status that is out of date, or record its own failure over the other.   *)
(***************************************************************************)
StatusFollowsSocket ==
  Busy = {} /\ early = {} /\ (\E s \in Socket : Online(s)) =>
    status # "disconnected"

=============================================================================
