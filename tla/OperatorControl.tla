-------------------------- MODULE OperatorControl --------------------------
(***************************************************************************)
(* The live operator actions of apps/events/operator.py on the timetable:  *)
(* pause, resume and extend, as concurrent admin requests.                 *)
(*                                                                         *)
(* Each request is one READ COMMITTED transaction.  It reads rows, adds    *)
(* the shift in Python and writes the sums back; nothing is read FOR       *)
(* UPDATE, so the only ordering between two requests comes from the row    *)
(* lock an UPDATE takes until the end of its transaction.  The broadcast   *)
(* to the participants is sent before the commit.                          *)
(***************************************************************************)
EXTENDS RoundScheduler

CONSTANTS
  Op,          \* operator requests being served at the same time
  NoOp,        \* value of a free row lock
  Extras,      \* extra_seconds an operator may ask for
  MaxClock,    \* bound on the time a behaviour lasts
  MaxRequests  \* bound on the number of requests

ASSUME OperatorAssumption ==
  /\ NoOp \notin Op
  /\ Extras \subseteq Nat \ {0}
  /\ MaxClock \in Nat
  /\ MaxRequests \in Nat

VARIABLES
  clock,     \* server time in seconds
  rounds,    \* committed Round rows
  last,      \* what event.operator_logs.first() returns
  requests,  \* requests so far; orders performed_at within one second
  pc, req,   \* per request: next statement, local variables
  rowLock,   \* rowLock[r]: transaction holding an uncommitted write of r
  told,      \* what the participants were told last
  granted    \* granted[r]: seconds round r was extended by (history)

vars == <<clock, rounds, last, requests, pc, req, rowLock, told, granted>>

Actions == {"none", "pause", "resume", "extend"}
Steps == {"idle", "check", "load", "active", "rest", "later", "broadcast", "commit"}

\* at: performed_at; stamp: its order among requests of the same second;
\* remaining: remaining_seconds of a pause, 0 in other rows.
LogRow == [action : Actions, round : Rounds \cup {NoRound}, at : Nat,
           stamp : Nat, remaining : Nat]
NoLog == [action |-> "none", round |-> NoRound, at |-> 0, stamp |-> 0,
          remaining |-> 0]

\* ends: the active round's ends_at as read; rest: the later rounds as read;
\* next: the round whose row is written next.
Request == [log : LogRow, shift : Nat, ends : Int, rest : Timetables, next : Nat]
NoRequest == [log |-> NoLog, shift |-> 0, ends |-> 0,
              rest |-> calculate_full_schedule, next |-> 0]

TypeOK ==
  /\ clock \in Nat
  /\ rounds \in Timetables
  /\ last \in LogRow
  /\ requests \in Nat
  /\ pc \in [Op -> Steps]
  /\ req \in [Op -> Request]
  /\ rowLock \in [Rounds -> Op \cup {NoOp}]
  /\ told \in {"running", "paused"}
  /\ granted \in [Rounds -> Nat]

Init ==
  /\ clock = StartTime
  /\ rounds = calculate_full_schedule
  /\ last = NoLog
  /\ requests = 0
  /\ pc = [o \in Op |-> "idle"]
  /\ req = [o \in Op |-> NoRequest]
  /\ rowLock = [r \in Rounds |-> NoOp]
  /\ told = "running"
  /\ granted = [r \in Rounds |-> 0]

-----------------------------------------------------------------------------

Phase == get_current_phase(rounds, clock)

\* A request reads the time and its first rows into local variables.
Begin(o, action, round, shift, step) ==
  /\ pc[o] = "idle"
  /\ requests < MaxRequests
  /\ requests' = requests + 1
  /\ pc' = [pc EXCEPT ![o] = step]
  /\ req' = [req EXCEPT ![o] =
       [log |-> [action |-> action, round |-> round, at |-> clock,
                 stamp |-> requests + 1,
                 remaining |-> IF action = "pause"
                               THEN rounds[round].ends_at - clock ELSE 0],
        shift |-> shift, ends |-> rounds[round].ends_at,
        rest |-> calculate_full_schedule, next |-> round + 1]]
  /\ UNCHANGED <<clock, rounds, last, rowLock, told, granted>>

\* The transaction ends: locks and locals are gone.
EndTransaction(o) ==
  /\ pc' = [pc EXCEPT ![o] = "idle"]
  /\ req' = [req EXCEPT ![o] = NoRequest]
  /\ rowLock' = [r \in Rounds |-> IF rowLock[r] = o THEN NoOp ELSE rowLock[r]]

\* pause: only inside a round.
PauseBegin(o) ==
  /\ Phase.phase = IN_ROUND
  /\ Begin(o, "pause", Phase.round, 0, "check")

\* pause: the newest log row tells whether the event is already paused.
PauseCheck(o) ==
  /\ pc[o] = "check"
  /\ \/ /\ last.action # "pause"
        /\ pc' = [pc EXCEPT ![o] = "broadcast"]
        /\ UNCHANGED <<req, rowLock>>
     \/ /\ last.action = "pause"
        /\ EndTransaction(o)
  /\ UNCHANGED <<clock, rounds, last, requests, told, granted>>

\* Plausible bug: the shift counts one second too many.
ResumeBeginLate(o) ==
  /\ last.action = "pause"
  /\ Begin(o, "resume", last.round, 1 + clock - last.at, "load")

\* resume: the shift is the time since the pause, at least one second.
ResumeBegin(o) ==
  /\ last.action = "pause"
  /\ LET paused == clock - last.at
     IN  Begin(o, "resume", last.round, IF paused > 1 THEN paused ELSE 1,
               "load")

\* resume: last_log.round is fetched by a query of its own.
LoadRound(o) ==
  /\ pc[o] = "load"
  /\ pc' = [pc EXCEPT ![o] = "active"]
  /\ req' = [req EXCEPT ![o].ends = rounds[req[o].log.round].ends_at]
  /\ UNCHANGED <<clock, rounds, last, requests, rowLock, told, granted>>

\* extend: only inside a round.
ExtendBegin(o, extra) ==
  /\ Phase.phase = IN_ROUND
  /\ Begin(o, "extend", Phase.round, extra, "active")

\* active_round.ends_at += shift; save(): the UPDATE waits for the row and
\* must satisfy the constraint round_ends_after_start.
WriteActive(o) ==
  /\ pc[o] = "active"
  /\ LET r == req[o].log.round
     IN  /\ rowLock[r] = NoOp
         /\ \/ /\ req[o].ends + req[o].shift > rounds[r].starts_at
               /\ rowLock' = [rowLock EXCEPT ![r] = o]
               /\ pc' = [pc EXCEPT ![o] = "rest"]
               /\ UNCHANGED req
            \/ /\ req[o].ends + req[o].shift <= rounds[r].starts_at
               /\ EndTransaction(o)
  /\ UNCHANGED <<clock, rounds, last, requests, told, granted>>

\* SELECT of the rounds after the active one.
ReadRest(o) ==
  /\ pc[o] = "rest"
  /\ pc' = [pc EXCEPT ![o] = "later"]
  /\ req' = [req EXCEPT ![o].rest = rounds]
  /\ UNCHANGED <<clock, rounds, last, requests, rowLock, told, granted>>

\* Plausible bug: the later rounds are written from the last one down.
WriteLaterDescending(o) ==
  LET row == NumRounds + 1 + req[o].log.round - req[o].next
  IN  /\ pc[o] = "later"
      /\ \/ /\ req[o].next \in Rounds
            /\ rowLock[row] = NoOp
            /\ rowLock' = [rowLock EXCEPT ![row] = o]
            /\ req' = [req EXCEPT ![o].next = @ + 1]
            /\ UNCHANGED pc
         \/ /\ req[o].next \notin Rounds
            /\ pc' = [pc EXCEPT ![o] = "broadcast"]
            /\ UNCHANGED <<req, rowLock>>
      /\ UNCHANGED <<clock, rounds, last, requests, told, granted>>

\* One UPDATE per later round, in the order of their numbers; each waits for
\* its row.  After the last one the log row is created.
WriteLater(o) ==
  /\ pc[o] = "later"
  /\ \/ /\ req[o].next \in Rounds
        /\ rowLock[req[o].next] = NoOp
        /\ rowLock' = [rowLock EXCEPT ![req[o].next] = o]
        /\ req' = [req EXCEPT ![o].next = @ + 1]
        /\ UNCHANGED pc
     \/ /\ req[o].next \notin Rounds
        /\ pc' = [pc EXCEPT ![o] = "broadcast"]
        /\ UNCHANGED <<req, rowLock>>
  /\ UNCHANGED <<clock, rounds, last, requests, told, granted>>

\* group_send to the event group, still inside the transaction.
Broadcast(o) ==
  /\ pc[o] = "broadcast"
  /\ told' = CASE req[o].log.action = "pause"  -> "paused"
               [] req[o].log.action = "resume" -> "running"
               [] OTHER -> told
  /\ pc' = [pc EXCEPT ![o] = "commit"]
  /\ UNCHANGED <<clock, rounds, last, requests, req, rowLock, granted>>

\* The timetable request o commits.
Shifted(o) ==
  LET row == req[o].log
      d == req[o].shift
  IN  [r \in Rounds |->
         IF row.action = "pause" \/ r < row.round THEN rounds[r]
         ELSE IF r = row.round
         THEN [rounds[r] EXCEPT !.ends_at = req[o].ends + d]
         ELSE [starts_at |-> req[o].rest[r].starts_at + d,
               ends_at |-> req[o].rest[r].ends_at + d]]

\* Plausible bug: only the active round is moved, not the later ones.
CommitActiveOnly(o) ==
  /\ pc[o] = "commit"
  /\ rounds' = [r \in Rounds |->
                  IF r = req[o].log.round THEN Shifted(o)[r] ELSE rounds[r]]
  /\ last' = IF req[o].log.stamp > last.stamp THEN req[o].log ELSE last
  /\ granted' = [granted EXCEPT ![req[o].log.round] = @ + req[o].shift]
  /\ EndTransaction(o)
  /\ UNCHANGED <<clock, requests, told>>

\* Plausible bug: the later rounds are moved but not the active one.
CommitRestOnly(o) ==
  /\ pc[o] = "commit"
  /\ rounds' = [r \in Rounds |->
                  IF r = req[o].log.round THEN rounds[r] ELSE Shifted(o)[r]]
  /\ last' = IF req[o].log.stamp > last.stamp THEN req[o].log ELSE last
  /\ granted' = [granted EXCEPT ![req[o].log.round] = @ + req[o].shift]
  /\ EndTransaction(o)
  /\ UNCHANGED <<clock, requests, told>>

\* COMMIT: timetable and log row become visible together.
Commit(o) ==
  /\ pc[o] = "commit"
  /\ rounds' = Shifted(o)
  /\ last' = IF req[o].log.stamp > last.stamp THEN req[o].log ELSE last
  /\ granted' = [granted EXCEPT ![req[o].log.round] = @ + req[o].shift]
  /\ EndTransaction(o)
  /\ UNCHANGED <<clock, requests, told>>

\* The channel layer raises, the connection is lost or the process dies.
Rollback(o) ==
  /\ pc[o] # "idle"
  /\ EndTransaction(o)
  /\ UNCHANGED <<clock, rounds, last, requests, told, granted>>

Tick ==
  /\ clock < MaxClock
  /\ clock' = clock + 1
  /\ UNCHANGED <<rounds, last, requests, pc, req, rowLock, told, granted>>

BeginStep(o) ==
  \/ PauseBegin(o) \/ ResumeBegin(o)
  \/ \E extra \in Extras : ExtendBegin(o, extra)

OpStep(o) ==
  \/ PauseCheck(o) \/ LoadRound(o) \/ WriteActive(o) \/ ReadRest(o)
  \/ WriteLater(o) \/ Broadcast(o) \/ Commit(o)

Next == Tick \/ \E o \in Op : BeginStep(o) \/ OpStep(o) \/ Rollback(o)

Spec == Init /\ [][Next]_vars

\* One operator request at a time: a request starts when no other is served.
SerialNext ==
  \/ Tick
  \/ \E o \in Op : \/ (\A p \in Op : pc[p] = "idle") /\ BeginStep(o)
                   \/ OpStep(o)
                   \/ Rollback(o)

SerialSpec == Init /\ [][SerialNext]_vars

-----------------------------------------------------------------------------
(* Properties *)

(***************************************************************************)
(* resume and extend add exactly the pause or the extra seconds to the     *)
(* round they act on, and no round ever loses or gains time by another     *)
(* round's change: after any history of committed, refused and rolled back *)
(* requests a round lasts its duration plus what it was granted.           *)
(***************************************************************************)
EveryGrantCounts ==
  \A r \in Rounds :
    rounds[r].ends_at - rounds[r].starts_at = RoundDuration + granted[r]

(***************************************************************************)
(* The shift of the later rounds keeps every break at its configured       *)
(* length, so rounds never overlap.                                        *)
(***************************************************************************)
BreaksPreserved ==
  \A r \in Rounds :
    r + 1 \in Rounds =>
      rounds[r + 1].starts_at = rounds[r].ends_at + BreakDuration

(***************************************************************************)
(* resume gives the paused round back the time that was left when it was   *)
(* paused (one second more when both fall into the same second).           *)
(***************************************************************************)
ResumeRestoresRemaining ==
  [][last' # last /\ last'.action = "resume" =>
       rounds'[last'.round].ends_at - last'.at =
         last.remaining + (IF last'.at = last.at THEN 1 ELSE 0)]_vars

(***************************************************************************)
(* The operator is never left without an answer: requests wait for each    *)
(* other's rows, yet every one ends, because all of them write the rows in *)
(* the order of the round numbers.                                         *)
(***************************************************************************)
EveryRequestEnds == \A o \in Op : (pc[o] # "idle") ~> (pc[o] = "idle")

=============================================================================
