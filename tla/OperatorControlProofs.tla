----------------------- MODULE OperatorControlProofs -----------------------
(***************************************************************************)
(* Proofs about OperatorControl when operator requests do not overlap      *)
(* (SerialSpec), for every timetable, every set of operators and every     *)
(* history of pauses, resumptions, extensions and failures.                *)
(***************************************************************************)
EXTENDS OperatorControl, WellFoundedInduction, TLAPS

(* A set of round numbers that is not empty has a least element, so the     *)
(* loop of get_current_phase stops at one.                                  *)
LEMMA LeastRound ==
  ASSUME NEW S \in SUBSET Rounds, S # {}
  PROVE  \E r \in S : \A q \in S : r <= q
<1> DEFINE R == OpToRel(<, Nat)
<1>1. IsWellFoundedOn(R, Nat)
  BY NatLessThanWellFounded
<1>2. S \subseteq Nat
  BY ScheduleAssumption DEF Rounds
<1> HIDE DEF R
<1>3. PICK r \in S : \A q \in S : ~(<<q, r>> \in R)
  BY <1>1, <1>2, WFMin
<1>4. \A q \in S : ~(q < r)
  BY <1>2, <1>3 DEF R, OpToRel
<1>5. QED
  BY <1>2, <1>3, <1>4

(* What get_current_phase promises of a round it reports as running.        *)
LEMMA PhaseInRound ==
  ASSUME NEW rs \in Timetables, NEW t \in Int,
         get_current_phase(rs, t).phase = IN_ROUND
  PROVE  LET r == get_current_phase(rs, t).round
         IN  r \in Rounds /\ rs[r].starts_at <= t /\ t < rs[r].ends_at
<1> DEFINE f == FirstHit(rs, t)
<1>1. Hits(rs, t) \in SUBSET Rounds
  BY DEF Hits
<1>2. ASSUME Hits(rs, t) # {} PROVE f \in Rounds
  BY <1>1, <1>2, LeastRound DEF FirstHit
<1> HIDE DEF f
<1>3. Hits(rs, t) # {} /\ ~InPreconnect(rs, f, t) /\ InRound(rs, f, t)
      /\ get_current_phase(rs, t).round = f
  BY DEF get_current_phase, NOT_STARTED, PRECONNECT, IN_ROUND, BREAK,
         COMPLETED, f
<1>4. QED
  BY <1>2, <1>3 DEF InRound

-----------------------------------------------------------------------------
(* The inductive invariant *)

\* At most one request is being served.
OneRequest ==
  \A o, p \in Op : pc[o] # "idle" /\ pc[p] # "idle" => o = p

\* What the request being served has read is still what the rows hold.
SnapshotIsFresh ==
  \A o \in Op :
    /\ pc[o] # "idle" => req[o].log.round \in Rounds
    /\ pc[o] \in {"check", "active", "rest", "later", "broadcast", "commit"} =>
         req[o].ends = rounds[req[o].log.round].ends_at
    /\ pc[o] \in {"later", "broadcast", "commit"}
         /\ req[o].log.action # "pause" => req[o].rest = rounds

\* Which requests take which path, and that a pause shifts nothing.
PathsAreSeparate ==
  \A o \in Op :
    /\ pc[o] = "check" => req[o].log.action = "pause"
    /\ pc[o] \in {"load", "active", "rest", "later"} => req[o].log.action # "pause"
    /\ pc[o] # "idle" /\ req[o].log.action = "pause" => req[o].shift = 0

IInv ==
  /\ TypeOK /\ OneRequest /\ SnapshotIsFresh /\ PathsAreSeparate
  /\ EveryGrantCounts /\ BreaksPreserved
  /\ last.action = "pause" => last.round \in Rounds

(* The computed timetable has one interval for every round.                 *)
LEMMA ScheduleType == calculate_full_schedule \in Timetables
<1>1. ASSUME NEW r \in Rounds
      PROVE  (r - 1) * (RoundDuration + BreakDuration) \in Int
  BY ScheduleAssumption DEF Rounds
<1>2. QED
  BY <1>1, ScheduleAssumption DEF calculate_full_schedule, Timetables, Interval

(* In the computed timetable every round has its duration and every break   *)
(* its length.                                                              *)
LEMMA ScheduleShape ==
  /\ \A r \in Rounds : calculate_full_schedule[r].ends_at
                         = calculate_full_schedule[r].starts_at + RoundDuration
  /\ \A r \in Rounds : r + 1 \in Rounds =>
       calculate_full_schedule[r + 1].starts_at
         = calculate_full_schedule[r].ends_at + BreakDuration
<1> DEFINE off == [r \in Int |-> (r - 1) * (RoundDuration + BreakDuration)]
<1>1. \A r \in Rounds : r \in Int /\ r + 1 \in Int
  BY ScheduleAssumption DEF Rounds
<1>2. ASSUME NEW r \in Rounds
      PROVE  /\ off[r] \in Int
             /\ off[r + 1] = off[r] + RoundDuration + BreakDuration
  BY <1>1, ScheduleAssumption
<1>3. ASSUME NEW r \in Rounds
      PROVE  /\ calculate_full_schedule[r].starts_at = StartTime + off[r]
             /\ calculate_full_schedule[r].ends_at = StartTime + off[r] + RoundDuration
  BY <1>1 DEF calculate_full_schedule
<1> HIDE DEF off
<1>4. ASSUME NEW r \in Rounds
      PROVE  calculate_full_schedule[r].ends_at
               = calculate_full_schedule[r].starts_at + RoundDuration
  BY <1>3
<1>5. ASSUME NEW r \in Rounds, r + 1 \in Rounds
      PROVE  calculate_full_schedule[r + 1].starts_at
               = calculate_full_schedule[r].ends_at + BreakDuration
  BY <1>2, <1>3, <1>5, ScheduleAssumption
<1>6. QED
  BY <1>4, <1>5

(* The event starts with the computed timetable and no request.             *)
LEMMA InitEstablishesIInv == Init => IInv
<1> SUFFICES ASSUME Init PROVE IInv
  OBVIOUS
<1>1. TypeOK
  BY ScheduleType, ScheduleAssumption, OperatorAssumption
     DEF Init, TypeOK, Steps, LogRow, NoLog, Request, NoRequest, Actions, NoRound
<1>2. OneRequest /\ SnapshotIsFresh /\ PathsAreSeparate
  BY DEF Init, OneRequest, SnapshotIsFresh, PathsAreSeparate
<1>3. EveryGrantCounts /\ BreaksPreserved
  BY ScheduleShape, ScheduleType, ScheduleAssumption
     DEF Init, EveryGrantCounts, BreaksPreserved, Timetables, Interval
<1>4. last.action # "pause"
  BY DEF Init, NoLog
<1>5. QED
  BY <1>1, <1>2, <1>3, <1>4 DEF IInv

(* The three ways a request begins, as one: it acts on a round of the       *)
(* timetable, and a pause finds time left in it.                            *)
LEMMA BeginShape ==
  ASSUME IInv, NEW o \in Op, BeginStep(o)
  PROVE  \E action \in {"pause", "resume", "extend"}, round \in Rounds,
            shift \in Nat, step \in {"check", "load", "active"} :
           /\ Begin(o, action, round, shift, step)
           /\ action = "pause" <=> step = "check"
           /\ action = "pause" => shift = 0 /\ rounds[round].ends_at - clock \in Nat
<1>1. CASE PauseBegin(o)
  <2>1. /\ Phase.round \in Rounds /\ clock < rounds[Phase.round].ends_at
        /\ Begin(o, "pause", Phase.round, 0, "check")
    BY <1>1, PhaseInRound DEF PauseBegin, Phase, IInv, TypeOK
  <2>2. rounds[Phase.round].ends_at \in Int /\ clock \in Int
    BY <2>1 DEF IInv, TypeOK, Timetables, Interval
  <2>3. rounds[Phase.round].ends_at - clock \in Nat
    BY <2>1, <2>2
  <2>4. QED
    BY <2>1, <2>3
<1>2. CASE ResumeBegin(o)
  <2> DEFINE paused == clock - last.at
             shift == IF paused > 1 THEN paused ELSE 1
  <2>1. last.round \in Rounds /\ Begin(o, "resume", last.round, shift, "load")
    BY <1>2 DEF ResumeBegin, IInv
  <2>2. shift \in Nat
    BY DEF IInv, TypeOK, LogRow
  <2> HIDE DEF shift
  <2>3. QED
    BY <2>1, <2>2
<1>3. ASSUME NEW extra \in Extras, ExtendBegin(o, extra)
      PROVE  \E round \in Rounds : Begin(o, "extend", round, extra, "active")
  BY <1>3, PhaseInRound DEF ExtendBegin, Phase, IInv, TypeOK
<1>4. QED
  BY <1>1, <1>2, <1>3, OperatorAssumption DEF BeginStep

(* Every step keeps the types, in particular the seconds a pause records.   *)
LEMMA StepPreservesTypes ==
  ASSUME IInv, [SerialNext]_vars PROVE TypeOK'
<1> USE DEF TypeOK
<1>0. TypeOK /\ calculate_full_schedule \in Timetables
  BY ScheduleType DEF IInv
<1>1. NoRequest \in Request
  BY <1>0 DEF NoRequest, Request, NoLog, LogRow, Actions, NoRound
<1>2. ASSUME NEW o \in Op, BeginStep(o) PROVE TypeOK'
  <2>1. PICK action \in {"pause", "resume", "extend"}, round \in Rounds,
             shift \in Nat, step \in {"check", "load", "active"} :
          /\ Begin(o, action, round, shift, step)
          /\ action = "pause" => rounds[round].ends_at - clock \in Nat
    BY <1>2, BeginShape
  <2>2. rounds[round].ends_at \in Int /\ round + 1 \in Nat
    BY <1>0, ScheduleAssumption DEF Timetables, Interval, Rounds
  <2>3. req' \in [Op -> Request]
    BY <1>0, <2>1, <2>2 DEF Begin, Request, LogRow, Actions
  <2>4. QED
    BY <1>0, <2>1, <2>3 DEF Begin, Steps
<1>3. ASSUME NEW o \in Op, EndTransaction(o),
             UNCHANGED <<clock, rounds, last, requests, told, granted>>
      PROVE  TypeOK'
  BY <1>0, <1>1, <1>3 DEF EndTransaction, Steps
<1>4. ASSUME NEW o \in Op, PauseCheck(o) PROVE TypeOK'
  BY <1>0, <1>3, <1>4 DEF PauseCheck, Steps
<1>5. ASSUME NEW o \in Op, LoadRound(o) PROVE TypeOK'
  <2>1. rounds[req[o].log.round].ends_at \in Int
    BY <1>0, <1>5 DEF LoadRound, IInv, SnapshotIsFresh, Timetables, Interval
  <2>2. QED
    BY <1>0, <1>5, <2>1 DEF LoadRound, Steps, Request
<1>6. ASSUME NEW o \in Op, WriteActive(o) PROVE TypeOK'
  BY <1>0, <1>3, <1>6 DEF WriteActive, Steps
<1>7. ASSUME NEW o \in Op, ReadRest(o) PROVE TypeOK'
  BY <1>0, <1>7 DEF ReadRest, Steps, Request
<1>8. ASSUME NEW o \in Op, WriteLater(o) PROVE TypeOK'
  <2>1. req[o] \in Request /\ req[o].next + 1 \in Nat
    BY <1>0 DEF Request
  <2>2. req' \in [Op -> Request]
    <3>1. [req[o] EXCEPT !.next = req[o].next + 1] \in Request
      BY <2>1 DEF Request
    <3>2. \/ req' = req
          \/ req' = [req EXCEPT ![o].next = req[o].next + 1]
      BY <1>8 DEF WriteLater
    <3>3. QED
      BY <1>0, <3>1, <3>2
  <2>3. rowLock' \in [Rounds -> Op \cup {NoOp}] /\ pc' \in [Op -> Steps]
    BY <1>0, <1>8 DEF WriteLater, Steps
  <2>4. QED
    BY <1>0, <1>8, <2>2, <2>3 DEF WriteLater
<1>9. ASSUME NEW o \in Op, Broadcast(o) PROVE TypeOK'
  BY <1>0, <1>9 DEF Broadcast, Steps
<1>10. ASSUME NEW o \in Op, Commit(o) PROVE TypeOK'
  <2>1. req[o] \in Request /\ req[o].log \in LogRow /\ req[o].log.round \in Rounds
    BY <1>0, <1>10 DEF Commit, IInv, SnapshotIsFresh, Request
  <2>2. Shifted(o) \in Timetables
    BY <1>0, <2>1 DEF Shifted, Request, Timetables, Interval
  <2>3. /\ rounds' \in Timetables /\ last' \in LogRow
        /\ granted' \in [Rounds -> Nat]
    BY <1>0, <1>10, <2>1, <2>2 DEF Commit, Request
  <2>4. QED
    BY <1>0, <1>1, <1>10, <2>3 DEF Commit, EndTransaction, Steps
<1>11. ASSUME NEW o \in Op, Rollback(o) PROVE TypeOK'
  BY <1>3, <1>11 DEF Rollback
<1>12. CASE Tick
  BY <1>0, <1>12 DEF Tick
<1>13. CASE UNCHANGED vars
  BY <1>0, <1>13 DEF vars
<1>14. QED
  BY <1>2, <1>4, <1>5, <1>6, <1>7, <1>8, <1>9, <1>10, <1>11, <1>12, <1>13
     DEF SerialNext, OpStep

(* Requests do not overlap, so nothing changes under the one being served.  *)
LEMMA StepPreservesRequest ==
  ASSUME IInv, [SerialNext]_vars
  PROVE  OneRequest' /\ SnapshotIsFresh' /\ PathsAreSeparate'
<1> DEFINE Goal == OneRequest' /\ SnapshotIsFresh' /\ PathsAreSeparate'
<1> USE DEF OneRequest, SnapshotIsFresh, PathsAreSeparate
<1>0. TypeOK /\ OneRequest /\ SnapshotIsFresh /\ PathsAreSeparate
  BY DEF IInv
<1>1. ASSUME NEW o \in Op, \A p \in Op : pc[p] = "idle", BeginStep(o) PROVE Goal
  <2>1. PICK action \in {"pause", "resume", "extend"}, round \in Rounds,
             shift \in Nat, step \in {"check", "load", "active"} :
          /\ Begin(o, action, round, shift, step)
          /\ action = "pause" <=> step = "check"
          /\ action = "pause" => shift = 0
    BY <1>1, BeginShape
  <2>2. /\ pc' = [pc EXCEPT ![o] = step]
        /\ req'[o].log.action = action /\ req'[o].log.round = round
        /\ req'[o].shift = shift /\ req'[o].ends = rounds[round].ends_at
        /\ rounds' = rounds
    BY <1>0, <2>1 DEF Begin, TypeOK
  <2>3. pc'[o] = step /\ \A p \in Op : p # o => pc'[p] = "idle"
    BY <1>0, <1>1, <2>2 DEF TypeOK
  <2>4. QED
    BY <2>1, <2>2, <2>3
<1>2. ASSUME NEW o \in Op, pc[o] # "idle", EndTransaction(o)
      PROVE  Goal
  BY <1>0, <1>2 DEF EndTransaction, TypeOK
<1>3. ASSUME NEW o \in Op, PauseCheck(o) PROVE Goal
  BY <1>0, <1>2, <1>3 DEF PauseCheck, TypeOK
<1>4. ASSUME NEW o \in Op, LoadRound(o) PROVE Goal
  BY <1>0, <1>4 DEF LoadRound, TypeOK, Request
<1>5. ASSUME NEW o \in Op, WriteActive(o) PROVE Goal
  BY <1>0, <1>2, <1>5 DEF WriteActive, TypeOK
<1>6. ASSUME NEW o \in Op, ReadRest(o) PROVE Goal
  BY <1>0, <1>6 DEF ReadRest, TypeOK, Request
<1>7. ASSUME NEW o \in Op, WriteLater(o) PROVE Goal
  <2>1. /\ rounds' = rounds
        /\ \A p \in Op : /\ req'[p].log = req[p].log /\ req'[p].ends = req[p].ends
                         /\ req'[p].rest = req[p].rest
                         /\ req'[p].shift = req[p].shift
                         /\ p # o => pc'[p] = pc[p]
    BY <1>0, <1>7 DEF WriteLater, TypeOK, Request
  <2>2. pc[o] = "later" /\ pc'[o] \in {"later", "broadcast"}
    BY <1>0, <1>7 DEF WriteLater, TypeOK
  <2>3. QED
    BY <1>0, <2>1, <2>2
<1>8. ASSUME NEW o \in Op, Broadcast(o) PROVE Goal
  BY <1>0, <1>8 DEF Broadcast, TypeOK
<1>9. ASSUME NEW o \in Op, Commit(o) PROVE Goal
  BY <1>2, <1>9 DEF Commit
<1>10. ASSUME NEW o \in Op, Rollback(o) PROVE Goal
  BY <1>2, <1>10 DEF Rollback
<1>11. CASE Tick
  BY <1>0, <1>11 DEF Tick
<1>12. CASE UNCHANGED vars
  BY <1>0, <1>12 DEF vars
<1>13. QED
  BY <1>1, <1>3, <1>4, <1>5, <1>6, <1>7, <1>8, <1>9, <1>10, <1>11, <1>12
     DEF SerialNext, OpStep

(* With a fresh snapshot a commit moves the timetable by exactly the shift. *)
LEMMA CommitShape ==
  ASSUME IInv, NEW o \in Op, Commit(o)
  PROVE  /\ req[o].log.round \in Rounds /\ req[o].shift \in Nat
         /\ req[o].log.action = "pause" => rounds' = rounds /\ req[o].shift = 0
         /\ req[o].log.action # "pause" =>
              rounds' = Shift(rounds, req[o].log.round, req[o].shift)
<1>1. /\ req[o].log.round \in Rounds /\ req[o].shift \in Nat
      /\ rounds \in Timetables
      /\ req[o].ends = rounds[req[o].log.round].ends_at
      /\ req[o].log.action # "pause" => req[o].rest = rounds
      /\ req[o].log.action = "pause" => req[o].shift = 0
  BY DEF IInv, TypeOK, Request, SnapshotIsFresh, PathsAreSeparate, Commit
<1>2. rounds' = Shifted(o)
  BY DEF Commit
<1>3. ASSUME req[o].log.action = "pause" PROVE Shifted(o) = rounds
  BY <1>1, <1>3 DEF Shifted, Timetables
<1>4. ASSUME req[o].log.action # "pause"
      PROVE  Shifted(o) = Shift(rounds, req[o].log.round, req[o].shift)
  <2> DEFINE r == req[o].log.round
             d == req[o].shift
  <2>1. ASSUME NEW q \in Rounds
        PROVE  Shifted(o)[q] = Shift(rounds, r, d)[q]
    <3>1. q \in Int /\ r \in Int
      BY <1>1, ScheduleAssumption DEF Rounds
    <3>2. CASE q < r
      BY <1>1, <1>4, <3>1, <3>2 DEF Shifted, Shift
    <3>3. CASE q = r
      BY <1>1, <1>4, <3>1, <3>3 DEF Shifted, Shift, Timetables, Interval
    <3>4. CASE q > r
      BY <1>1, <1>4, <3>1, <3>4 DEF Shifted, Shift
    <3>5. QED
      BY <3>1, <3>2, <3>3, <3>4
  <2>2. QED
    BY <2>1 DEF Shifted, Shift
<1>5. QED
  BY <1>1, <1>2, <1>3, <1>4

(* A shift by d seconds gives round r exactly d more and moves every later  *)
(* round as a whole.                                                        *)
LEMMA ShiftKeepsShape ==
  ASSUME NEW tt \in Timetables, NEW r \in Rounds, NEW d \in Nat
  PROVE  /\ \A q \in Rounds :
              Shift(tt, r, d)[q].ends_at - Shift(tt, r, d)[q].starts_at =
                tt[q].ends_at - tt[q].starts_at + (IF q = r THEN d ELSE 0)
         /\ \A q \in Rounds : q + 1 \in Rounds =>
              Shift(tt, r, d)[q + 1].starts_at - Shift(tt, r, d)[q].ends_at =
                tt[q + 1].starts_at - tt[q].ends_at
<1>1. \A q \in Rounds : q \in Int /\ tt[q].starts_at \in Int /\ tt[q].ends_at \in Int
  BY ScheduleAssumption DEF Timetables, Interval, Rounds
<1>2. \A q \in Rounds :
        /\ Shift(tt, r, d)[q].starts_at = tt[q].starts_at + (IF q > r THEN d ELSE 0)
        /\ Shift(tt, r, d)[q].ends_at = tt[q].ends_at + (IF q >= r THEN d ELSE 0)
  BY <1>1 DEF Shift, Timetables, Interval
<1>3. QED
  BY <1>1, <1>2

(* Only a commit touches the timetable, the log or the grants.              *)
LEMMA OthersKeepTimetable ==
  ASSUME IInv, [SerialNext]_vars, \A o \in Op : ~Commit(o)
  PROVE  UNCHANGED <<rounds, last, granted>>
BY DEF SerialNext, BeginStep, OpStep, PauseBegin, ResumeBegin, ExtendBegin,
       Begin, PauseCheck, LoadRound, WriteActive, ReadRest, WriteLater,
       Broadcast, Rollback, Tick, vars

(* The timetable keeps its shape: a commit moves it by the granted seconds. *)
LEMMA StepPreservesTimetable ==
  ASSUME IInv, [SerialNext]_vars
  PROVE  /\ EveryGrantCounts' /\ BreaksPreserved'
         /\ last'.action = "pause" => last'.round \in Rounds
<1>1. ASSUME NEW o \in Op, Commit(o)
      PROVE  /\ EveryGrantCounts' /\ BreaksPreserved'
             /\ last'.action = "pause" => last'.round \in Rounds
  <2> DEFINE r == req[o].log.round
             d == req[o].shift
  <2>1. r \in Rounds /\ d \in Nat /\ rounds \in Timetables
        /\ granted \in [Rounds -> Nat]
    BY <1>1, CommitShape DEF IInv, TypeOK
  <2>2. granted' = [granted EXCEPT ![r] = @ + d]
    BY <1>1 DEF Commit
  <2>3. /\ \A q \in Rounds :
             rounds'[q].ends_at - rounds'[q].starts_at =
               rounds[q].ends_at - rounds[q].starts_at + (IF q = r THEN d ELSE 0)
        /\ \A q \in Rounds : q + 1 \in Rounds =>
             rounds'[q + 1].starts_at - rounds'[q].ends_at =
               rounds[q + 1].starts_at - rounds[q].ends_at
    <3>1. CASE req[o].log.action = "pause"
      <4>1. rounds' = rounds /\ d = 0
        BY <1>1, <3>1, CommitShape
      <4>2. \A q \in Rounds : rounds[q].ends_at - rounds[q].starts_at \in Int
        BY <2>1 DEF Timetables, Interval
      <4>3. QED
        BY <4>1, <4>2
    <3>2. CASE req[o].log.action # "pause"
      <4>1. rounds' = Shift(rounds, r, d)
        BY <1>1, <3>2, CommitShape
      <4>2. QED
        BY <2>1, <4>1, ShiftKeepsShape
    <3>3. QED
      BY <3>1, <3>2
  <2>4. \A q \in Rounds : /\ rounds[q].starts_at \in Int /\ rounds[q].ends_at \in Int
                          /\ rounds'[q].starts_at \in Int /\ rounds'[q].ends_at \in Int
    <3>1. rounds' \in Timetables
      BY StepPreservesTypes DEF TypeOK
    <3>2. QED
      BY <2>1, <3>1 DEF Timetables, Interval
  <2>5. EveryGrantCounts'
    BY <2>1, <2>2, <2>3, <2>4, ScheduleAssumption DEF EveryGrantCounts, IInv
  <2>6. BreaksPreserved'
    BY <2>3, <2>4, ScheduleAssumption DEF BreaksPreserved, IInv
  <2>7. last'.action = "pause" => last'.round \in Rounds
    BY <1>1, <2>1 DEF Commit, IInv
  <2>8. QED
    BY <2>5, <2>6, <2>7
<1>2. CASE \A o \in Op : ~Commit(o)
  BY <1>2, OthersKeepTimetable DEF IInv, EveryGrantCounts, BreaksPreserved
<1>3. QED
  BY <1>1, <1>2

(* The conjunction is inductive for requests that do not overlap            *)
(* (operator.py: pause, resume, extend, each a transaction of its own).     *)
THEOREM OperatorInvariant == SerialSpec => []IInv
<1>1. Init => IInv
  BY InitEstablishesIInv
<1>2. IInv /\ [SerialNext]_vars => IInv'
  BY StepPreservesTypes, StepPreservesRequest, StepPreservesTimetable DEF IInv
<1>3. QED
  BY <1>1, <1>2, PTL DEF SerialSpec

(* Types, for any rounds, durations, operators and extensions; among them   *)
(* that the seconds remaining in a pause row are never negative.            *)
THEOREM OperatorTypes == SerialSpec => []TypeOK
<1>1. IInv => TypeOK
  BY DEF IInv
<1>2. QED
  BY <1>1, OperatorInvariant, PTL

(* Without overlapping requests no granted second is ever lost: each round  *)
(* lasts its duration plus what resume and extend gave it.                  *)
THEOREM OperatorGrants == SerialSpec => []EveryGrantCounts
<1>1. IInv => EveryGrantCounts
  BY DEF IInv
<1>2. QED
  BY <1>1, OperatorInvariant, PTL

(* Without overlapping requests every break keeps its configured length,    *)
(* whatever was paused, resumed, extended or rolled back.                   *)
THEOREM OperatorBreaks == SerialSpec => []BreaksPreserved
<1>1. IInv => BreaksPreserved
  BY DEF IInv
<1>2. QED
  BY <1>1, OperatorInvariant, PTL

-----------------------------------------------------------------------------
(* What a resumption restores *)

\* A pause row tells how much of its round was left, by the timetable as it
\* still is; a request in service is newer than the newest row, and a
\* resumption still finds the pause it was computed from.
PauseIsCurrent ==
  /\ last.stamp <= requests
  /\ last.action = "pause" =>
       /\ last.at <= clock
       /\ rounds[last.round].ends_at - last.at = last.remaining
  /\ \A o \in Op : pc[o] # "idle" =>
       LET row == req[o].log
       IN  /\ last.stamp < row.stamp /\ row.stamp <= requests
           /\ row.at <= clock
           /\ row.action = "pause" =>
                row.remaining = rounds[row.round].ends_at - row.at
           /\ row.action = "resume" =>
                /\ last.action = "pause" /\ last.round = row.round
                /\ last.at <= row.at
                /\ req[o].shift = IF row.at - last.at > 1
                                  THEN row.at - last.at ELSE 1

(* Between its beginning and its end a request keeps its log row and shift. *)
LEMMA ServedRequestIsKept ==
  ASSUME IInv, NEW o \in Op, OpStep(o) \/ Rollback(o), ~Commit(o)
  PROVE  /\ UNCHANGED <<clock, rounds, last, requests>>
         /\ \A p \in Op : pc'[p] # "idle" =>
              /\ pc[p] # "idle"
              /\ req'[p].log = req[p].log /\ req'[p].shift = req[p].shift
<1> DEFINE Goal ==
      /\ UNCHANGED <<clock, rounds, last, requests>>
      /\ \A p \in Op : pc'[p] # "idle" =>
           /\ pc[p] # "idle"
           /\ req'[p].log = req[p].log /\ req'[p].shift = req[p].shift
<1>0. pc \in [Op -> Steps] /\ req \in [Op -> Request]
  BY DEF IInv, TypeOK
<1>1. ASSUME EndTransaction(o), UNCHANGED <<clock, rounds, last, requests>>
      PROVE  Goal
  BY <1>0, <1>1 DEF EndTransaction
<1>2. CASE PauseCheck(o)
  BY <1>0, <1>1, <1>2 DEF PauseCheck
<1>3. CASE LoadRound(o)
  BY <1>0, <1>3 DEF LoadRound, Request
<1>4. CASE WriteActive(o)
  BY <1>0, <1>1, <1>4 DEF WriteActive
<1>5. CASE ReadRest(o)
  BY <1>0, <1>5 DEF ReadRest, Request
<1>6. CASE WriteLater(o)
  BY <1>0, <1>6 DEF WriteLater, Request
<1>7. CASE Broadcast(o)
  BY <1>0, <1>7 DEF Broadcast
<1>8. CASE Rollback(o)
  BY <1>1, <1>8 DEF Rollback
<1>9. QED
  BY <1>2, <1>3, <1>4, <1>5, <1>6, <1>7, <1>8 DEF OpStep

(* A step keeps the pause row true: only a commit moves the round's end,    *)
(* and its own row, being newer, takes the place of the pause.              *)
LEMMA StepPreservesPause ==
  ASSUME IInv, PauseIsCurrent, [SerialNext]_vars PROVE PauseIsCurrent'
<1> USE DEF PauseIsCurrent
<1>0. /\ clock \in Nat /\ requests \in Nat /\ last \in LogRow
      /\ pc \in [Op -> Steps] /\ req \in [Op -> Request]
  BY DEF IInv, TypeOK
<1>1. \A p \in Op : req[p].log \in LogRow
  BY <1>0 DEF Request
<1>2. ASSUME NEW o \in Op, \A p \in Op : pc[p] = "idle", BeginStep(o)
      PROVE  PauseIsCurrent'
  <2>1. /\ UNCHANGED <<clock, rounds, last>> /\ requests' = requests + 1
        /\ \A p \in Op : pc'[p] # "idle" => p = o
        /\ req'[o].log.stamp = requests + 1 /\ req'[o].log.at = clock
        /\ req'[o].log.action = "pause" =>
             req'[o].log.remaining = rounds[req'[o].log.round].ends_at - clock
    BY <1>0, <1>2 DEF BeginStep, PauseBegin, ResumeBegin, ExtendBegin, Begin
  <2>2. req'[o].log.action = "resume" =>
          /\ last.action = "pause" /\ last.round = req'[o].log.round
          /\ req'[o].shift = IF clock - last.at > 1 THEN clock - last.at ELSE 1
    BY <1>0, <1>2 DEF BeginStep, PauseBegin, ResumeBegin, ExtendBegin, Begin
  <2>3. last.stamp \in Nat /\ last.at \in Nat
    BY <1>0 DEF LogRow
  <2>4. QED
    BY <1>0, <2>1, <2>2, <2>3
<1>3. ASSUME NEW o \in Op, Commit(o) PROVE PauseIsCurrent'
  <2> DEFINE row == req[o].log
  <2>1. /\ pc[o] # "idle" /\ \A p \in Op : pc'[p] = "idle"
        /\ UNCHANGED <<clock, requests>>
    BY <1>0, <1>3 DEF Commit, EndTransaction, IInv, OneRequest
  <2>2. last' = row
    BY <1>3, <2>1 DEF Commit
  <2>3. row.action = "pause" => rounds' = rounds
    BY <1>3, CommitShape
  <2>4. QED
    BY <2>1, <2>2, <2>3
<1>4. ASSUME NEW o \in Op, OpStep(o) \/ Rollback(o), ~Commit(o)
      PROVE  PauseIsCurrent'
  BY <1>4, ServedRequestIsKept
<1>5. CASE Tick
  <2>1. last.at \in Nat /\ \A p \in Op : req[p].log.at \in Nat
    BY <1>0, <1>1 DEF LogRow
  <2>2. QED
    BY <1>0, <1>5, <2>1 DEF Tick
<1>6. CASE UNCHANGED vars
  BY <1>6 DEF vars
<1>7. QED
  BY <1>2, <1>3, <1>4, <1>5, <1>6 DEF SerialNext

(* resume (operator.py) gives the paused round back what was left of it,    *)
(* for every timetable and however long the pause was, also across the      *)
(* round's scheduled end; within the same second it adds one.               *)
THEOREM OperatorResume == SerialSpec => ResumeRestoresRemaining
<1> DEFINE Restores ==
      last' # last /\ last'.action = "resume" =>
        rounds'[last'.round].ends_at - last'.at =
          last.remaining + (IF last'.at = last.at THEN 1 ELSE 0)
<1>1. Init => PauseIsCurrent
  BY DEF Init, PauseIsCurrent, NoLog
<1>2. ASSUME IInv, PauseIsCurrent, [SerialNext]_vars PROVE Restores
  <2>1. ASSUME NEW o \in Op, Commit(o), last'.action = "resume" PROVE Restores
    <3> DEFINE row == req[o].log
               d == req[o].shift
    <3>1. /\ rounds \in Timetables /\ row \in LogRow /\ last \in LogRow
          /\ row.round \in Rounds /\ d \in Nat
      BY <1>2, <2>1, CommitShape DEF IInv, TypeOK, Request
    <3>2. pc[o] # "idle" /\ last' = row
      BY <1>2, <2>1 DEF Commit, PauseIsCurrent
    <3>3. rounds'[row.round].ends_at = rounds[row.round].ends_at + d
      BY <1>2, <2>1, <3>1, <3>2, CommitShape DEF Shift, Timetables, Interval
    <3>4. /\ rounds[row.round].ends_at - last.at = last.remaining
          /\ last.at <= row.at
          /\ d = IF row.at - last.at > 1 THEN row.at - last.at ELSE 1
      BY <1>2, <2>1, <3>2 DEF PauseIsCurrent
    <3>5. /\ rounds[row.round].ends_at \in Int /\ last.at \in Nat
          /\ row.at \in Nat /\ last.remaining \in Nat
      BY <3>1 DEF Timetables, Interval, LogRow
    <3>6. rounds[row.round].ends_at + d - row.at =
            last.remaining + (IF row.at = last.at THEN 1 ELSE 0)
      <4> HIDE DEF row, d
      <4>1. QED
        BY <3>4, <3>5
    <3>7. QED
      BY <3>1, <3>2, <3>3, <3>5, <3>6
  <2>2. CASE \A o \in Op : ~Commit(o)
    BY <1>2, <2>2, OthersKeepTimetable
  <2>3. QED
    BY <2>1, <2>2
<1>3. ASSUME IInv, PauseIsCurrent, [SerialNext]_vars PROVE [Restores]_vars
  BY <1>2, <1>3
<1>4. IInv /\ PauseIsCurrent /\ [SerialNext]_vars => PauseIsCurrent'
  BY StepPreservesPause
<1> HIDE DEF Restores
<1>5. SerialSpec => [][Restores]_vars
  BY <1>1, <1>3, <1>4, OperatorInvariant, PTL DEF SerialSpec
<1>6. QED
  BY <1>5 DEF ResumeRestoresRemaining, Restores

=============================================================================
