--------------------------- MODULE RoundScheduler ---------------------------
(***************************************************************************)
(* The round timetable of apps/events/scheduler.py: how it is computed     *)
(* from an event and which phase of the event an instant falls into.       *)
(* Constant-level operators only; a timetable is a function from round     *)
(* numbers to records of starts_at and ends_at.                            *)
(***************************************************************************)
EXTENDS Integers

CONSTANTS
  NumRounds,           \* Event.num_rounds
  RoundDuration,       \* Event.round_duration
  BreakDuration,       \* Event.break_duration
  PreconnectDuration,  \* 20 seconds in the code
  StartTime            \* Event.start_time

ASSUME ScheduleAssumption ==
  /\ NumRounds \in Nat \ {0}
  /\ RoundDuration \in Nat \ {0}
  /\ BreakDuration \in Nat
  /\ PreconnectDuration \in Nat
  /\ StartTime \in Nat

Rounds == 1..NumRounds
Interval == [starts_at : Int, ends_at : Int]
Timetables == [Rounds -> Interval]

\* calculate_full_schedule: the loop moves the start by a round and a break.
calculate_full_schedule ==
  [r \in Rounds |->
     LET start == StartTime + (r - 1) * (RoundDuration + BreakDuration)
     IN  [starts_at |-> start, ends_at |-> start + RoundDuration]]

\* What resume and extend do to the timetable: round r ends d later and all
\* later rounds move by d.
Shift(rounds, r, d) ==
  [q \in Rounds |->
     CASE q < r -> rounds[q]
       [] q = r -> [rounds[q] EXCEPT !.ends_at = @ + d]
       [] q > r -> [starts_at |-> rounds[q].starts_at + d,
                    ends_at |-> rounds[q].ends_at + d]]

-----------------------------------------------------------------------------
(* get_current_phase *)

NOT_STARTED == "not_started"
PRECONNECT  == "preconnect"
IN_ROUND    == "in_round"
BREAK       == "break"
COMPLETED   == "completed"

InPreconnect(rounds, r, t) ==
  rounds[r].starts_at - PreconnectDuration <= t /\ t < rounds[r].starts_at

InRound(rounds, r, t) == rounds[r].starts_at <= t /\ t < rounds[r].ends_at

\* Plausible bug: the end of a round does not belong to the break after it.
InBreakExclusive(rounds, r, t) ==
  /\ r + 1 \in Rounds
  /\ rounds[r].ends_at < t
  /\ t < rounds[r + 1].starts_at - PreconnectDuration

InBreak(rounds, r, t) ==
  /\ r + 1 \in Rounds
  /\ rounds[r].ends_at <= t
  /\ t < rounds[r + 1].starts_at - PreconnectDuration

\* The loop over the rounds stops at the first one that contains t.
Hits(rounds, t) ==
  {r \in Rounds : \/ InPreconnect(rounds, r, t)
                  \/ InRound(rounds, r, t)
                  \/ InBreak(rounds, r, t)}

FirstHit(rounds, t) ==
  CHOOSE r \in Hits(rounds, t) : \A q \in Hits(rounds, t) : r <= q

NoRound == 0

get_current_phase(rounds, t) ==
  IF t < rounds[1].starts_at - PreconnectDuration
  THEN [phase |-> NOT_STARTED, round |-> NoRound]
  ELSE IF Hits(rounds, t) # {}
  THEN LET r == FirstHit(rounds, t)
       IN  [phase |-> IF InPreconnect(rounds, r, t) THEN PRECONNECT
                      ELSE IF InRound(rounds, r, t) THEN IN_ROUND ELSE BREAK,
            round |-> r]
  ELSE IF t >= rounds[NumRounds].ends_at
  THEN [phase |-> COMPLETED, round |-> NumRounds]
  ELSE [phase |-> NOT_STARTED, round |-> NoRound]

=============================================================================
