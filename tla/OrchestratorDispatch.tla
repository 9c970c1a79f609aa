------------------------ MODULE OrchestratorDispatch ------------------------
(***************************************************************************)
(* OrchestratorRealtime.dispatch of apps/events/orchestrator.py: lifecycle *)
(* messages of an event, sent by one or more dispatcher processes.         *)
(*                                                                         *)
(* A dispatch reads the time and the timetable once, derives the messages  *)
(* the phase calls for and, for each of them, looks for its mark in the    *)
(* shared cache, publishes it and sets the mark: three separate steps.     *)
(* The stream is what the groups of one participant carry; a publication   *)
(* that fails is logged and forgotten, and its mark is set all the same.   *)
(***************************************************************************)
EXTENDS RoundScheduler, Sequences

CONSTANTS
  Dispatcher,   \* processes that call dispatch as leader
  FinalSeconds, \* final_seconds of the round warning
  Extras,       \* seconds an operator may add to the current round
  MaxClock,     \* bound on the time a behaviour lasts
  MaxRoundNumber, \* largest round number the message validators accept
  MaxFaults,    \* bound on the number of crashes and failed publications
  MaxExtends    \* bound on the number of extensions

ASSUME DispatchAssumption ==
  /\ FinalSeconds \in Nat
  /\ Extras \subseteq Nat \ {0}
  /\ MaxClock \in Nat
  /\ MaxRoundNumber \in Nat
  /\ MaxFaults \in Nat
  /\ MaxExtends \in Nat

VARIABLES
  clock,    \* server time
  rounds,   \* the Round rows
  marks,    \* keys marked as sent in the shared cache
  pc,       \* pc[i]: next step of dispatcher i
  todo,     \* todo[i]: keys its current dispatch has not finished with
  stream,   \* messages received by a participant, in order
  extends,  \* extensions so far
  faults,   \* crashes and failed publications so far
  crashed,  \* keys published by a dispatcher that died before it marked them
            \* (history)
  late      \* a second has passed without a completed dispatch (history)

vars == <<clock, rounds, marks, pc, todo, stream, extends, faults, crashed,
          late>>

Kind == {"pairing", "round_start", "warning", "round_end", "event_end"}
Key == [kind : Kind, round : Rounds]
K(kind, r) == [kind |-> kind, round |-> r]

TypeOK ==
  /\ clock \in Nat
  /\ rounds \in Timetables
  /\ marks \subseteq Key
  /\ pc \in [Dispatcher -> {"idle", "get", "send", "mark"}]
  /\ todo \in [Dispatcher -> Seq(Key)]
  /\ stream \in Seq(Key)
  /\ extends \in Nat
  /\ faults \in Nat
  /\ crashed \subseteq Key
  /\ late \in BOOLEAN

Init ==
  /\ clock = 0
  /\ rounds = calculate_full_schedule
  /\ marks = {}
  /\ pc = [i \in Dispatcher |-> "idle"]
  /\ todo = [i \in Dispatcher |-> <<>>]
  /\ stream = <<>>
  /\ extends = 0
  /\ faults = 0
  /\ crashed = {}
  /\ late = FALSE

-----------------------------------------------------------------------------

\* Plausible bug: in a round, round_start is handled before the pairing.
PlanStartFirst(phase, r, remaining) ==
  CASE phase = PRECONNECT -> <<K("pairing", r)>>
    [] phase = IN_ROUND -> <<K("round_start", r), K("pairing", r)>>
    [] phase = BREAK -> <<K("round_end", r)>>
    [] phase = COMPLETED -> <<K("round_end", r), K("event_end", r)>>
    [] OTHER -> <<>>

\* Plausible bug: the warning is only sent strictly below the threshold.
PlanWarnLate(phase, r, remaining) ==
  CASE phase = PRECONNECT -> <<K("pairing", r)>>
    [] phase = IN_ROUND ->
         <<K("pairing", r), K("round_start", r)>>
           \o (IF remaining < FinalSeconds THEN <<K("warning", r)>> ELSE <<>>)
    [] phase = BREAK -> <<K("round_end", r)>>
    [] phase = COMPLETED -> <<K("round_end", r), K("event_end", r)>>
    [] OTHER -> <<>>

\* The _send_once calls of one dispatch, in order.
Plan(phase, r, remaining) ==
  CASE phase = PRECONNECT -> <<K("pairing", r)>>
    [] phase = IN_ROUND ->
         <<K("pairing", r), K("round_start", r)>>
           \o (IF remaining <= FinalSeconds THEN <<K("warning", r)>> ELSE <<>>)
    [] phase = BREAK -> <<K("round_end", r)>>
    [] phase = COMPLETED -> <<K("round_end", r), K("event_end", r)>>
    [] OTHER -> <<>>

CurrentPlan ==
  LET now == get_current_phase(rounds, clock)
  IN  IF now.round = NoRound THEN <<>>
      ELSE Plan(now.phase, now.round, rounds[now.round].ends_at - clock)

\* dispatch: read the phase.
DispatchCall(i) ==
  /\ pc[i] = "idle"
  /\ CurrentPlan # <<>>
  /\ todo' = [todo EXCEPT ![i] = CurrentPlan]
  /\ pc' = [pc EXCEPT ![i] = "get"]
  /\ UNCHANGED <<clock, rounds, marks, stream, extends, faults,
                 crashed, late>>

\* The dispatch goes on with the next key, or returns.
Advance(i) ==
  /\ todo' = [todo EXCEPT ![i] = Tail(@)]
  /\ pc' = [pc EXCEPT ![i] = IF Len(todo[i]) = 1 THEN "idle" ELSE "get"]

\* _send_once: cache.get of the mark.
AlreadySent(i) ==
  /\ pc[i] = "get"
  /\ \/ /\ Head(todo[i]) \in marks
        /\ Advance(i)
     \/ /\ Head(todo[i]) \notin marks
        /\ pc' = [pc EXCEPT ![i] = "send"]
        /\ UNCHANGED todo
  /\ UNCHANGED <<clock, rounds, marks, stream, extends, faults,
                 crashed, late>>

\* validate_payload as the builders of schemas.py call it: messages about a
\* round must carry a round number up to the limit; event_end carries none.
Valid(k) == k.kind = "event_end" \/ k.round <= MaxRoundNumber

\* _send_once: factory(), the broadcast_* method of the key.  A builder that
\* raises ProtocolError ends the whole dispatch before the mark is set.
Publish(i) ==
  LET ok == Valid(Head(todo[i]))
  IN  /\ pc[i] = "send"
      /\ pc' = [pc EXCEPT ![i] = IF ok THEN "mark" ELSE "idle"]
      /\ todo' = [todo EXCEPT ![i] = IF ok THEN @ ELSE <<>>]
      /\ stream' = IF ok THEN Append(stream, Head(todo[i])) ELSE stream
      /\ UNCHANGED <<clock, rounds, marks, extends, faults, crashed, late>>

\* _publish swallows the exception of group_send.
PublishFails(i) ==
  /\ pc[i] = "send"
  /\ Valid(Head(todo[i]))
  /\ pc' = [pc EXCEPT ![i] = "mark"]
  /\ faults < MaxFaults
  /\ faults' = faults + 1
  /\ UNCHANGED <<clock, rounds, marks, todo, stream, extends, crashed,
                 late>>

\* Plausible bug: the message is sent but its mark is not stored.
MarkSentForgotten(i) ==
  /\ pc[i] = "mark"
  /\ Advance(i)
  /\ UNCHANGED <<clock, rounds, marks, stream, extends, faults,
                 crashed, late>>

\* _send_once: cache.set of the mark.
MarkSent(i) ==
  /\ pc[i] = "mark"
  /\ marks' = marks \cup {Head(todo[i])}
  /\ Advance(i)
  /\ UNCHANGED <<clock, rounds, stream, extends, faults,
                 crashed, late>>

\* The process that runs dispatch dies.
Crash(i) ==
  /\ pc[i] # "idle"
  /\ faults < MaxFaults
  /\ faults' = faults + 1
  /\ pc' = [pc EXCEPT ![i] = "idle"]
  /\ todo' = [todo EXCEPT ![i] = <<>>]
  /\ crashed' = IF pc[i] = "mark"
                THEN crashed \cup {Head(todo[i])} ELSE crashed
  /\ UNCHANGED <<clock, rounds, marks, stream, extends, late>>

\* The loop of the event worker runs dispatch once a second; a second in
\* which none has come to its end is a late one.  A message that cannot be
\* built ends a dispatch, and so does the end of its plan.
Quiet == \A i \in Dispatcher : pc[i] = "idle"
Caught ==
  \A n \in 1..Len(CurrentPlan) :
    CurrentPlan[n] \in marks \/ \E m \in 1..n : ~Valid(CurrentPlan[m])

Tick ==
  /\ clock < MaxClock
  /\ clock' = clock + 1
  /\ late' = (late \/ ~Quiet \/ ~Caught)
  /\ UNCHANGED <<rounds, marks, pc, todo, stream, extends, faults, crashed>>

\* OperatorService.extend, as one step.
Extend(d) ==
  LET now == get_current_phase(rounds, clock)
  IN  /\ extends < MaxExtends
      /\ now.phase = IN_ROUND
      /\ rounds' = Shift(rounds, now.round, d)
      /\ extends' = extends + 1
      /\ UNCHANGED <<clock, marks, pc, todo, stream, faults, crashed, late>>

DispatchStep(i) == AlreadySent(i) \/ Publish(i) \/ MarkSent(i)

Next ==
  \/ Tick
  \/ \E d \in Extras : Extend(d)
  \/ \E i \in Dispatcher :
       DispatchCall(i) \/ DispatchStep(i) \/ PublishFails(i) \/ Crash(i)

Spec == Init /\ [][Next]_vars

\* A dispatch that has something to do is called and goes on; time passes.
Fairness ==
  /\ SF_vars(Quiet /\ Caught /\ Tick)
  /\ \A i \in Dispatcher : /\ WF_vars(~Caught /\ DispatchCall(i))
                            /\ WF_vars(DispatchStep(i))

FairSpec == Spec /\ Fairness

-----------------------------------------------------------------------------
(* Properties *)

\* Position of a message in the timeline of the event.
Rank(k) ==
  5 * k.round + CASE k.kind = "pairing" -> 0
                  [] k.kind = "round_start" -> 1
                  [] k.kind = "warning" -> 2
                  [] k.kind = "round_end" -> 3
                  [] k.kind = "event_end" -> 4

(***************************************************************************)
(* "server.pairing -> ... server.round_start -> ... server.round_warning   *)
(* -> server.round_end -> next pairing or server.event_end" (protocol.md,  *)
(* the legal sequence): a participant never receives a message of an       *)
(* earlier stage after one of a later stage, although dispatches are       *)
(* delayed and killed, publications fail and rounds are extended.          *)
(***************************************************************************)
InOrder ==
  \A m, n \in 1..Len(stream) : m < n => Rank(stream[m]) <= Rank(stream[n])

(***************************************************************************)
(* "Idempotent per event/round/message via the shared cache so a second    *)
(* instance (or a later tick) does not re-broadcast" (dispatch): a message *)
(* is repeated only if a dispatcher died between publishing and marking.   *)
(***************************************************************************)
AtMostOnce ==
  \A m, n \in 1..Len(stream) :
    m # n /\ stream[m] = stream[n] => stream[m] \in crashed

\* Everything a paired participant should receive, in order.
Timeline ==
  [n \in 1..(4 * NumRounds + 1) |->
     IF n = 4 * NumRounds + 1 THEN K("event_end", NumRounds)
     ELSE LET r == 1 + (n - 1) \div 4
          IN  CASE n % 4 = 1 -> K("pairing", r)
                [] n % 4 = 2 -> K("round_start", r)
                [] n % 4 = 3 -> K("warning", r)
                [] n % 4 = 0 -> K("round_end", r)]

(***************************************************************************)
(* Unless something fails or a second passes without a dispatch, the       *)
(* participant receives the complete timeline: for every round pairing,    *)
(* start, warning and end, then the end of the event.                      *)
(***************************************************************************)
TimelineIsDelivered == <>[](stream = Timeline) \/ <>(late \/ faults > 0)

(***************************************************************************)
(* "Sent: When the round ends" (protocol.md, server.round_end): once the   *)
(* next round has been announced, the end of this one has been too, unless *)
(* dispatches were late (a break without a dispatch has no other chance).  *)
(***************************************************************************)
RoundEndIsSent ==
  \A r \in Rounds :
    r + 1 \in Rounds /\ K("pairing", r + 1) \in marks /\ ~late =>
      K("round_end", r) \in marks

=============================================================================
