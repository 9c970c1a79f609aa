--------------------- MODULE OrchestratorDispatchProofs ---------------------
(***************************************************************************)
(* Proofs about OrchestratorDispatch, for every timetable, every number of *)
(* rounds and every history of delays, crashes, failed publications and    *)
(* extensions.  The order of the messages and their uniqueness are proved  *)
(* for one dispatcher at a time, which is what the leader lease provides;  *)
(* that no round ends unannounced is proved for any number of them.        *)
(*                                                                         *)
(* Then the proofs about CallRoom, which has the same dispatchers: what a  *)
(* participant sees agrees with the server, for any number of dispatchers, *)
(* operator actions, crashes and disconnections.                           *)
(***************************************************************************)
EXTENDS CallRoom, SequenceTheorems, WellFoundedInduction, TLAPS

-----------------------------------------------------------------------------
(* The inductive invariant *)

\* Rounds take time and follow each other after their breaks.
Sound(rs) ==
  /\ \A r \in Rounds : rs[r].starts_at < rs[r].ends_at
  /\ \A q, r \in Rounds : q < r => rs[q].ends_at + BreakDuration <= rs[r].starts_at

\* The time for a message has come.
Due(k) ==
  /\ k.kind = "pairing" =>
       /\ rounds[k.round].starts_at - PreconnectDuration <= clock
       /\ \A q \in Rounds : q < k.round => rounds[q].ends_at <= clock
  /\ k.kind \in {"round_start", "warning"} => rounds[k.round].starts_at <= clock
  /\ k.kind \in {"round_end", "event_end"} => rounds[k.round].ends_at <= clock
  /\ k.kind = "event_end" => k.round = NumRounds

\* Nothing is sent, marked or planned before its time, not even by a dispatch
\* that was delayed or when the round was extended meanwhile.
AllDue ==
  /\ \A k \in marks : Due(k)
  /\ \A n \in 1..Len(stream) : Due(stream[n])
  /\ \A i \in Dispatcher : \A n \in 1..Len(todo[i]) : Due(todo[i][n])

\* A dispatch that runs has a message to look at, and marks valid ones only.
BusyHasWork ==
  /\ \A i \in Dispatcher : pc[i] # "idle" => Len(todo[i]) >= 1
  /\ \A i \in Dispatcher : pc[i] = "mark" => Valid(Head(todo[i]))
  /\ \A k \in marks : Valid(k)

\* The break after round r does not pass without a dispatch unless late.
BreakIsUsed ==
  \A r \in Rounds :
    /\ r + 1 \in Rounds /\ r <= MaxRoundNumber /\ ~late
    /\ rounds[r + 1].starts_at - PreconnectDuration <= clock
    => K("round_end", r) \in marks

\* Holds for any number of dispatchers.
BInv == TypeOK /\ Sound(rounds) /\ AllDue /\ BusyHasWork

-----------------------------------------------------------------------------
(* One dispatcher *)

\* The messages a dispatch handles before k.
Before(k) ==
  CASE k.kind = "round_start" -> {K("pairing", k.round)}
    [] k.kind = "warning" -> {K("pairing", k.round), K("round_start", k.round)}
    [] k.kind = "event_end" -> {K("round_end", k.round)}
    [] OTHER -> {}

\* Whatever was sent had everything before it marked; whatever is planned has
\* it marked or planned earlier.
BeforeIsMarked ==
  /\ \A n \in 1..Len(stream) : Before(stream[n]) \subseteq marks
  /\ \A i \in Dispatcher : \A n \in 1..Len(todo[i]) :
       \A k \in Before(todo[i][n]) :
         k \in marks \/ \E m \in 1..(n - 1) : todo[i][m] = k

\* A plan is in order, and what it holds beyond the marks is not behind
\* anything that was sent.
PlanIsAhead ==
  \A i \in Dispatcher :
    /\ \A m, n \in 1..Len(todo[i]) : m < n => Rank(todo[i][m]) <= Rank(todo[i][n])
    /\ \A n \in 1..Len(todo[i]) :
         todo[i][n] \in marks \/
         \A m \in 1..Len(stream) : Rank(stream[m]) <= Rank(todo[i][n])

\* The mark looked for is still missing when the message is sent.
StillUnmarked ==
  \A i \in Dispatcher : pc[i] = "send" => Head(todo[i]) \notin marks

\* What was sent is marked, or about to be, or its dispatcher died.
SentIsAccounted ==
  \A n \in 1..Len(stream) :
    \/ stream[n] \in marks \cup crashed
    \/ \E i \in Dispatcher : pc[i] = "mark" /\ Head(todo[i]) = stream[n]

OneDispatcher == \A i, j \in Dispatcher : i = j

SInv ==
  /\ BeforeIsMarked /\ PlanIsAhead /\ StillUnmarked /\ SentIsAccounted
  /\ InOrder /\ AtMostOnce

-----------------------------------------------------------------------------
(* The timetable *)

(* The types of the constants and the round numbers.                        *)
LEMMA ConstantTypes ==
  /\ NumRounds \in Nat \ {0} /\ RoundDuration \in Nat \ {0}
  /\ BreakDuration \in Nat /\ PreconnectDuration \in Nat /\ StartTime \in Nat
  /\ MaxRoundNumber \in Nat
  /\ \A r \in Rounds : r \in Nat /\ 1 <= r /\ r <= NumRounds
  /\ NumRounds \in Rounds /\ 1 \in Rounds
BY ScheduleAssumption, DispatchAssumption DEF Rounds

(* A round number is a number.                                              *)
LEMMA RoundTypes ==
  ASSUME NEW r \in Rounds
  PROVE  r \in Nat /\ r \in Int /\ 1 <= r /\ r <= NumRounds
BY ConstantTypes

(* The times of a timetable are numbers.                                    *)
LEMMA TimetableTypes ==
  ASSUME NEW rs \in Timetables, NEW r \in Rounds
  PROVE  rs[r].starts_at \in Int /\ rs[r].ends_at \in Int
BY DEF Timetables, Interval

(* A round that follows another starts at least a period later.             *)
LEMMA LaterPeriods ==
  ASSUME NEW a \in Nat, NEW b \in Nat, NEW d \in Nat, a < b
  PROVE  a * d \in Nat /\ b * d \in Nat /\ a * d + d <= b * d
<1>1. PICK c \in Nat : b = a + 1 + c
  <2>1. b - a - 1 \in Nat /\ b = a + 1 + (b - a - 1)
    OBVIOUS
  <2>2. QED
    BY <2>1
<1>2. b * d = a * d + d + c * d
  BY <1>1
<1>3. a * d \in Nat /\ c * d \in Nat
  BY <1>1
<1>4. QED
  BY <1>2, <1>3

(* The computed timetable is sound, and starts with the event.              *)
LEMMA ScheduleIsSound ==
  /\ calculate_full_schedule \in Timetables
  /\ Sound(calculate_full_schedule)
  /\ calculate_full_schedule[1].starts_at >= 0
<1> DEFINE off == [r \in Nat |-> (r - 1) * (RoundDuration + BreakDuration)]
           s == calculate_full_schedule
<1> USE ConstantTypes
<1>1. \A r \in Rounds : off[r] \in Nat
  <2> SUFFICES ASSUME NEW r \in Rounds PROVE off[r] \in Nat
    OBVIOUS
  <2>1. r - 1 \in Nat /\ RoundDuration + BreakDuration \in Nat
    OBVIOUS
  <2>2. QED
    BY <2>1
<1>2. \A q, r \in Rounds :
        q < r => off[q] + RoundDuration + BreakDuration <= off[r]
  <2> SUFFICES ASSUME NEW q \in Rounds, NEW r \in Rounds, q < r
               PROVE  off[q] + RoundDuration + BreakDuration <= off[r]
    OBVIOUS
  <2>1. /\ q - 1 \in Nat /\ r - 1 \in Nat /\ q - 1 < r - 1
        /\ RoundDuration + BreakDuration \in Nat
    OBVIOUS
  <2>2. (q - 1) * (RoundDuration + BreakDuration) + (RoundDuration + BreakDuration)
          <= (r - 1) * (RoundDuration + BreakDuration)
    BY <2>1, LaterPeriods
  <2>3. off[q] + (RoundDuration + BreakDuration) <= off[r]
    BY <2>2
  <2> HIDE DEF off
  <2>4. QED
    BY <1>1, <2>3
<1>3. \A r \in Rounds :
        s[r] = [starts_at |-> StartTime + off[r],
                ends_at |-> StartTime + off[r] + RoundDuration]
  BY DEF calculate_full_schedule
<1>4. s = [r \in Rounds |-> s[r]]
  BY DEF calculate_full_schedule
<1> HIDE DEF off, s
<1>5. s \in Timetables
  BY <1>1, <1>3, <1>4 DEF Timetables, Interval
<1>6. \A r \in Rounds : /\ s[r].starts_at = StartTime + off[r]
                        /\ s[r].ends_at = StartTime + off[r] + RoundDuration
  <2> SUFFICES ASSUME NEW r \in Rounds
               PROVE  /\ s[r].starts_at = StartTime + off[r]
                      /\ s[r].ends_at = StartTime + off[r] + RoundDuration
    OBVIOUS
  <2>1. s[r] = [starts_at |-> StartTime + off[r],
                ends_at |-> StartTime + off[r] + RoundDuration]
    BY <1>3
  <2>2. StartTime + off[r] \in Nat /\ StartTime + off[r] + RoundDuration \in Nat
    BY <1>1
  <2>3. QED
    BY <2>1, <2>2
<1>7. Sound(s)
  <2>1. \A r \in Rounds : s[r].starts_at < s[r].ends_at
    BY <1>1, <1>6
  <2>2. \A q, r \in Rounds :
          q < r => s[q].ends_at + BreakDuration <= s[r].starts_at
    <3> SUFFICES ASSUME NEW q \in Rounds, NEW r \in Rounds, q < r
                 PROVE  s[q].ends_at + BreakDuration <= s[r].starts_at
      OBVIOUS
    <3>1. off[q] + RoundDuration + BreakDuration <= off[r]
      BY <1>2
    <3>2. s[q].ends_at = StartTime + off[q] + RoundDuration
          /\ s[r].starts_at = StartTime + off[r]
      BY <1>6
    <3>3. off[q] \in Nat /\ off[r] \in Nat
      BY <1>1
    <3>4. QED
      BY <3>1, <3>2, <3>3, ConstantTypes
  <2>3. QED
    BY <2>1, <2>2 DEF Sound
<1>8. s[1].starts_at >= 0
  BY <1>1, <1>6
<1>9. QED
  BY <1>5, <1>7, <1>8 DEF s

(* What extend does to the times, round by round.                           *)
LEMMA ShiftedTimes ==
  ASSUME NEW rs \in Timetables, NEW c \in Rounds, NEW d \in Nat
  PROVE  /\ Shift(rs, c, d) \in Timetables
         /\ \A q \in Rounds :
              /\ Shift(rs, c, d)[q].starts_at =
                   IF q > c THEN rs[q].starts_at + d ELSE rs[q].starts_at
              /\ Shift(rs, c, d)[q].ends_at =
                   IF q >= c THEN rs[q].ends_at + d ELSE rs[q].ends_at
<1>1. \A q \in Rounds : q \in Int /\ c \in Int /\ rs[q] \in Interval
  BY ConstantTypes DEF Timetables
<1>2. \A q \in Rounds :
        Shift(rs, c, d)[q] =
          [starts_at |-> IF q > c THEN rs[q].starts_at + d ELSE rs[q].starts_at,
           ends_at |-> IF q >= c THEN rs[q].ends_at + d ELSE rs[q].ends_at]
  BY <1>1 DEF Shift, Interval
<1> DEFINE new == [q \in Rounds |->
                     [starts_at |-> IF q > c THEN rs[q].starts_at + d
                                    ELSE rs[q].starts_at,
                      ends_at |-> IF q >= c THEN rs[q].ends_at + d
                                  ELSE rs[q].ends_at]]
<1>3. Shift(rs, c, d) = new
  BY <1>2 DEF Shift
<1>4. new \in Timetables
  <2>1. \A q \in Rounds : rs[q].starts_at \in Int /\ rs[q].ends_at \in Int
    BY TimetableTypes
  <2>2. QED
    BY <2>1 DEF Timetables, Interval
<1>5. QED
  BY <1>2, <1>3, <1>4

(* Extending a round keeps the timetable sound.                             *)
LEMMA ShiftIsSound ==
  ASSUME NEW rs \in Timetables, Sound(rs), NEW c \in Rounds, NEW d \in Nat
  PROVE  Sound(Shift(rs, c, d))
<1> DEFINE n == Shift(rs, c, d)
<1>1. \A q \in Rounds :
        /\ n[q].starts_at =
             IF q > c THEN rs[q].starts_at + d ELSE rs[q].starts_at
        /\ n[q].ends_at =
             IF q >= c THEN rs[q].ends_at + d ELSE rs[q].ends_at
        /\ rs[q].starts_at \in Int /\ rs[q].ends_at \in Int
  BY ShiftedTimes, TimetableTypes
<1> HIDE DEF n
<1>2. \A q \in Rounds : n[q].starts_at < n[q].ends_at
  <2> SUFFICES ASSUME NEW q \in Rounds PROVE n[q].starts_at < n[q].ends_at
    OBVIOUS
  <2>1. rs[q].starts_at < rs[q].ends_at
    BY DEF Sound
  <2>2. q \in Int /\ c \in Int
    BY RoundTypes
  <2>3. QED
    BY <1>1, <2>1, <2>2
<1>3. \A q, r \in Rounds : q < r => n[q].ends_at + BreakDuration <= n[r].starts_at
  <2> SUFFICES ASSUME NEW q \in Rounds, NEW r \in Rounds, q < r
               PROVE  n[q].ends_at + BreakDuration <= n[r].starts_at
    OBVIOUS
  <2>1. rs[q].ends_at + BreakDuration <= rs[r].starts_at
    BY DEF Sound
  <2>2. q \in Int /\ r \in Int /\ c \in Int /\ BreakDuration \in Int
    BY RoundTypes, ConstantTypes
  <2>3. CASE q >= c
    <3>1. r > c
      BY <2>2, <2>3
    <3>2. n[q].ends_at = rs[q].ends_at + d /\ n[r].starts_at = rs[r].starts_at + d
      BY <1>1, <2>3, <3>1
    <3>3. QED
      BY <1>1, <2>1, <2>2, <3>2
  <2>4. CASE ~(q >= c)
    <3>1. n[q].ends_at = rs[q].ends_at /\ n[r].starts_at >= rs[r].starts_at
      BY <1>1, <2>4
    <3>2. n[r].starts_at \in Int
      BY <1>1
    <3>3. QED
      BY <1>1, <2>1, <2>2, <3>1, <3>2
  <2>5. QED
    BY <2>3, <2>4
<1>4. QED
  BY <1>2, <1>3 DEF n, Sound

-----------------------------------------------------------------------------
(* The phase of the event *)

(* A set of round numbers that is not empty has a least element, so the     *)
(* loop of get_current_phase stops at one.                                  *)
LEMMA LeastRound ==
  ASSUME NEW S \in SUBSET Rounds, S # {}
  PROVE  \E r \in S : \A q \in S : r <= q
<1> DEFINE R == OpToRel(<, Nat)
<1>1. IsWellFoundedOn(R, Nat)
  BY NatLessThanWellFounded
<1>2. S \subseteq Nat
  BY ConstantTypes
<1> HIDE DEF R
<1>3. PICK r \in S : \A q \in S : ~(<<q, r>> \in R)
  BY <1>1, <1>2, WFMin
<1>4. \A q \in S : ~(q < r)
  BY <1>2, <1>3 DEF R, OpToRel
<1>5. QED
  BY <1>2, <1>3, <1>4

(* When the loop stops at a round, every round before it is over.           *)
LEMMA FirstHitIsCurrent ==
  ASSUME NEW rs \in Timetables, Sound(rs), NEW t \in Int, Hits(rs, t) # {}
  PROVE  LET r == FirstHit(rs, t)
         IN  /\ r \in Rounds
             /\ InPreconnect(rs, r, t) \/ InRound(rs, r, t) \/ InBreak(rs, r, t)
             /\ \A q \in Rounds : q < r => rs[q].ends_at <= t
<1> DEFINE r == FirstHit(rs, t)
<1>1. Hits(rs, t) \in SUBSET Rounds
  BY DEF Hits
<1>2. r \in Hits(rs, t) /\ \A q \in Hits(rs, t) : r <= q
  BY <1>1, LeastRound DEF FirstHit
<1> HIDE DEF r
<1>3. r \in Rounds
      /\ (InPreconnect(rs, r, t) \/ InRound(rs, r, t) \/ InBreak(rs, r, t))
  BY <1>2 DEF Hits
<1>4. \A q \in Rounds : rs[q].starts_at \in Int /\ rs[q].ends_at \in Int
  BY TimetableTypes
<1>5. ASSUME NEW q \in Rounds, q < r PROVE rs[q].ends_at <= t
  <2>1. q \notin Hits(rs, t)
    BY <1>2, <1>3, <1>5, ConstantTypes
  <2>2. ~InPreconnect(rs, q, t) /\ ~InRound(rs, q, t)
    BY <2>1 DEF Hits
  <2>3. rs[r].starts_at - PreconnectDuration <= t
    <3>1. /\ rs[r].starts_at \in Int /\ rs[r].ends_at \in Int
          /\ rs[r].starts_at < rs[r].ends_at /\ PreconnectDuration \in Nat
      BY <1>3, <1>4, ConstantTypes DEF Sound
    <3>2. \/ rs[r].starts_at - PreconnectDuration <= t
          \/ rs[r].starts_at <= t \/ rs[r].ends_at <= t
      BY <1>3 DEF InPreconnect, InRound, InBreak
    <3>3. QED
      BY <3>1, <3>2
  <2>4. rs[q].starts_at < rs[r].starts_at
    BY <1>3, <1>4, <1>5, ConstantTypes DEF Sound
  <2>5. QED
    BY <1>3, <1>4, <2>2, <2>3, <2>4, ConstantTypes DEF InPreconnect, InRound
<1>6. QED
  BY <1>3, <1>5 DEF r

(* What each phase means for the clock.                                     *)
LEMMA PhaseShape ==
  ASSUME NEW rs \in Timetables, Sound(rs), NEW t \in Int
  PROVE  LET now == get_current_phase(rs, t)
             r == now.round
         IN  \/ r = NoRound /\ now.phase = NOT_STARTED
             \/ /\ r \in Rounds
                /\ \A q \in Rounds : q < r => rs[q].ends_at <= t
                /\ \/ now.phase = PRECONNECT /\ InPreconnect(rs, r, t)
                   \/ now.phase = IN_ROUND /\ InRound(rs, r, t)
                   \/ now.phase = BREAK /\ InBreak(rs, r, t)
             \/ /\ r = NumRounds /\ now.phase = COMPLETED
                /\ rs[NumRounds].ends_at <= t
<1> DEFINE f == FirstHit(rs, t)
           now == get_current_phase(rs, t)
<1>1. CASE t < rs[1].starts_at - PreconnectDuration
  BY <1>1 DEF get_current_phase
<1>2. CASE ~(t < rs[1].starts_at - PreconnectDuration) /\ Hits(rs, t) # {}
  <2>1. /\ f \in Rounds
        /\ InPreconnect(rs, f, t) \/ InRound(rs, f, t) \/ InBreak(rs, f, t)
        /\ \A q \in Rounds : q < f => rs[q].ends_at <= t
    BY <1>2, FirstHitIsCurrent
  <2>2. now = [phase |-> IF InPreconnect(rs, f, t) THEN PRECONNECT
                         ELSE IF InRound(rs, f, t) THEN IN_ROUND ELSE BREAK,
               round |-> f]
    BY <1>2 DEF get_current_phase
  <2> HIDE DEF f, now
  <2>3. now.round = f
    BY <2>2
  <2>4. \/ now.phase = PRECONNECT /\ InPreconnect(rs, f, t)
        \/ now.phase = IN_ROUND /\ InRound(rs, f, t)
        \/ now.phase = BREAK /\ InBreak(rs, f, t)
    BY <2>1, <2>2
  <2>5. QED
    BY <2>1, <2>3, <2>4 DEF now
<1>3. CASE /\ ~(t < rs[1].starts_at - PreconnectDuration) /\ Hits(rs, t) = {}
           /\ t >= rs[NumRounds].ends_at
  <2>1. now = [phase |-> COMPLETED, round |-> NumRounds]
    BY <1>3 DEF get_current_phase
  <2>2. rs[NumRounds].ends_at <= t
    BY <1>3, TimetableTypes, ConstantTypes
  <2>3. QED
    BY <2>1, <2>2
<1>4. CASE /\ ~(t < rs[1].starts_at - PreconnectDuration) /\ Hits(rs, t) = {}
           /\ ~(t >= rs[NumRounds].ends_at)
  BY <1>4 DEF get_current_phase
<1>5. QED
  BY <1>1, <1>2, <1>3, <1>4

-----------------------------------------------------------------------------
(* The plan of a dispatch *)

(* A key is its kind and its round.                                         *)
LEMMA KeyFields ==
  /\ \A k \in Key : k.kind \in Kind /\ k.round \in Rounds
                      /\ k = K(k.kind, k.round)
  /\ \A kind \in Kind : \A r \in Rounds :
       K(kind, r) \in Key /\ K(kind, r).kind = kind /\ K(kind, r).round = r
BY DEF Key, K

(* The position of a key in the timeline.                                   *)
LEMMA RankOfKey ==
  ASSUME NEW k \in Key
  PROVE  /\ Rank(k) \in Int /\ 5 * k.round <= Rank(k)
         /\ Rank(k) <= 5 * k.round + 4
         /\ k.kind = "pairing" => Rank(k) = 5 * k.round
         /\ k.kind = "round_start" => Rank(k) = 5 * k.round + 1
         /\ k.kind = "warning" => Rank(k) = 5 * k.round + 2
         /\ k.kind = "round_end" => Rank(k) = 5 * k.round + 3
         /\ k.kind = "event_end" => Rank(k) = 5 * k.round + 4
<1>0. k.round \in Rounds /\ k.kind \in Kind
  BY KeyFields
<1>1. k.round \in Int /\ k.kind \in Kind
  BY <1>0, RoundTypes
<1>2. QED
  BY <1>1 DEF Rank, Kind

(* No message is due before the rooms of its round open, and none but the   *)
(* pairing before the round itself; by then the rounds before it are over.  *)
LEMMA DueAfterStart ==
  ASSUME TypeOK, Sound(rounds), NEW k \in Key, Due(k)
  PROVE  /\ rounds[k.round].starts_at - PreconnectDuration <= clock
         /\ k.kind = "pairing" \/ rounds[k.round].starts_at <= clock
         /\ \A q \in Rounds : q < k.round => rounds[q].ends_at <= clock
<1>1. k.kind \in Kind /\ k.round \in Rounds
  BY KeyFields
<1>2. /\ clock \in Int
      /\ \A q \in Rounds : rounds[q].starts_at \in Int /\ rounds[q].ends_at \in Int
  BY TimetableTypes DEF TypeOK
<1>3. k.kind = "pairing" \/ rounds[k.round].starts_at <= clock
  <2>1. CASE k.kind \in {"round_end", "event_end"}
    <3>1. rounds[k.round].ends_at <= clock
      BY <2>1 DEF Due
    <3>2. rounds[k.round].starts_at < rounds[k.round].ends_at
      BY <1>1 DEF Sound
    <3>3. QED
      BY <1>1, <1>2, <3>1, <3>2
  <2>2. CASE k.kind \in {"round_start", "warning"}
    BY <2>2 DEF Due
  <2>3. QED
    BY <1>1, <2>1, <2>2 DEF Kind
<1>4. CASE k.kind = "pairing"
  BY <1>4 DEF Due
<1>5. CASE k.kind # "pairing"
  <2>1. rounds[k.round].starts_at <= clock
    BY <1>3, <1>5
  <2>2. \A q \in Rounds : q < k.round =>
          rounds[q].ends_at + BreakDuration <= rounds[k.round].starts_at
    BY <1>1 DEF Sound
  <2>3. /\ rounds[k.round].starts_at \in Int /\ BreakDuration \in Nat
        /\ PreconnectDuration \in Nat
    BY <1>1, <1>2, ConstantTypes
  <2>4. \A q \in Rounds : q < k.round => rounds[q].ends_at <= clock
    BY <1>2, <2>1, <2>2, <2>3
  <2>5. rounds[k.round].starts_at - PreconnectDuration <= clock
    BY <1>2, <2>1, <2>3
  <2>6. QED
    BY <1>3, <2>4, <2>5
<1>6. QED
  BY <1>4, <1>5

(* A sequence of two with one more, or with none.                           *)
LEMMA ShortConcat ==
  ASSUME NEW a \in Key, NEW b \in Key, NEW c \in Key
  PROVE  <<a, b>> \o <<c>> = <<a, b, c>> /\ <<a, b>> \o <<>> = <<a, b>>
<1> DEFINE s == <<a, b>> \o <<c>>
<1>1. <<a, b>> \in Seq(Key) /\ <<c>> \in Seq(Key) /\ <<a, b, c>> \in Seq(Key)
  OBVIOUS
<1>2. Len(s) = 3 /\ \A i \in 1..3 : s[i] = IF i <= 2 THEN <<a, b>>[i] ELSE <<c>>[i - 2]
  BY <1>1, ConcatProperties
<1>3. \A i \in 1..3 : s[i] = <<a, b, c>>[i]
  BY <1>2
<1>4. s \in Seq(Key)
  BY <1>1, ConcatProperties
<1>5. s = <<a, b, c>>
  BY <1>1, <1>2, <1>3, <1>4, SeqEqual
<1>6. QED
  BY <1>1, <1>5, ConcatEmptySeq

(* The plans there are, and when.                                           *)
LEMMA PlanShape ==
  ASSUME TypeOK, Sound(rounds), CurrentPlan # <<>>
  PROVE  \E r \in Rounds :
           \/ /\ CurrentPlan = <<K("pairing", r)>>
              /\ InPreconnect(rounds, r, clock)
              /\ \A q \in Rounds : q < r => rounds[q].ends_at <= clock
           \/ /\ \/ CurrentPlan = <<K("pairing", r), K("round_start", r)>>
                 \/ CurrentPlan = <<K("pairing", r), K("round_start", r),
                                    K("warning", r)>>
              /\ InRound(rounds, r, clock)
              /\ \A q \in Rounds : q < r => rounds[q].ends_at <= clock
           \/ CurrentPlan = <<K("round_end", r)>> /\ InBreak(rounds, r, clock)
           \/ /\ CurrentPlan = <<K("round_end", r), K("event_end", r)>>
              /\ r = NumRounds /\ rounds[r].ends_at <= clock
<1> DEFINE now == get_current_phase(rounds, clock)
           r == now.round
           left == rounds[now.round].ends_at - clock
<1>1. \/ r = NoRound /\ now.phase = NOT_STARTED
      \/ /\ r \in Rounds
         /\ \A q \in Rounds : q < r => rounds[q].ends_at <= clock
         /\ \/ now.phase = PRECONNECT /\ InPreconnect(rounds, r, clock)
            \/ now.phase = IN_ROUND /\ InRound(rounds, r, clock)
            \/ now.phase = BREAK /\ InBreak(rounds, r, clock)
      \/ /\ r = NumRounds /\ now.phase = COMPLETED
         /\ rounds[NumRounds].ends_at <= clock
  BY PhaseShape DEF TypeOK
<1>2. CurrentPlan = IF r = NoRound THEN <<>> ELSE Plan(now.phase, r, left)
  BY DEF CurrentPlan
<1> HIDE DEF now, left
<1>3. r \in Rounds /\ r # NoRound
  BY <1>1, <1>2, ConstantTypes DEF NoRound
<1>4. now.phase # NOT_STARTED
  BY <1>1, <1>3 DEF NOT_STARTED, PRECONNECT, IN_ROUND, BREAK, COMPLETED
<1>5. CASE now.phase = PRECONNECT
  <2>1. CurrentPlan = <<K("pairing", r)>>
    BY <1>2, <1>3, <1>5 DEF Plan, PRECONNECT, IN_ROUND, BREAK, COMPLETED
  <2>2. /\ InPreconnect(rounds, r, clock)
        /\ \A q \in Rounds : q < r => rounds[q].ends_at <= clock
    BY <1>1, <1>3, <1>5 DEF NOT_STARTED, PRECONNECT, IN_ROUND, BREAK, COMPLETED
  <2>3. QED
    BY <1>3, <2>1, <2>2
<1>6. CASE now.phase = IN_ROUND
  <2>1. CurrentPlan = <<K("pairing", r), K("round_start", r)>> \o
          (IF left <= FinalSeconds THEN <<K("warning", r)>> ELSE <<>>)
    BY <1>2, <1>3, <1>6 DEF Plan, PRECONNECT, IN_ROUND, BREAK, COMPLETED
  <2>2. \/ CurrentPlan = <<K("pairing", r), K("round_start", r)>>
        \/ CurrentPlan = <<K("pairing", r), K("round_start", r), K("warning", r)>>
    <3>1. /\ K("pairing", r) \in Key /\ K("round_start", r) \in Key
          /\ K("warning", r) \in Key
      BY <1>3, KeyFields DEF Kind
    <3>2. CASE left <= FinalSeconds
      BY <2>1, <3>1, <3>2, ShortConcat
    <3>3. CASE ~(left <= FinalSeconds)
      BY <2>1, <3>1, <3>3, ShortConcat
    <3>4. QED
      BY <3>2, <3>3
  <2>3. /\ InRound(rounds, r, clock)
        /\ \A q \in Rounds : q < r => rounds[q].ends_at <= clock
    BY <1>1, <1>3, <1>6 DEF NOT_STARTED, PRECONNECT, IN_ROUND, BREAK, COMPLETED
  <2>4. QED
    BY <1>3, <2>2, <2>3
<1>7. CASE now.phase = BREAK
  <2>1. CurrentPlan = <<K("round_end", r)>>
    BY <1>2, <1>3, <1>7 DEF Plan, PRECONNECT, IN_ROUND, BREAK, COMPLETED
  <2>2. InBreak(rounds, r, clock)
    BY <1>1, <1>3, <1>7 DEF NOT_STARTED, PRECONNECT, IN_ROUND, BREAK, COMPLETED
  <2>3. QED
    BY <1>3, <2>1, <2>2
<1>8. CASE now.phase = COMPLETED
  <2>1. CurrentPlan = <<K("round_end", r), K("event_end", r)>>
    BY <1>2, <1>3, <1>8 DEF Plan, PRECONNECT, IN_ROUND, BREAK, COMPLETED
  <2>2. r = NumRounds /\ rounds[r].ends_at <= clock
    BY <1>1, <1>3, <1>8 DEF NOT_STARTED, PRECONNECT, IN_ROUND, BREAK, COMPLETED
  <2>3. QED
    BY <1>3, <2>1, <2>2
<1>9. QED
  BY <1>1, <1>3, <1>4, <1>5, <1>6, <1>7, <1>8

(* Everything in a plan is due, in order and preceded by what comes before  *)
(* it; and a message that is due and of a later stage than one of the plan  *)
(* is one that the plan handles after it.                                   *)
LEMMA PlanProperties ==
  ASSUME TypeOK, Sound(rounds), CurrentPlan # <<>>
  PROVE  /\ CurrentPlan \in Seq(Key) /\ Len(CurrentPlan) >= 1
         /\ \A n \in 1..Len(CurrentPlan) : Due(CurrentPlan[n])
         /\ \A m, n \in 1..Len(CurrentPlan) :
              m < n => Rank(CurrentPlan[m]) <= Rank(CurrentPlan[n])
         /\ \A n \in 1..Len(CurrentPlan) : \A k \in Before(CurrentPlan[n]) :
              \E m \in 1..(n - 1) : CurrentPlan[m] = k
         /\ \A k \in Key : \A n \in 1..Len(CurrentPlan) :
              Due(k) => \/ Rank(k) <= Rank(CurrentPlan[n])
                        \/ CurrentPlan[n] \in Before(k)
<1> DEFINE s == CurrentPlan
<1>0. /\ clock \in Int /\ rounds \in Timetables
      /\ \A q \in Rounds : /\ rounds[q].starts_at \in Int
                           /\ rounds[q].ends_at \in Int
  BY TimetableTypes DEF TypeOK
<1>1. PICK r \in Rounds :
           \/ /\ s = <<K("pairing", r)>>
              /\ InPreconnect(rounds, r, clock)
              /\ \A q \in Rounds : q < r => rounds[q].ends_at <= clock
           \/ /\ \/ s = <<K("pairing", r), K("round_start", r)>>
                 \/ s = <<K("pairing", r), K("round_start", r), K("warning", r)>>
              /\ InRound(rounds, r, clock)
              /\ \A q \in Rounds : q < r => rounds[q].ends_at <= clock
           \/ s = <<K("round_end", r)>> /\ InBreak(rounds, r, clock)
           \/ /\ s = <<K("round_end", r), K("event_end", r)>>
              /\ r = NumRounds /\ rounds[r].ends_at <= clock
  BY PlanShape
<1> DEFINE P == K("pairing", r)
           S == K("round_start", r)
           W == K("warning", r)
           E == K("round_end", r)
           F == K("event_end", r)
<1>2. /\ P \in Key /\ P.kind = "pairing" /\ P.round = r
      /\ S \in Key /\ S.kind = "round_start" /\ S.round = r
      /\ W \in Key /\ W.kind = "warning" /\ W.round = r
      /\ E \in Key /\ E.kind = "round_end" /\ E.round = r
      /\ F \in Key /\ F.kind = "event_end" /\ F.round = r
  BY DEF Key, K, Kind
<1>3. /\ Rank(P) = 5 * r /\ Rank(S) = 5 * r + 1 /\ Rank(W) = 5 * r + 2
      /\ Rank(E) = 5 * r + 3 /\ Rank(F) = 5 * r + 4
  BY <1>2, RankOfKey
<1>4. /\ Before(P) = {} /\ Before(S) = {P} /\ Before(W) = {P, S}
      /\ Before(E) = {} /\ Before(F) = {E}
  BY <1>2 DEF Before
<1>5. ASSUME NEW k \in Key
      PROVE  /\ k.round \in Rounds /\ k.round \in Int /\ Rank(k) \in Int
             /\ k.kind \in Kind /\ k = K(k.kind, k.round)
             /\ Rank(k) <= 5 * k.round + 4
  <2>1. k.round \in Rounds /\ k.kind \in Kind /\ k = K(k.kind, k.round)
    BY KeyFields
  <2>2. QED
    BY <2>1, RankOfKey, RoundTypes
<1>6. r \in Int
  BY ConstantTypes
<1> HIDE DEF s, P, S, W, E, F
\* A message of a later round is due only when this round is over.
<1>7. ASSUME NEW k \in Key, Due(k), k.round > r
      PROVE  rounds[r].ends_at + BreakDuration - PreconnectDuration <= clock
             /\ rounds[r].ends_at <= clock
  <2>1. /\ rounds[r].ends_at + BreakDuration <= rounds[k.round].starts_at
        /\ rounds[k.round].starts_at < rounds[k.round].ends_at
    BY <1>5, <1>6, <1>7 DEF Sound
  <2>2. rounds[k.round].starts_at - PreconnectDuration <= clock
    BY <1>7, DueAfterStart
  <2>3. rounds[k.round].starts_at <= clock \/ rounds[r].ends_at <= clock
    BY <1>6, <1>7, DueAfterStart
  <2>4. /\ rounds[k.round].starts_at \in Int /\ rounds[k.round].ends_at \in Int
        /\ rounds[r].ends_at \in Int
        /\ BreakDuration \in Nat /\ PreconnectDuration \in Nat
    BY <1>0, <1>5, <1>7, ConstantTypes
  <2>5. QED
    BY <1>0, <2>1, <2>2, <2>3, <2>4
<1>8. CASE s = <<P>> /\ InPreconnect(rounds, r, clock)
           /\ \A q \in Rounds : q < r => rounds[q].ends_at <= clock
  <2>1. s \in Seq(Key) /\ Len(s) = 1 /\ s[1] = P
    BY <1>2, <1>8
  <2>2. Due(P)
    BY <1>2, <1>8 DEF Due, InPreconnect
  <2>3. ASSUME NEW k \in Key, Due(k) PROVE Rank(k) <= Rank(P)
    <3>1. clock < rounds[r].starts_at /\ rounds[r].starts_at < rounds[r].ends_at
      BY <1>8 DEF InPreconnect, Sound
    <3>2. k.round <= r
      BY <1>0, <1>5, <1>6, <1>7, <2>3, <3>1
    <3>3. k.round = r => k.kind = "pairing"
      BY <1>0, <1>5, <2>3, <3>1 DEF Due, Kind
    <3>4. QED
      BY <1>3, <1>5, <1>6, <3>2, <3>3, RankOfKey
  <2>4. QED
    BY <1>4, <2>1, <2>2, <2>3 DEF s
<1>9. CASE (s = <<P, S>> \/ s = <<P, S, W>>) /\ InRound(rounds, r, clock)
           /\ \A q \in Rounds : q < r => rounds[q].ends_at <= clock
  <2>1. /\ s \in Seq(Key) /\ Len(s) \in {2, 3} /\ s[1] = P /\ s[2] = S
        /\ Len(s) = 3 => s[3] = W
    <3>1. CASE s = <<P, S>>
      BY <1>2, <3>1
    <3>2. CASE s = <<P, S, W>>
      BY <1>2, <3>2
    <3>3. QED
      BY <1>9, <3>1, <3>2
  <2>2. Due(P) /\ Due(S) /\ Due(W)
    BY <1>0, <1>2, <1>9, ConstantTypes DEF Due, InRound
  <2>3. ASSUME NEW k \in Key, Due(k)
        PROVE  /\ Rank(k) <= Rank(W)
               /\ Rank(k) <= Rank(S) \/ S \in Before(k)
               /\ Rank(k) <= Rank(P) \/ P \in Before(k)
    <3>1. clock < rounds[r].ends_at
      BY <1>9 DEF InRound
    <3>2. k.round <= r
      BY <1>0, <1>5, <1>6, <1>7, <2>3, <3>1
    <3>3. k.round = r => k.kind \in {"pairing", "round_start", "warning"}
      BY <1>0, <1>5, <2>3, <3>1 DEF Due, Kind
    <3>4. CASE k.round < r
      BY <1>3, <1>5, <1>6, <3>4
    <3>5. CASE k.round = r
      <4>1. k \in {P, S, W}
        BY <1>5, <3>3, <3>5 DEF P, S, W
      <4>2. QED
        BY <1>3, <1>4, <1>6, <4>1
    <3>6. QED
      BY <1>5, <1>6, <3>2, <3>4, <3>5
  <2>4. \A m, n \in 1..Len(s) : m < n => Rank(s[m]) <= Rank(s[n])
    BY <1>3, <1>6, <2>1
  <2>5. \A n \in 1..Len(s) : \A k \in Before(s[n]) : \E m \in 1..(n - 1) : s[m] = k
    BY <1>4, <2>1
  <2>6. \A n \in 1..Len(s) : s[n] \in {P, S, W}
    BY <2>1
  <2>7. QED
    BY <2>1, <2>2, <2>3, <2>4, <2>5, <2>6 DEF s
<1>10. CASE s = <<E>> /\ InBreak(rounds, r, clock)
  <2>1. s \in Seq(Key) /\ Len(s) = 1 /\ s[1] = E
    BY <1>2, <1>10
  <2>2. Due(E)
    BY <1>2, <1>10 DEF Due, InBreak
  <2>3. ASSUME NEW k \in Key, Due(k) PROVE Rank(k) <= Rank(E)
    <3>1. /\ r + 1 \in Rounds
          /\ clock < rounds[r + 1].starts_at - PreconnectDuration
      BY <1>10 DEF InBreak
    <3>2. k.round <= r
      <4>1. SUFFICES ASSUME k.round > r PROVE FALSE
        BY <1>5, <1>6
      <4>2. rounds[r + 1].starts_at <= rounds[k.round].starts_at
            /\ rounds[k.round].starts_at < rounds[k.round].ends_at
        <5>1. k.round = r + 1 \/ r + 1 < k.round
          BY <1>5, <1>6, <4>1
        <5>2. rounds[r + 1].starts_at < rounds[r + 1].ends_at
              /\ rounds[k.round].starts_at < rounds[k.round].ends_at
          BY <1>5, <3>1 DEF Sound
        <5>3. r + 1 < k.round =>
                rounds[r + 1].ends_at + BreakDuration <= rounds[k.round].starts_at
          BY <1>5, <3>1 DEF Sound
        <5>4. rounds[r + 1].starts_at \in Int /\ rounds[r + 1].ends_at \in Int
              /\ rounds[k.round].starts_at \in Int
          BY <1>0, <1>5, <3>1
        <5>5. QED
          BY <5>1, <5>2, <5>3, <5>4, ConstantTypes
      <4>3. rounds[k.round].starts_at - PreconnectDuration <= clock
        BY <2>3, DueAfterStart
      <4>4. rounds[r + 1].starts_at \in Int /\ rounds[k.round].starts_at \in Int
        BY <1>0, <1>5, <3>1
      <4>5. QED
        BY <1>0, <3>1, <4>2, <4>3, <4>4, ConstantTypes
    <3>3. k.round = r => k.kind # "event_end"
      BY <1>6, <2>3, <3>1, ConstantTypes DEF Due
    <3>4. Rank(k) <= 5 * k.round + 3 \/ k.kind = "event_end"
      BY <1>5, RankOfKey DEF Kind
    <3>5. QED
      BY <1>3, <1>5, <1>6, <3>2, <3>3, <3>4
  <2>4. QED
    BY <1>4, <2>1, <2>2, <2>3 DEF s
<1>11. CASE s = <<E, F>> /\ r = NumRounds /\ rounds[r].ends_at <= clock
  <2>1. s \in Seq(Key) /\ Len(s) = 2 /\ s[1] = E /\ s[2] = F
    BY <1>2, <1>11
  <2>2. Due(E) /\ Due(F)
    BY <1>2, <1>11 DEF Due
  <2>3. ASSUME NEW k \in Key, Due(k)
        PROVE  Rank(k) <= Rank(F) /\ (Rank(k) <= Rank(E) \/ E \in Before(k))
    <3>1. k.round <= r
      BY <1>5, <1>11, ConstantTypes
    <3>2. CASE k.round = r /\ k.kind = "event_end"
      <4>1. k = F
        BY <1>5, <3>2 DEF F
      <4>2. QED
        BY <1>3, <1>4, <1>6, <4>1
    <3>3. CASE k.round < r \/ k.kind # "event_end"
      <4>1. Rank(k) <= 5 * k.round + 3 \/ k.kind = "event_end"
        BY <1>5, RankOfKey DEF Kind
      <4>2. QED
        BY <1>3, <1>5, <1>6, <3>1, <3>3, <4>1
    <3>4. QED
      BY <1>5, <1>6, <3>1, <3>2, <3>3
  <2>4. \A m, n \in 1..Len(s) : m < n => Rank(s[m]) <= Rank(s[n])
    BY <1>3, <1>6, <2>1
  <2>5. \A n \in 1..Len(s) : \A k \in Before(s[n]) : \E m \in 1..(n - 1) : s[m] = k
    BY <1>4, <2>1
  <2>6. \A n \in 1..Len(s) : s[n] \in {E, F}
    BY <2>1
  <2>7. QED
    BY <2>1, <2>2, <2>3, <2>4, <2>5, <2>6 DEF s
<1>12. QED
  BY <1>1, <1>8, <1>9, <1>10, <1>11 DEF P, S, W, E, F

-----------------------------------------------------------------------------
(* Any number of dispatchers *)

(* The first message of a plan and the rest of it.                          *)
LEMMA HeadAndTail ==
  ASSUME NEW s \in Seq(Key), Len(s) >= 1
  PROVE  /\ Head(s) = s[1] /\ Head(s) \in Key
         /\ Tail(s) \in Seq(Key) /\ Len(Tail(s)) = Len(s) - 1
         /\ \A n \in 1..(Len(s) - 1) : n + 1 \in 1..Len(s) /\ Tail(s)[n] = s[n + 1]
<1>1. Len(s) \in Nat /\ \A n \in 1..Len(s) : s[n] \in Key
  OBVIOUS
<1>2. QED
  BY <1>1

(* Where messages come from: a mark and a sent message from the head of a   *)
(* plan, a plan from the phase or from what is left of the plan before.     *)
LEMMA StepSources ==
  ASSUME BInv, [Next]_vars
  PROVE  /\ \/ marks' = marks
            \/ \E i \in Dispatcher : /\ pc[i] = "mark"
                                     /\ marks' = marks \cup {Head(todo[i])}
         /\ \/ stream' = stream
            \/ \E i \in Dispatcher : /\ pc[i] = "send"
                                     /\ stream' = Append(stream, Head(todo[i]))
         /\ \A j \in Dispatcher :
              \/ todo'[j] = todo[j]
              \/ Len(todo[j]) >= 1 /\ todo'[j] = Tail(todo[j])
              \/ todo'[j] = <<>>
              \/ /\ CurrentPlan # <<>> /\ todo'[j] = CurrentPlan
                 /\ UNCHANGED <<clock, rounds>>
<1>0. /\ todo \in [Dispatcher -> Seq(Key)]
      /\ \A i \in Dispatcher : pc[i] # "idle" => Len(todo[i]) >= 1
  BY DEF BInv, TypeOK, BusyHasWork
<1>1. CASE Tick \/ (\E d \in Extras : Extend(d)) \/ UNCHANGED vars
  BY <1>1 DEF Tick, Extend, vars
<1>2. CASE \E i \in Dispatcher : DispatchCall(i)
  BY <1>0, <1>2 DEF DispatchCall
<1>3. CASE \E i \in Dispatcher : AlreadySent(i)
  BY <1>0, <1>3 DEF AlreadySent, Advance
<1>4. CASE \E i \in Dispatcher : Publish(i)
  BY <1>0, <1>4 DEF Publish
<1>5. CASE \E i \in Dispatcher : MarkSent(i)
  BY <1>0, <1>5 DEF MarkSent, Advance
<1>6. CASE \E i \in Dispatcher : PublishFails(i) \/ Crash(i)
  BY <1>0, <1>6 DEF PublishFails, Crash
<1>7. QED
  BY <1>1, <1>2, <1>3, <1>4, <1>5, <1>6 DEF Next, DispatchStep

(* Every variable keeps its type.                                           *)
LEMMA StepPreservesTypes ==
  ASSUME BInv, [Next]_vars
  PROVE  TypeOK'
<1>0. /\ todo \in [Dispatcher -> Seq(Key)] /\ stream \in Seq(Key)
      /\ pc \in [Dispatcher -> {"idle", "get", "send", "mark"}]
      /\ marks \subseteq Key /\ crashed \subseteq Key
      /\ \A i \in Dispatcher : pc[i] # "idle" => Len(todo[i]) >= 1
  BY DEF BInv, TypeOK, BusyHasWork
<1>1. \A i \in Dispatcher : pc[i] # "idle" =>
        Head(todo[i]) \in Key /\ Tail(todo[i]) \in Seq(Key)
  BY <1>0, HeadAndTail
<1>2. stream' \in Seq(Key) /\ marks' \subseteq Key
  <2>1. ASSUME stream' = stream PROVE stream' \in Seq(Key)
    BY <1>0, <2>1
  <2>2. ASSUME NEW i \in Dispatcher, pc[i] = "send",
               stream' = Append(stream, Head(todo[i]))
        PROVE  stream' \in Seq(Key)
    <3>1. Head(todo[i]) \in Key
      BY <1>1, <2>2
    <3>2. QED
      BY <1>0, <2>2, <3>1
  <2>3. stream' \in Seq(Key)
    BY <2>1, <2>2, StepSources
  <2>4. marks' \subseteq Key
    BY <1>0, <1>1, StepSources
  <2>5. QED
    BY <2>3, <2>4
<1>3. CurrentPlan # <<>> => CurrentPlan \in Seq(Key)
  BY PlanProperties DEF BInv
<1>4. /\ todo' \in [Dispatcher -> Seq(Key)]
      /\ pc' \in [Dispatcher -> {"idle", "get", "send", "mark"}]
      /\ crashed' \subseteq Key
  <2>1. <<>> \in Seq(Key)
    OBVIOUS
  <2>2. CASE Tick \/ (\E d \in Extras : Extend(d)) \/ UNCHANGED vars
    BY <1>0, <2>2 DEF Tick, Extend, vars
  <2>3. CASE \E i \in Dispatcher : DispatchCall(i)
    BY <1>0, <1>3, <2>3 DEF DispatchCall
  <2>4. CASE \E i \in Dispatcher : AlreadySent(i)
    BY <1>0, <1>1, <2>4 DEF AlreadySent, Advance
  <2>5. CASE \E i \in Dispatcher : Publish(i)
    BY <1>0, <2>1, <2>5 DEF Publish
  <2>6. CASE \E i \in Dispatcher : MarkSent(i)
    BY <1>0, <1>1, <2>6 DEF MarkSent, Advance
  <2>7. CASE \E i \in Dispatcher : PublishFails(i) \/ Crash(i)
    BY <1>0, <1>1, <2>1, <2>7 DEF PublishFails, Crash
  <2>8. QED
    BY <2>2, <2>3, <2>4, <2>5, <2>6, <2>7 DEF Next, DispatchStep
<1>5. clock' \in Nat /\ extends' \in Nat /\ faults' \in Nat
  BY DEF BInv, TypeOK, Next, Tick, Extend, DispatchStep, DispatchCall,
         AlreadySent, Publish, MarkSent, PublishFails, Crash, vars
<1>6. late' \in BOOLEAN
  BY DEF BInv, TypeOK, Next, Tick, Extend, DispatchStep, DispatchCall,
         AlreadySent, Publish, MarkSent, PublishFails, Crash, vars
<1>7. rounds' \in Timetables
  <2>1. CASE \E d \in Extras : Extend(d)
    <3>1. PICK d \in Extras : Extend(d)
      BY <2>1
    <3>2. get_current_phase(rounds, clock).round \in Rounds /\ d \in Nat
      BY <3>1, PhaseShape, ConstantTypes, DispatchAssumption
      DEF BInv, TypeOK, Extend, NOT_STARTED, IN_ROUND
    <3>3. QED
      BY <3>1, <3>2, ShiftedTimes DEF BInv, TypeOK, Extend
  <2>2. CASE ~\E d \in Extras : Extend(d)
    BY <2>2 DEF BInv, TypeOK, Next, Tick, DispatchStep, DispatchCall,
         AlreadySent, Publish, MarkSent, PublishFails, Crash, vars
  <2>3. QED
    BY <2>1, <2>2
<1>8. QED
  BY <1>2, <1>4, <1>5, <1>6, <1>7 DEF TypeOK

(* What an extension does: it moves the rounds after the one that runs.     *)
LEMMA ExtendShape ==
  ASSUME BInv, NEW d \in Extras, Extend(d)
  PROVE  \E c \in Rounds :
           /\ InRound(rounds, c, clock)
           /\ d \in Nat /\ rounds' = Shift(rounds, c, d) /\ clock' = clock
           /\ Sound(rounds')
           /\ \A q \in Rounds :
                /\ rounds'[q].starts_at =
                     IF q > c THEN rounds[q].starts_at + d ELSE rounds[q].starts_at
                /\ rounds'[q].ends_at =
                     IF q >= c THEN rounds[q].ends_at + d ELSE rounds[q].ends_at
<1> DEFINE c == get_current_phase(rounds, clock).round
<1>1. c \in Rounds /\ InRound(rounds, c, clock) /\ d \in Nat
  BY PhaseShape, ConstantTypes, DispatchAssumption
  DEF BInv, TypeOK, Extend, NOT_STARTED, PRECONNECT, IN_ROUND, BREAK, COMPLETED
<1>2. rounds' = Shift(rounds, c, d) /\ clock' = clock
  BY DEF Extend
<1> HIDE DEF c
<1>3. QED
  BY <1>1, <1>2, ShiftedTimes, ShiftIsSound DEF BInv, TypeOK

(* Time passing and extensions are all that moves the clock and the rounds. *)
LEMMA TimeMoves ==
  ASSUME [Next]_vars
  PROVE  \/ UNCHANGED <<clock, rounds>>
         \/ Tick
         \/ \E d \in Extras : Extend(d)
BY DEF Next, DispatchStep, DispatchCall, AlreadySent, Publish, MarkSent,
       PublishFails, Crash, vars

(* A message that is due stays due: nothing that has begun is moved by an   *)
(* extension.                                                               *)
LEMMA DuePersists ==
  ASSUME BInv, [Next]_vars, NEW k \in Key, Due(k)
  PROVE  Due(k)'
<1>0. /\ k.kind \in Kind /\ k.round \in Rounds /\ clock \in Nat
      /\ \A q \in Rounds : rounds[q].starts_at \in Int /\ rounds[q].ends_at \in Int
  BY KeyFields, TimetableTypes DEF BInv, TypeOK
<1>1. CASE UNCHANGED <<clock, rounds>>
  BY <1>1 DEF Due
<1>2. CASE Tick
  <2>1. clock' = clock + 1 /\ rounds' = rounds
    BY <1>2 DEF Tick
  <2>2. /\ \A q \in Rounds : rounds[q].ends_at <= clock => rounds'[q].ends_at <= clock'
        /\ \A q \in Rounds :
             rounds[q].starts_at <= clock => rounds'[q].starts_at <= clock'
        /\ \A q \in Rounds :
             rounds[q].starts_at - PreconnectDuration <= clock =>
               rounds'[q].starts_at - PreconnectDuration <= clock'
    <3> SUFFICES ASSUME NEW q \in Rounds
                 PROVE  /\ rounds[q].ends_at <= clock => rounds[q].ends_at <= clock'
                        /\ rounds[q].starts_at <= clock => rounds[q].starts_at <= clock'
                        /\ rounds[q].starts_at - PreconnectDuration <= clock =>
                             rounds[q].starts_at - PreconnectDuration <= clock'
      BY <2>1
    <3>1. /\ rounds[q].starts_at \in Int /\ rounds[q].ends_at \in Int
          /\ PreconnectDuration \in Nat
      BY <1>0, ConstantTypes
    <3>2. QED
      BY <1>0, <2>1, <3>1
  <2>3. QED
    BY <1>0, <2>2 DEF Due
<1>3. ASSUME NEW d \in Extras, Extend(d) PROVE Due(k)'
  <2>1. PICK c \in Rounds :
           /\ InRound(rounds, c, clock)
           /\ d \in Nat /\ rounds' = Shift(rounds, c, d) /\ clock' = clock
           /\ \A q \in Rounds :
                /\ rounds'[q].starts_at =
                     IF q > c THEN rounds[q].starts_at + d ELSE rounds[q].starts_at
                /\ rounds'[q].ends_at =
                     IF q >= c THEN rounds[q].ends_at + d ELSE rounds[q].ends_at
    BY <1>3, ExtendShape
  <2>2. clock < rounds[c].ends_at
    BY <2>1 DEF InRound
  <2>3. k.round <= c
    <3>1. c < k.round => rounds[c].ends_at <= clock
      BY <2>1, DueAfterStart DEF BInv
    <3>2. QED
      BY <1>0, <2>1, <2>2, <3>1, RoundTypes
  <2>4. k.kind \in {"round_end", "event_end"} => k.round < c
    <3>1. k.kind \in {"round_end", "event_end"} => rounds[k.round].ends_at <= clock
      BY DEF Due
    <3>2. k.kind \in {"round_end", "event_end"} => k.round # c
      BY <1>0, <2>1, <2>2, <3>1
    <3>3. QED
      BY <1>0, <2>1, <2>3, <3>2, RoundTypes
  <2>5. rounds'[k.round].starts_at = rounds[k.round].starts_at
    BY <1>0, <2>1, <2>3, RoundTypes
  <2>6. \A q \in Rounds : q < k.round => rounds'[q].ends_at = rounds[q].ends_at
    BY <1>0, <2>1, <2>3, RoundTypes
  <2>7. k.kind \in {"round_end", "event_end"} =>
          rounds'[k.round].ends_at = rounds[k.round].ends_at
    BY <1>0, <2>1, <2>4, RoundTypes
  <2>8. QED
    BY <1>0, <2>1, <2>5, <2>6, <2>7 DEF Due
<1>4. QED
  BY <1>1, <1>2, <1>3, TimeMoves

(* The invariant holds before the event: nothing is sent, nothing planned.  *)
LEMMA InitEstablishesBInv == Init => BInv
<1> SUFFICES ASSUME Init PROVE BInv
  OBVIOUS
<1>1. <<>> \in Seq(Key) /\ Len(<<>>) = 0
  OBVIOUS
<1>2. TypeOK
  BY <1>1, ScheduleIsSound DEF Init, TypeOK
<1>3. Sound(rounds)
  BY ScheduleIsSound DEF Init
<1>4. AllDue
  BY <1>1 DEF Init, AllDue
<1>5. BusyHasWork
  BY DEF Init, BusyHasWork
<1>6. QED
  BY <1>2, <1>3, <1>4, <1>5 DEF BInv

(* Every step of every dispatcher, of time and of the operator keeps it.    *)
LEMMA StepPreservesBInv == BInv /\ [Next]_vars => BInv'
<1> SUFFICES ASSUME BInv, [Next]_vars PROVE BInv'
  OBVIOUS
<1>0. /\ todo \in [Dispatcher -> Seq(Key)] /\ stream \in Seq(Key)
      /\ pc \in [Dispatcher -> {"idle", "get", "send", "mark"}]
      /\ marks \subseteq Key
      /\ \A i \in Dispatcher : pc[i] # "idle" => Len(todo[i]) >= 1
      /\ \A i \in Dispatcher : pc[i] = "mark" => Valid(Head(todo[i]))
      /\ \A k \in marks : Valid(k)
  BY DEF BInv, TypeOK, BusyHasWork
<1>1. TypeOK'
  BY StepPreservesTypes
<1>2. Sound(rounds')
  <2>1. CASE \E d \in Extras : Extend(d)
    BY <2>1, ExtendShape
  <2>2. CASE Tick \/ UNCHANGED <<clock, rounds>>
    <3>1. rounds' = rounds
      BY <2>2 DEF Tick
    <3>2. QED
      BY <3>1 DEF BInv
  <2>3. QED
    BY <2>1, <2>2, TimeMoves
<1>3. \A i \in Dispatcher : pc[i] # "idle" =>
        Head(todo[i]) \in Key /\ Due(Head(todo[i]))
  <2> SUFFICES ASSUME NEW i \in Dispatcher, pc[i] # "idle"
               PROVE  Head(todo[i]) \in Key /\ Due(Head(todo[i]))
    OBVIOUS
  <2>1. todo[i] \in Seq(Key) /\ Len(todo[i]) >= 1
    BY <1>0
  <2>2. Head(todo[i]) = todo[i][1] /\ Head(todo[i]) \in Key /\ 1 \in 1..Len(todo[i])
    BY <2>1, HeadAndTail
  <2>3. QED
    BY <2>2 DEF BInv, AllDue
<1>4. AllDue'
  <2>1. ASSUME NEW k \in marks' PROVE Due(k)'
    <3>1. k \in Key /\ Due(k)
      <4>1. CASE k \in marks
        BY <1>0, <4>1 DEF BInv, AllDue
      <4>2. CASE k \notin marks
        <5>1. PICK i \in Dispatcher : pc[i] = "mark" /\ k = Head(todo[i])
          BY <2>1, <4>2, StepSources
        <5>2. QED
          BY <1>3, <5>1
      <4>3. QED
        BY <4>1, <4>2
    <3>2. QED
      BY <3>1, DuePersists
  <2>2. ASSUME NEW n \in 1..Len(stream') PROVE Due(stream[n])'
    <3>1. stream'[n] \in Key /\ Due(stream'[n])
      <4>1. CASE stream' = stream
        BY <1>0, <4>1 DEF BInv, AllDue
      <4>2. ASSUME NEW i \in Dispatcher, pc[i] = "send",
                   stream' = Append(stream, Head(todo[i]))
            PROVE  stream'[n] \in Key /\ Due(stream'[n])
        <5>1. Head(todo[i]) \in Key /\ Due(Head(todo[i]))
          BY <1>3, <4>2
        <5>2. /\ Len(stream) \in Nat /\ Len(stream') = Len(stream) + 1
              /\ \A m \in 1..Len(stream) : stream[m] \in Key /\ stream'[m] = stream[m]
              /\ stream'[Len(stream) + 1] = Head(todo[i])
          BY <1>0, <4>2, <5>1
        <5>3. CASE n = Len(stream) + 1
          BY <5>1, <5>2, <5>3
        <5>4. CASE n \in 1..Len(stream)
          BY <5>2, <5>4 DEF BInv, AllDue
        <5>5. QED
          BY <2>2, <5>2, <5>3, <5>4
      <4>3. QED
        BY <4>1, <4>2, StepSources
    <3>2. ASSUME NEW k \in Key, Due(k) PROVE Due(k)'
      BY <3>2, DuePersists
    <3>3. QED
      BY <3>1, <3>2 DEF Due
  <2>3. ASSUME NEW j \in Dispatcher, NEW n \in 1..Len(todo'[j])
        PROVE  Due(todo[j][n])'
    <3>1. todo'[j][n] \in Key /\ Due(todo'[j][n])
      <4>0. /\ todo[j] \in Seq(Key) /\ Len(todo[j]) \in Nat
            /\ \A m \in 1..Len(todo[j]) : todo[j][m] \in Key /\ Due(todo[j][m])
        BY <1>0 DEF BInv, AllDue
      <4>1. CASE todo'[j] = todo[j]
        BY <4>0, <4>1
      <4>2. CASE Len(todo[j]) >= 1 /\ todo'[j] = Tail(todo[j])
        BY <2>3, <4>0, <4>2, HeadAndTail
      <4>3. CASE todo'[j] = <<>>
        BY <2>3, <4>3
      <4>4. CASE CurrentPlan # <<>> /\ todo'[j] = CurrentPlan
        BY <2>3, <4>4, PlanProperties DEF BInv
      <4>5. QED
        BY <4>1, <4>2, <4>3, <4>4, StepSources
    <3>2. ASSUME NEW k \in Key, Due(k) PROVE Due(k)'
      BY <3>2, DuePersists
    <3>3. QED
      BY <3>1, <3>2 DEF Due
  <2>4. QED
    BY <2>1, <2>2, <2>3 DEF AllDue
<1>5. BusyHasWork'
  <2>1. \A k \in marks' : Valid(k)
    BY <1>0, StepSources
  <2>2. CASE Tick \/ (\E d \in Extras : Extend(d)) \/ UNCHANGED vars
    BY <1>0, <2>1, <2>2 DEF Tick, Extend, vars, BusyHasWork
  <2>3. ASSUME NEW i \in Dispatcher, DispatchCall(i) PROVE BusyHasWork'
    <3>1. Len(CurrentPlan) >= 1
      BY <2>3, PlanProperties DEF BInv, DispatchCall
    <3>2. QED
      BY <1>0, <2>1, <2>3, <3>1 DEF DispatchCall, BusyHasWork
  <2>4. ASSUME NEW i \in Dispatcher, AlreadySent(i) \/ MarkSent(i)
        PROVE  BusyHasWork'
    <3>1. todo[i] \in Seq(Key) /\ Len(todo[i]) >= 1
      BY <1>0, <2>4 DEF AlreadySent, MarkSent
    <3>2. Len(Tail(todo[i])) = Len(todo[i]) - 1 /\ Len(todo[i]) \in Nat
      BY <3>1, HeadAndTail
    <3>3. \/ /\ todo' = [todo EXCEPT ![i] = Tail(@)]
             /\ pc' = [pc EXCEPT ![i] = IF Len(todo[i]) = 1 THEN "idle" ELSE "get"]
          \/ todo' = todo /\ pc' = [pc EXCEPT ![i] = "send"]
      BY <2>4 DEF AlreadySent, MarkSent, Advance
    <3>4. \A j \in Dispatcher : j # i => todo'[j] = todo[j] /\ pc'[j] = pc[j]
      BY <1>0, <3>3
    <3>5. pc'[i] # "idle" => Len(todo'[i]) >= 1
      <4>1. CASE todo' = todo
        BY <3>1, <4>1
      <4>2. CASE /\ todo' = [todo EXCEPT ![i] = Tail(@)]
                 /\ pc' = [pc EXCEPT ![i] = IF Len(todo[i]) = 1 THEN "idle"
                                            ELSE "get"]
        <5>1. todo'[i] = Tail(todo[i])
          BY <1>0, <4>2
        <5>2. pc'[i] = IF Len(todo[i]) = 1 THEN "idle" ELSE "get"
          BY <1>0, <4>2
        <5>3. Len(todo'[i]) = Len(todo[i]) - 1
          BY <3>2, <5>1
        <5>4. Len(todo[i]) # 1 => Len(todo'[i]) >= 1
          <6>1. ASSUME NEW a \in Nat, NEW b, b = a - 1, a >= 1, a # 1
                PROVE  b >= 1
            BY <6>1
          <6>2. QED
            BY <3>1, <3>2, <5>3, <6>1
        <5>5. QED
          BY <5>2, <5>4
      <4>3. QED
        BY <3>3, <4>1, <4>2
    <3>6. pc'[i] # "mark"
      BY <1>0, <3>3
    <3>7. QED
      BY <1>0, <2>1, <3>4, <3>5, <3>6 DEF BusyHasWork
  <2>5. ASSUME NEW i \in Dispatcher, Publish(i) \/ PublishFails(i) \/ Crash(i)
        PROVE  BusyHasWork'
    BY <1>0, <2>1, <2>5 DEF Publish, PublishFails, Crash, BusyHasWork
  <2>6. QED
    BY <2>2, <2>3, <2>4, <2>5 DEF Next, DispatchStep
<1>6. QED
  BY <1>1, <1>2, <1>4, <1>5 DEF BInv

(* The invariant holds for any number of dispatchers.                       *)
THEOREM DispatchInvariant == Spec => []BInv
BY InitEstablishesBInv, StepPreservesBInv, PTL DEF Spec

(* The moment before the rooms of round r + 1 open belongs to the break     *)
(* after round r, if the break is longer than the preconnect time.          *)
LEMMA BreakBeforePreconnect ==
  ASSUME TypeOK, Sound(rounds), PreconnectDuration < BreakDuration,
         NEW r \in Rounds, r + 1 \in Rounds,
         clock < rounds[r + 1].starts_at - PreconnectDuration,
         clock + 1 >= rounds[r + 1].starts_at - PreconnectDuration
  PROVE  CurrentPlan = <<K("round_end", r)>>
<1>0. /\ clock \in Int /\ rounds \in Timetables
      /\ \A q \in Rounds : rounds[q].starts_at \in Int /\ rounds[q].ends_at \in Int
  BY TimetableTypes DEF TypeOK
<1>1. rounds[r].ends_at + BreakDuration <= rounds[r + 1].starts_at
  BY RoundTypes DEF Sound
<1>2. /\ rounds[r].ends_at \in Int /\ rounds[r + 1].starts_at \in Int
      /\ BreakDuration \in Nat /\ PreconnectDuration \in Nat
  BY <1>0, ConstantTypes
<1>3. rounds[r].ends_at <= clock
  BY <1>0, <1>1, <1>2
<1>4. InBreak(rounds, r, clock)
  BY <1>3 DEF InBreak
<1>5. \A q \in Rounds : q <= r => rounds[q].starts_at < rounds[q].ends_at
                                    /\ rounds[q].ends_at <= clock
  <2> SUFFICES ASSUME NEW q \in Rounds, q <= r
               PROVE  /\ rounds[q].starts_at < rounds[q].ends_at
                      /\ rounds[q].ends_at <= clock
    OBVIOUS
  <2>1. /\ rounds[q].starts_at < rounds[q].ends_at
        /\ rounds[r].starts_at < rounds[r].ends_at
    BY DEF Sound
  <2>2. q = r \/ rounds[q].ends_at + BreakDuration <= rounds[r].starts_at
    BY RoundTypes DEF Sound
  <2>3. /\ rounds[q].starts_at \in Int /\ rounds[q].ends_at \in Int
        /\ rounds[r].starts_at \in Int
    BY <1>0
  <2>4. QED
    BY <1>0, <1>2, <1>3, <2>1, <2>2, <2>3
<1>6. ASSUME NEW q \in Rounds, q < r PROVE q \notin Hits(rounds, clock)
  <2>1. rounds[q].starts_at < rounds[q].ends_at /\ rounds[q].ends_at <= clock
    BY <1>5, <1>6, RoundTypes
  <2>2. rounds[q].starts_at \in Int /\ rounds[q].ends_at \in Int
    BY <1>0
  <2>3. ~InPreconnect(rounds, q, clock) /\ ~InRound(rounds, q, clock)
    BY <1>0, <2>1, <2>2 DEF InPreconnect, InRound
  <2>4. q + 1 \in Rounds => rounds[q + 1].starts_at <= clock
    <3>1. SUFFICES ASSUME q + 1 \in Rounds PROVE rounds[q + 1].starts_at <= clock
      OBVIOUS
    <3>2. q + 1 <= r
      BY <1>6, RoundTypes
    <3>3. /\ rounds[q + 1].starts_at < rounds[q + 1].ends_at
          /\ rounds[q + 1].ends_at <= clock
      BY <1>5, <3>1, <3>2
    <3>4. rounds[q + 1].starts_at \in Int /\ rounds[q + 1].ends_at \in Int
      BY <1>0, <3>1
    <3>5. QED
      BY <1>0, <3>3, <3>4
  <2>5. ~InBreak(rounds, q, clock)
    <3>1. SUFFICES ASSUME InBreak(rounds, q, clock) PROVE FALSE
      OBVIOUS
    <3>2. q + 1 \in Rounds /\ clock < rounds[q + 1].starts_at - PreconnectDuration
      BY <3>1 DEF InBreak
    <3>3. rounds[q + 1].starts_at <= clock /\ rounds[q + 1].starts_at \in Int
      BY <1>0, <2>4, <3>2
    <3>4. QED
      BY <1>0, <1>2, <3>2, <3>3
  <2>6. QED
    BY <2>3, <2>5 DEF Hits
<1>7. r \in Hits(rounds, clock)
  BY <1>4 DEF Hits
<1>8. FirstHit(rounds, clock) = r
  <2> DEFINE H == Hits(rounds, clock)
  <2>1. H \in SUBSET Rounds
    BY DEF Hits
  <2>2. \A q \in H : q \in Rounds /\ q \in Int /\ ~(q < r) /\ r \in Int
    BY <1>6, <2>1, RoundTypes
  <2> HIDE DEF H
  <2>3. r \in H /\ \A q \in H : r <= q
    BY <1>7, <2>2 DEF H
  <2>4. (CHOOSE x \in H : \A q \in H : x <= q) = r
    BY <2>2, <2>3
  <2>5. QED
    BY <2>4 DEF FirstHit, H
<1>9. ~InPreconnect(rounds, r, clock) /\ ~InRound(rounds, r, clock)
  <2>1. rounds[r].starts_at < rounds[r].ends_at /\ rounds[r].starts_at \in Int
    BY <1>0 DEF Sound
  <2>2. QED
    BY <1>0, <1>2, <1>3, <2>1 DEF InPreconnect, InRound
<1>10. ~(clock < rounds[1].starts_at - PreconnectDuration)
  <2>1. 1 \in Rounds /\ 1 <= r
    BY ConstantTypes, RoundTypes
  <2>2. /\ rounds[1].starts_at < rounds[1].ends_at /\ rounds[1].ends_at <= clock
        /\ rounds[1].starts_at \in Int /\ rounds[1].ends_at \in Int
    BY <1>0, <1>5, <2>1
  <2>3. QED
    BY <1>0, <1>2, <2>2
<1>11. get_current_phase(rounds, clock) = [phase |-> BREAK, round |-> r]
  BY <1>7, <1>8, <1>9, <1>10 DEF get_current_phase
<1>12. r # NoRound
  BY RoundTypes DEF NoRound
<1>13. QED
  BY <1>11, <1>12 DEF CurrentPlan, Plan, PRECONNECT, IN_ROUND, BREAK, COMPLETED

(* The event begins well before any second round.                           *)
LEMMA InitUsesBreaks ==
  ASSUME Init, PreconnectDuration < BreakDuration
  PROVE  BreakIsUsed
<1>1. /\ rounds \in Timetables /\ Sound(rounds) /\ rounds[1].starts_at >= 0
      /\ clock = 0
  BY ScheduleIsSound DEF Init
<1>2. ASSUME NEW r \in Rounds, r + 1 \in Rounds
      PROVE  ~(rounds[r + 1].starts_at - PreconnectDuration <= clock)
  <2>1. 1 \in Rounds /\ 1 < r + 1
    BY ConstantTypes, RoundTypes
  <2>2. /\ rounds[1].ends_at + BreakDuration <= rounds[r + 1].starts_at
        /\ rounds[1].starts_at < rounds[1].ends_at
    BY <1>1, <1>2, <2>1 DEF Sound
  <2>3. /\ rounds[1].starts_at \in Int /\ rounds[1].ends_at \in Int
        /\ rounds[r + 1].starts_at \in Int
        /\ BreakDuration \in Nat /\ PreconnectDuration \in Nat
    BY <1>1, <1>2, <2>1, TimetableTypes, ConstantTypes
  <2>4. QED
    BY <1>1, <2>2, <2>3
<1>3. QED
  BY <1>2 DEF BreakIsUsed

(* A tick that leaves a break finds the end of its round marked, or is late.*)
LEMMA StepUsesBreaks ==
  ASSUME BInv, BreakIsUsed, [Next]_vars, PreconnectDuration < BreakDuration
  PROVE  BreakIsUsed'
<1>1. SUFFICES ASSUME NEW r \in Rounds, r + 1 \in Rounds, r <= MaxRoundNumber,
                      ~late',
                      rounds'[r + 1].starts_at - PreconnectDuration <= clock'
               PROVE  K("round_end", r) \in marks'
  BY DEF BreakIsUsed
<1>2. marks \subseteq marks'
  BY StepSources
<1>3. ~late
  <2>1. late \in BOOLEAN
    BY DEF BInv, TypeOK
  <2>2. late' = late \/ Tick
    BY DEF Next, Extend, DispatchStep, DispatchCall, AlreadySent, Publish,
           MarkSent, PublishFails, Crash, vars
  <2>3. QED
    BY <1>1, <2>1, <2>2 DEF Tick
<1>4. SUFFICES ASSUME ~(rounds[r + 1].starts_at - PreconnectDuration <= clock)
               PROVE  K("round_end", r) \in marks
  BY <1>1, <1>2, <1>3 DEF BreakIsUsed
<1>5. /\ rounds[r + 1].starts_at \in Int /\ clock \in Nat
      /\ PreconnectDuration \in Nat
  BY <1>1, TimetableTypes, ConstantTypes DEF BInv, TypeOK
<1>6. CASE UNCHANGED <<clock, rounds>>
  BY <1>1, <1>4, <1>6
<1>7. ASSUME NEW d \in Extras, Extend(d) PROVE K("round_end", r) \in marks
  <2>1. /\ clock' = clock /\ d \in Nat
        /\ \/ rounds'[r + 1].starts_at = rounds[r + 1].starts_at
           \/ rounds'[r + 1].starts_at = rounds[r + 1].starts_at + d
    BY <1>1, <1>7, ExtendShape
  <2>2. QED
    BY <1>1, <1>4, <1>5, <2>1
<1>8. CASE Tick
  <2>1. clock' = clock + 1 /\ rounds' = rounds /\ Caught
    BY <1>1, <1>8 DEF Tick
  <2>2. CurrentPlan = <<K("round_end", r)>>
    <3>1. /\ clock < rounds[r + 1].starts_at - PreconnectDuration
          /\ clock + 1 >= rounds[r + 1].starts_at - PreconnectDuration
      BY <1>1, <1>4, <1>5, <2>1
    <3>2. QED
      BY <1>1, <3>1, BreakBeforePreconnect DEF BInv
  <2>3. Valid(K("round_end", r))
    BY <1>1 DEF Valid, K
  <2>4. Len(CurrentPlan) = 1 /\ CurrentPlan[1] = K("round_end", r)
    BY <2>2
  <2>5. \/ CurrentPlan[1] \in marks
        \/ \E m \in 1..1 : ~Valid(CurrentPlan[m])
    BY <2>1, <2>4 DEF Caught
  <2>6. QED
    BY <2>3, <2>4, <2>5
<1>9. QED
  BY <1>6, <1>7, <1>8, TimeMoves

(* Whatever the timetable, the number of dispatchers, the extensions and    *)
(* the crashes: when breaks are longer than the preconnect time, no round   *)
(* is announced before the end of the one before it has been, unless a      *)
(* second passed without a completed dispatch.                              *)
THEOREM DispatchRoundEnd ==
  ASSUME PreconnectDuration < BreakDuration
  PROVE  Spec => []RoundEndIsSent
<1>1. Init => BInv /\ BreakIsUsed
  BY InitEstablishesBInv, InitUsesBreaks
<1>2. (BInv /\ BreakIsUsed) /\ [Next]_vars => (BInv /\ BreakIsUsed)'
  BY StepPreservesBInv, StepUsesBreaks
<1>3. BInv /\ BreakIsUsed => RoundEndIsSent
  <2> SUFFICES ASSUME BInv, BreakIsUsed, NEW r \in Rounds, r + 1 \in Rounds,
                      K("pairing", r + 1) \in marks, ~late
               PROVE  K("round_end", r) \in marks
    BY DEF RoundEndIsSent
  <2> DEFINE k == K("pairing", r + 1)
  <2>1. k.kind = "pairing" /\ k.round = r + 1 /\ k \in Key
    BY DEF K, Key, Kind
  <2>2. Valid(k) /\ Due(k)
    BY DEF BInv, BusyHasWork, AllDue
  <2> HIDE DEF k
  <2>3. r + 1 <= MaxRoundNumber
    BY <2>1, <2>2 DEF Valid
  <2>4. rounds[r + 1].starts_at - PreconnectDuration <= clock
    BY <2>1, <2>2 DEF Due
  <2>5. r <= MaxRoundNumber
    BY <2>3, RoundTypes, ConstantTypes
  <2>6. QED
    BY <2>4, <2>5 DEF BreakIsUsed
<1>4. QED
  BY <1>1, <1>2, <1>3, PTL DEF Spec

-----------------------------------------------------------------------------
(* One dispatcher at a time *)

(* Before the first dispatch nothing is sent.                               *)
LEMMA InitEstablishesSInv == Init => SInv
<1> SUFFICES ASSUME Init PROVE SInv
  OBVIOUS
<1>1. /\ stream = <<>> /\ Len(stream) = 0
      /\ \A i \in Dispatcher : todo[i] = <<>> /\ Len(todo[i]) = 0 /\ pc[i] = "idle"
  BY DEF Init
<1>2. BeforeIsMarked /\ PlanIsAhead /\ StillUnmarked /\ SentIsAccounted
  BY <1>1 DEF BeforeIsMarked, PlanIsAhead, StillUnmarked, SentIsAccounted
<1>3. InOrder /\ AtMostOnce
  BY <1>1 DEF InOrder, AtMostOnce
<1>4. QED
  BY <1>2, <1>3 DEF SInv

(* When the head of a plan is marked, what is left of it is still a plan    *)
(* whose messages come after their predecessors and after what was sent.    *)
LEMMA RestOfPlan ==
  ASSUME OneDispatcher, BInv, SInv, NEW i \in Dispatcher, Len(todo[i]) >= 1,
         todo'[i] = Tail(todo[i]), stream' = stream,
         marks \subseteq marks', Head(todo[i]) \in marks'
  PROVE  BeforeIsMarked' /\ PlanIsAhead'
<1> DEFINE s == todo[i]
           L == Len(s)
<1>1. \A j \in Dispatcher : j = i
  BY DEF OneDispatcher
<1>2. s \in Seq(Key) /\ L \in Nat /\ L >= 1
  BY DEF BInv, TypeOK
<1>3. /\ Head(s) = s[1] /\ Len(Tail(s)) = L - 1
      /\ \A n \in 1..(L - 1) : n + 1 \in 1..L /\ Tail(s)[n] = s[n + 1]
  BY <1>2, HeadAndTail
<1>4. \A n \in 1..L : \A k \in Before(s[n]) :
        k \in marks \/ \E m \in 1..(n - 1) : s[m] = k
  BY DEF SInv, BeforeIsMarked
<1>5. /\ \A m, n \in 1..L : m < n => Rank(s[m]) <= Rank(s[n])
      /\ \A n \in 1..L : \/ s[n] \in marks
                         \/ \A m \in 1..Len(stream) : Rank(stream[m]) <= Rank(s[n])
  BY DEF SInv, PlanIsAhead
<1>6. \A n \in 1..Len(stream) : Before(stream[n]) \subseteq marks
  BY DEF SInv, BeforeIsMarked
<1> DEFINE u == Tail(s)
<1>7. Head(s) \in marks' /\ todo'[i] = u
  OBVIOUS
<1> HIDE DEF s, u, L
<1>8. ASSUME NEW n \in 1..(L - 1), NEW k \in Before(u[n])
      PROVE  k \in marks' \/ \E m \in 1..(n - 1) : u[m] = k
  <2>1. n + 1 \in 1..L /\ u[n] = s[n + 1] /\ (n + 1) - 1 = n
    BY <1>2, <1>3 DEF u
  <2>2. k \in marks \/ \E m \in 1..n : s[m] = k
    <3>1. k \in marks \/ \E m \in 1..((n + 1) - 1) : s[m] = k
      BY <1>4, <1>8, <2>1
    <3>2. QED
      BY <2>1, <3>1
  <2>3. ASSUME NEW m \in 1..n, s[m] = k, m # 1
        PROVE  \E x \in 1..(n - 1) : u[x] = k
    <3>1. m - 1 \in 1..(n - 1) /\ m - 1 \in 1..(L - 1) /\ (m - 1) + 1 = m
      BY <1>2, <2>3
    <3>2. u[m - 1] = s[m]
      BY <1>3, <3>1 DEF u
    <3>3. QED
      BY <2>3, <3>1, <3>2
  <2>4. s[1] \in marks'
    BY <1>3, <1>7
  <2>5. QED
    BY <2>2, <2>3, <2>4
<1>9. \A m, n \in 1..(L - 1) : m < n => Rank(u[m]) <= Rank(u[n])
  <2> SUFFICES ASSUME NEW m \in 1..(L - 1), NEW n \in 1..(L - 1), m < n
               PROVE  Rank(u[m]) <= Rank(u[n])
    OBVIOUS
  <2>1. m + 1 < n + 1 /\ m + 1 \in 1..L /\ n + 1 \in 1..L
    BY <1>2
  <2>2. u[m] = s[m + 1] /\ u[n] = s[n + 1]
    BY <1>3 DEF u
  <2>3. QED
    BY <1>5, <2>1, <2>2
<1>10. \A n \in 1..(L - 1) :
         \/ u[n] \in marks'
         \/ \A m \in 1..Len(stream) : Rank(stream[m]) <= Rank(u[n])
  BY <1>3, <1>5 DEF u
<1>11. Len(u) = L - 1
  BY <1>3 DEF u
<1>12. BeforeIsMarked'
  BY <1>1, <1>6, <1>7, <1>8, <1>11 DEF BeforeIsMarked
<1>13. PlanIsAhead'
  BY <1>1, <1>7, <1>9, <1>10, <1>11 DEF PlanIsAhead
<1>14. QED
  BY <1>12, <1>13

(* A dispatch that has been given up leaves no plan.                        *)
LEMMA NoPlan ==
  ASSUME OneDispatcher, SInv, NEW i \in Dispatcher, todo'[i] = <<>>,
         stream' = stream, marks' = marks
  PROVE  BeforeIsMarked' /\ PlanIsAhead'
<1>1. \A j \in Dispatcher : todo'[j] = <<>> /\ Len(todo'[j]) = 0
  BY DEF OneDispatcher
<1>2. QED
  BY <1>1 DEF SInv, BeforeIsMarked, PlanIsAhead

(* Sending: the message was not marked, so nothing sent is ahead of it, and *)
(* if it was sent before then by a dispatcher that died.                    *)
LEMMA SendingKeepsOrder ==
  ASSUME OneDispatcher, BInv, SInv, NEW i \in Dispatcher, pc[i] = "send",
         stream' = Append(stream, Head(todo[i])), todo' = todo,
         pc' = [pc EXCEPT ![i] = "mark"], UNCHANGED <<marks, crashed>>
  PROVE  SInv'
<1> DEFINE s == todo[i]
           h == Head(todo[i])
           N == Len(stream)
<1>0. \A j \in Dispatcher : j = i
  BY DEF OneDispatcher
<1>1. /\ s \in Seq(Key) /\ Len(s) \in Nat /\ Len(s) >= 1 /\ stream \in Seq(Key)
      /\ N \in Nat /\ pc \in [Dispatcher -> {"idle", "get", "send", "mark"}]
  BY DEF BInv, TypeOK, BusyHasWork
<1>2. h = s[1] /\ h \in Key /\ 1 \in 1..Len(s) /\ h \notin marks
  BY <1>1, HeadAndTail DEF SInv, StillUnmarked
<1>3. \A m \in 1..N : Rank(stream[m]) <= Rank(h)
  BY <1>2 DEF SInv, PlanIsAhead
<1>4. /\ Len(stream') = N + 1 /\ stream'[N + 1] = h
      /\ \A m \in 1..N : stream'[m] = stream[m] /\ stream[m] \in Key
  BY <1>1, <1>2
<1>5. pc'[i] = "mark" /\ todo'[i] = s
  BY <1>1
<1>6. /\ \A m, n \in 1..Len(s) : m < n => Rank(s[m]) <= Rank(s[n])
      /\ \A n \in 1..Len(s) :
           s[n] \in marks \/ \A m \in 1..N : Rank(stream[m]) <= Rank(s[n])
  BY DEF SInv, PlanIsAhead
<1>7. /\ \A n \in 1..N : Before(stream[n]) \subseteq marks
      /\ \A n \in 1..Len(s) : \A k \in Before(s[n]) :
           k \in marks \/ \E m \in 1..(n - 1) : s[m] = k
  BY DEF SInv, BeforeIsMarked
<1>8. \A n \in 1..N : stream[n] \in marks \cup crashed
  BY <1>0 DEF SInv, SentIsAccounted
<1>9. \A m, n \in 1..N : /\ m < n => Rank(stream[m]) <= Rank(stream[n])
                         /\ m # n /\ stream[m] = stream[n] => stream[m] \in crashed
  BY DEF SInv, InOrder, AtMostOnce
<1>10. /\ Rank(h) \in Int /\ \A n \in 1..Len(s) : s[n] \in Key /\ Rank(s[n]) \in Int
       /\ marks' = marks /\ crashed' = crashed /\ Head(todo'[i]) = h
  BY <1>1, <1>2, RankOfKey
<1> HIDE DEF s, h, N
<1>11. Before(h) \subseteq marks
  <2> SUFFICES ASSUME NEW k \in Before(h) PROVE k \in marks
    OBVIOUS
  <2>1. k \in marks \/ \E m \in 1..(1 - 1) : s[m] = k
    BY <1>2, <1>7
  <2>2. QED
    BY <2>1
<1>12. BeforeIsMarked'
  <2>1. \A n \in 1..(N + 1) : Before(stream'[n]) \subseteq marks
    <3> SUFFICES ASSUME NEW n \in 1..(N + 1) PROVE Before(stream'[n]) \subseteq marks
      OBVIOUS
    <3>1. CASE n = N + 1
      BY <1>4, <1>11, <3>1
    <3>2. CASE n \in 1..N
      BY <1>4, <1>7, <3>2
    <3>3. n = N + 1 \/ n \in 1..N
      BY <1>1
    <3>4. QED
      BY <3>1, <3>2, <3>3
  <2>2. QED
    BY <1>0, <1>4, <1>5, <1>7, <1>10, <2>1 DEF BeforeIsMarked
<1>13. PlanIsAhead'
  <2>1. ASSUME NEW n \in 1..Len(s), s[n] \notin marks, NEW m \in 1..(N + 1)
        PROVE  Rank(stream'[m]) <= Rank(s[n])
    <3>1. CASE m \in 1..N
      BY <1>4, <1>6, <2>1, <3>1
    <3>2. CASE m = N + 1
      <4>1. Rank(h) <= Rank(s[n])
        <5>1. CASE n = 1
          BY <1>2, <1>10, <5>1
        <5>2. CASE n # 1
          <6>1. 1 < n
            BY <1>1, <5>2
          <6>2. QED
            BY <1>2, <1>6, <6>1
        <5>3. QED
          BY <5>1, <5>2
      <4>2. QED
        BY <1>4, <3>2, <4>1
    <3>3. m = N + 1 \/ m \in 1..N
      BY <1>1
    <3>4. QED
      BY <3>1, <3>2, <3>3
  <2>2. QED
    BY <1>0, <1>4, <1>5, <1>6, <1>10, <2>1 DEF PlanIsAhead
<1>14. StillUnmarked'
  BY <1>0, <1>5 DEF StillUnmarked
<1>15. SentIsAccounted'
  <2>1. \A n \in 1..(N + 1) : stream'[n] \in marks \cup crashed \/ stream'[n] = h
    <3> SUFFICES ASSUME NEW n \in 1..(N + 1)
                 PROVE  stream'[n] \in marks \cup crashed \/ stream'[n] = h
      OBVIOUS
    <3>1. n = N + 1 \/ n \in 1..N
      BY <1>1
    <3>2. QED
      BY <1>4, <1>8, <3>1
  <2>2. QED
    BY <1>4, <1>5, <1>10, <2>1 DEF SentIsAccounted
<1>16. InOrder'
  <2> SUFFICES ASSUME NEW m \in 1..(N + 1), NEW n \in 1..(N + 1), m < n
               PROVE  Rank(stream'[m]) <= Rank(stream'[n])
    BY <1>4 DEF InOrder
  <2>1. m \in 1..N /\ (n \in 1..N \/ n = N + 1)
    BY <1>1
  <2>2. QED
    BY <1>3, <1>4, <1>9, <2>1
<1>17. AtMostOnce'
  <2> SUFFICES ASSUME NEW m \in 1..(N + 1), NEW n \in 1..(N + 1), m # n,
                      stream'[m] = stream'[n]
               PROVE  stream'[m] \in crashed
    BY <1>4, <1>10 DEF AtMostOnce
  <2>1. (m \in 1..N \/ m = N + 1) /\ (n \in 1..N \/ n = N + 1)
    BY <1>1
  <2>2. QED
    BY <1>2, <1>4, <1>8, <1>9, <2>1
<1>18. QED
  BY <1>12, <1>13, <1>14, <1>15, <1>16, <1>17 DEF SInv

(* Every step keeps the invariant of a single dispatcher.                   *)
LEMMA StepPreservesSInv ==
  ASSUME OneDispatcher, BInv, SInv, [Next]_vars
  PROVE  SInv'
<1>0. /\ todo \in [Dispatcher -> Seq(Key)]
      /\ pc \in [Dispatcher -> {"idle", "get", "send", "mark"}]
      /\ \A i \in Dispatcher : pc[i] # "idle" => Len(todo[i]) >= 1
      /\ \A i, j \in Dispatcher : i = j
  BY DEF BInv, TypeOK, BusyHasWork, OneDispatcher
<1>1. ASSUME stream' = stream, crashed \subseteq crashed'
      PROVE  InOrder' /\ AtMostOnce'
  BY <1>1 DEF SInv, InOrder, AtMostOnce
<1>2. CASE Tick \/ (\E d \in Extras : Extend(d)) \/ UNCHANGED vars
  <2>1. UNCHANGED <<marks, pc, todo, stream, crashed>>
    BY <1>2 DEF Tick, Extend, vars
  <2>2. QED
    BY <2>1 DEF SInv, BeforeIsMarked, PlanIsAhead, StillUnmarked,
                SentIsAccounted, InOrder, AtMostOnce
<1>3. ASSUME NEW i \in Dispatcher, DispatchCall(i) PROVE SInv'
  <2>1. /\ CurrentPlan # <<>> /\ pc[i] = "idle"
        /\ UNCHANGED <<marks, stream, crashed>>
        /\ todo'[i] = CurrentPlan /\ pc'[i] = "get"
    BY <1>0, <1>3 DEF DispatchCall
  <2>2. /\ Len(CurrentPlan) >= 1
        /\ \A m, n \in 1..Len(CurrentPlan) :
             m < n => Rank(CurrentPlan[m]) <= Rank(CurrentPlan[n])
        /\ \A n \in 1..Len(CurrentPlan) : \A k \in Before(CurrentPlan[n]) :
             \E m \in 1..(n - 1) : CurrentPlan[m] = k
        /\ \A k \in Key : \A n \in 1..Len(CurrentPlan) :
             Due(k) => \/ Rank(k) <= Rank(CurrentPlan[n])
                       \/ CurrentPlan[n] \in Before(k)
    BY <2>1, PlanProperties DEF BInv
  <2>3. \A m \in 1..Len(stream) :
          /\ stream[m] \in Key /\ Due(stream[m]) /\ Before(stream[m]) \subseteq marks
    BY DEF BInv, TypeOK, AllDue, SInv, BeforeIsMarked
  <2>4. BeforeIsMarked'
    <3>1. \A j \in Dispatcher : todo'[j] = CurrentPlan
      BY <1>0, <2>1
    <3>2. \A j \in Dispatcher : \A n \in 1..Len(todo'[j]) :
            \A k \in Before(todo'[j][n]) : \E m \in 1..(n - 1) : todo'[j][m] = k
      BY <2>2, <3>1
    <3>3. \A n \in 1..Len(stream') : Before(stream'[n]) \subseteq marks'
      BY <2>1, <2>3
    <3>4. \A j \in Dispatcher : \A n \in 1..Len(todo'[j]) :
            \A k \in Before(todo'[j][n]) :
              k \in marks' \/ \E m \in 1..(n - 1) : todo'[j][m] = k
      BY <3>2
    <3>5. QED
      BY ONLY <3>3, <3>4, Zenon DEF BeforeIsMarked
  <2>5. \A n \in 1..Len(CurrentPlan) :
          CurrentPlan[n] \in marks \/
          \A m \in 1..Len(stream) : Rank(stream[m]) <= Rank(CurrentPlan[n])
    <3>1. SUFFICES ASSUME NEW n \in 1..Len(CurrentPlan),
                          NEW m \in 1..Len(stream), CurrentPlan[n] \notin marks
                   PROVE  Rank(stream[m]) <= Rank(CurrentPlan[n])
      OBVIOUS
    <3>2. stream[m] \in Key /\ Due(stream[m]) /\ Before(stream[m]) \subseteq marks
      BY <2>3
    <3>3. CurrentPlan[n] \notin Before(stream[m])
      BY <3>1, <3>2
    <3>4. QED
      BY <2>2, <3>2, <3>3
  <2>6. PlanIsAhead'
    BY <1>0, <2>1, <2>2, <2>5 DEF PlanIsAhead
  <2>7. StillUnmarked'
    BY <1>0, <2>1 DEF StillUnmarked
  <2>8. SentIsAccounted'
    BY <1>0, <2>1 DEF SInv, SentIsAccounted
  <2>9. QED
    BY <1>1, <2>1, <2>4, <2>6, <2>7, <2>8 DEF SInv
<1>4. ASSUME NEW i \in Dispatcher, AlreadySent(i) PROVE SInv'
  <2>0. pc[i] = "get" /\ Len(todo[i]) >= 1 /\ UNCHANGED <<marks, stream, crashed>>
    BY <1>0, <1>4 DEF AlreadySent
  <2>1. SentIsAccounted'
    <3>1. \A n \in 1..Len(stream) : stream[n] \in marks \cup crashed
      BY <1>0, <2>0 DEF SInv, SentIsAccounted
    <3>2. QED
      BY <2>0, <3>1 DEF SentIsAccounted
  <2>2. CASE Head(todo[i]) \in marks
    <3>1. /\ todo'[i] = Tail(todo[i])
          /\ pc'[i] = IF Len(todo[i]) = 1 THEN "idle" ELSE "get"
      BY <1>0, <1>4, <2>2 DEF AlreadySent, Advance
    <3>2. BeforeIsMarked' /\ PlanIsAhead'
      BY <2>0, <2>2, <3>1, RestOfPlan
    <3>3. StillUnmarked'
      BY <1>0, <3>1 DEF StillUnmarked
    <3>4. QED
      BY <1>1, <2>0, <2>1, <3>2, <3>3 DEF SInv
  <2>3. CASE Head(todo[i]) \notin marks
    <3>1. todo' = todo
      BY <1>4, <2>3 DEF AlreadySent
    <3>2. BeforeIsMarked' /\ PlanIsAhead'
      BY <2>0, <3>1 DEF SInv, BeforeIsMarked, PlanIsAhead
    <3>3. StillUnmarked'
      BY <1>0, <2>0, <2>3, <3>1 DEF StillUnmarked
    <3>4. QED
      BY <1>1, <2>0, <2>1, <3>2, <3>3 DEF SInv
  <2>4. QED
    BY <2>2, <2>3
<1>5. ASSUME NEW i \in Dispatcher, Publish(i) PROVE SInv'
  <2>1. CASE Valid(Head(todo[i]))
    <3>1. /\ pc[i] = "send" /\ pc' = [pc EXCEPT ![i] = "mark"] /\ todo' = todo
          /\ stream' = Append(stream, Head(todo[i]))
          /\ UNCHANGED <<marks, crashed>>
      BY <1>0, <1>5, <2>1 DEF Publish
    <3>2. QED
      BY <3>1, SendingKeepsOrder
  <2>2. CASE ~Valid(Head(todo[i]))
    <3>1. /\ pc[i] = "send" /\ pc'[i] = "idle" /\ todo'[i] = <<>>
          /\ UNCHANGED <<stream, marks, crashed>>
      BY <1>0, <1>5, <2>2 DEF Publish
    <3>2. BeforeIsMarked' /\ PlanIsAhead'
      BY <3>1, NoPlan
    <3>3. StillUnmarked' /\ SentIsAccounted'
      BY <1>0, <3>1 DEF SInv, StillUnmarked, SentIsAccounted
    <3>4. QED
      BY <1>1, <3>1, <3>2, <3>3 DEF SInv
  <2>3. QED
    BY <2>1, <2>2
<1>6. ASSUME NEW i \in Dispatcher, MarkSent(i) PROVE SInv'
  <2>1. /\ pc[i] = "mark" /\ Len(todo[i]) >= 1
        /\ todo'[i] = Tail(todo[i])
        /\ pc'[i] = IF Len(todo[i]) = 1 THEN "idle" ELSE "get"
        /\ marks' = marks \cup {Head(todo[i])}
        /\ UNCHANGED <<stream, crashed>>
    BY <1>0, <1>6 DEF MarkSent, Advance
  <2>2. BeforeIsMarked' /\ PlanIsAhead'
    BY <2>1, RestOfPlan
  <2>3. StillUnmarked'
    BY <1>0, <2>1 DEF StillUnmarked
  <2>4. SentIsAccounted'
    <3>1. \A n \in 1..Len(stream) : stream[n] \in marks' \cup crashed
      BY <1>0, <2>1 DEF SInv, SentIsAccounted
    <3>2. QED
      BY <2>1, <3>1 DEF SentIsAccounted
  <2>5. QED
    BY <1>1, <2>1, <2>2, <2>3, <2>4 DEF SInv
<1>7. ASSUME NEW i \in Dispatcher, PublishFails(i) PROVE SInv'
  <2>1. /\ pc[i] = "send" /\ pc'[i] = "mark"
        /\ UNCHANGED <<todo, marks, stream, crashed>>
    BY <1>0, <1>7 DEF PublishFails
  <2>2. BeforeIsMarked' /\ PlanIsAhead'
    BY <2>1 DEF SInv, BeforeIsMarked, PlanIsAhead
  <2>3. StillUnmarked' /\ SentIsAccounted'
    BY <1>0, <2>1 DEF SInv, StillUnmarked, SentIsAccounted
  <2>4. QED
    BY <1>1, <2>1, <2>2, <2>3 DEF SInv
<1>8. ASSUME NEW i \in Dispatcher, Crash(i) PROVE SInv'
  <2>1. /\ pc'[i] = "idle" /\ todo'[i] = <<>> /\ UNCHANGED <<stream, marks>>
        /\ crashed' = IF pc[i] = "mark" THEN crashed \cup {Head(todo[i])}
                      ELSE crashed
    BY <1>0, <1>8 DEF Crash
  <2>2. BeforeIsMarked' /\ PlanIsAhead'
    BY <2>1, NoPlan
  <2>3. StillUnmarked'
    BY <1>0, <2>1 DEF StillUnmarked
  <2>4. SentIsAccounted'
    <3>1. \A n \in 1..Len(stream) : stream[n] \in marks \cup crashed'
      BY <1>0, <2>1 DEF SInv, SentIsAccounted
    <3>2. QED
      BY <2>1, <3>1 DEF SentIsAccounted
  <2>5. QED
    BY <1>1, <2>1, <2>2, <2>3, <2>4 DEF SInv
<1>9. QED
  BY <1>2, <1>3, <1>4, <1>5, <1>6, <1>7, <1>8 DEF Next, DispatchStep

(* With one dispatcher at a time the messages of an event reach a           *)
(* participant in the order of the protocol, however its dispatches are     *)
(* delayed, however often it dies and whatever is extended meanwhile.       *)
THEOREM DispatchOrder ==
  ASSUME OneDispatcher
  PROVE  Spec => []InOrder
<1>1. Init => BInv /\ SInv
  BY InitEstablishesBInv, InitEstablishesSInv
<1>2. (BInv /\ SInv) /\ [Next]_vars => (BInv /\ SInv)'
  BY StepPreservesBInv, StepPreservesSInv
<1>3. SInv => InOrder
  BY DEF SInv
<1>4. QED
  BY <1>1, <1>2, <1>3, PTL DEF Spec

(* With one dispatcher at a time the marks of the shared cache make every   *)
(* message unique, unless the dispatcher dies between publishing a message  *)
(* and marking it.                                                          *)
THEOREM DispatchOnce ==
  ASSUME OneDispatcher
  PROVE  Spec => []AtMostOnce
<1>1. Init => BInv /\ SInv
  BY InitEstablishesBInv, InitEstablishesSInv
<1>2. (BInv /\ SInv) /\ [Next]_vars => (BInv /\ SInv)'
  BY StepPreservesBInv, StepPreservesSInv
<1>3. SInv => AtMostOnce
  BY DEF SInv
<1>4. QED
  BY <1>1, <1>2, <1>3, PTL DEF Spec

-----------------------------------------------------------------------------
(* The call room: where the server is *)

Now == get_current_phase(rounds, clock)

(* What the clock and the timetable say is what get_current_phase returns.  *)
LEMMA PhaseOfTime ==
  ASSUME NEW rs \in Timetables, Sound(rs), NEW t \in Int, NEW r \in Rounds
  PROVE  LET now == get_current_phase(rs, t)
         IN  /\ /\ InPreconnect(rs, r, t)
                /\ \A q \in Rounds : q < r => rs[q].ends_at <= t
                => now.phase = PRECONNECT /\ now.round = r
             /\ InRound(rs, r, t) => now.phase = IN_ROUND /\ now.round = r
             /\ InBreak(rs, r, t) => now.phase = BREAK /\ now.round = r
             /\ rs[NumRounds].ends_at <= t =>
                  now.phase = COMPLETED /\ now.round = NumRounds
             /\ now.phase = NOT_STARTED => t < rs[1].starts_at - PreconnectDuration
             /\ now.phase = NOT_STARTED <=> now.round = NoRound
<1> DEFINE now == get_current_phase(rs, t)
           c == now.round
<1>0. /\ \A q \in Rounds : rs[q].starts_at \in Int /\ rs[q].ends_at \in Int
      /\ \A q \in Rounds : rs[q].starts_at < rs[q].ends_at
      /\ \A p, q \in Rounds : p < q => rs[p].ends_at + BreakDuration <= rs[q].starts_at
  BY TimetableTypes DEF Sound
<1>1. \/ c = NoRound /\ now.phase = NOT_STARTED
      \/ /\ c \in Rounds
         /\ \A q \in Rounds : q < c => rs[q].ends_at <= t
         /\ \/ now.phase = PRECONNECT /\ InPreconnect(rs, c, t)
            \/ now.phase = IN_ROUND /\ InRound(rs, c, t)
            \/ now.phase = BREAK /\ InBreak(rs, c, t)
      \/ /\ c = NumRounds /\ now.phase = COMPLETED
         /\ rs[NumRounds].ends_at <= t
  BY PhaseShape
<1>2. c \in Rounds => c # NoRound
  BY ConstantTypes DEF NoRound
<1>3. now.phase = NOT_STARTED <=> c = NoRound
  BY <1>1, <1>2, ConstantTypes DEF NOT_STARTED, PRECONNECT, IN_ROUND, BREAK, COMPLETED
<1>4. \A q \in Rounds :
        InPreconnect(rs, q, t) \/ InRound(rs, q, t) \/ InBreak(rs, q, t) => q \in Hits(rs, t)
  BY DEF Hits
<1>5. \A q \in Rounds :
        InPreconnect(rs, q, t) \/ InRound(rs, q, t) \/ InBreak(rs, q, t) =>
          t >= rs[1].starts_at - PreconnectDuration
  <2>0. /\ PreconnectDuration \in Nat /\ 1 \in Rounds
        /\ rs[1].starts_at \in Int
    BY <1>0, ConstantTypes
  <2> SUFFICES ASSUME NEW q \in Rounds,
                 InPreconnect(rs, q, t) \/ InRound(rs, q, t) \/ InBreak(rs, q, t)
               PROVE  t >= rs[1].starts_at - PreconnectDuration
    OBVIOUS
  <2>1. rs[1].starts_at <= rs[q].starts_at
    <3>1. CASE q = 1
      BY <1>0, <3>1
    <3>2. CASE q # 1
      BY <1>0, <3>2, ConstantTypes
    <3>3. QED
      BY <3>1, <3>2
  <2>2. t >= rs[q].starts_at - PreconnectDuration
    BY <1>0, ConstantTypes DEF InPreconnect, InRound, InBreak
  <2>3. rs[q].starts_at \in Int
    BY <1>0
  <2>4. QED
    BY <2>0, <2>1, <2>2, <2>3
<1>6. \A q \in Rounds :
        InPreconnect(rs, q, t) \/ InRound(rs, q, t) \/ InBreak(rs, q, t) =>
          now.phase # NOT_STARTED /\ now.phase # COMPLETED
  <2> SUFFICES ASSUME NEW q \in Rounds,
                 InPreconnect(rs, q, t) \/ InRound(rs, q, t) \/ InBreak(rs, q, t)
               PROVE  now.phase # NOT_STARTED /\ now.phase # COMPLETED
    OBVIOUS
  <2>1. ~(t < rs[1].starts_at - PreconnectDuration) /\ Hits(rs, t) # {}
    BY <1>0, <1>4, <1>5, ConstantTypes
  <2>2. now.phase \in {PRECONNECT, IN_ROUND, BREAK}
    BY <2>1 DEF get_current_phase
  <2>3. QED
    BY <2>2 DEF NOT_STARTED, PRECONNECT, IN_ROUND, BREAK, COMPLETED
<1>c. /\ PreconnectDuration \in Nat /\ BreakDuration \in Nat /\ NumRounds \in Rounds
      /\ 1 \in Rounds /\ \A q \in Rounds : q \in Int /\ 1 <= q
  BY ConstantTypes
<1> HIDE DEF now, c
<1>7. ASSUME InRound(rs, r, t) PROVE now.phase = IN_ROUND /\ c = r
  <2>1. c \in Rounds /\ \A q \in Rounds : q < c => rs[q].ends_at <= t
    BY <1>1, <1>6, <1>7
  <2>2. ~(r < c)
    BY <1>0, <1>7, <2>1 DEF InRound
  <2>3. ~(c < r)
    <3> SUFFICES ASSUME c < r PROVE FALSE
      OBVIOUS
    <3>1. rs[c].ends_at <= rs[r].starts_at /\ rs[r].starts_at <= t
      BY <1>0, <1>7, <2>1, <1>c DEF InRound
    <3>2. InBreak(rs, c, t)
      BY <1>0, <1>1, <1>6, <1>7, <2>1, <3>1, <1>c DEF InPreconnect, InRound
    <3>3. c + 1 \in Rounds /\ t < rs[c + 1].starts_at - PreconnectDuration
      BY <3>2 DEF InBreak
    <3>4. rs[c + 1].starts_at <= rs[r].starts_at
      <4>1. CASE c + 1 = r
        BY <1>0, <4>1
      <4>2. CASE c + 1 # r
        <5>1. c + 1 < r
          BY <2>1, <4>2, <1>c
        <5>2. QED
          BY <1>0, <3>3, <5>1, <1>c
      <4>3. QED
        BY <4>1, <4>2
    <3>5. QED
      BY <1>0, <3>1, <3>3, <3>4, <2>1, <1>c
  <2>4. c = r
    BY <2>1, <2>2, <2>3, <1>c
  <2>5. QED
    BY <1>0, <1>1, <1>6, <1>7, <2>4, <1>c DEF InPreconnect, InRound, InBreak
<1>8. ASSUME InBreak(rs, r, t) PROVE now.phase = BREAK /\ c = r
  <2>1. c \in Rounds /\ \A q \in Rounds : q < c => rs[q].ends_at <= t
    BY <1>1, <1>6, <1>8
  <2>2. r + 1 \in Rounds /\ rs[r].ends_at <= t
        /\ t < rs[r + 1].starts_at - PreconnectDuration
    BY <1>8 DEF InBreak
  <2>3. ~(r < c)
    <3> SUFFICES ASSUME r < c PROVE FALSE
      OBVIOUS
    <3>1. rs[r + 1].starts_at <= rs[c].starts_at
      <4>1. CASE r + 1 = c
        BY <1>0, <2>1, <4>1
      <4>2. CASE r + 1 # c
        <5>1. r + 1 < c
          BY <2>1, <4>2, <1>c
        <5>2. QED
          BY <1>0, <2>1, <2>2, <5>1, <1>c
      <4>3. QED
        BY <4>1, <4>2
    <3>2. t < rs[c].starts_at - PreconnectDuration
      BY <1>0, <2>1, <2>2, <3>1, <1>c
    <3>3. QED
      BY <1>0, <1>1, <1>6, <1>8, <2>1, <3>2, <1>c DEF InPreconnect, InRound, InBreak
  <2>4. ~(c < r)
    <3> SUFFICES ASSUME c < r PROVE FALSE
      OBVIOUS
    <3>1. rs[c].ends_at <= rs[r].starts_at /\ rs[r].starts_at <= t
      BY <1>0, <2>1, <2>2, <1>c
    <3>2. InBreak(rs, c, t)
      BY <1>0, <1>1, <1>6, <1>8, <2>1, <3>1, <1>c DEF InPreconnect, InRound
    <3>3. c + 1 \in Rounds /\ t < rs[c + 1].starts_at - PreconnectDuration
      BY <3>2 DEF InBreak
    <3>4. rs[c + 1].starts_at <= rs[r].starts_at
      <4>1. CASE c + 1 = r
        BY <1>0, <4>1
      <4>2. CASE c + 1 # r
        <5>1. c + 1 < r
          BY <2>1, <4>2, <1>c
        <5>2. QED
          BY <1>0, <3>3, <5>1, <1>c
      <4>3. QED
        BY <4>1, <4>2
    <3>5. QED
      BY <1>0, <3>1, <3>3, <3>4, <2>1, <1>c
  <2>5. c = r
    BY <2>1, <2>3, <2>4, <1>c
  <2>6. QED
    BY <1>0, <1>1, <1>6, <1>8, <2>2, <2>5, <1>c DEF InPreconnect, InRound
<1>9. ASSUME InPreconnect(rs, r, t), \A q \in Rounds : q < r => rs[q].ends_at <= t
      PROVE  now.phase = PRECONNECT /\ c = r
  <2>1. c \in Rounds /\ \A q \in Rounds : q < c => rs[q].ends_at <= t
    BY <1>1, <1>6, <1>9
  <2>2. t < rs[r].starts_at /\ rs[r].starts_at < rs[r].ends_at
    BY <1>0, <1>9 DEF InPreconnect
  <2>3. ~(r < c)
    BY <1>0, <2>1, <2>2
  <2>4. ~(c < r)
    <3> SUFFICES ASSUME c < r PROVE FALSE
      OBVIOUS
    <3>1. rs[c].ends_at <= t /\ rs[c].starts_at < rs[c].ends_at
      BY <1>0, <1>9, <2>1
    <3>2. InBreak(rs, c, t)
      BY <1>0, <1>1, <1>6, <1>9, <2>1, <3>1, <1>c DEF InPreconnect, InRound
    <3>3. c + 1 \in Rounds /\ t < rs[c + 1].starts_at - PreconnectDuration
      BY <3>2 DEF InBreak
    <3>4. CASE c + 1 = r
      BY <1>0, <1>9, <3>3, <3>4, <1>c DEF InPreconnect
    <3>5. CASE c + 1 # r
      <4>1. c + 1 < r
        BY <2>1, <3>5, <1>c
      <4>2. rs[c + 1].ends_at <= t
        BY <1>9, <3>3, <4>1
      <4>3. QED
        BY <1>0, <3>3, <4>2, <1>c
    <3>6. QED
      BY <3>4, <3>5
  <2>5. c = r
    BY <2>1, <2>3, <2>4, <1>c
  <2>6. QED
    BY <1>0, <1>1, <1>6, <1>9, <2>2, <2>5, <1>c DEF InRound, InBreak
<1>10. ASSUME rs[NumRounds].ends_at <= t
       PROVE  now.phase = COMPLETED /\ c = NumRounds
  <2>1. \A q \in Rounds : rs[q].ends_at <= t /\ rs[q].starts_at < t
    <3> SUFFICES ASSUME NEW q \in Rounds PROVE rs[q].ends_at <= t
      BY <1>0, <1>10, <1>c
    <3>1. CASE q = NumRounds
      BY <1>10, <3>1
    <3>2. CASE q # NumRounds
      <4>1. q < NumRounds /\ NumRounds \in Rounds
        BY <3>2, ConstantTypes
      <4>2. QED
        BY <1>0, <1>10, <4>1, <1>c
    <3>3. QED
      BY <3>1, <3>2
  <2>2. \A q \in Rounds :
          ~InPreconnect(rs, q, t) /\ ~InRound(rs, q, t) /\ ~InBreak(rs, q, t)
    BY <1>0, <2>1, <1>c DEF InPreconnect, InRound, InBreak
  <2>3. Hits(rs, t) = {} /\ ~(t < rs[1].starts_at - PreconnectDuration)
    <3>1. 1 \in Rounds /\ rs[1].starts_at < t
      BY <2>1, <1>c
    <3>2. QED
      BY <1>0, <2>2, <3>1, <1>c DEF Hits
  <2>4. QED
    BY <1>10, <2>3 DEF get_current_phase, now, c
<1>11. ASSUME now.phase = NOT_STARTED
       PROVE  t < rs[1].starts_at - PreconnectDuration
  <2> SUFFICES ASSUME ~(t < rs[1].starts_at - PreconnectDuration) PROVE FALSE
    OBVIOUS
  <2> DEFINE L == {q \in Rounds : t < rs[q].ends_at}
  <2>1. NumRounds \in L
    <3>1. ~(rs[NumRounds].ends_at <= t)
      BY <1>10, <1>11 DEF NOT_STARTED, COMPLETED
    <3>2. QED
      BY <1>0, <3>1, <1>c
  <2>2. PICK q \in L : \A p \in L : q <= p
    BY <2>1, LeastRound
  <2>3. \A p \in Rounds : p < q => rs[p].ends_at <= t
    BY <1>0, <2>2, <1>c
  <2>4. q \in Rounds /\ t < rs[q].ends_at
    BY <2>2
  <2>5. ~InPreconnect(rs, q, t) /\ ~InRound(rs, q, t)
        /\ \A p \in Rounds : ~InBreak(rs, p, t)
    BY <1>6, <1>11, <2>4
  <2>6. t < rs[q].starts_at - PreconnectDuration
    BY <1>0, <2>4, <2>5, <1>c DEF InPreconnect, InRound
  <2>7. q # 1
    BY <2>6
  <2>8. q - 1 \in Rounds /\ q - 1 < q /\ (q - 1) + 1 = q
    BY <2>4, <2>7, <1>c DEF Rounds
  <2>9. InBreak(rs, q - 1, t)
    BY <2>3, <2>4, <2>6, <2>8 DEF InBreak
  <2>10. QED
    BY <2>5, <2>8, <2>9
<1>12. QED
  BY <1>3, <1>7, <1>8, <1>9, <1>10, <1>11 DEF now, c

-----------------------------------------------------------------------------
(* What the client will know *)

\* The fields of the client's state that the properties are about.
Field == {"phase", "round", "end", "paired", "paused"}

\* The messages that set a field.
Sets(f) ==
  CASE f = "phase" -> {"pairing", "round_start", "round_end", "event_end"}
    [] f = "round" -> {"pairing", "round_start", "warning", "round_end",
                       "pause", "resume", "extend"}
    [] f = "end" -> {"pairing", "warning", "resume", "extend"}
    [] f = "paired" -> {"pairing", "round_end", "event_end"}
    [] f = "paused" -> {"pairing", "round_start", "round_end", "event_end",
                        "pause", "resume"}

\* The value a message gives to a field that it sets.
Given(f, m) ==
  CASE f = "phase" -> IF m.kind = "pairing" THEN "preconnecting"
                      ELSE IF m.kind = "round_start" THEN "in_round"
                      ELSE IF m.kind = "round_end" THEN "round_ending"
                      ELSE "event_ended"
    [] f = "round" -> m.round
    [] f = "end" -> m.end
    [] f = "paired" -> m.kind = "pairing"
    [] f = "paused" -> m.kind = "pause"

\* Message n of the queue q is the last one that sets field f.
Decides(q, f, n) ==
  /\ n \in 1..Len(q) /\ q[n].kind \in Sets(f)
  /\ \A m \in 1..Len(q) : m > n => q[m].kind \notin Sets(f)

Untouched(q, f) == \A n \in 1..Len(q) : q[n].kind \notin Sets(f)

\* Once the client in state c has taken everything in q, its field f is v.
Comes(c, q, f, v) ==
  /\ \A n \in 1..Len(q) : Decides(q, f, n) => Given(f, q[n]) = v
  /\ Untouched(q, f) => c[f] = v

(* A handler sets the fields Sets says to the values Given says, and leaves *)
(* the others alone.                                                        *)
LEMMA HandleSets ==
  ASSUME NEW c \in ClientState, NEW m \in Message, NEW f \in Field
  PROVE  /\ Handle(c, m) \in ClientState
         /\ m.kind \in Sets(f) => Handle(c, m)[f] = Given(f, m)
         /\ m.kind \notin Sets(f) => Handle(c, m)[f] = c[f]
<1>1. /\ m.kind \in {"pairing", "round_start", "warning", "round_end",
                     "event_end", "pause", "resume", "extend"} \cup Presence
      /\ m.round \in Rounds \cup {NoRound} /\ m.end \in Nat
  BY DEF Message, RoomKind, Kind
<1>2. /\ c = [phase |-> c.phase, round |-> c.round, end |-> c.end,
              warning |-> c.warning, paired |-> c.paired, paused |-> c.paused,
              presence |-> c.presence]
      /\ c.phase \in Phases /\ c.round \in Rounds \cup {NoRound} /\ c.end \in Nat
      /\ c.warning \in BOOLEAN /\ c.paired \in BOOLEAN /\ c.paused \in BOOLEAN
      /\ c.presence \in Presence
  BY DEF ClientState
<1>3. /\ "none" \in Presence /\ "connected" \in Presence
      /\ \A x \in Presence : x \in {"none", "connected", "reconnecting", "gone"}
      /\ {"preconnecting", "in_round", "round_ending", "event_ended"} \subseteq Phases
  BY DEF Presence, Phases
<1>4. CASE m.kind = "pairing"
  <2>1. Handle(c, m) = on_pairing(c, m)
    BY <1>4 DEF Handle, Presence
  <2>2. /\ Handle(c, m).phase = "preconnecting" /\ Handle(c, m).round = m.round
        /\ Handle(c, m).end = m.end /\ Handle(c, m).paired = TRUE
        /\ Handle(c, m).paused = FALSE /\ Handle(c, m) \in ClientState
    BY <1>1, <1>3, <2>1 DEF on_pairing, ClientState
  <2>3. /\ m.kind = "pairing" => Given("paired", m) = TRUE
        /\ m.kind = "pairing" => Given("paused", m) = FALSE
        /\ Given("phase", m) = "preconnecting" /\ Given("round", m) = m.round
        /\ Given("end", m) = m.end
    BY <1>4 DEF Given
  <2>4. \A g \in Field : m.kind \in Sets(g)
    BY <1>4 DEF Field, Sets
  <2>5. QED
    BY <1>4, <2>2, <2>3, <2>4 DEF Field
<1>5. CASE m.kind = "round_start"
  <2>1. Handle(c, m) = on_round_start(c, m)
    BY <1>5 DEF Handle, Presence
  <2>2. QED
    BY <1>1, <1>2, <1>3, <1>5, <2>1
    DEF on_round_start, ClientState, Field, Sets, Given
<1>6. CASE m.kind = "warning"
  <2>1. Handle(c, m) = on_round_warning(c, m)
    BY <1>6 DEF Handle, Presence
  <2>2. QED
    BY <1>1, <1>2, <1>3, <1>6, <2>1
    DEF on_round_warning, ClientState, Field, Sets, Given
<1>7. CASE m.kind = "round_end"
  <2>1. Handle(c, m) = on_round_end(c, m)
    BY <1>7 DEF Handle, Presence
  <2>2. QED
    BY <1>1, <1>2, <1>3, <1>7, <2>1
    DEF on_round_end, ClientState, Field, Sets, Given
<1>8. CASE m.kind = "event_end"
  <2>1. Handle(c, m) = on_event_end(c, m)
    BY <1>8 DEF Handle, Presence
  <2>2. QED
    BY <1>1, <1>2, <1>3, <1>8, <2>1
    DEF on_event_end, ClientState, Field, Sets, Given
<1>9. CASE m.kind = "pause"
  <2>1. Handle(c, m) = on_operator_pause(c, m)
    BY <1>9 DEF Handle, Presence
  <2>2. QED
    BY <1>1, <1>2, <1>3, <1>9, <2>1
    DEF on_operator_pause, ClientState, Field, Sets, Given
<1>10. CASE m.kind = "resume"
  <2>1. Handle(c, m) = on_operator_resume(c, m)
    BY <1>10 DEF Handle, Presence
  <2>2. QED
    BY <1>1, <1>2, <1>3, <1>10, <2>1
    DEF on_operator_resume, ClientState, Field, Sets, Given
<1>11. CASE m.kind = "extend"
  <2>1. Handle(c, m) = on_operator_extend(c, m)
    BY <1>11 DEF Handle, Presence
  <2>2. QED
    BY <1>1, <1>2, <1>3, <1>11, <2>1
    DEF on_operator_extend, ClientState, Field, Sets, Given
<1>12. CASE m.kind \in Presence
  <2>1. Handle(c, m) = on_partner_state(c, m)
    BY <1>12 DEF Handle, Presence
  <2>2. QED
    BY <1>1, <1>2, <1>3, <1>12, <2>1
    DEF on_partner_state, ClientState, Field, Sets, Given
<1>13. QED
  BY <1>1, <1>4, <1>5, <1>6, <1>7, <1>8, <1>9, <1>10, <1>11, <1>12

(* Taking a message does not change what the client will know.              *)
LEMMA ComesAfterReceive ==
  ASSUME NEW c \in ClientState, NEW q \in Seq(Message), q # <<>>,
         NEW f \in Field, NEW v, Comes(c, q, f, v)
  PROVE  Comes(Handle(c, Head(q)), Tail(q), f, v)
<1> DEFINE m == Head(q)
           d == Handle(c, m)
           t == Tail(q)
<1>1. /\ Len(q) \in Nat /\ Len(q) >= 1
      /\ m = q[1] /\ m \in Message /\ t \in Seq(Message) /\ Len(t) = Len(q) - 1
      /\ \A n \in 1..Len(t) : n + 1 \in 1..Len(q) /\ t[n] = q[n + 1]
      /\ \A n \in 1..Len(q) : n = 1 \/ (n - 1 \in 1..Len(t) /\ q[n] = t[n - 1])
  OBVIOUS
<1>2. /\ m.kind \in Sets(f) => d[f] = Given(f, m)
      /\ m.kind \notin Sets(f) => d[f] = c[f]
  BY <1>1, HandleSets
<1> HIDE DEF m, d, t
<1>3. ASSUME NEW n \in 1..Len(t), Decides(t, f, n) PROVE Given(f, t[n]) = v
  <2>1. /\ n + 1 \in 1..Len(q) /\ q[n + 1].kind \in Sets(f)
    BY <1>1, <1>3 DEF Decides
  <2>2. ASSUME NEW k \in 1..Len(q), k > n + 1 PROVE q[k].kind \notin Sets(f)
    <3>1. k - 1 \in 1..Len(t) /\ k - 1 > n /\ q[k] = t[k - 1]
      BY <1>1, <2>2
    <3>2. QED
      BY <1>3, <3>1 DEF Decides
  <2>3. Decides(q, f, n + 1)
    BY <2>1, <2>2 DEF Decides
  <2>4. QED
    BY <1>1, <2>1, <2>3 DEF Comes
<1>4. ASSUME Untouched(t, f) PROVE d[f] = v
  <2>1. \A n \in 1..Len(q) : n > 1 => q[n].kind \notin Sets(f)
    BY <1>1, <1>4 DEF Untouched
  <2>2. CASE m.kind \in Sets(f)
    <3>1. 1 \in 1..Len(q) /\ Decides(q, f, 1)
      BY <1>1, <2>1, <2>2 DEF Decides
    <3>2. Given(f, q[1]) = v
      BY <3>1 DEF Comes
    <3>3. QED
      BY <1>1, <1>2, <2>2, <3>2
  <2>3. CASE m.kind \notin Sets(f)
    <3>1. Untouched(q, f)
      BY <1>1, <2>1, <2>3 DEF Untouched
    <3>2. QED
      BY <1>2, <2>3, <3>1 DEF Comes
  <2>4. QED
    BY <2>2, <2>3
<1>5. QED
  BY <1>3, <1>4 DEF Comes, d, t, m

(* A message that is put in the queue decides the fields it sets.           *)
LEMMA ComesAfterAppend ==
  ASSUME NEW c, NEW q \in Seq(Message), NEW m \in Message, NEW f \in Field, NEW v,
         \/ m.kind \in Sets(f) /\ Given(f, m) = v
         \/ m.kind \notin Sets(f) /\ Comes(c, q, f, v)
  PROVE  Comes(c, Append(q, m), f, v)
<1> DEFINE t == Append(q, m)
<1>1. /\ Len(q) \in Nat /\ Len(t) = Len(q) + 1 /\ t[Len(q) + 1] = m
      /\ Len(q) + 1 \in 1..Len(t)
      /\ \A n \in 1..Len(q) : n \in 1..Len(t) /\ t[n] = q[n]
      /\ \A n \in 1..Len(t) : n = Len(q) + 1 \/ n \in 1..Len(q)
  OBVIOUS
<1> HIDE DEF t
<1>2. CASE m.kind \in Sets(f) /\ Given(f, m) = v
  <2>1. \A n \in 1..Len(t) : Decides(t, f, n) => n = Len(q) + 1
    BY <1>1, <1>2 DEF Decides
  <2>2. ~Untouched(t, f)
    BY <1>1, <1>2 DEF Untouched
  <2>3. QED
    BY <1>1, <1>2, <2>1, <2>2 DEF Comes, t
<1>3. CASE m.kind \notin Sets(f) /\ Comes(c, q, f, v)
  <2>1. ASSUME NEW n \in 1..Len(t), Decides(t, f, n) PROVE Given(f, t[n]) = v
    <3>1. n \in 1..Len(q) /\ Decides(q, f, n)
      BY <1>1, <1>3, <2>1 DEF Decides
    <3>2. QED
      BY <1>1, <1>3, <3>1 DEF Comes
  <2>2. ASSUME Untouched(t, f) PROVE c[f] = v
    <3>1. Untouched(q, f)
      BY <1>1, <2>2 DEF Untouched
    <3>2. QED
      BY <1>3, <3>1 DEF Comes
  <2>3. QED
    BY <2>1, <2>2 DEF Comes, t
<1>4. QED
  BY <1>2, <1>3

(* Messages put before the queue decide what the queue leaves open.         *)
LEMMA ComesAfterPrepend ==
  ASSUME NEW c, NEW s \in Seq(Message), NEW q \in Seq(Message), NEW f \in Field,
         NEW v, q = <<>> \/ Comes(c, q, f, v), Comes(c, s, f, v)
  PROVE  Comes(c, s \o q, f, v)
<1> DEFINE t == s \o q
<1>1. /\ Len(q) \in Nat /\ Len(s) \in Nat /\ Len(t) = Len(s) + Len(q)
      /\ \A n \in 1..Len(s) : n \in 1..Len(t) /\ t[n] = s[n]
      /\ \A n \in 1..Len(q) : Len(s) + n \in 1..Len(t) /\ t[Len(s) + n] = q[n]
      /\ \A n \in 1..Len(t) : n \in 1..Len(s) \/ n - Len(s) \in 1..Len(q)
      /\ \A n \in 1..Len(t) : n - Len(s) \in 1..Len(q) => t[n] = q[n - Len(s)]
  OBVIOUS
<1> HIDE DEF t
<1>2. ASSUME NEW n \in 1..Len(t), Decides(t, f, n) PROVE Given(f, t[n]) = v
  <2>1. CASE n \in 1..Len(s)
    <3>1. Decides(s, f, n)
      BY <1>1, <1>2, <2>1 DEF Decides
    <3>2. QED
      BY <1>1, <2>1, <3>1 DEF Comes
  <2>2. CASE n - Len(s) \in 1..Len(q)
    <3>1. q[n - Len(s)].kind \in Sets(f)
      BY <1>1, <1>2, <2>2 DEF Decides
    <3>2. ASSUME NEW k \in 1..Len(q), k > n - Len(s) PROVE q[k].kind \notin Sets(f)
      <4>1. Len(s) + k \in 1..Len(t) /\ Len(s) + k > n /\ t[Len(s) + k] = q[k]
        BY <1>1, <3>2
      <4>2. QED
        BY <1>2, <4>1 DEF Decides
    <3>3. Decides(q, f, n - Len(s)) /\ q # <<>>
      BY <2>2, <3>1, <3>2 DEF Decides
    <3>4. QED
      BY <1>1, <2>2, <3>3 DEF Comes
  <2>3. QED
    BY <1>1, <2>1, <2>2
<1>3. ASSUME Untouched(t, f) PROVE c[f] = v
  <2>1. Untouched(s, f)
    BY <1>1, <1>3 DEF Untouched
  <2>2. QED
    BY <2>1 DEF Comes
<1>4. QED
  BY <1>2, <1>3 DEF Comes, t

-----------------------------------------------------------------------------
(* The inductive invariant of a room *)

\* Nothing happens before the epoch.
TimesAreNat ==
  /\ \A r \in Rounds : rounds[r].ends_at \in Nat
  /\ \A i \in Dispatcher : \A r \in Rounds : read[i][r].ends_at \in Nat

\* The operator's action belongs to the second it was taken in; the round it
\* is about runs, unless the action moves the event back.
OpIsCurrent ==
  op # NoAction =>
    /\ op.action \in {"pause", "resume", "extend"}
    /\ op.round \in Rounds /\ op.shift \in Nat /\ op.at = clock
    /\ op.action = "pause" => op.shift = 0 /\ InRound(rounds, op.round, clock)
    /\ op.action = "resume" => paused # NoRound
    /\ ~rewound => Now.phase = IN_ROUND /\ Now.round = op.round

\* A pause began while its round ran.
PauseBeganInRound ==
  paused # NoRound =>
    /\ paused \in Rounds /\ pausedAt \in Nat
    /\ InRound(rounds, paused, pausedAt)
    /\ pausedAt <= clock

\* A dispatch of a room looks for a mark, sends and marks in one step.
RoomBusy ==
  \A i \in Dispatcher : /\ pc[i] \in {"idle", "get"}
                        /\ pc[i] = "get" => Len(todo[i]) >= 1
                        /\ pc[i] = "idle" => todo[i] = <<>>

RoomTyped ==
  /\ RoomTypeOK /\ Sound(rounds) /\ TimesAreNat
  /\ OpIsCurrent /\ PauseBeganInRound /\ RoomBusy

(* What the room's steps do to the server's time and timetable.             *)
LEMMA RoomTimeMoves ==
  ASSUME [RoomNext]_<<vars, roomVars>>
  PROVE  \/ UNCHANGED <<clock, rounds>>
         \/ RoomTick
         \/ CommitAction /\ UNCHANGED clock
BY DEF RoomNext, RoomTick, RoomDispatchCall, DispatchCall, RoomAlreadySent,
       AlreadySent, RoomSendOnce, RoomCrash, RoomPublishFails, TellPause,
       TellResume, TellExtend, Tell, CommitAction, RollbackAction, PartnerReport,
       Receive, Drop, GiveUp, Join, SendSnapshot, vars, roomVars, clientVars,
       operatorVars

(* Where a message comes from and that it is one.                           *)
LEMMA BroadcastShape ==
  ASSUME RoomTyped, NEW i \in Dispatcher, pc[i] = "get"
  PROVE  /\ Head(todo[i]) \in Key /\ Head(todo[i]) = todo[i][1]
         /\ Head(todo[i]).round \in Rounds /\ Head(todo[i]).kind \in Kind
         /\ Tail(todo[i]) \in Seq(Key) /\ Len(Tail(todo[i])) = Len(todo[i]) - 1
         /\ Len(todo[i]) \in Nat /\ Len(todo[i]) >= 1
         /\ \A n \in 1..(Len(todo[i]) - 1) :
              n + 1 \in 1..Len(todo[i]) /\ Tail(todo[i])[n] = todo[i][n + 1]
         /\ Msg(Head(todo[i]).kind, Head(todo[i]).round,
                read[i][Head(todo[i]).round].ends_at) \in Message
<1>1. todo[i] \in Seq(Key) /\ Len(todo[i]) >= 1 /\ Len(todo[i]) \in Nat
  BY DEF RoomTyped, RoomTypeOK, TypeOK, RoomBusy
<1>2. /\ Head(todo[i]) \in Key /\ Head(todo[i]) = todo[i][1]
      /\ Tail(todo[i]) \in Seq(Key) /\ Len(Tail(todo[i])) = Len(todo[i]) - 1
      /\ \A n \in 1..(Len(todo[i]) - 1) :
           n + 1 \in 1..Len(todo[i]) /\ Tail(todo[i])[n] = todo[i][n + 1]
  BY <1>1, HeadAndTail
<1>3. Head(todo[i]).round \in Rounds /\ Head(todo[i]).kind \in Kind
  BY <1>2, KeyFields
<1>4. read[i][Head(todo[i]).round].ends_at \in Nat
  BY <1>3 DEF RoomTyped, TimesAreNat
<1>5. QED
  BY <1>1, <1>2, <1>3, <1>4 DEF Msg, Message, RoomKind

(* The timetable a committed action leaves behind.                          *)
LEMMA CommitShape ==
  ASSUME RoomTyped, CommitAction
  PROVE  /\ op.round \in Rounds /\ op.shift \in Nat
         /\ clock' = clock /\ clock \in Nat
         /\ rounds' = IF op.action = "pause" THEN rounds
                      ELSE Shift(rounds, op.round, op.shift)
         /\ rounds' \in Timetables /\ Sound(rounds')
         /\ \A q \in Rounds :
              /\ rounds'[q].starts_at =
                   IF op.action # "pause" /\ q > op.round
                   THEN rounds[q].starts_at + op.shift ELSE rounds[q].starts_at
              /\ rounds'[q].ends_at =
                   IF op.action # "pause" /\ q >= op.round
                   THEN rounds[q].ends_at + op.shift ELSE rounds[q].ends_at
<1>1. /\ op.round \in Rounds /\ op.shift \in Nat /\ clock \in Nat
      /\ rounds \in Timetables /\ Sound(rounds)
  BY DEF RoomTyped, OpIsCurrent, CommitAction, RoomTypeOK, TypeOK
<1>2. /\ clock' = clock
      /\ rounds' = IF op.action = "pause" THEN rounds
                   ELSE Shift(rounds, op.round, op.shift)
  BY DEF CommitAction
<1>3. CASE op.action = "pause"
  BY <1>1, <1>2, <1>3
<1>4. CASE op.action # "pause"
  BY <1>1, <1>2, <1>4, ShiftedTimes, ShiftIsSound
<1>5. QED
  BY <1>3, <1>4

(* A resume makes its round run: what was left of it when it was paused is  *)
(* still ahead.                                                             *)
LEMMA ResumedRoundRuns ==
  ASSUME RoomTyped, paused # NoRound, NEW d \in Nat, d >= 1, d >= clock - pausedAt
  PROVE  LET now == get_current_phase(Shift(rounds, paused, d), clock)
         IN  now.phase = IN_ROUND /\ now.round = paused
<1>1. /\ paused \in Rounds /\ pausedAt \in Nat /\ clock \in Nat /\ pausedAt <= clock
      /\ rounds[paused].starts_at <= pausedAt /\ pausedAt < rounds[paused].ends_at
      /\ rounds \in Timetables /\ Sound(rounds)
  BY DEF RoomTyped, PauseBeganInRound, InRound, RoomTypeOK, TypeOK
<1>2. rounds[paused].starts_at \in Int /\ rounds[paused].ends_at \in Int
      /\ paused \in Int
  BY <1>1, TimetableTypes, ConstantTypes
<1> DEFINE n == Shift(rounds, paused, d)
<1>3. /\ n \in Timetables /\ Sound(n)
      /\ n[paused].starts_at = rounds[paused].starts_at
      /\ n[paused].ends_at = rounds[paused].ends_at + d
  BY <1>1, <1>2, ShiftedTimes, ShiftIsSound
<1>4. InRound(n, paused, clock)
  BY <1>1, <1>2, <1>3 DEF InRound
<1> HIDE DEF n
<1>5. QED
  BY <1>1, <1>3, <1>4, PhaseOfTime DEF n

(* The action of a Tell is current.                                         *)
LEMMA TellShape ==
  ASSUME RoomTyped, TellPause \/ TellResume \/ \E d \in Extras : TellExtend(d)
  PROVE  \E action \in {"pause", "resume", "extend"}, r \in Rounds, d \in Nat :
           /\ Tell(action, r, d)
           /\ action = "pause" => d = 0
           /\ action = "resume" => paused # NoRound /\ r = paused
           /\ action # "resume" => Now.phase = IN_ROUND /\ Now.round = r
                                     /\ InRound(rounds, r, clock)
           /\ ~rewound' => Now.phase = IN_ROUND /\ Now.round = r
           /\ Msg(action, r, rounds[r].ends_at + d) \in Message
           /\ action = "pause" => paused = NoRound
<1>0. clock \in Nat /\ rounds \in Timetables /\ Sound(rounds)
  BY DEF RoomTyped, RoomTypeOK, TypeOK
<1>1. Now.phase = IN_ROUND =>
        Now.round \in Rounds /\ InRound(rounds, Now.round, clock)
  BY <1>0, PhaseShape DEF Now, NOT_STARTED, PRECONNECT, IN_ROUND, BREAK, COMPLETED
<1>2. ASSUME NEW action \in {"pause", "resume", "extend"}, NEW r \in Rounds,
             NEW d \in Nat
      PROVE  Msg(action, r, rounds[r].ends_at + d) \in Message
  <2>1. rounds[r].ends_at \in Nat
    BY DEF RoomTyped, TimesAreNat
  <2>2. QED
    BY <2>1 DEF Msg, Message, RoomKind
<1>3. CASE TellPause
  <2>1. Tell("pause", Now.round, 0) /\ Now.phase = IN_ROUND /\ paused = NoRound
    BY <1>3 DEF TellPause, Now
  <2>2. QED
    BY <1>1, <1>2, <2>1
<1>4. CASE TellResume
  <2> DEFINE d == IF clock - pausedAt > 1 THEN clock - pausedAt ELSE 1
  <2>1. Tell("resume", paused, d) /\ paused # NoRound
    BY <1>4 DEF TellResume
  <2>2. paused \in Rounds /\ pausedAt \in Nat
    BY <2>1 DEF RoomTyped, PauseBeganInRound
  <2>3. d \in Nat /\ d >= 1 /\ d >= clock - pausedAt
    BY <1>0, <2>2
  <2> HIDE DEF d
  <2>4. ~rewound' => Now.phase = IN_ROUND /\ Now.round = paused
    <3>1. ~rewound' => get_current_phase(Shift(rounds, paused, d), clock) = Now
      BY <2>1 DEF Tell, Rewinds, Now
    <3>2. QED
      BY <2>1, <2>3, <3>1, ResumedRoundRuns
  <2>5. QED
    BY <1>2, <2>1, <2>2, <2>3, <2>4
<1>5. CASE \E d \in Extras : TellExtend(d)
  <2>1. PICK d \in Extras : TellExtend(d)
    BY <1>5
  <2>2. d \in Nat /\ Tell("extend", Now.round, d) /\ Now.phase = IN_ROUND
    BY <2>1, DispatchAssumption DEF TellExtend, Now
  <2>3. QED
    BY <1>1, <1>2, <2>2
<1>6. QED
  BY <1>3, <1>4, <1>5

(* The snapshots there are, and when.                                       *)
LEMMA SnapshotShape ==
  ASSUME RoomTyped
  PROVE  /\ Snapshot \in Seq(Message)
         /\ \/ Snapshot = <<>>
            \/ /\ Snapshot = <<Msg("event_end", NoRound, 0)>>
               /\ Now.phase = COMPLETED /\ Msg("event_end", NoRound, 0) \in Message
            \/ \E pairing, start \in Message :
                 /\ \/ Now.phase = PRECONNECT /\ Snapshot = <<pairing>>
                    \/ Now.phase = IN_ROUND /\ Snapshot = <<pairing, start>>
                 /\ Now.round \in Rounds
                 /\ pairing.kind = "pairing" /\ start.kind = "round_start"
                 /\ pairing.round = Now.round /\ start.round = Now.round
                 /\ pairing.end = rounds[Now.round].ends_at
<1> DEFINE E == Msg("event_end", NoRound, 0)
           P == Msg("pairing", Now.round, rounds[Now.round].ends_at)
           S == Msg("round_start", Now.round, 0)
<1>0. clock \in Nat /\ rounds \in Timetables /\ Sound(rounds)
  BY DEF RoomTyped, RoomTypeOK, TypeOK
<1>1. \/ Now.round = NoRound
      \/ Now.round \in Rounds
      \/ Now.phase = COMPLETED
  BY <1>0, PhaseShape DEF Now
<1>2. Snapshot = IF Now.phase = COMPLETED THEN <<E>>
                 ELSE IF Now.round = NoRound \/ Now.round > MaxRoundNumber THEN <<>>
                 ELSE CASE Now.phase = PRECONNECT -> <<P>>
                        [] Now.phase = IN_ROUND -> <<P, S>>
                        [] OTHER -> <<>>
  BY DEF Snapshot, Now
<1>3. E \in Message
  BY DEF Msg, Message, RoomKind, Kind
<1>4. CASE Now.phase = COMPLETED
  BY <1>2, <1>3, <1>4
<1>5. CASE Now.phase # COMPLETED /\ Now.round \in Rounds
  <2>1. rounds[Now.round].ends_at \in Nat
    BY <1>5 DEF RoomTyped, TimesAreNat
  <2>2. /\ P \in Message /\ S \in Message
        /\ P.kind = "pairing" /\ S.kind = "round_start"
        /\ P.round = Now.round /\ S.round = Now.round
        /\ P.end = rounds[Now.round].ends_at
    BY <1>5, <2>1 DEF Msg, Message, RoomKind, Kind
  <2> HIDE DEF E, P, S
  <2>3. \/ Snapshot = <<>>
        \/ Now.phase = PRECONNECT /\ Snapshot = <<P>>
        \/ Now.phase = IN_ROUND /\ Snapshot = <<P, S>>
    BY <1>2, <1>5 DEF PRECONNECT, IN_ROUND
  <2>4. <<>> \in Seq(Message) /\ <<P>> \in Seq(Message) /\ <<P, S>> \in Seq(Message)
    BY <2>2
  <2>5. Snapshot \in Seq(Message)
    BY <2>3, <2>4
  <2>6. CASE Snapshot # <<>>
    <3>1. /\ \/ Now.phase = PRECONNECT /\ Snapshot = <<P>>
             \/ Now.phase = IN_ROUND /\ Snapshot = <<P, S>>
          /\ Now.round \in Rounds
      BY <1>5, <2>3, <2>6
    <3>2. QED
      BY <2>2, <2>5, <3>1
  <2>7. QED
    BY <2>5, <2>6
<1>6. CASE Now.phase # COMPLETED /\ Now.round = NoRound
  BY <1>2, <1>6
<1>7. QED
  BY <1>1, <1>4, <1>5, <1>6

(* What a client that has missed nothing after a snapshot will know.        *)
LEMMA SnapshotBrings ==
  ASSUME RoomTyped, Snapshot # <<>>, NEW c
  PROVE  /\ Now.phase \in {PRECONNECT, IN_ROUND, COMPLETED}
         /\ Now.phase = COMPLETED => Comes(c, Snapshot, "phase", "event_ended")
         /\ Now.phase = PRECONNECT => Comes(c, Snapshot, "phase", "preconnecting")
         /\ Now.phase = IN_ROUND => Comes(c, Snapshot, "phase", "in_round")
         /\ Now.phase \in {PRECONNECT, IN_ROUND} =>
              /\ Comes(c, Snapshot, "round", Now.round)
              /\ Comes(c, Snapshot, "paired", TRUE)
              /\ Comes(c, Snapshot, "end", rounds[Now.round].ends_at)
              /\ Comes(c, Snapshot, "paused", FALSE)
<1>0. PRECONNECT # COMPLETED /\ IN_ROUND # COMPLETED /\ PRECONNECT # IN_ROUND
  BY DEF PRECONNECT, IN_ROUND, COMPLETED
<1>1. CASE /\ Snapshot = <<Msg("event_end", NoRound, 0)>>
           /\ Now.phase = COMPLETED /\ Msg("event_end", NoRound, 0) \in Message
  <2> DEFINE E == Msg("event_end", NoRound, 0)
  <2>1. "phase" \in Field /\ E.kind \in Sets("phase") /\ Given("phase", E) = "event_ended"
    BY DEF Field, Sets, Given, Msg
  <2> HIDE DEF E
  <2>2. <<>> \in Seq(Message) /\ <<E>> = Append(<<>>, E)
    OBVIOUS
  <2>3. Comes(c, Append(<<>>, E), "phase", "event_ended")
    BY <1>1, <2>1, <2>2, ComesAfterAppend DEF E
  <2>4. QED
    BY <1>0, <1>1, <2>2, <2>3 DEF E
<1>2. ASSUME NEW P \in Message, NEW S \in Message,
             \/ Now.phase = PRECONNECT /\ Snapshot = <<P>>
             \/ Now.phase = IN_ROUND /\ Snapshot = <<P, S>>,
             P.kind = "pairing", S.kind = "round_start",
             P.round = Now.round, S.round = Now.round,
             P.end = rounds[Now.round].ends_at
      PROVE  /\ Now.phase = PRECONNECT => Comes(c, Snapshot, "phase", "preconnecting")
             /\ Now.phase = IN_ROUND => Comes(c, Snapshot, "phase", "in_round")
             /\ Comes(c, Snapshot, "round", Now.round)
             /\ Comes(c, Snapshot, "paired", TRUE)
             /\ Comes(c, Snapshot, "end", rounds[Now.round].ends_at)
             /\ Comes(c, Snapshot, "paused", FALSE)
  <2>1. /\ <<>> \in Seq(Message) /\ <<P>> \in Seq(Message)
        /\ <<P>> = Append(<<>>, P) /\ <<P, S>> = Append(<<P>>, S)
    OBVIOUS
  <2>2. /\ \A f \in Field : P.kind \in Sets(f)
        /\ S.kind \in Sets("phase") /\ S.kind \in Sets("round")
        /\ S.kind \in Sets("paused")
        /\ S.kind \notin Sets("paired") /\ S.kind \notin Sets("end")
    BY <1>2 DEF Field, Sets
  <2>3. /\ Given("phase", P) = "preconnecting" /\ Given("phase", S) = "in_round"
        /\ Given("round", P) = Now.round /\ Given("round", S) = Now.round
        /\ Given("end", P) = rounds[Now.round].ends_at
    BY <1>2 DEF Given
  <2>4. Given("paired", P) = TRUE /\ Given("paused", P) = FALSE
        /\ Given("paused", S) = FALSE
    BY <1>2 DEF Given
  <2>5. /\ Comes(c, <<P>>, "phase", "preconnecting")
        /\ Comes(c, <<P>>, "round", Now.round)
        /\ Comes(c, <<P>>, "paired", TRUE)
        /\ Comes(c, <<P>>, "end", rounds[Now.round].ends_at)
        /\ Comes(c, <<P>>, "paused", FALSE)
    BY <2>1, <2>2, <2>3, <2>4, ComesAfterAppend DEF Field
  <2>6. /\ Comes(c, <<P, S>>, "phase", "in_round")
        /\ Comes(c, <<P, S>>, "round", Now.round)
        /\ Comes(c, <<P, S>>, "paired", TRUE)
        /\ Comes(c, <<P, S>>, "end", rounds[Now.round].ends_at)
        /\ Comes(c, <<P, S>>, "paused", FALSE)
    BY <2>1, <2>2, <2>3, <2>4, <2>5, ComesAfterAppend DEF Field
  <2>7. QED
    BY <1>0, <1>2, <2>5, <2>6
<1>3. QED
  BY <1>0, <1>1, <1>2, SnapshotShape

(* The invariant holds before the event.                                    *)
LEMMA InitEstablishesRoomTyped == RoomInit => RoomTyped
<1> SUFFICES ASSUME RoomInit PROVE RoomTyped
  OBVIOUS
<1>1. <<>> \in Seq(Key) /\ <<>> \in Seq(Message) /\ Len(<<>>) = 0
  OBVIOUS
<1>2. RoomTypeOK
  BY <1>1, ScheduleIsSound
  DEF RoomInit, Init, RoomTypeOK, TypeOK, ClientState, Phases, Presence, NoAction
<1>3. Sound(rounds) /\ RoomBusy
  BY ScheduleIsSound DEF RoomInit, Init, RoomBusy
<1>4. TimesAreNat
  <2> SUFFICES ASSUME NEW r \in Rounds
               PROVE  calculate_full_schedule[r].ends_at \in Nat
    BY DEF RoomInit, Init, TimesAreNat
  <2>1. calculate_full_schedule \in Timetables /\ Sound(calculate_full_schedule)
        /\ calculate_full_schedule[1].starts_at >= 0
    BY ScheduleIsSound
  <2>2. /\ calculate_full_schedule[r].starts_at \in Int
        /\ calculate_full_schedule[r].ends_at \in Int
        /\ calculate_full_schedule[1].starts_at \in Int
        /\ calculate_full_schedule[1].ends_at \in Int
    BY <2>1, TimetableTypes, ConstantTypes
  <2>3. calculate_full_schedule[r].starts_at >= 0
    <3>1. CASE r = 1
      BY <2>1, <3>1
    <3>2. CASE r # 1
      <4>1. 1 < r /\ 1 \in Rounds /\ BreakDuration \in Nat
        BY <3>2, ConstantTypes
      <4>2. QED
        BY <2>1, <2>2, <4>1 DEF Sound
    <3>3. QED
      BY <3>1, <3>2
  <2>4. QED
    BY <2>1, <2>2, <2>3 DEF Sound
<1>5. OpIsCurrent /\ PauseBeganInRound
  BY DEF RoomInit, OpIsCurrent, PauseBeganInRound
<1>6. QED
  BY <1>2, <1>3, <1>4, <1>5 DEF RoomTyped

(* What a step does to a function at one of its points.                     *)
LEMMA OnePoint ==
  ASSUME NEW f, NEW S, NEW T, f \in [S -> T], NEW i \in S, NEW v \in T
  PROVE  /\ [f EXCEPT ![i] = v] \in [S -> T] /\ [f EXCEPT ![i] = v][i] = v
         /\ \A j \in S : j # i => [f EXCEPT ![i] = v][j] = f[j]
OBVIOUS

(* What a step of the room does to the plans and the marks.                 *)
LEMMA RoomSources ==
  ASSUME RoomTyped, [RoomNext]_<<vars, roomVars>>
  PROVE  /\ todo' \in [Dispatcher -> Seq(Key)]
         /\ pc' \in [Dispatcher -> {"idle", "get", "send", "mark"}]
         /\ \/ marks' = marks
            \/ \E i \in Dispatcher :
                 /\ pc[i] = "get" /\ marks' = marks \cup {Head(todo[i])}
                 /\ UNCHANGED <<clock, rounds>>
         /\ \A j \in Dispatcher :
              \/ todo'[j] = todo[j] /\ pc'[j] = pc[j]
              \/ /\ pc[j] = "get" /\ todo'[j] = Tail(todo[j])
                 /\ pc'[j] = IF Len(todo[j]) = 1 THEN "idle" ELSE "get"
                 /\ Head(todo[j]) \in marks'
                 /\ UNCHANGED <<clock, rounds>>
              \/ todo'[j] = <<>> /\ pc'[j] = "idle"
              \/ /\ CurrentPlan # <<>> /\ todo'[j] = CurrentPlan /\ pc'[j] = "get"
                 /\ UNCHANGED <<clock, rounds>>
<1> DEFINE
     Result ==
       /\ todo' \in [Dispatcher -> Seq(Key)]
       /\ pc' \in [Dispatcher -> {"idle", "get", "send", "mark"}]
       /\ \/ marks' = marks
          \/ \E i \in Dispatcher :
               /\ pc[i] = "get" /\ marks' = marks \cup {Head(todo[i])}
               /\ UNCHANGED <<clock, rounds>>
       /\ \A j \in Dispatcher :
            \/ todo'[j] = todo[j] /\ pc'[j] = pc[j]
            \/ /\ pc[j] = "get" /\ todo'[j] = Tail(todo[j])
               /\ pc'[j] = IF Len(todo[j]) = 1 THEN "idle" ELSE "get"
               /\ Head(todo[j]) \in marks'
               /\ UNCHANGED <<clock, rounds>>
            \/ todo'[j] = <<>> /\ pc'[j] = "idle"
            \/ /\ CurrentPlan # <<>> /\ todo'[j] = CurrentPlan /\ pc'[j] = "get"
               /\ UNCHANGED <<clock, rounds>>
<1>0. /\ todo \in [Dispatcher -> Seq(Key)]
      /\ pc \in [Dispatcher -> {"idle", "get", "send", "mark"}]
      /\ <<>> \in Seq(Key)
  BY DEF RoomTyped, RoomTypeOK, TypeOK
<1>1. CASE UNCHANGED <<marks, pc, todo>>
  BY <1>0, <1>1
<1>2. ASSUME NEW i \in Dispatcher, RoomDispatchCall(i) PROVE Result
  <2>1. CurrentPlan # <<>> /\ CurrentPlan \in Seq(Key)
    BY <1>2, PlanProperties
    DEF RoomTyped, RoomTypeOK, RoomDispatchCall, DispatchCall
  <2>2. /\ marks' = marks /\ pc' = [pc EXCEPT ![i] = "get"]
        /\ todo' = [todo EXCEPT ![i] = CurrentPlan]
        /\ UNCHANGED <<clock, rounds>>
    BY <1>2 DEF RoomDispatchCall, DispatchCall
  <2>3. /\ todo' \in [Dispatcher -> Seq(Key)] /\ todo'[i] = CurrentPlan
        /\ \A j \in Dispatcher : j # i => todo'[j] = todo[j]
    BY <1>0, <2>1, <2>2, OnePoint
  <2>4. /\ pc' \in [Dispatcher -> {"idle", "get", "send", "mark"}] /\ pc'[i] = "get"
        /\ \A j \in Dispatcher : j # i => pc'[j] = pc[j]
    BY <1>0, <2>2, OnePoint
  <2>5. QED
    BY <2>1, <2>2, <2>3, <2>4
<1>3. ASSUME NEW i \in Dispatcher,
             RoomAlreadySent(i) \/ RoomSendOnce(i) \/ RoomPublishFails(i)
      PROVE  Result
  <2>1. /\ pc[i] = "get" /\ Advance(i) /\ UNCHANGED <<clock, rounds>>
        /\ marks' = marks \/ marks' = marks \cup {Head(todo[i])}
        /\ Head(todo[i]) \in marks'
    BY <1>3 DEF RoomAlreadySent, AlreadySent, RoomSendOnce, Broadcast, RoomPublishFails
  <2>2. /\ todo' = [todo EXCEPT ![i] = Tail(todo[i])]
        /\ pc' = [pc EXCEPT ![i] = IF Len(todo[i]) = 1 THEN "idle" ELSE "get"]
    BY <2>1 DEF Advance
  <2>3. Tail(todo[i]) \in Seq(Key)
    BY <2>1, BroadcastShape
  <2>4. /\ todo' \in [Dispatcher -> Seq(Key)] /\ todo'[i] = Tail(todo[i])
        /\ \A j \in Dispatcher : j # i => todo'[j] = todo[j]
    BY <1>0, <2>2, <2>3, OnePoint
  <2> DEFINE v == IF Len(todo[i]) = 1 THEN "idle" ELSE "get"
  <2>5. v \in {"idle", "get", "send", "mark"} /\ pc' = [pc EXCEPT ![i] = v]
    BY <2>2
  <2>6. /\ pc' \in [Dispatcher -> {"idle", "get", "send", "mark"}] /\ pc'[i] = v
        /\ \A j \in Dispatcher : j # i => pc'[j] = pc[j]
    <3> HIDE DEF v
    <3>1. QED
      BY <1>0, <2>5, OnePoint
  <2>7. QED
    BY <2>1, <2>4, <2>6
<1>4. ASSUME NEW i \in Dispatcher, RoomCrash(i) PROVE Result
  <2>1. /\ marks' = marks /\ pc' = [pc EXCEPT ![i] = "idle"]
        /\ todo' = [todo EXCEPT ![i] = <<>>]
    BY <1>4 DEF RoomCrash
  <2>2. /\ todo' \in [Dispatcher -> Seq(Key)] /\ todo'[i] = <<>>
        /\ \A j \in Dispatcher : j # i => todo'[j] = todo[j]
    BY <1>0, <2>1, OnePoint
  <2>3. /\ pc' \in [Dispatcher -> {"idle", "get", "send", "mark"}] /\ pc'[i] = "idle"
        /\ \A j \in Dispatcher : j # i => pc'[j] = pc[j]
    BY <1>0, <2>1, OnePoint
  <2>4. QED
    BY <2>1, <2>2, <2>3
<1>5. QED
  BY <1>1, <1>2, <1>3, <1>4
  DEF RoomNext, RoomTick, Tick, TellPause, TellResume, TellExtend, Tell,
      CommitAction, RollbackAction, PartnerReport, Receive, Drop, GiveUp, Join,
      SendSnapshot, vars, roomVars

(* Plans and positions keep their types.                                    *)
LEMMA RoomStepBusy ==
  ASSUME RoomTyped, [RoomNext]_<<vars, roomVars>>
  PROVE  marks' \subseteq Key /\ RoomBusy'
<1>1. marks \subseteq Key
  BY DEF RoomTyped, RoomTypeOK, TypeOK
<1>2. marks' \subseteq Key
  BY <1>1, RoomSources, BroadcastShape
<1>3. ASSUME NEW j \in Dispatcher
      PROVE  /\ pc'[j] \in {"idle", "get"}
             /\ pc'[j] = "get" => Len(todo'[j]) >= 1
             /\ pc'[j] = "idle" => todo'[j] = <<>>
  <2>1. CASE todo'[j] = todo[j] /\ pc'[j] = pc[j]
    BY <2>1 DEF RoomTyped, RoomBusy
  <2>2. CASE /\ pc[j] = "get" /\ todo'[j] = Tail(todo[j])
             /\ pc'[j] = IF Len(todo[j]) = 1 THEN "idle" ELSE "get"
    <3>1. /\ Tail(todo[j]) \in Seq(Key) /\ Len(Tail(todo[j])) = Len(todo[j]) - 1
          /\ Len(todo[j]) \in Nat /\ Len(todo[j]) >= 1
      BY <2>2, BroadcastShape
    <3>2. \A s \in Seq(Key) : Len(s) = 0 => s = <<>>
      OBVIOUS
    <3>3. CASE Len(todo[j]) = 1
      <4>1. Len(todo'[j]) = 0 /\ todo'[j] \in Seq(Key) /\ pc'[j] = "idle"
        BY <2>2, <3>1, <3>3
      <4>2. QED
        BY <3>2, <4>1
    <3>4. CASE Len(todo[j]) # 1
      <4>1. pc'[j] = "get"
        BY <2>2, <3>4
      <4>2. \A n, m \in Nat : n >= 1 /\ n # 1 /\ m = n - 1 => m >= 1
        OBVIOUS
      <4>3. Len(todo'[j]) \in Nat /\ Len(todo'[j]) = Len(todo[j]) - 1
        BY <2>2, <3>1
      <4>4. Len(todo'[j]) >= 1
        BY <3>1, <3>4, <4>2, <4>3
      <4>5. QED
        BY <4>1, <4>4
    <3>5. QED
      BY <3>3, <3>4
  <2>3. CASE todo'[j] = <<>> /\ pc'[j] = "idle"
    BY <2>3
  <2>4. CASE CurrentPlan # <<>> /\ todo'[j] = CurrentPlan /\ pc'[j] = "get"
    BY <2>4, PlanProperties DEF RoomTyped, RoomTypeOK
  <2>5. QED
    BY <2>1, <2>2, <2>3, <2>4, RoomSources
<1>4. QED
  BY <1>2, <1>3 DEF RoomBusy

(* What is put in the queue are messages.                                   *)
LEMMA RoomStepQueue ==
  ASSUME RoomTyped, [RoomNext]_<<vars, roomVars>>
  PROVE  inbox' \in Seq(Message) /\ client' \in ClientState
<1>0. inbox \in Seq(Message) /\ client \in ClientState /\ <<>> \in Seq(Message)
  BY DEF RoomTyped, RoomTypeOK
<1>1. \A m \in Message : Deliver(m) => inbox' \in Seq(Message)
  BY <1>0 DEF Deliver
<1>2. ASSUME NEW i \in Dispatcher, RoomSendOnce(i) \/ RoomCrash(i)
      PROVE  inbox' \in Seq(Message) /\ client' = client
  <2>1. /\ pc[i] = "get"
        /\ Deliver(Msg(Head(todo[i]).kind, Head(todo[i]).round,
                       read[i][Head(todo[i]).round].ends_at))
        /\ client' = client
    BY <1>2 DEF RoomSendOnce, RoomCrash, Broadcast, clientVars
  <2>2. QED
    BY <1>1, <2>1, BroadcastShape
<1>3. CASE TellPause \/ TellResume \/ \E d \in Extras : TellExtend(d)
  <2>1. PICK action \in {"pause", "resume", "extend"}, r \in Rounds, d \in Nat :
          Tell(action, r, d) /\ Msg(action, r, rounds[r].ends_at + d) \in Message
    BY <1>3, TellShape
  <2>2. QED
    BY <1>0, <1>1, <2>1 DEF Tell, clientVars
<1>4. CASE PartnerReport("gone")
  <2>1. Msg("gone", NoRound, 0) \in Message
    BY DEF Msg, Message, RoomKind, Presence
  <2>2. QED
    BY <1>0, <1>1, <1>4, <2>1 DEF PartnerReport, clientVars
<1>5. CASE Receive
  <2>1. /\ inbox # <<>> /\ client' = Handle(client, Head(inbox))
        /\ inbox' = Tail(inbox)
    BY <1>5 DEF Receive
  <2>2. Head(inbox) \in Message /\ Tail(inbox) \in Seq(Message) /\ "phase" \in Field
    BY <1>0, <2>1 DEF Field
  <2>3. QED
    BY <1>0, <2>1, <2>2, HandleSets
<1>6. CASE SendSnapshot
  <2>1. /\ client' = client
        /\ inbox' = Snapshot \o inbox \/ inbox' = <<>> \o inbox
    BY <1>6 DEF SendSnapshot
  <2>2. Snapshot \in Seq(Message)
    BY SnapshotShape
  <2>3. QED
    BY <1>0, <2>1, <2>2, ConcatProperties
<1>7. CASE Drop \/ GiveUp
  <2>1. /\ inbox' = inbox \/ inbox' = <<>>
        /\ client' = on_transient_disconnect(client) \/ client' = on_disconnect(client)
    BY <1>7 DEF Drop, GiveUp
  <2>2. on_disconnect(client) \in ClientState
    BY <1>0 DEF on_disconnect, ClientState, Phases
  <2>3. on_transient_disconnect(client) \in ClientState
    BY <1>0, <2>2 DEF on_transient_disconnect
  <2>4. QED
    BY <1>0, <2>1, <2>2, <2>3
<1>8. CASE \/ RoomTick \/ CommitAction \/ RollbackAction \/ Join
           \/ \E i \in Dispatcher :
                RoomDispatchCall(i) \/ RoomAlreadySent(i) \/ RoomPublishFails(i)
           \/ UNCHANGED <<vars, roomVars>>
  <2>1. inbox' = inbox /\ client' = client
    BY <1>8 DEF RoomTick, CommitAction, RollbackAction, Join, RoomDispatchCall,
       RoomAlreadySent, RoomPublishFails, roomVars, clientVars
  <2>2. QED
    BY <1>0, <2>1
<1>9. QED
  BY <1>0, <1>2, <1>3, <1>4, <1>5, <1>6, <1>7, <1>8 DEF RoomNext

(* Steps other than the end of a second and a commit leave where the server *)
(* is unchanged.                                                            *)
LEMMA NowMoves ==
  ASSUME UNCHANGED <<clock, rounds>>
  PROVE  Now' = Now
BY DEF Now

(* The invariant of the room's types and times is preserved.                *)
LEMMA RoomStepTyped ==
  ASSUME RoomTyped, [RoomNext]_<<vars, roomVars>>
  PROVE  RoomTyped'
<1>0. /\ clock \in Nat /\ rounds \in Timetables /\ Sound(rounds)
      /\ stream \in Seq(Key) /\ extends \in Nat /\ faults \in Nat
      /\ crashed \subseteq Key /\ late \in BOOLEAN
      /\ socket \in {"down", "joining", "up", "dead"}
      /\ helloAt \in Nat /\ lostAt \in Nat
      /\ read \in [Dispatcher -> Timetables]
      /\ op.action \in {"none", "pause", "resume", "extend"}
      /\ paused \in Rounds \cup {NoRound}
      /\ missed \in BOOLEAN /\ stale \in BOOLEAN /\ rewound \in BOOLEAN
      /\ muddled \in BOOLEAN
      /\ \A r \in Rounds : rounds[r].ends_at \in Nat
      /\ \A i \in Dispatcher : \A r \in Rounds : read[i][r].ends_at \in Nat
  BY DEF RoomTyped, RoomTypeOK, TypeOK, TimesAreNat
<1>1. /\ clock' \in Nat /\ extends' \in Nat /\ faults' \in Nat
      /\ stream' \in Seq(Key) /\ crashed' \subseteq Key /\ late' \in BOOLEAN
  BY <1>0
  DEF RoomNext, RoomTick, Tick, RoomDispatchCall, DispatchCall, RoomAlreadySent,
      AlreadySent, RoomSendOnce, RoomCrash, RoomPublishFails, TellPause,
      TellResume, TellExtend, Tell, CommitAction, RollbackAction, PartnerReport,
      Receive, Drop, GiveUp, Join, SendSnapshot, vars, roomVars
<1>2. /\ rounds' \in Timetables /\ Sound(rounds')
      /\ \A r \in Rounds : rounds'[r].ends_at \in Nat
  <2>1. CASE rounds' = rounds
    BY <1>0, <2>1
  <2>2. CASE CommitAction
    <3>1. /\ rounds' \in Timetables /\ Sound(rounds') /\ op.shift \in Nat
          /\ \A q \in Rounds :
               rounds'[q].ends_at = IF op.action # "pause" /\ q >= op.round
                                    THEN rounds[q].ends_at + op.shift
                                    ELSE rounds[q].ends_at
      BY <2>2, CommitShape
    <3>2. QED
      BY <1>0, <3>1
  <2>3. QED
    BY <2>1, <2>2, RoomTimeMoves DEF RoomTick, Tick
<1>3. /\ read' \in [Dispatcher -> Timetables]
      /\ \A i \in Dispatcher : \A r \in Rounds : read'[i][r].ends_at \in Nat
  <2>1. CASE read' = read
    BY <1>0, <2>1
  <2>2. ASSUME NEW i \in Dispatcher, RoomDispatchCall(i)
        PROVE  /\ read' \in [Dispatcher -> Timetables] /\ read'[i] = rounds
               /\ \A j \in Dispatcher : j # i => read'[j] = read[j]
    <3>1. read' = [read EXCEPT ![i] = rounds]
      BY <2>2 DEF RoomDispatchCall
    <3>2. QED
      BY <1>0, <3>1, OnePoint
  <2>3. ASSUME NEW i \in Dispatcher, RoomDispatchCall(i)
        PROVE  \A j \in Dispatcher : \A r \in Rounds : read'[j][r].ends_at \in Nat
    BY <1>0, <2>2, <2>3
  <2>4. read' = read \/ \E i \in Dispatcher : RoomDispatchCall(i)
    BY DEF RoomNext, RoomTick, RoomAlreadySent, RoomSendOnce, RoomCrash, Broadcast,
       RoomPublishFails, TellPause, TellResume, TellExtend, Tell, CommitAction,
       RollbackAction, PartnerReport, Receive, Drop, GiveUp, Join, SendSnapshot,
       roomVars
  <2>5. QED
    BY <2>1, <2>2, <2>3, <2>4
<1>4. socket' \in {"down", "joining", "up", "dead"} /\ helloAt' \in Nat /\ lostAt' \in Nat
  BY <1>0
  DEF RoomNext, RoomTick, RoomDispatchCall, RoomAlreadySent, RoomSendOnce, RoomCrash,
      Broadcast, RoomPublishFails, TellPause, TellResume, TellExtend, Tell,
      CommitAction, RollbackAction, PartnerReport, Receive, Drop, GiveUp, Join,
      SendSnapshot, roomVars, clientVars
<1>5. CASE TellPause \/ TellResume \/ \E d \in Extras : TellExtend(d)
  <2>1. PICK action \in {"pause", "resume", "extend"}, r \in Rounds, d \in Nat :
          /\ Tell(action, r, d)
          /\ action = "pause" => d = 0
          /\ action = "resume" => paused # NoRound /\ r = paused
          /\ action # "resume" => InRound(rounds, r, clock)
          /\ ~rewound' => Now.phase = IN_ROUND /\ Now.round = r
    BY <1>5, TellShape
  <2>2. /\ op' = [action |-> action, round |-> r, shift |-> d, at |-> clock]
        /\ UNCHANGED <<vars, read, paused, pausedAt, stale>>
        /\ muddled' = (muddled /\ action = "extend")
        /\ missed' = (missed \/ ~Listening)
        /\ rewound' = (rewound \/ Rewinds(r, d))
    BY <2>1 DEF Tell
  <2>3. Now' = Now
    BY <2>2, NowMoves DEF vars
  <2>4. op'.action = action /\ op'.round = r /\ op'.shift = d /\ op'.at = clock
    BY <2>2
  <2>5. /\ op'.action \in {"none", "pause", "resume", "extend"}
        /\ paused' \in Rounds \cup {NoRound}
        /\ {missed', stale', rewound', muddled'} \subseteq BOOLEAN
    BY <1>0, <2>2, <2>4 DEF Listening, Rewinds
  <2>6. OpIsCurrent'
    BY <2>1, <2>2, <2>3, <2>4 DEF OpIsCurrent, vars
  <2>7. PauseBeganInRound'
    BY <2>2 DEF RoomTyped, PauseBeganInRound, vars
  <2>8. QED
    BY <1>1, <1>2, <1>3, <1>4, <2>5, <2>6, <2>7, RoomSources, RoomStepBusy, RoomStepQueue
    DEF RoomTyped, RoomTypeOK, TypeOK, TimesAreNat
<1>6. CASE CommitAction
  <2>1. /\ op' = NoAction
        /\ paused' = IF op.action = "pause" THEN op.round ELSE NoRound
        /\ pausedAt' = IF op.action = "pause" THEN op.at ELSE 0
        /\ missed' = missed /\ clock' = clock
        /\ stale' \in BOOLEAN /\ rewound' \in BOOLEAN /\ muddled' \in BOOLEAN
        /\ op # NoAction
        /\ op.action = "pause" => rounds' = rounds
    BY <1>6 DEF CommitAction
  <2>2. op'.action = "none"
    BY <2>1 DEF NoAction
  <2>3. /\ op.round \in Rounds /\ op.at = clock
        /\ op.action = "pause" => InRound(rounds, op.round, clock)
    BY <2>1 DEF RoomTyped, OpIsCurrent
  <2>4. /\ paused' \in Rounds \cup {NoRound}
        /\ {missed', stale', rewound', muddled'} \subseteq BOOLEAN
        /\ op'.action \in {"none", "pause", "resume", "extend"}
    BY <1>0, <2>1, <2>2, <2>3
  <2>5. OpIsCurrent'
    BY <2>1 DEF OpIsCurrent, NoAction
  <2>6. PauseBeganInRound'
    BY <1>0, <2>1, <2>3 DEF PauseBeganInRound
  <2>7. QED
    BY <1>1, <1>2, <1>3, <1>4, <2>4, <2>5, <2>6, RoomSources, RoomStepBusy, RoomStepQueue
    DEF RoomTyped, RoomTypeOK, TypeOK, TimesAreNat
<1>7. CASE RollbackAction
  <2>1. /\ op' = NoAction /\ UNCHANGED <<clock, rounds, paused, pausedAt, missed, rewound>>
        /\ stale' = (stale \/ ShiftPending) 
        /\ muddled' = (muddled \/ op.action # "extend")
    BY <1>7 DEF RollbackAction
  <2>2. op'.action = "none"
    BY <2>1 DEF NoAction
  <2>3. /\ paused' \in Rounds \cup {NoRound}
        /\ {missed', stale', rewound', muddled'} \subseteq BOOLEAN
        /\ op'.action \in {"none", "pause", "resume", "extend"}
    BY <1>0, <2>1, <2>2 DEF ShiftPending
  <2>4. OpIsCurrent' /\ PauseBeganInRound'
    BY <2>1 DEF OpIsCurrent, NoAction, RoomTyped, PauseBeganInRound
  <2>5. QED
    BY <1>1, <1>2, <1>3, <1>4, <2>3, <2>4, RoomSources, RoomStepBusy, RoomStepQueue
    DEF RoomTyped, RoomTypeOK, TypeOK, TimesAreNat
<1>8. CASE RoomTick
  <2>1. /\ op = NoAction /\ op' = op /\ clock' = clock + 1
        /\ UNCHANGED <<rounds, paused, pausedAt, missed, rewound, stale, muddled>>
    BY <1>8 DEF RoomTick, Tick, roomVars
  <2>2. OpIsCurrent'
    BY <2>1 DEF OpIsCurrent, NoAction
  <2>3. PauseBeganInRound'
    BY <1>0, <2>1 DEF RoomTyped, PauseBeganInRound
  <2>4. QED
    BY <1>0, <1>1, <1>2, <1>3, <1>4, <2>1, <2>2, <2>3, RoomSources, RoomStepBusy,
       RoomStepQueue
    DEF RoomTyped, RoomTypeOK, TypeOK, TimesAreNat
<1>9. CASE /\ UNCHANGED <<clock, rounds, op, paused, pausedAt, rewound>>
           /\ missed' \in BOOLEAN /\ stale' \in BOOLEAN /\ muddled' \in BOOLEAN
  <2>1. Now' = Now
    BY <1>9, NowMoves
  <2>2. OpIsCurrent' /\ PauseBeganInRound'
    BY <1>9, <2>1 DEF RoomTyped, OpIsCurrent, PauseBeganInRound
  <2>3. QED
    BY <1>0, <1>1, <1>2, <1>3, <1>4, <1>9, <2>2, RoomSources, RoomStepBusy, RoomStepQueue
    DEF RoomTyped, RoomTypeOK, TypeOK, TimesAreNat
<1>a. \A r : Pausing(r) \in BOOLEAN
  BY DEF Pausing
<1>10. \/ TellPause \/ TellResume \/ \E d \in Extras : TellExtend(d)
       \/ CommitAction \/ RollbackAction \/ RoomTick
       \/ /\ UNCHANGED <<clock, rounds, op, paused, pausedAt, rewound>>
          /\ missed' \in BOOLEAN /\ stale' \in BOOLEAN /\ muddled' \in BOOLEAN
  BY <1>0, <1>a
  DEF RoomNext, RoomDispatchCall, DispatchCall, RoomAlreadySent, AlreadySent,
      RoomSendOnce, RoomCrash, Broadcast, RoomPublishFails, PartnerReport, Receive,
      Drop, GiveUp, Join, SendSnapshot, vars, roomVars, clientVars, operatorVars
<1>11. QED
  BY <1>5, <1>6, <1>7, <1>8, <1>9, <1>10

-----------------------------------------------------------------------------
(* Plans and marks of a room *)

\* The kinds of the keys a phase calls for.
KindsOf(phase) ==
  CASE phase = PRECONNECT -> {"pairing"}
    [] phase = IN_ROUND -> {"pairing", "round_start", "warning"}
    [] phase = BREAK -> {"round_end"}
    [] phase = COMPLETED -> {"round_end", "event_end"}
    [] OTHER -> {}

\* What is marked is due, what is planned belongs to the current phase.
PlansAreCurrent ==
  ~rewound =>
    /\ \A k \in marks : Due(k)
    /\ \A i \in Dispatcher : \A n \in 1..Len(todo[i]) :
         todo[i][n].round = Now.round /\ todo[i][n].kind \in KindsOf(Now.phase)

\* A message is not sent before the ones it builds on.
PairingComesFirst ==
  /\ \A k \in marks : Before(k) \subseteq marks
  /\ \A i \in Dispatcher : \A n \in 1..Len(todo[i]) :
       \A k \in Before(todo[i][n]) :
         k \in marks \/ \E m \in 1..(n - 1) : todo[i][m] = k

RInv == RoomTyped /\ PlansAreCurrent /\ PairingComesFirst

(* A new plan belongs to the current phase.                                 *)
LEMMA NewPlanIsCurrent ==
  ASSUME RoomTyped, CurrentPlan # <<>>, NEW n \in 1..Len(CurrentPlan)
  PROVE  CurrentPlan[n].round = Now.round /\ CurrentPlan[n].kind \in KindsOf(Now.phase)
<1> DEFINE r == Now.round
           left == rounds[r].ends_at - clock
<1>1. CurrentPlan = Plan(Now.phase, r, left)
  BY DEF CurrentPlan, Now
<1>2. /\ K("pairing", r).kind = "pairing" /\ K("round_start", r).kind = "round_start"
      /\ K("warning", r).kind = "warning" /\ K("round_end", r).kind = "round_end"
      /\ K("event_end", r).kind = "event_end"
      /\ \A kind : K(kind, r).round = r
  BY DEF K
<1>0. clock \in Nat /\ rounds \in Timetables /\ Sound(rounds)
  BY DEF RoomTyped, RoomTypeOK, TypeOK
<1>r. r \in Rounds
  <2>1. r # NoRound
    BY DEF CurrentPlan, Now
  <2>2. QED
    BY <1>0, <2>1, PhaseShape, ConstantTypes DEF Now
<1>3. /\ <<K("pairing", r), K("round_start", r)>> \o <<K("warning", r)>>
           = <<K("pairing", r), K("round_start", r), K("warning", r)>>
      /\ <<K("pairing", r), K("round_start", r)>> \o <<>>
           = <<K("pairing", r), K("round_start", r)>>
  BY <1>r, KeyFields, ShortConcat DEF Kind
<1> HIDE DEF r, left
<1>4. CASE Now.phase = PRECONNECT
  <2>1. CurrentPlan = <<K("pairing", r)>>
    BY <1>1, <1>4 DEF Plan, PRECONNECT, IN_ROUND, BREAK, COMPLETED
  <2>2. KindsOf(Now.phase) = {"pairing"}
    BY <1>4 DEF KindsOf, PRECONNECT, IN_ROUND, BREAK, COMPLETED
  <2>3. QED
    BY <1>2, <2>1, <2>2 DEF r
<1>5. CASE Now.phase = IN_ROUND
  <2>1. \/ CurrentPlan = <<K("pairing", r), K("round_start", r), K("warning", r)>>
        \/ CurrentPlan = <<K("pairing", r), K("round_start", r)>>
    BY <1>1, <1>3, <1>5 DEF Plan, PRECONNECT, IN_ROUND, BREAK, COMPLETED
  <2>2. KindsOf(Now.phase) = {"pairing", "round_start", "warning"}
    BY <1>5 DEF KindsOf, PRECONNECT, IN_ROUND, BREAK, COMPLETED
  <2>3. QED
    BY <1>2, <2>1, <2>2 DEF r
<1>6. CASE Now.phase = BREAK
  BY <1>1, <1>2, <1>6 DEF Plan, KindsOf, PRECONNECT, IN_ROUND, BREAK, COMPLETED, r
<1>7. CASE Now.phase = COMPLETED
  <2>1. CurrentPlan = <<K("round_end", r), K("event_end", r)>>
    BY <1>1, <1>7 DEF Plan, PRECONNECT, IN_ROUND, BREAK, COMPLETED
  <2>2. KindsOf(Now.phase) = {"round_end", "event_end"}
    BY <1>7 DEF KindsOf, PRECONNECT, IN_ROUND, BREAK, COMPLETED
  <2>3. QED
    BY <1>2, <2>1, <2>2 DEF r
<1>8. Now.phase \in {PRECONNECT, IN_ROUND, BREAK, COMPLETED}
  BY <1>1 DEF Plan
<1>9. QED
  BY <1>4, <1>5, <1>6, <1>7, <1>8

(* Keys of the current phase are due.                                       *)
LEMMA CurrentKeysAreDue ==
  ASSUME RoomTyped, NEW k \in Key, k.round = Now.round, k.kind \in KindsOf(Now.phase)
  PROVE  Due(k)
<1>0. clock \in Nat /\ rounds \in Timetables /\ Sound(rounds)
  BY DEF RoomTyped, RoomTypeOK, TypeOK
<1>1. k.round \in Rounds /\ k.kind \in Kind
  BY KeyFields
<1>2. /\ rounds[k.round].starts_at \in Int /\ rounds[k.round].ends_at \in Int
      /\ rounds[k.round].starts_at < rounds[k.round].ends_at
      /\ PreconnectDuration \in Nat /\ k.round # NoRound
  BY <1>0, <1>1, TimetableTypes, ConstantTypes DEF Sound, NoRound
<1>3. \/ /\ \A q \in Rounds : q < k.round => rounds[q].ends_at <= clock
         /\ \/ Now.phase = PRECONNECT /\ InPreconnect(rounds, k.round, clock)
            \/ Now.phase = IN_ROUND /\ InRound(rounds, k.round, clock)
            \/ Now.phase = BREAK /\ InBreak(rounds, k.round, clock)
      \/ /\ k.round = NumRounds /\ Now.phase = COMPLETED
         /\ rounds[NumRounds].ends_at <= clock
  BY <1>0, <1>2, PhaseShape DEF Now
<1>4. CASE Now.phase = PRECONNECT
  BY <1>0, <1>2, <1>3, <1>4
  DEF KindsOf, InPreconnect, Due, PRECONNECT, IN_ROUND, BREAK, COMPLETED
<1>5. CASE Now.phase = IN_ROUND
  <2>1. /\ \A q \in Rounds : q < k.round => rounds[q].ends_at <= clock
        /\ rounds[k.round].starts_at <= clock
    BY <1>3, <1>5 DEF InRound, PRECONNECT, IN_ROUND, BREAK, COMPLETED
  <2>2. k.kind \in {"pairing", "round_start", "warning"}
    BY <1>5 DEF KindsOf, PRECONNECT, IN_ROUND, BREAK, COMPLETED
  <2>3. QED
    BY <1>0, <1>2, <2>1, <2>2 DEF Due
<1>6. CASE Now.phase = BREAK
  BY <1>0, <1>2, <1>3, <1>6
  DEF KindsOf, InBreak, Due, PRECONNECT, IN_ROUND, BREAK, COMPLETED
<1>7. CASE Now.phase = COMPLETED
  BY <1>0, <1>2, <1>3, <1>7 DEF KindsOf, Due, PRECONNECT, IN_ROUND, BREAK, COMPLETED
<1>8. QED
  BY <1>3, <1>4, <1>5, <1>6, <1>7

(* A committed action that leaves the event in its phase moves nothing that *)
(* was due.                                                                 *)
LEMMA CommitKeepsDue ==
  ASSUME RoomTyped, CommitAction, ~rewound', NEW k \in Key, Due(k)
  PROVE  Due(k)'
<1>0. /\ clock \in Nat /\ rounds \in Timetables /\ Sound(rounds)
      /\ k.round \in Rounds /\ k.kind \in Kind
  BY KeyFields DEF RoomTyped, RoomTypeOK, TypeOK
<1>1. /\ op.round \in Rounds /\ op.shift \in Nat /\ clock' = clock
      /\ \A q \in Rounds :
           /\ rounds'[q].starts_at =
                IF op.action # "pause" /\ q > op.round
                THEN rounds[q].starts_at + op.shift ELSE rounds[q].starts_at
           /\ rounds'[q].ends_at =
                IF op.action # "pause" /\ q >= op.round
                THEN rounds[q].ends_at + op.shift ELSE rounds[q].ends_at
  BY CommitShape
<1>2. Now.phase = IN_ROUND /\ Now.round = op.round
  BY DEF CommitAction, RoomTyped, OpIsCurrent
<1>3. rounds[op.round].starts_at <= clock /\ clock < rounds[op.round].ends_at
  BY <1>0, <1>1, <1>2, PhaseShape, ConstantTypes
  DEF Now, InRound, NOT_STARTED, PRECONNECT, IN_ROUND, BREAK, COMPLETED
<1>4. /\ \A q \in Rounds : rounds[q].starts_at \in Int /\ rounds[q].ends_at \in Int
      /\ \A q \in Rounds : rounds[q].starts_at < rounds[q].ends_at
      /\ \A q, r \in Rounds : q < r => rounds[q].ends_at + BreakDuration <= rounds[r].starts_at
      /\ PreconnectDuration \in Nat /\ BreakDuration \in Nat
      /\ \A q \in Rounds : q \in Int
  BY <1>0, TimetableTypes, ConstantTypes DEF Sound
<1>5. \A q \in Rounds : rounds[q].ends_at <= clock => q < op.round
  <2> SUFFICES ASSUME NEW q \in Rounds, rounds[q].ends_at <= clock, ~(q < op.round)
               PROVE  FALSE
    OBVIOUS
  <2>1. q # op.round
    BY <1>0, <1>1, <1>3, <1>4
  <2>2. op.round < q
    BY <1>1, <1>4, <2>1
  <2>3. rounds[op.round].ends_at + BreakDuration <= rounds[q].starts_at
    BY <1>1, <1>4, <2>2
  <2>4. rounds[q].starts_at < rounds[q].ends_at
    BY <1>4
  <2>5. QED
    BY <1>0, <1>1, <1>3, <1>4, <2>3, <2>4
<1>6. \A q \in Rounds : rounds[q].ends_at <= clock => rounds'[q].ends_at <= clock
  BY <1>0, <1>1, <1>4, <1>5
<1>7. \A q \in Rounds : ~(q > op.round) => rounds'[q].starts_at = rounds[q].starts_at
  BY <1>1
<1>8. \A q \in Rounds : rounds[q].starts_at <= clock => ~(q > op.round)
  <2> SUFFICES ASSUME NEW q \in Rounds, rounds[q].starts_at <= clock, q > op.round
               PROVE  FALSE
    OBVIOUS
  <2>1. rounds[op.round].ends_at + BreakDuration <= rounds[q].starts_at
    BY <1>1, <1>4
  <2>2. QED
    BY <1>0, <1>1, <1>3, <1>4, <2>1
<1>9. k.kind = "pairing" => ~(k.round > op.round)
  <2> SUFFICES ASSUME k.kind = "pairing", k.round > op.round PROVE FALSE
    OBVIOUS
  <2>1. rounds[op.round].ends_at <= clock
    BY <1>0, <1>1, <1>4 DEF Due
  <2>2. QED
    BY <1>0, <1>1, <1>3, <1>4, <2>1
<1>10. QED
  BY <1>0, <1>1, <1>6, <1>7, <1>8, <1>9 DEF Due

(* The plans stay current.                                                  *)
LEMMA RoomStepPlans ==
  ASSUME RInv, [RoomNext]_<<vars, roomVars>>
  PROVE  PlansAreCurrent'
<1> SUFFICES ASSUME ~rewound'
             PROVE  /\ \A k \in marks' : Due(k)'
                    /\ \A i \in Dispatcher : \A n \in 1..Len(todo'[i]) :
                         /\ todo'[i][n].round = Now'.round
                         /\ todo'[i][n].kind \in KindsOf(Now'.phase)
  BY DEF PlansAreCurrent
<1>1. RoomTyped /\ PlansAreCurrent
  BY DEF RInv
<1>2. ~rewound
  BY DEF RoomNext, RoomTick, RoomDispatchCall, RoomAlreadySent, RoomSendOnce, RoomCrash,
     Broadcast, RoomPublishFails, TellPause, TellResume, TellExtend, Tell,
     CommitAction, RollbackAction, PartnerReport, Receive, Drop, GiveUp, Join,
     SendSnapshot, roomVars, operatorVars
<1>3. /\ \A k \in marks : Due(k)
      /\ \A i \in Dispatcher : \A n \in 1..Len(todo[i]) :
           todo[i][n].round = Now.round /\ todo[i][n].kind \in KindsOf(Now.phase)
  BY <1>1, <1>2 DEF PlansAreCurrent
<1>4. marks \subseteq Key /\ marks' \subseteq Key
  BY <1>1, RoomStepBusy DEF RoomTyped, RoomTypeOK, TypeOK
<1>5. CASE UNCHANGED <<clock, rounds>>
  <2>1. Now' = Now
    BY <1>5, NowMoves
  <2>2. \A k \in Key : Due(k) => Due(k)'
    BY <1>5 DEF Due
  <2>3. ASSUME NEW i \in Dispatcher, pc[i] = "get" PROVE Due(Head(todo[i]))
    <3>1. Head(todo[i]) = todo[i][1] /\ 1 \in 1..Len(todo[i]) /\ Head(todo[i]) \in Key
      BY <1>1, <2>3, BroadcastShape
    <3>2. QED
      BY <1>1, <1>3, <3>1, CurrentKeysAreDue
  <2>4. \A k \in marks' : Due(k)
    BY <1>1, <1>3, <2>3, RoomSources
  <2>5. ASSUME NEW i \in Dispatcher, NEW n \in 1..Len(todo'[i])
        PROVE  todo'[i][n].round = Now.round /\ todo'[i][n].kind \in KindsOf(Now.phase)
    <3>1. CASE todo'[i] = todo[i]
      BY <1>3, <2>5, <3>1
    <3>2. CASE pc[i] = "get" /\ todo'[i] = Tail(todo[i])
      <4>1. n \in 1..(Len(todo[i]) - 1) /\ n + 1 \in 1..Len(todo[i])
            /\ Tail(todo[i])[n] = todo[i][n + 1]
        BY <1>1, <2>5, <3>2, BroadcastShape
      <4>2. QED
        BY <1>3, <3>2, <4>1
    <3>3. CASE todo'[i] = <<>>
      BY <2>5, <3>3
    <3>4. CASE CurrentPlan # <<>> /\ todo'[i] = CurrentPlan
      BY <1>1, <2>5, <3>4, NewPlanIsCurrent
    <3>5. QED
      BY <1>1, <3>1, <3>2, <3>3, <3>4, RoomSources
  <2>6. QED
    BY <1>4, <2>1, <2>2, <2>4, <2>5
<1>6. CASE RoomTick
  <2>1. /\ clock' = clock + 1 /\ UNCHANGED <<rounds, marks, todo>> /\ Quiet
    BY <1>6 DEF RoomTick, Tick
  <2>2. \A i \in Dispatcher : todo'[i] = <<>>
    BY <1>1, <2>1 DEF Quiet, RoomTyped, RoomBusy
  <2>3. ASSUME NEW k \in Key, Due(k) PROVE Due(k)'
    <3>1. /\ clock \in Int /\ PreconnectDuration \in Nat /\ k.round \in Rounds
          /\ \A q \in Rounds : rounds[q].starts_at \in Int /\ rounds[q].ends_at \in Int
      BY <1>1, KeyFields, TimetableTypes, ConstantTypes DEF RoomTyped, RoomTypeOK, TypeOK
    <3>2. \A a \in Int : a <= clock => a <= clock + 1
      BY <3>1
    <3>3. /\ rounds[k.round].starts_at - PreconnectDuration \in Int
      BY <3>1
    <3>4. QED
      BY <2>1, <2>3, <3>1, <3>2, <3>3 DEF Due
  <2>4. QED
    BY <1>3, <1>4, <2>1, <2>2, <2>3
<1>7. CASE CommitAction
  <2>1. UNCHANGED <<marks, todo>> /\ Now' = Now
    BY <1>7 DEF CommitAction, Rewinds, Now
  <2>2. \A k \in Key : Due(k) => Due(k)'
    BY <1>1, <1>7, CommitKeepsDue
  <2>3. QED
    BY <1>3, <1>4, <2>1, <2>2
<1>8. QED
  BY <1>5, <1>6, <1>7, RoomTimeMoves

(* Nothing is sent before what it builds on.                                *)
LEMMA RoomStepOrder ==
  ASSUME RInv, [RoomNext]_<<vars, roomVars>>
  PROVE  PairingComesFirst'
<1>1. RoomTyped /\ PairingComesFirst
  BY DEF RInv
<1>2. /\ \A k \in marks : Before(k) \subseteq marks
      /\ \A i \in Dispatcher : \A n \in 1..Len(todo[i]) :
           \A k \in Before(todo[i][n]) :
             k \in marks \/ \E m \in 1..(n - 1) : todo[i][m] = k
  BY <1>1 DEF PairingComesFirst
<1>3. marks \subseteq marks'
  BY <1>1, RoomSources
<1>4. ASSUME NEW i \in Dispatcher, pc[i] = "get"
      PROVE  Before(Head(todo[i])) \subseteq marks
  <2>1. Head(todo[i]) = todo[i][1] /\ 1 \in 1..Len(todo[i])
    BY <1>1, <1>4, BroadcastShape
  <2>2. QED
    BY <1>2, <2>1
<1>5. \A k \in marks' : Before(k) \subseteq marks'
  BY <1>1, <1>2, <1>3, <1>4, RoomSources
<1>6. ASSUME NEW i \in Dispatcher, NEW n \in 1..Len(todo'[i]),
             NEW k \in Before(todo'[i][n])
      PROVE  k \in marks' \/ \E m \in 1..(n - 1) : todo'[i][m] = k
  <2>1. CASE todo'[i] = todo[i]
    BY <1>2, <1>3, <1>6, <2>1
  <2>2. CASE pc[i] = "get" /\ todo'[i] = Tail(todo[i]) /\ Head(todo[i]) \in marks'
    <3>1. /\ Len(todo[i]) \in Nat /\ Len(todo[i]) >= 1
          /\ n \in 1..(Len(todo[i]) - 1) /\ n + 1 \in 1..Len(todo[i])
          /\ Tail(todo[i])[n] = todo[i][n + 1] /\ Head(todo[i]) = todo[i][1]
          /\ \A m \in 1..(Len(todo[i]) - 1) : Tail(todo[i])[m] = todo[i][m + 1]
      BY <1>1, <1>6, <2>2, BroadcastShape
    <3>2. k \in Before(todo[i][n + 1])
      BY <1>6, <2>2, <3>1
    <3>3. CASE k \in marks
      BY <1>3, <3>3
    <3>4. ASSUME NEW m \in 1..n, todo[i][m] = k PROVE k \in marks' \/ \E h \in 1..(n - 1) : todo'[i][h] = k
      <4>1. CASE m = 1
        BY <2>2, <3>1, <3>4, <4>1
      <4>2. CASE m # 1
        <5>1. m - 1 \in 1..(n - 1) /\ m - 1 \in 1..(Len(todo[i]) - 1) /\ (m - 1) + 1 = m
          BY <3>1, <3>4, <4>2
        <5>2. todo'[i][m - 1] = k
          BY <2>2, <3>1, <3>4, <5>1
        <5>3. QED
          BY <5>1, <5>2
      <4>3. QED
        BY <4>1, <4>2
    <3>5. k \in marks \/ \E m \in 1..n : todo[i][m] = k
      <4>1. n + 1 \in 1..Len(todo[i]) /\ (n + 1) - 1 = n
        BY <3>1
      <4>2. QED
        BY <1>2, <3>2, <4>1
    <3>6. QED
      BY <3>3, <3>4, <3>5
  <2>3. CASE todo'[i] = <<>>
    BY <1>6, <2>3
  <2>4. CASE CurrentPlan # <<>> /\ todo'[i] = CurrentPlan
    BY <1>1, <1>6, <2>4, PlanProperties DEF RoomTyped, RoomTypeOK
  <2>5. QED
    BY <1>1, <2>1, <2>2, <2>3, <2>4, RoomSources
<1>7. QED
  BY <1>5, <1>6 DEF PairingComesFirst

LEMMA InitEstablishesRInv == RoomInit => RInv
<1> SUFFICES ASSUME RoomInit PROVE RInv
  OBVIOUS
<1>1. marks = {} /\ \A i \in Dispatcher : todo[i] = <<>>
  BY DEF RoomInit, Init
<1>2. PlansAreCurrent /\ PairingComesFirst
  BY <1>1 DEF PlansAreCurrent, PairingComesFirst
<1>3. QED
  BY <1>2, InitEstablishesRoomTyped DEF RInv

LEMMA StepPreservesRInv == RInv /\ [RoomNext]_<<vars, roomVars>> => RInv'
BY RoomStepTyped, RoomStepPlans, RoomStepOrder DEF RInv

-----------------------------------------------------------------------------
(* What the client knows *)

\* The client has missed nothing that later messages will not make good.
Following == ~missed /\ ~rewound /\ socket # "dead"

\* The phase the server has announced is the one the client will be in.
FollowsPhase ==
  Following =>
    /\ Now.phase \in {PRECONNECT, IN_ROUND} /\ K("pairing", Now.round) \in marks =>
         /\ Comes(client, inbox, "round", Now.round)
         /\ Comes(client, inbox, "paired", TRUE)
    /\ Now.phase = PRECONNECT /\ K("pairing", Now.round) \in marks =>
         Comes(client, inbox, "phase", "preconnecting")
    /\ Now.phase = IN_ROUND /\ K("round_start", Now.round) \in marks =>
         Comes(client, inbox, "phase", "in_round")
    /\ Now.phase = BREAK /\ K("round_end", Now.round) \in marks =>
         Comes(client, inbox, "phase", "round_ending")
    /\ Now.phase = COMPLETED /\ K("event_end", Now.round) \in marks =>
         Comes(client, inbox, "phase", "event_ended")

\* Before the event no client is in a round, whatever it has missed.
NothingBeforeStart ==
  ~rewound /\ Now.phase = NOT_STARTED =>
    client.phase # "in_round" /\ Untouched(inbox, "phase")

\* Where the end of the round will be once the open action is committed.
EndToCome ==
  rounds[Now.round].ends_at
    + IF op.action \in {"resume", "extend"} THEN op.shift ELSE 0

FollowsTimer ==
  Following /\ ~stale /\ Now.phase \in {PRECONNECT, IN_ROUND}
    /\ K("pairing", Now.round) \in marks =>
       Comes(client, inbox, "end", EndToCome)

\* Whether the current round will be paused once the open action is committed.
PauseToCome ==
  op.action = "pause" \/ (op.action # "resume" /\ paused = Now.round)

FollowsPause ==
  Following /\ ~muddled /\ Now.phase \in {PRECONNECT, IN_ROUND}
    /\ K("pairing", Now.round) \in marks =>
       /\ PauseToCome => Comes(client, inbox, "paused", TRUE)
       /\ ~PauseToCome => Comes(client, inbox, "paused", FALSE)

\* A dispatcher sends the message m about the key k.
Sends(k, m) ==
  /\ \E i \in Dispatcher :
       /\ pc[i] = "get" /\ k = Head(todo[i])
       /\ m = Msg(k.kind, k.round, read[i][k.round].ends_at)
       /\ k.kind \in {"pairing", "warning"} =>
            stale' = (read[i] # rounds \/ ShiftPending)
  /\ k \notin marks
  /\ client' = client /\ inbox' = Append(inbox, m)
  /\ marks' = marks \/ marks' = marks \cup {k}
  /\ UNCHANGED <<clock, rounds, op, paused, rewound>>
  /\ k.kind \notin {"pairing", "warning"} => stale' = stale
  /\ muddled' = IF k.kind = "warning" THEN muddled ELSE Pausing(k.round)
  /\ Following \/ k.kind = "pairing"

(* The steps after which the client has missed nothing.                     *)
LEMMA ClientMoves ==
  ASSUME RoomTyped, [RoomNext]_<<vars, roomVars>>, Following'
  PROVE  \/ /\ Following /\ UNCHANGED <<client, inbox, marks>>
            /\ \/ RoomTick \/ CommitAction \/ RollbackAction
               \/ UNCHANGED <<clock, rounds, op, paused, stale, muddled>>
         \/ Following /\ Receive
         \/ \E k \in Key : \E m \in Message : Sends(k, m)
         \/ /\ Following /\ (TellPause \/ TellResume \/ \E d \in Extras : TellExtend(d))
            /\ Listening
         \/ Following /\ PartnerReport("gone")
         \/ /\ SendSnapshot
            /\ Following \/ (HelloSeen /\ Snapshot # <<>> /\ inbox = <<>>)
<1>0. ~missed' /\ ~rewound' /\ socket' # "dead"
  BY DEF Following
<1>1. CASE RoomTick \/ CommitAction \/ RollbackAction
  <2>1. UNCHANGED <<client, inbox, marks, missed, socket>>
    BY <1>1 DEF RoomTick, Tick, CommitAction, RollbackAction, roomVars, clientVars
  <2>2. ~rewound
    BY <1>0, <1>1 DEF RoomTick, CommitAction, RollbackAction, roomVars
  <2>3. QED
    BY <1>0, <1>1, <2>1, <2>2 DEF Following
<1>2. CASE UNCHANGED <<vars, roomVars>>
  BY <1>0, <1>2 DEF vars, roomVars, Following
<1>3. CASE Join \/ \E i \in Dispatcher : RoomDispatchCall(i) \/ RoomAlreadySent(i)
  <2>1. /\ UNCHANGED <<client, inbox, marks, clock, rounds, op, paused, stale, muddled>>
        /\ UNCHANGED <<missed, rewound>> /\ socket # "dead"
    BY <1>0, <1>3 DEF Join, RoomDispatchCall, DispatchCall, RoomAlreadySent, AlreadySent,
       vars, roomVars, clientVars, operatorVars
  <2>2. QED
    BY <1>0, <2>1 DEF Following
<1>4. CASE Drop
  <2>1. /\ UNCHANGED <<marks, clock, rounds, op, paused, stale, muddled, rewound>>
        /\ inbox' = <<>> /\ client' = on_transient_disconnect(client)
        /\ missed' = (missed \/ inbox # <<>> \/ client'.phase = "disconnected")
        /\ socket # "dead"
    BY <1>4 DEF Drop, Listening, vars, operatorVars
  <2>2. ~missed /\ inbox = <<>> /\ client'.phase # "disconnected"
    BY <1>0, <2>1
  <2>3. on_disconnect(client).phase = "disconnected"
    BY DEF on_disconnect, RoomTyped, RoomTypeOK, ClientState
  <2>4. client' = client
    BY <2>1, <2>2, <2>3 DEF on_transient_disconnect
  <2>5. QED
    BY <1>0, <2>1, <2>2, <2>4 DEF Following
<1>5. CASE GiveUp \/ \E i \in Dispatcher : RoomPublishFails(i)
  BY <1>0, <1>5 DEF GiveUp, RoomPublishFails
<1>6. CASE Receive
  BY <1>0, <1>6 DEF Receive, Following, operatorVars
<1>7. ASSUME NEW i \in Dispatcher, RoomSendOnce(i) \/ RoomCrash(i)
      PROVE  \E k \in Key : \E m \in Message : Sends(k, m)
  <2> DEFINE k == Head(todo[i])
             m == Msg(k.kind, k.round, read[i][k.round].ends_at)
  <2>1. /\ pc[i] = "get" /\ k \notin marks /\ Deliver(m)
        /\ missed' = ((missed /\ k.kind # "pairing") \/ ~Listening)
        /\ muddled' = IF k.kind = "warning" THEN muddled ELSE Pausing(k.round)
        /\ stale' = IF k.kind \in {"pairing", "warning"}
                    THEN read[i] # rounds \/ ShiftPending ELSE stale
        /\ UNCHANGED <<client, socket, op, paused, rewound, clock, rounds>>
        /\ marks' = marks \/ marks' = marks \cup {k}
    BY <1>7 DEF RoomSendOnce, RoomCrash, Broadcast, clientVars
  <2>2. k \in Key /\ m \in Message
    BY <2>1, BroadcastShape
  <2>3. Listening
    BY <1>0, <2>1
  <2>4. inbox' = Append(inbox, m)
    BY <2>1, <2>3 DEF Deliver
  <2>5. Following \/ k.kind = "pairing"
    BY <1>0, <2>1 DEF Following
  <2> HIDE DEF k, m
  <2>6. Sends(k, m)
    BY <2>1, <2>4, <2>5 DEF Sends, k, m
  <2>7. QED
    BY <2>2, <2>6
<1>8. CASE TellPause \/ TellResume \/ \E d \in Extras : TellExtend(d)
  <2>1. PICK action \in {"pause", "resume", "extend"}, r \in Rounds, d \in Nat :
          Tell(action, r, d)
    BY <1>8, TellShape
  <2>2. /\ missed' = (missed \/ ~Listening) /\ rewound' = (rewound \/ Rewinds(r, d))
        /\ socket' = socket
    BY <2>1 DEF Tell, clientVars
  <2>3. QED
    BY <1>0, <1>8, <2>2 DEF Following
<1>9. CASE PartnerReport("gone")
  BY <1>0, <1>9 DEF PartnerReport, Following, clientVars
<1>10. CASE SendSnapshot
  <2> DEFINE messages == IF HelloSeen THEN Snapshot ELSE <<>>
  <2>1. /\ socket = "joining" /\ rewound' = rewound
        /\ missed' = (missed /\ (messages = <<>> \/ inbox # <<>>))
    BY <1>10 DEF SendSnapshot
  <2>2. Following \/ (messages # <<>> /\ inbox = <<>>)
    BY <1>0, <2>1 DEF Following
  <2>3. messages # <<>> => HelloSeen /\ Snapshot # <<>>
    OBVIOUS
  <2> HIDE DEF messages
  <2>4. QED
    BY <1>10, <2>2, <2>3
<1>11. QED
  BY <1>1, <1>2, <1>3, <1>4, <1>5, <1>6, <1>7, <1>8, <1>9, <1>10 DEF RoomNext

(* A second that ends in the phase of a message that has been sent began in *)
(* it too.                                                                  *)
LEMMA TickKeepsAnnounced ==
  ASSUME RInv, ~rewound, RoomTick
  PROVE  /\ Now'.phase \in {PRECONNECT, IN_ROUND} /\ K("pairing", Now'.round) \in marks =>
              Now.phase \in {PRECONNECT, IN_ROUND} /\ Now.round = Now'.round
         /\ Now'.phase = PRECONNECT /\ K("pairing", Now'.round) \in marks =>
              Now.phase = PRECONNECT /\ Now.round = Now'.round
         /\ Now'.phase = IN_ROUND /\ K("round_start", Now'.round) \in marks =>
              Now.phase = IN_ROUND /\ Now.round = Now'.round
         /\ Now'.phase = BREAK /\ K("round_end", Now'.round) \in marks =>
              Now.phase = BREAK /\ Now.round = Now'.round
         /\ Now'.phase = COMPLETED /\ K("event_end", Now'.round) \in marks =>
              Now.phase = COMPLETED /\ Now.round = Now'.round
         /\ Now'.phase = NOT_STARTED => Now.phase = NOT_STARTED
<1>0. /\ clock \in Nat /\ rounds \in Timetables /\ Sound(rounds) /\ marks \subseteq Key
      /\ clock' = clock + 1 /\ rounds' = rounds /\ clock \in Int /\ clock + 1 \in Int
      /\ PreconnectDuration \in Nat
  BY ConstantTypes DEF RInv, RoomTyped, RoomTypeOK, TypeOK, RoomTick, Tick
<1>1. \A k \in marks : Due(k)
  BY DEF RInv, PlansAreCurrent
<1> DEFINE r == Now'.round
<1>2. Now' = get_current_phase(rounds, clock + 1)
  BY <1>0 DEF Now
<1>3. \/ r = NoRound /\ Now'.phase = NOT_STARTED
      \/ /\ r \in Rounds
         /\ \/ Now'.phase = PRECONNECT /\ InPreconnect(rounds, r, clock + 1)
            \/ Now'.phase = IN_ROUND /\ InRound(rounds, r, clock + 1)
            \/ Now'.phase = BREAK /\ InBreak(rounds, r, clock + 1)
      \/ /\ r = NumRounds /\ Now'.phase = COMPLETED
  BY <1>0, <1>2, PhaseShape
<1>d. /\ PRECONNECT # IN_ROUND /\ PRECONNECT # BREAK /\ PRECONNECT # COMPLETED
      /\ PRECONNECT # NOT_STARTED /\ IN_ROUND # BREAK /\ IN_ROUND # COMPLETED
      /\ IN_ROUND # NOT_STARTED /\ BREAK # COMPLETED /\ BREAK # NOT_STARTED
      /\ COMPLETED # NOT_STARTED
  BY DEF NOT_STARTED, PRECONNECT, IN_ROUND, BREAK, COMPLETED
<1> HIDE DEF r
<1>4. ASSUME r \in Rounds
      PROVE  /\ rounds[r].starts_at \in Int /\ rounds[r].ends_at \in Int
             /\ rounds[r].starts_at < rounds[r].ends_at
             /\ \A q \in Rounds : rounds[q].starts_at \in Int /\ rounds[q].ends_at \in Int
  BY <1>0, <1>4, TimetableTypes DEF Sound
<1>5. ASSUME r \in Rounds, NEW kind \in Kind, K(kind, r) \in marks
      PROVE  /\ kind = "pairing" =>
                  /\ rounds[r].starts_at - PreconnectDuration <= clock
                  /\ \A q \in Rounds : q < r => rounds[q].ends_at <= clock
             /\ kind = "round_start" => rounds[r].starts_at <= clock
             /\ kind \in {"round_end", "event_end"} => rounds[r].ends_at <= clock
             /\ kind = "event_end" => r = NumRounds
  <2>1. K(kind, r).kind = kind /\ K(kind, r).round = r
    BY DEF K
  <2>2. Due(K(kind, r))
    BY <1>1, <1>5
  <2>3. QED
    BY <2>1, <2>2 DEF Due
<1>6. "pairing" \in Kind /\ "round_start" \in Kind /\ "round_end" \in Kind
      /\ "event_end" \in Kind
  BY DEF Kind
<1>7. ASSUME Now'.phase = PRECONNECT, K("pairing", r) \in marks
      PROVE  Now.phase = PRECONNECT /\ Now.round = r
  <2>1. r \in Rounds /\ InPreconnect(rounds, r, clock + 1)
    BY <1>3, <1>7, <1>d
  <2>2. InPreconnect(rounds, r, clock)
    BY <1>0, <1>4, <1>5, <1>6, <1>7, <2>1 DEF InPreconnect
  <2>3. \A q \in Rounds : q < r => rounds[q].ends_at <= clock
    BY <1>5, <1>6, <1>7, <2>1
  <2>4. QED
    BY <1>0, <2>1, <2>2, <2>3, PhaseOfTime DEF Now
<1>8. ASSUME Now'.phase = IN_ROUND, K("pairing", r) \in marks
      PROVE  Now.phase \in {PRECONNECT, IN_ROUND} /\ Now.round = r
  <2>1. r \in Rounds /\ InRound(rounds, r, clock + 1)
    BY <1>3, <1>8, <1>d
  <2>2. InPreconnect(rounds, r, clock) \/ InRound(rounds, r, clock)
    BY <1>0, <1>4, <1>5, <1>6, <1>8, <2>1 DEF InPreconnect, InRound
  <2>3. \A q \in Rounds : q < r => rounds[q].ends_at <= clock
    BY <1>5, <1>6, <1>8, <2>1
  <2>4. QED
    BY <1>0, <2>1, <2>2, <2>3, PhaseOfTime DEF Now
<1>9. ASSUME Now'.phase = IN_ROUND, K("round_start", r) \in marks
      PROVE  Now.phase = IN_ROUND /\ Now.round = r
  <2>1. r \in Rounds /\ InRound(rounds, r, clock + 1)
    BY <1>3, <1>9, <1>d
  <2>2. InRound(rounds, r, clock)
    BY <1>0, <1>4, <1>5, <1>6, <1>9, <2>1 DEF InRound
  <2>3. QED
    BY <1>0, <2>1, <2>2, PhaseOfTime DEF Now
<1>10. ASSUME Now'.phase = BREAK, K("round_end", r) \in marks
       PROVE  Now.phase = BREAK /\ Now.round = r
  <2>1. r \in Rounds /\ InBreak(rounds, r, clock + 1)
    BY <1>3, <1>10, <1>d
  <2>2. rounds[r].ends_at <= clock
    BY <1>5, <1>6, <1>10, <2>1
  <2>3. r + 1 \in Rounds /\ clock + 1 < rounds[r + 1].starts_at - PreconnectDuration
        /\ rounds[r + 1].starts_at \in Int
    BY <1>4, <2>1 DEF InBreak
  <2>4. clock < rounds[r + 1].starts_at - PreconnectDuration
    BY <1>0, <2>3
  <2>5. InBreak(rounds, r, clock)
    BY <2>2, <2>3, <2>4 DEF InBreak
  <2>6. QED
    BY <1>0, <2>1, <2>5, PhaseOfTime DEF Now
<1>11. ASSUME Now'.phase = COMPLETED, K("event_end", r) \in marks
       PROVE  Now.phase = COMPLETED /\ Now.round = r
  <2>1. r = NumRounds /\ r \in Rounds
    BY <1>3, <1>11, <1>d, ConstantTypes
  <2>2. rounds[NumRounds].ends_at <= clock
    BY <1>5, <1>6, <1>11, <2>1
  <2>3. QED
    BY <1>0, <2>1, <2>2, PhaseOfTime DEF Now
<1>12. ASSUME Now'.phase = NOT_STARTED PROVE Now.phase = NOT_STARTED
  <2>1. 1 \in Rounds /\ rounds[1].starts_at \in Int
    BY <1>0, TimetableTypes, ConstantTypes
  <2>2. clock + 1 < rounds[1].starts_at - PreconnectDuration
    BY <1>0, <1>2, <1>12, <2>1, PhaseOfTime
  <2>3. clock < rounds[1].starts_at - PreconnectDuration
    BY <1>0, <2>1, <2>2
  <2>4. QED
    BY <2>3 DEF Now, get_current_phase
<1>13. QED
  BY <1>7, <1>8, <1>9, <1>10, <1>11, <1>12, <1>d DEF r

(* What a message that is sent is about.                                    *)
LEMMA SentIsCurrent ==
  ASSUME RInv, NEW k \in Key, NEW m \in Message, Sends(k, m), ~rewound'
  PROVE  /\ k.round = Now.round /\ k.kind \in KindsOf(Now.phase)
         /\ Before(k) \subseteq marks /\ k = K(k.kind, k.round)
         /\ m.kind = k.kind /\ m.round = k.round
         /\ Now' = Now
<1>1. PICK i \in Dispatcher :
        /\ pc[i] = "get" /\ k = Head(todo[i])
        /\ m = Msg(k.kind, k.round, read[i][k.round].ends_at)
  BY DEF Sends
<1>2. Head(todo[i]) = todo[i][1] /\ 1 \in 1..Len(todo[i])
  BY <1>1, BroadcastShape DEF RInv
<1>3. Before(k) \subseteq marks
  BY <1>1, <1>2 DEF RInv, PairingComesFirst
<1>4. m.kind = k.kind /\ m.round = k.round
  BY <1>1 DEF Msg
<1>5. Now' = Now
  BY NowMoves DEF Sends
<1>6. QED
  <2>1. ~rewound
    BY DEF Sends
  <2>2. k.round = Now.round /\ k.kind \in KindsOf(Now.phase)
    BY <1>1, <1>2, <2>1 DEF RInv, PlansAreCurrent
  <2>3. QED
    BY <1>3, <1>4, <1>5, <2>2, KeyFields

(* The phase is followed.                                                   *)
LEMMA StepFollowsPhase ==
  ASSUME RInv, FollowsPhase, [RoomNext]_<<vars, roomVars>>
  PROVE  FollowsPhase'
<1> SUFFICES ASSUME Following' PROVE FollowsPhase'
  BY DEF FollowsPhase
<1>0. /\ RoomTyped /\ inbox \in Seq(Message) /\ client \in ClientState
      /\ ~rewound' /\ Field = {"phase", "round", "end", "paired", "paused"}
  BY DEF RInv, RoomTyped, RoomTypeOK, Following, Field
<1>d. /\ PRECONNECT # IN_ROUND /\ PRECONNECT # BREAK /\ PRECONNECT # COMPLETED
      /\ PRECONNECT # NOT_STARTED /\ IN_ROUND # BREAK /\ IN_ROUND # COMPLETED
      /\ IN_ROUND # NOT_STARTED /\ BREAK # COMPLETED /\ BREAK # NOT_STARTED
      /\ COMPLETED # NOT_STARTED
  BY DEF NOT_STARTED, PRECONNECT, IN_ROUND, BREAK, COMPLETED
<1> DEFINE
     Known ==
       /\ Now.phase \in {PRECONNECT, IN_ROUND} /\ K("pairing", Now.round) \in marks =>
            /\ Comes(client, inbox, "round", Now.round)
            /\ Comes(client, inbox, "paired", TRUE)
       /\ Now.phase = PRECONNECT /\ K("pairing", Now.round) \in marks =>
            Comes(client, inbox, "phase", "preconnecting")
       /\ Now.phase = IN_ROUND /\ K("round_start", Now.round) \in marks =>
            Comes(client, inbox, "phase", "in_round")
       /\ Now.phase = BREAK /\ K("round_end", Now.round) \in marks =>
            Comes(client, inbox, "phase", "round_ending")
       /\ Now.phase = COMPLETED /\ K("event_end", Now.round) \in marks =>
            Comes(client, inbox, "phase", "event_ended")
     KnownThen ==
       /\ Now'.phase \in {PRECONNECT, IN_ROUND} /\ K("pairing", Now'.round) \in marks' =>
            /\ Comes(client', inbox', "round", Now'.round)
            /\ Comes(client', inbox', "paired", TRUE)
       /\ Now'.phase = PRECONNECT /\ K("pairing", Now'.round) \in marks' =>
            Comes(client', inbox', "phase", "preconnecting")
       /\ Now'.phase = IN_ROUND /\ K("round_start", Now'.round) \in marks' =>
            Comes(client', inbox', "phase", "in_round")
       /\ Now'.phase = BREAK /\ K("round_end", Now'.round) \in marks' =>
            Comes(client', inbox', "phase", "round_ending")
       /\ Now'.phase = COMPLETED /\ K("event_end", Now'.round) \in marks' =>
            Comes(client', inbox', "phase", "event_ended")
<1>1. Following => Known
  BY DEF FollowsPhase
<1>2. ASSUME Following, UNCHANGED <<client, inbox, marks>>, RoomTick PROVE KnownThen
  BY <1>1, <1>2, TickKeepsAnnounced DEF Following
<1>3. ASSUME Following, UNCHANGED <<client, inbox, marks>>, Now' = Now PROVE KnownThen
  BY <1>1, <1>3
<1>4. ASSUME Following, Receive PROVE KnownThen
  <2>1. /\ inbox # <<>> /\ client' = Handle(client, Head(inbox)) /\ inbox' = Tail(inbox)
        /\ marks' = marks /\ Now' = Now
    BY <1>4, NowMoves DEF Receive, vars
  <2>2. \A f \in Field : \A v : Comes(client, inbox, f, v) => Comes(client', inbox', f, v)
    BY <1>0, <2>1, ComesAfterReceive
  <2>3. QED
    BY <1>0, <1>1, <1>4, <2>1, <2>2
<1>5. ASSUME NEW k \in Key, NEW m \in Message, Sends(k, m) PROVE KnownThen
  <2>1. /\ client' = client /\ inbox' = Append(inbox, m) /\ k \notin marks
        /\ marks' = marks \/ marks' = marks \cup {k}
        /\ Following \/ k.kind = "pairing"
    BY <1>5 DEF Sends
  <2>2. /\ k.round = Now.round /\ k.kind \in KindsOf(Now.phase)
        /\ Before(k) \subseteq marks /\ k = K(k.kind, k.round)
        /\ m.kind = k.kind /\ m.round = k.round /\ Now' = Now
    BY <1>0, <1>5, SentIsCurrent
  <2>3. \A f \in Field : \A v :
          \/ m.kind \in Sets(f) /\ Given(f, m) = v
          \/ m.kind \notin Sets(f) /\ Comes(client, inbox, f, v)
          => Comes(client', inbox', f, v)
    BY <1>0, <2>1, ComesAfterAppend
  <2>4. \A kind, other, r : kind # other => K(kind, r) # K(other, r)
    <3>1. \A kind, r : K(kind, r).kind = kind
      BY DEF K
    <3>2. QED
      BY <3>1
  <2>5. \A c \in marks : Before(c) \subseteq marks
    BY DEF RInv, PairingComesFirst
  <2>6. /\ Before(K("round_start", Now.round)) = {K("pairing", Now.round)}
        /\ Before(K("warning", Now.round))
             = {K("pairing", Now.round), K("round_start", Now.round)}
        /\ Before(K("event_end", Now.round)) = {K("round_end", Now.round)}
    BY DEF Before, K
  <2>p. CASE k.kind = "pairing"
    <3>1. Now.phase \in {PRECONNECT, IN_ROUND}
      BY <2>2, <2>p DEF KindsOf
    <3>2. /\ Comes(client', inbox', "round", Now.round)
          /\ Comes(client', inbox', "paired", TRUE)
          /\ Comes(client', inbox', "phase", "preconnecting")
      <4>1. /\ m.kind \in Sets("round") /\ m.kind \in Sets("paired")
            /\ m.kind \in Sets("phase")
        BY <2>2, <2>p DEF Sets
      <4>2. Given("round", m) = Now.round /\ Given("phase", m) = "preconnecting"
        BY <2>2, <2>p DEF Given
      <4>3. Given("paired", m) = TRUE
        BY <2>2, <2>p DEF Given
      <4>4. QED
        BY <1>0, <2>3, <4>1, <4>2, <4>3
    <3>3. K("round_start", Now.round) \notin marks'
      BY <2>1, <2>2, <2>4, <2>5, <2>6, <2>p
    <3>4. QED
      BY <1>d, <2>2, <3>1, <3>2, <3>3
  <2>s. CASE k.kind = "round_start"
    <3>1. Now.phase = IN_ROUND /\ Following
      BY <2>1, <2>2, <2>s DEF KindsOf
    <3>2. K("pairing", Now.round) \in marks
      BY <2>2, <2>6, <2>s
    <3>3. /\ Comes(client, inbox, "round", Now.round) /\ Comes(client, inbox, "paired", TRUE)
      BY <1>1, <3>1, <3>2
    <3>4. /\ m.kind \in Sets("round") /\ m.kind \notin Sets("paired")
          /\ m.kind \in Sets("phase")
          /\ Given("round", m) = Now.round /\ Given("phase", m) = "in_round"
      BY <2>2, <2>s DEF Sets, Given
    <3>5. /\ Comes(client', inbox', "round", Now.round)
          /\ Comes(client', inbox', "paired", TRUE)
          /\ Comes(client', inbox', "phase", "in_round")
      BY <1>0, <2>3, <3>3, <3>4
    <3>6. QED
      BY <1>d, <2>2, <3>1, <3>5
  <2>w. CASE k.kind = "warning"
    <3>1. Now.phase = IN_ROUND /\ Following
      BY <2>1, <2>2, <2>w DEF KindsOf
    <3>2. K("pairing", Now.round) \in marks /\ K("round_start", Now.round) \in marks
      BY <2>2, <2>6, <2>w
    <3>3. /\ Comes(client, inbox, "paired", TRUE) /\ Comes(client, inbox, "phase", "in_round")
      BY <1>1, <3>1, <3>2
    <3>4. /\ m.kind \in Sets("round") /\ m.kind \notin Sets("paired")
          /\ m.kind \notin Sets("phase") /\ Given("round", m) = Now.round
      BY <2>2, <2>w DEF Sets, Given
    <3>5. /\ Comes(client', inbox', "round", Now.round)
          /\ Comes(client', inbox', "paired", TRUE)
          /\ Comes(client', inbox', "phase", "in_round")
      BY <1>0, <2>3, <3>3, <3>4
    <3>6. QED
      BY <1>d, <2>2, <3>1, <3>5
  <2>e. CASE k.kind = "round_end"
    <3>1. Now.phase = BREAK \/ Now.phase = COMPLETED
      BY <2>2, <2>e DEF KindsOf
    <3>2. m.kind \in Sets("phase") /\ Given("phase", m) = "round_ending"
      BY <2>2, <2>e DEF Sets, Given
    <3>3. Comes(client', inbox', "phase", "round_ending")
      BY <1>0, <2>3, <3>2
    <3>4. K("event_end", Now.round) \notin marks'
      BY <2>1, <2>2, <2>4, <2>5, <2>6, <2>e
    <3>5. QED
      BY <1>d, <2>2, <3>1, <3>3, <3>4
  <2>v. CASE k.kind = "event_end"
    <3>1. Now.phase = COMPLETED
      BY <2>2, <2>v DEF KindsOf
    <3>2. m.kind \in Sets("phase") /\ Given("phase", m) = "event_ended"
      BY <2>2, <2>v DEF Sets, Given
    <3>3. Comes(client', inbox', "phase", "event_ended")
      BY <1>0, <2>3, <3>2
    <3>4. QED
      BY <1>d, <2>2, <3>1, <3>3
  <2>7. k.kind \in {"pairing", "round_start", "warning", "round_end", "event_end"}
    BY KeyFields DEF Kind
  <2>8. QED
    BY <2>p, <2>s, <2>w, <2>e, <2>v, <2>7
<1>6. ASSUME Following, Listening, NEW m \in Message, m.kind \notin Sets("phase"),
             m.kind \notin Sets("paired"),
             m.kind \in Sets("round") => m.round = Now.round,
             Deliver(m), UNCHANGED <<client, marks>>, Now' = Now
      PROVE  KnownThen
  <2>1. inbox' = Append(inbox, m)
    BY <1>6 DEF Deliver
  <2>2. \A f \in Field : \A v :
          \/ m.kind \in Sets(f) /\ Given(f, m) = v
          \/ m.kind \notin Sets(f) /\ Comes(client, inbox, f, v)
          => Comes(client', inbox', f, v)
    BY <1>0, <1>6, <2>1, ComesAfterAppend
  <2>3. \A v : /\ Comes(client, inbox, "phase", v) => Comes(client', inbox', "phase", v)
               /\ Comes(client, inbox, "paired", v) => Comes(client', inbox', "paired", v)
    BY <1>0, <1>6, <2>2
  <2>4. Comes(client, inbox, "round", Now.round) => Comes(client', inbox', "round", Now.round)
    <3>1. Given("round", m) = m.round
      BY DEF Given
    <3>2. QED
      BY <1>0, <1>6, <2>2, <3>1
  <2>5. QED
    BY <1>1, <1>6, <2>3, <2>4
<1>7. ASSUME Following, Listening, TellPause \/ TellResume \/ \E d \in Extras : TellExtend(d)
      PROVE  KnownThen
  <2>1. PICK action \in {"pause", "resume", "extend"}, r \in Rounds, d \in Nat :
          /\ Tell(action, r, d) /\ Now.round = r
          /\ Msg(action, r, rounds[r].ends_at + d) \in Message
    BY <1>0, <1>7, TellShape
  <2> DEFINE m == Msg(action, r, rounds[r].ends_at + d)
  <2>2. m.kind = action /\ m.round = r
    BY DEF Msg
  <2>3. /\ Deliver(m) /\ UNCHANGED <<client, marks, clock, rounds>>
    BY <2>1 DEF Tell, vars, clientVars
  <2>4. m.kind \notin Sets("phase") /\ m.kind \notin Sets("paired")
    BY <2>1, <2>2 DEF Sets
  <2>5. Now' = Now
    BY <2>3, NowMoves
  <2> HIDE DEF m
  <2>6. QED
    BY <1>6, <1>7, <2>1, <2>2, <2>3, <2>4, <2>5 DEF m
<1>8. ASSUME Following, PartnerReport("gone") PROVE KnownThen
  <2> DEFINE m == Msg("gone", NoRound, 0)
  <2>1. m \in Message /\ m.kind = "gone"
    BY DEF Msg, Message, RoomKind, Presence
  <2>2. /\ Deliver(m) /\ Listening /\ UNCHANGED <<client, marks, clock, rounds>>
    BY <1>8 DEF PartnerReport, vars, clientVars
  <2>3. /\ m.kind \notin Sets("phase") /\ m.kind \notin Sets("paired")
        /\ m.kind \notin Sets("round")
    BY <2>1 DEF Sets
  <2>4. Now' = Now
    BY <2>2, NowMoves
  <2> HIDE DEF m
  <2>5. QED
    BY <1>6, <1>8, <2>1, <2>2, <2>3, <2>4
<1>9. ASSUME SendSnapshot, Following \/ (HelloSeen /\ Snapshot # <<>> /\ inbox = <<>>)
      PROVE  KnownThen
  <2>1. /\ UNCHANGED <<client, marks, clock, rounds>>
        /\ inbox' = (IF HelloSeen THEN Snapshot ELSE <<>>) \o inbox
    BY <1>9 DEF SendSnapshot, vars
  <2>2. Now' = Now
    BY <2>1, NowMoves
  <2>3. CASE HelloSeen /\ Snapshot # <<>>
    <3>1. inbox' = Snapshot \o inbox /\ Snapshot \in Seq(Message)
      BY <1>0, <2>1, <2>3, SnapshotShape
    <3>2. \A f \in Field : \A v :
            (inbox = <<>> \/ Comes(client, inbox, f, v)) /\ Comes(client, Snapshot, f, v)
              => Comes(client', inbox', f, v)
      BY <1>0, <2>1, <3>1, ComesAfterPrepend
    <3>3. /\ Now.phase \in {PRECONNECT, IN_ROUND, COMPLETED}
          /\ Now.phase = COMPLETED => Comes(client, Snapshot, "phase", "event_ended")
          /\ Now.phase = PRECONNECT => Comes(client, Snapshot, "phase", "preconnecting")
          /\ Now.phase = IN_ROUND => Comes(client, Snapshot, "phase", "in_round")
          /\ Now.phase \in {PRECONNECT, IN_ROUND} =>
               /\ Comes(client, Snapshot, "round", Now.round)
               /\ Comes(client, Snapshot, "paired", TRUE)
      BY <1>0, <2>3, SnapshotBrings
    <3>4. Following \/ inbox = <<>>
      BY <1>9
    <3>5. QED
      BY <1>0, <1>1, <1>d, <2>1, <2>2, <3>2, <3>3, <3>4
  <2>4. CASE ~(HelloSeen /\ Snapshot # <<>>)
    <3>1. inbox' = <<>> \o inbox /\ Following
      BY <1>9, <2>1, <2>4
    <3>2. inbox' = inbox
      BY <1>0, <3>1
    <3>3. QED
      BY <1>1, <2>1, <2>2, <3>1, <3>2
  <2>5. QED
    BY <2>3, <2>4
<1>10. UNCHANGED <<clock, rounds>> => Now' = Now
  BY NowMoves
<1>11. CommitAction => Now' = Now
  BY <1>0 DEF CommitAction, Rewinds, Now
<1>12. RollbackAction => UNCHANGED <<clock, rounds>>
  BY DEF RollbackAction
<1>13. KnownThen
  BY <1>0, <1>2, <1>3, <1>4, <1>5, <1>7, <1>8, <1>9, <1>10, <1>11, <1>12, ClientMoves
<1>14. QED
  BY <1>13 DEF FollowsPhase

(* A move back in time is not forgotten.                                    *)
LEMMA RewoundStays ==
  ASSUME [RoomNext]_<<vars, roomVars>>, rewound
  PROVE  rewound'
BY DEF RoomNext, RoomTick, RoomDispatchCall, RoomAlreadySent, RoomSendOnce, RoomCrash,
   Broadcast, RoomPublishFails, TellPause, TellResume, TellExtend, Tell, CommitAction,
   RollbackAction, PartnerReport, Receive, Drop, GiveUp, Join, SendSnapshot, roomVars,
   operatorVars

(* A message that does not set a field leaves it to the others.             *)
LEMMA UntouchedAfterAppend ==
  ASSUME NEW q \in Seq(Message), NEW m \in Message, NEW f, m.kind \notin Sets(f),
         Untouched(q, f)
  PROVE  Untouched(Append(q, m), f)
<1>1. /\ Len(Append(q, m)) = Len(q) + 1 /\ Append(q, m)[Len(q) + 1] = m
      /\ \A n \in 1..Len(q) : Append(q, m)[n] = q[n]
      /\ \A n \in 1..Len(Append(q, m)) : n = Len(q) + 1 \/ n \in 1..Len(q)
  OBVIOUS
<1>2. QED
  BY <1>1 DEF Untouched

(* Before the event no message takes a client into a round.                 *)
LEMMA StepNothingBeforeStart ==
  ASSUME RInv, NothingBeforeStart, [RoomNext]_<<vars, roomVars>>
  PROVE  NothingBeforeStart'
<1> SUFFICES ASSUME ~rewound', Now'.phase = NOT_STARTED
             PROVE  client'.phase # "in_round" /\ Untouched(inbox', "phase")
  BY DEF NothingBeforeStart
<1>0. /\ RoomTyped /\ inbox \in Seq(Message) /\ client \in ClientState /\ ~rewound
  BY RewoundStays DEF RInv, RoomTyped, RoomTypeOK
<1>1. Now.phase = NOT_STARTED
  <2>1. CASE UNCHANGED <<clock, rounds>>
    BY <2>1, NowMoves
  <2>2. CASE RoomTick
    BY <1>0, <2>2, TickKeepsAnnounced
  <2>3. CASE CommitAction
    <3>1. Now' = Now
      BY <2>3 DEF CommitAction, Rewinds, Now
    <3>2. QED
      BY <3>1
  <2>4. QED
    BY <2>1, <2>2, <2>3, RoomTimeMoves
<1>2. client.phase # "in_round" /\ Untouched(inbox, "phase")
  BY <1>0, <1>1 DEF NothingBeforeStart
<1>3. CASE UNCHANGED <<client, inbox>>
  BY <1>2, <1>3
<1>4. CASE Receive
  <2>1. /\ inbox # <<>> /\ client' = Handle(client, Head(inbox)) /\ inbox' = Tail(inbox)
    BY <1>4 DEF Receive
  <2>2. /\ Head(inbox) \in Message /\ Head(inbox) = inbox[1] /\ 1 \in 1..Len(inbox)
        /\ \A n \in 1..Len(Tail(inbox)) :
             n + 1 \in 1..Len(inbox) /\ Tail(inbox)[n] = inbox[n + 1]
    BY <1>0, <2>1
  <2>3. Head(inbox).kind \notin Sets("phase") /\ Untouched(inbox', "phase")
    BY <1>2, <2>1, <2>2 DEF Untouched
  <2>4. client'.phase = client.phase
    <3>1. "phase" \in Field
      BY DEF Field
    <3>2. Handle(client, Head(inbox))["phase"] = client["phase"]
      BY <1>0, <2>2, <2>3, <3>1, HandleSets
    <3>3. QED
      BY <2>1, <3>2
  <2>5. QED
    BY <1>2, <2>3, <2>4
<1>5. ASSUME NEW i \in Dispatcher, RoomSendOnce(i) \/ RoomCrash(i) PROVE FALSE
  <2>1. pc[i] = "get"
    BY <1>5 DEF RoomSendOnce, RoomCrash, Broadcast
  <2>2. Head(todo[i]) = todo[i][1] /\ 1 \in 1..Len(todo[i])
    BY <1>0, <2>1, BroadcastShape
  <2>3. todo[i][1].kind \in KindsOf(NOT_STARTED)
    BY <1>0, <1>1, <2>2 DEF RInv, PlansAreCurrent
  <2>4. QED
    BY <2>3 DEF KindsOf, NOT_STARTED, PRECONNECT, IN_ROUND, BREAK, COMPLETED
<1>6. CASE TellPause \/ TellResume \/ \E d \in Extras : TellExtend(d)
  <2>1. PICK action \in {"pause", "resume", "extend"}, r \in Rounds, d \in Nat :
          Tell(action, r, d) /\ Msg(action, r, rounds[r].ends_at + d) \in Message
    BY <1>0, <1>6, TellShape
  <2> DEFINE m == Msg(action, r, rounds[r].ends_at + d)
  <2>2. m.kind = action
    BY DEF Msg
  <2>3. Deliver(m) /\ client' = client
    BY <2>1 DEF Tell, clientVars
  <2>4. m.kind \notin Sets("phase")
    BY <2>1, <2>2 DEF Sets
  <2> HIDE DEF m
  <2>5. Untouched(inbox', "phase")
    BY <1>0, <1>2, <2>1, <2>3, <2>4, UntouchedAfterAppend DEF Deliver, m
  <2>6. QED
    BY <1>2, <2>3, <2>5
<1>7. CASE PartnerReport("gone")
  <2>1. Now.phase \in {PRECONNECT, IN_ROUND}
    BY <1>7 DEF PartnerReport, Now
  <2>2. QED
    BY <1>1, <2>1 DEF NOT_STARTED, PRECONNECT, IN_ROUND
<1>8. CASE SendSnapshot
  <2>1. Snapshot = <<>>
    BY <1>0, <1>1, SnapshotShape DEF NOT_STARTED, PRECONNECT, IN_ROUND, COMPLETED
  <2>2. inbox' = <<>> \o inbox /\ client' = client
    BY <1>8, <2>1 DEF SendSnapshot
  <2>3. inbox' = inbox
    BY <1>0, <2>2
  <2>4. QED
    BY <1>2, <2>2, <2>3
<1>9. CASE Drop \/ GiveUp
  <2>1. /\ inbox' = inbox \/ inbox' = <<>>
        /\ client' = on_transient_disconnect(client) \/ client' = on_disconnect(client)
    BY <1>9 DEF Drop, GiveUp
  <2>2. on_disconnect(client).phase = "disconnected"
    BY <1>0 DEF on_disconnect, ClientState
  <2>3. client'.phase # "in_round"
    BY <1>2, <2>1, <2>2 DEF on_transient_disconnect
  <2>4. Untouched(<<>>, "phase")
    BY DEF Untouched
  <2>5. QED
    BY <1>2, <2>1, <2>3, <2>4
<1>10. \/ Receive \/ SendSnapshot \/ Drop \/ GiveUp \/ PartnerReport("gone")
       \/ TellPause \/ TellResume \/ \E d \in Extras : TellExtend(d)
       \/ \E i \in Dispatcher : RoomSendOnce(i) \/ RoomCrash(i)
       \/ UNCHANGED <<client, inbox>>
  BY DEF RoomNext, RoomTick, RoomDispatchCall, RoomAlreadySent, RoomPublishFails,
     CommitAction, RollbackAction, Join, roomVars, clientVars
<1>11. QED
  BY <1>3, <1>4, <1>5, <1>6, <1>7, <1>8, <1>9, <1>10

(* What a step does to a field the client has yet to learn: a message that  *)
(* arrives, one that is put in the queue, a snapshot.                       *)
LEMMA ComesMoves ==
  ASSUME RoomTyped, NEW f \in Field, NEW v
  PROVE  /\ UNCHANGED <<client, inbox>> /\ Comes(client, inbox, f, v) =>
              Comes(client', inbox', f, v)
         /\ Receive /\ Comes(client, inbox, f, v) => Comes(client', inbox', f, v)
         /\ \A m \in Message :
              /\ client' = client /\ inbox' = Append(inbox, m)
              /\ \/ m.kind \in Sets(f) /\ Given(f, m) = v
                 \/ m.kind \notin Sets(f) /\ Comes(client, inbox, f, v)
              => Comes(client', inbox', f, v)
         /\ SendSnapshot /\ HelloSeen /\ Snapshot # <<>>
              /\ (inbox = <<>> \/ Comes(client, inbox, f, v))
              /\ Comes(client, Snapshot, f, v)
              => Comes(client', inbox', f, v)
         /\ SendSnapshot /\ ~(HelloSeen /\ Snapshot # <<>>)
              /\ Comes(client, inbox, f, v)
              => Comes(client', inbox', f, v)
<1>0. inbox \in Seq(Message) /\ client \in ClientState /\ Snapshot \in Seq(Message)
  BY SnapshotShape DEF RoomTyped, RoomTypeOK
<1>1. Receive => /\ inbox # <<>> /\ client' = Handle(client, Head(inbox))
                 /\ inbox' = Tail(inbox)
  BY DEF Receive
<1>2. Receive /\ Comes(client, inbox, f, v) => Comes(client', inbox', f, v)
  BY <1>0, <1>1, ComesAfterReceive
<1>3. ASSUME NEW m \in Message, client' = client, inbox' = Append(inbox, m),
             \/ m.kind \in Sets(f) /\ Given(f, m) = v
             \/ m.kind \notin Sets(f) /\ Comes(client, inbox, f, v)
      PROVE  Comes(client', inbox', f, v)
  BY <1>0, <1>3, ComesAfterAppend
<1>4. ASSUME SendSnapshot, HelloSeen, Snapshot # <<>>,
             inbox = <<>> \/ Comes(client, inbox, f, v), Comes(client, Snapshot, f, v)
      PROVE  Comes(client', inbox', f, v)
  <2>1. inbox' = Snapshot \o inbox /\ client' = client
    BY <1>4 DEF SendSnapshot
  <2>2. QED
    BY <1>0, <1>4, <2>1, ComesAfterPrepend
<1>5. ASSUME SendSnapshot, ~(HelloSeen /\ Snapshot # <<>>), Comes(client, inbox, f, v)
      PROVE  Comes(client', inbox', f, v)
  <2>1. inbox' = <<>> \o inbox /\ client' = client
    BY <1>5 DEF SendSnapshot
  <2>2. inbox' = inbox
    BY <1>0, <2>1
  <2>3. QED
    BY <1>5, <2>1, <2>2
<1>6. QED
  BY <1>2, <1>3, <1>4, <1>5

(* The end of the round is followed.                                        *)
LEMMA StepFollowsTimer ==
  ASSUME RInv, FollowsTimer, [RoomNext]_<<vars, roomVars>>
  PROVE  FollowsTimer'
<1> SUFFICES ASSUME Following', ~stale', Now'.phase \in {PRECONNECT, IN_ROUND},
                    K("pairing", Now'.round) \in marks'
             PROVE  Comes(client', inbox', "end", EndToCome')
  BY DEF FollowsTimer
<1>0. RoomTyped /\ "end" \in Field /\ ~rewound'
  BY DEF RInv, Field, Following
<1>1. Following /\ ~stale /\ Now.phase \in {PRECONNECT, IN_ROUND}
        /\ K("pairing", Now.round) \in marks => Comes(client, inbox, "end", EndToCome)
  BY DEF FollowsTimer
<1>2. ASSUME UNCHANGED <<clock, rounds, op>> PROVE EndToCome' = EndToCome
  <2>1. Now' = Now
    BY <1>2, NowMoves
  <2>2. QED
    BY <1>2, <2>1 DEF EndToCome
<1>3. ASSUME Following, UNCHANGED <<client, inbox, marks>>, RoomTick
      PROVE  Comes(client', inbox', "end", EndToCome')
  <2>1. Now.phase \in {PRECONNECT, IN_ROUND} /\ Now.round = Now'.round
    BY <1>3, TickKeepsAnnounced DEF Following
  <2>2. UNCHANGED <<rounds, op, stale>>
    BY <1>3 DEF RoomTick, Tick, roomVars
  <2>3. EndToCome' = EndToCome
    BY <2>1, <2>2 DEF EndToCome
  <2>4. QED
    BY <1>0, <1>1, <1>3, <2>1, <2>2, <2>3, ComesMoves
<1>4. ASSUME Following, UNCHANGED <<client, inbox, marks>>, CommitAction
      PROVE  Comes(client', inbox', "end", EndToCome')
  <2>1. /\ Now' = Now /\ op' = NoAction /\ ~stale /\ op # NoAction
    BY <1>0, <1>4 DEF CommitAction, Rewinds, Now
  <2>2. /\ op.round = Now.round /\ op.round \in Rounds /\ op.shift \in Nat
        /\ op.action \in {"pause", "resume", "extend"}
    BY <1>0, <1>4, <2>1 DEF RoomTyped, OpIsCurrent, Following
  <2>3. rounds'[op.round].ends_at = IF op.action # "pause"
                                    THEN rounds[op.round].ends_at + op.shift
                                    ELSE rounds[op.round].ends_at
    <3>1. op.round >= op.round
      <4>1. op.round \in Rounds
        BY <2>2
      <4>2. op.round \in Int
        BY <4>1, RoundTypes
      <4>3. QED
        BY <4>2
    <3>2. \A q \in Rounds :
            rounds'[q].ends_at = IF op.action # "pause" /\ q >= op.round
                                 THEN rounds[q].ends_at + op.shift
                                 ELSE rounds[q].ends_at
      BY <1>0, <1>4, CommitShape
    <3>3. QED
      BY <2>2, <3>1, <3>2
  <2>4. rounds[op.round].ends_at \in Int /\ rounds'[op.round].ends_at \in Int
    BY <1>0, <1>4, <2>2, CommitShape, TimetableTypes DEF RoomTyped, RoomTypeOK, TypeOK
  <2>5. op'.action = "none"
    BY <2>1 DEF NoAction
  <2>6. EndToCome' = EndToCome
    BY <2>1, <2>2, <2>3, <2>4, <2>5 DEF EndToCome
  <2>7. QED
    BY <1>0, <1>1, <1>4, <2>1, <2>6, ComesMoves
<1>5. ASSUME Following, UNCHANGED <<client, inbox, marks>>, RollbackAction
      PROVE  Comes(client', inbox', "end", EndToCome')
  <2>1. /\ UNCHANGED <<clock, rounds>> /\ op' = NoAction /\ ~stale
        /\ ~(op.action \in {"resume", "extend"})
    BY <1>5 DEF RollbackAction, ShiftPending
  <2>2. Now' = Now
    BY <2>1, NowMoves
  <2>3. op'.action = "none"
    BY <2>1 DEF NoAction
  <2>4. EndToCome' = EndToCome
    BY <2>1, <2>2, <2>3 DEF EndToCome
  <2>5. QED
    BY <1>0, <1>1, <1>5, <2>1, <2>2, <2>4, ComesMoves
<1>6. ASSUME Following, UNCHANGED <<client, inbox, marks>>,
             UNCHANGED <<clock, rounds, op, stale>>
      PROVE  Comes(client', inbox', "end", EndToCome')
  BY <1>0, <1>1, <1>2, <1>6, ComesMoves, NowMoves
<1>7. ASSUME Following, Receive
      PROVE  Comes(client', inbox', "end", EndToCome')
  <2>1. UNCHANGED <<clock, rounds, op, stale, marks>>
    BY <1>7 DEF Receive, vars, operatorVars
  <2>2. QED
    BY <1>0, <1>1, <1>2, <1>7, <2>1, ComesMoves, NowMoves
<1>8. ASSUME NEW k \in Key, NEW m \in Message, Sends(k, m)
      PROVE  Comes(client', inbox', "end", EndToCome')
  <2>1. PICK i \in Dispatcher :
          /\ m = Msg(k.kind, k.round, read[i][k.round].ends_at)
          /\ k.kind \in {"pairing", "warning"} =>
               stale' = (read[i] # rounds \/ ShiftPending)
    BY <1>8 DEF Sends
  <2>2. /\ client' = client /\ inbox' = Append(inbox, m) /\ k \notin marks
        /\ UNCHANGED <<clock, rounds, op>>
        /\ k.kind \notin {"pairing", "warning"} => stale' = stale
        /\ Following \/ k.kind = "pairing"
    BY <1>8 DEF Sends
  <2>3. /\ k.round = Now.round /\ k.kind \in KindsOf(Now.phase)
        /\ Before(k) \subseteq marks /\ k = K(k.kind, k.round)
        /\ m.kind = k.kind /\ m.round = k.round /\ Now' = Now
    BY <1>0, <1>8, SentIsCurrent
  <2>4. k.kind \in {"pairing", "round_start", "warning"}
    <3>1. Now.phase \in {PRECONNECT, IN_ROUND}
      BY <2>3
    <3>2. QED
      <4>1. CASE Now.phase = PRECONNECT
        <5>1. KindsOf(Now.phase) = {"pairing"}
          BY <4>1 DEF KindsOf, PRECONNECT, IN_ROUND, BREAK, COMPLETED
        <5>2. QED
          BY <2>3, <5>1
      <4>2. CASE Now.phase = IN_ROUND
        <5>1. KindsOf(Now.phase) = {"pairing", "round_start", "warning"}
          BY <4>2 DEF KindsOf, PRECONNECT, IN_ROUND, BREAK, COMPLETED
        <5>2. QED
          BY <2>3, <5>1
      <4>3. QED
        BY <3>1, <4>1, <4>2
  <2>5. CASE k.kind \in {"pairing", "warning"}
    <3>1. read[i] = rounds /\ ~ShiftPending
      BY <2>1, <2>5
    <3>2. m.end = rounds[Now.round].ends_at /\ m.end \in Nat
      BY <2>1, <2>3, <3>1 DEF Msg, Message
    <3>3. EndToCome = m.end
      BY <3>1, <3>2 DEF EndToCome, ShiftPending
    <3>4. m.kind \in Sets("end") /\ Given("end", m) = m.end
      BY <2>3, <2>5 DEF Sets, Given
    <3>5. EndToCome' = EndToCome
      BY <1>2, <2>2
    <3>6. QED
      BY <1>0, <2>2, <3>3, <3>4, <3>5, ComesMoves
  <2>6. CASE k.kind = "round_start"
    <3>1. Following /\ ~stale
      BY <2>2, <2>6
    <3>2. K("pairing", Now.round) \in marks
      BY <2>3, <2>6 DEF Before
    <3>3. Comes(client, inbox, "end", EndToCome)
      BY <1>1, <2>3, <3>1, <3>2
    <3>4. m.kind \notin Sets("end")
      BY <2>3, <2>6 DEF Sets
    <3>5. EndToCome' = EndToCome
      BY <1>2, <2>2
    <3>6. QED
      BY <1>0, <2>2, <3>3, <3>4, <3>5, ComesMoves
  <2>7. QED
    BY <2>4, <2>5, <2>6
<1>9. ASSUME Following, Listening, TellPause \/ TellResume \/ \E d \in Extras : TellExtend(d)
      PROVE  Comes(client', inbox', "end", EndToCome')
  <2>1. PICK action \in {"pause", "resume", "extend"}, r \in Rounds, d \in Nat :
          /\ Tell(action, r, d) /\ Now.round = r
          /\ Msg(action, r, rounds[r].ends_at + d) \in Message
    BY <1>0, <1>9, TellShape
  <2> DEFINE m == Msg(action, r, rounds[r].ends_at + d)
  <2>2. m.kind = action /\ m.end = rounds[r].ends_at + d
    BY DEF Msg
  <2>3. /\ client' = client /\ inbox' = Append(inbox, m)
        /\ UNCHANGED <<clock, rounds, marks, stale>>
        /\ op = NoAction
        /\ op' = [action |-> action, round |-> r, shift |-> d, at |-> clock]
    BY <1>9, <2>1 DEF Tell, vars, clientVars, Deliver
  <2>4. Now' = Now
    BY <2>3, NowMoves
  <2>5. rounds[Now.round].ends_at \in Nat /\ op.action = "none"
        /\ op'.action = action /\ op'.shift = d
    BY <1>0, <2>1, <2>3 DEF NoAction, RoomTyped, TimesAreNat
  <2>6. CASE action = "pause"
    <3>1. EndToCome' = EndToCome
      BY <2>3, <2>4, <2>5, <2>6 DEF EndToCome
    <3>2. m.kind \notin Sets("end")
      BY <2>2, <2>6 DEF Sets
    <3>3. Comes(client, inbox, "end", EndToCome)
      BY <1>1, <1>9, <2>3, <2>4
    <3> HIDE DEF m
    <3>4. QED
      BY <1>0, <2>1, <2>3, <3>1, <3>2, <3>3, ComesMoves DEF m
  <2>7. CASE action \in {"resume", "extend"}
    <3>1. EndToCome' = rounds[r].ends_at + d
      BY <2>1, <2>3, <2>4, <2>5, <2>7 DEF EndToCome
    <3>2. m.kind \in Sets("end") /\ Given("end", m) = EndToCome'
      BY <2>2, <2>7, <3>1 DEF Sets, Given
    <3> HIDE DEF m
    <3>3. QED
      BY <1>0, <2>1, <2>3, <3>2, ComesMoves DEF m
  <2>8. QED
    BY <2>1, <2>6, <2>7
<1>10. ASSUME Following, PartnerReport("gone")
       PROVE  Comes(client', inbox', "end", EndToCome')
  <2> DEFINE m == Msg("gone", NoRound, 0)
  <2>1. m \in Message /\ m.kind \notin Sets("end")
    BY DEF Msg, Message, RoomKind, Presence, Sets
  <2>2. /\ client' = client /\ inbox' = Append(inbox, m)
        /\ UNCHANGED <<clock, rounds, op, marks, stale>>
    BY <1>10 DEF PartnerReport, vars, clientVars, Deliver
  <2> HIDE DEF m
  <2>3. QED
    BY <1>0, <1>1, <1>2, <1>10, <2>1, <2>2, ComesMoves, NowMoves
<1>11. ASSUME SendSnapshot, Following \/ (HelloSeen /\ Snapshot # <<>> /\ inbox = <<>>)
       PROVE  Comes(client', inbox', "end", EndToCome')
  <2>1. /\ UNCHANGED <<clock, rounds, op, marks>> /\ ~stale
        /\ HelloSeen /\ Snapshot # <<>> => ~ShiftPending
    BY <1>11 DEF SendSnapshot, vars
  <2>2. EndToCome' = EndToCome /\ Now' = Now
    BY <1>2, <2>1, NowMoves
  <2>3. Following => Comes(client, inbox, "end", EndToCome)
    BY <1>1, <2>1, <2>2
  <2>4. CASE HelloSeen /\ Snapshot # <<>>
    <3>1. Now.round \in Rounds
      BY <1>0, <2>2, <2>4, SnapshotShape DEF PRECONNECT, IN_ROUND, COMPLETED
    <3>2. EndToCome = rounds[Now.round].ends_at
      BY <1>0, <2>1, <2>4, <3>1 DEF EndToCome, ShiftPending, RoomTyped, TimesAreNat
    <3>3. Comes(client, Snapshot, "end", EndToCome)
      BY <1>0, <2>2, <2>4, <3>2, SnapshotBrings
    <3>4. QED
      BY <1>0, <1>11, <2>2, <2>3, <2>4, <3>3, ComesMoves
  <2>5. CASE ~(HelloSeen /\ Snapshot # <<>>)
    BY <1>0, <1>11, <2>2, <2>3, <2>5, ComesMoves
  <2>6. QED
    BY <2>4, <2>5
<1>12. QED
  BY <1>0, <1>3, <1>4, <1>5, <1>6, <1>7, <1>8, <1>9, <1>10, <1>11, ClientMoves

(* The pause is followed.                                                   *)
LEMMA StepFollowsPause ==
  ASSUME RInv, FollowsPause, [RoomNext]_<<vars, roomVars>>
  PROVE  FollowsPause'
<1> DEFINE Brings ==
             /\ PauseToCome' => Comes(client', inbox', "paused", TRUE)
             /\ ~PauseToCome' => Comes(client', inbox', "paused", FALSE)
<1> SUFFICES ASSUME Following', ~muddled', Now'.phase \in {PRECONNECT, IN_ROUND},
                    K("pairing", Now'.round) \in marks'
             PROVE  Brings
  BY DEF FollowsPause
<1>0. RoomTyped /\ "paused" \in Field /\ ~rewound'
  BY DEF RInv, Field, Following
<1>1. Following /\ ~muddled /\ Now.phase \in {PRECONNECT, IN_ROUND}
        /\ K("pairing", Now.round) \in marks =>
          /\ PauseToCome => Comes(client, inbox, "paused", TRUE)
          /\ ~PauseToCome => Comes(client, inbox, "paused", FALSE)
  BY DEF FollowsPause
<1>2. ASSUME UNCHANGED <<op, paused>>, Now'.round = Now.round
      PROVE  PauseToCome' <=> PauseToCome
  BY <1>2 DEF PauseToCome
<1>3. ASSUME Following, UNCHANGED <<client, inbox, marks>>, RoomTick
      PROVE  Brings
  <2>1. Now.phase \in {PRECONNECT, IN_ROUND} /\ Now.round = Now'.round
    BY <1>3, TickKeepsAnnounced DEF Following
  <2>2. UNCHANGED <<op, paused, muddled>>
    BY <1>3 DEF RoomTick, roomVars
  <2>3. PauseToCome' <=> PauseToCome
    BY <1>2, <2>1, <2>2
  <2>4. QED
    BY <1>0, <1>1, <1>3, <2>1, <2>2, <2>3, ComesMoves
<1>4. ASSUME Following, UNCHANGED <<client, inbox, marks>>, CommitAction
      PROVE  Brings
  <2>1. /\ Now' = Now /\ op' = NoAction /\ ~muddled /\ op # NoAction
        /\ paused' = IF op.action = "pause" THEN op.round ELSE NoRound
        /\ op.action = "extend" => paused # op.round
    BY <1>0, <1>4 DEF CommitAction, Rewinds, Now
  <2>2. /\ op.round = Now.round /\ op.round \in Rounds
        /\ op.action \in {"pause", "resume", "extend"}
    BY <1>0, <1>4, <2>1 DEF RoomTyped, OpIsCurrent, Following
  <2>3. op'.action = "none" /\ Now.round # NoRound
    BY <2>1, <2>2, ConstantTypes DEF NoAction, NoRound
  <2>4. PauseToCome' <=> PauseToCome
    BY <2>1, <2>2, <2>3 DEF PauseToCome
  <2>5. QED
    BY <1>0, <1>1, <1>4, <2>1, <2>4, ComesMoves
<1>5. ASSUME Following, UNCHANGED <<client, inbox, marks>>, RollbackAction
      PROVE  Brings
  <2>1. /\ UNCHANGED <<clock, rounds, paused>> /\ op' = NoAction
        /\ op.action = "extend" /\ ~muddled
    BY <1>5 DEF RollbackAction
  <2>2. Now' = Now
    BY <2>1, NowMoves
  <2>3. op'.action = "none"
    BY <2>1 DEF NoAction
  <2>4. PauseToCome' <=> PauseToCome
    BY <2>1, <2>2, <2>3 DEF PauseToCome
  <2>5. QED
    BY <1>0, <1>1, <1>5, <2>1, <2>2, <2>4, ComesMoves
<1>6. ASSUME Following, UNCHANGED <<client, inbox, marks>>,
             UNCHANGED <<clock, rounds, op, paused, muddled>>
      PROVE  Brings
  <2>1. Now' = Now
    BY <1>6, NowMoves
  <2>2. PauseToCome' <=> PauseToCome
    BY <1>2, <1>6, <2>1
  <2>3. QED
    BY <1>0, <1>1, <1>6, <2>1, <2>2, ComesMoves
<1>7. ASSUME Following, Receive PROVE Brings
  <2>1. UNCHANGED <<clock, rounds, op, paused, muddled, marks>>
    BY <1>7 DEF Receive, vars, operatorVars
  <2>2. Now' = Now
    BY <2>1, NowMoves
  <2>3. PauseToCome' <=> PauseToCome
    BY <1>2, <2>1, <2>2
  <2>4. QED
    BY <1>0, <1>1, <1>7, <2>1, <2>2, <2>3, ComesMoves
<1>8. ASSUME NEW k \in Key, NEW m \in Message, Sends(k, m) PROVE Brings
  <2>1. /\ client' = client /\ inbox' = Append(inbox, m)
        /\ UNCHANGED <<op, paused>>
        /\ k.kind = "warning" => ~muddled
        /\ k.kind # "warning" => ~Pausing(k.round)
        /\ Following \/ k.kind = "pairing"
    BY <1>8 DEF Sends
  <2>2. /\ k.round = Now.round /\ k.kind \in KindsOf(Now.phase)
        /\ Before(k) \subseteq marks /\ k = K(k.kind, k.round) /\ k.round \in Rounds
        /\ m.kind = k.kind /\ m.round = k.round /\ Now' = Now
    BY <1>0, <1>8, SentIsCurrent, KeyFields
  <2>3. PauseToCome' <=> PauseToCome
    BY <1>2, <2>1, <2>2
  <2>4. k.kind \in {"pairing", "round_start", "warning"}
    <3>1. CASE Now.phase = PRECONNECT
      <4>1. KindsOf(Now.phase) = {"pairing"}
        BY <3>1 DEF KindsOf, PRECONNECT, IN_ROUND, BREAK, COMPLETED
      <4>2. QED
        BY <2>2, <4>1
    <3>2. CASE Now.phase = IN_ROUND
      <4>1. KindsOf(Now.phase) = {"pairing", "round_start", "warning"}
        BY <3>2 DEF KindsOf, PRECONNECT, IN_ROUND, BREAK, COMPLETED
      <4>2. QED
        BY <2>2, <4>1
    <3>3. QED
      BY <2>2, <3>1, <3>2
  <2>5. CASE k.kind \in {"pairing", "round_start"}
    <3>1. ~Pausing(Now.round)
      BY <2>1, <2>2, <2>5
    <3>2. ~PauseToCome'
      BY <2>3, <3>1 DEF PauseToCome, Pausing
    <3>3. m.kind \in Sets("paused")
      BY <2>2, <2>5 DEF Sets
    <3>4. Given("paused", m) = FALSE
      BY <2>2, <2>5 DEF Given
    <3>5. QED
      BY <1>0, <2>1, <3>2, <3>3, <3>4, ComesMoves
  <2>6. CASE k.kind = "warning"
    <3>1. Following
      BY <2>1, <2>6
    <3>2. K("pairing", Now.round) \in marks
      BY <2>2, <2>6 DEF Before
    <3>3. m.kind \notin Sets("paused")
      BY <2>2, <2>6 DEF Sets
    <3>4. ~muddled /\ Now.phase \in {PRECONNECT, IN_ROUND}
      BY <2>1, <2>2, <2>6
    <3>5. /\ PauseToCome => Comes(client, inbox, "paused", TRUE)
          /\ ~PauseToCome => Comes(client, inbox, "paused", FALSE)
      BY <1>1, <3>1, <3>2, <3>4
    <3>6. QED
      BY <1>0, <2>1, <2>3, <3>3, <3>5, ComesMoves
  <2>7. QED
    BY <2>4, <2>5, <2>6
<1>9. ASSUME Following, Listening, TellPause \/ TellResume \/ \E d \in Extras : TellExtend(d)
      PROVE  Brings
  <2>1. PICK action \in {"pause", "resume", "extend"}, r \in Rounds, d \in Nat :
          /\ Tell(action, r, d)
          /\ Msg(action, r, rounds[r].ends_at + d) \in Message
    BY <1>0, <1>9, TellShape
  <2> DEFINE m == Msg(action, r, rounds[r].ends_at + d)
  <2>2. m.kind = action
    BY DEF Msg
  <2>3. /\ client' = client /\ inbox' = Append(inbox, m)
        /\ UNCHANGED <<clock, rounds, marks, paused>>
        /\ action = "extend" => ~muddled
        /\ op = NoAction
        /\ op' = [action |-> action, round |-> r, shift |-> d, at |-> clock]
    BY <1>9, <2>1 DEF Tell, vars, clientVars, Deliver
  <2>4. Now' = Now
    BY <2>3, NowMoves
  <2>5. op.action = "none" /\ op'.action = action
    BY <2>3 DEF NoAction
  <2>6. m \in Message
    BY <2>1
  <2> HIDE DEF m
  <2>7. CASE action = "pause"
    <3>1. PauseToCome' /\ m.kind \in Sets("paused")
      BY <2>2, <2>5, <2>7 DEF PauseToCome, Sets
    <3>2. Given("paused", m) = TRUE
      BY <2>2, <2>7 DEF Given
    <3>3. QED
      BY <1>0, <2>3, <2>6, <3>1, <3>2, ComesMoves
  <2>8. CASE action = "resume"
    <3>1. ~PauseToCome' /\ m.kind \in Sets("paused")
      BY <2>2, <2>5, <2>8 DEF PauseToCome, Sets
    <3>2. Given("paused", m) = FALSE
      BY <2>2, <2>8 DEF Given
    <3>3. QED
      BY <1>0, <2>3, <2>6, <3>1, <3>2, ComesMoves
  <2>9. CASE action = "extend"
    <3>1. PauseToCome' <=> PauseToCome
      BY <2>3, <2>4, <2>5, <2>9 DEF PauseToCome
    <3>2. m.kind \notin Sets("paused")
      BY <2>2, <2>9 DEF Sets
    <3>3. ~muddled /\ marks' = marks
      BY <2>3, <2>9
    <3>4. /\ PauseToCome => Comes(client, inbox, "paused", TRUE)
          /\ ~PauseToCome => Comes(client, inbox, "paused", FALSE)
      BY <1>1, <1>9, <2>4, <3>3
    <3>5. QED
      BY <1>0, <2>3, <2>6, <3>1, <3>2, <3>4, ComesMoves
  <2>10. QED
    BY <2>1, <2>7, <2>8, <2>9
<1>10. ASSUME Following, PartnerReport("gone") PROVE Brings
  <2> DEFINE m == Msg("gone", NoRound, 0)
  <2>1. m \in Message /\ m.kind \notin Sets("paused")
    BY DEF Msg, Message, RoomKind, Presence, Sets
  <2>2. /\ client' = client /\ inbox' = Append(inbox, m)
        /\ UNCHANGED <<clock, rounds, op, paused, marks, muddled>>
    BY <1>10 DEF PartnerReport, vars, clientVars, Deliver
  <2> HIDE DEF m
  <2>3. Now' = Now
    BY <2>2, NowMoves
  <2>4. PauseToCome' <=> PauseToCome
    BY <1>2, <2>2, <2>3
  <2>5. QED
    BY <1>0, <1>1, <1>10, <2>1, <2>2, <2>3, <2>4, ComesMoves
<1>11. ASSUME SendSnapshot, Following \/ (HelloSeen /\ Snapshot # <<>> /\ inbox = <<>>)
       PROVE  Brings
  <2>1. /\ UNCHANGED <<clock, rounds, op, paused, marks>>
        /\ HelloSeen /\ Snapshot # <<>> => ~Pausing(Now.round)
        /\ ~(HelloSeen /\ Snapshot # <<>> /\ inbox = <<>>) => ~muddled
    BY <1>11 DEF SendSnapshot, Now, vars
  <2>2. Now' = Now
    BY <2>1, NowMoves
  <2>3. PauseToCome' <=> PauseToCome
    BY <1>2, <2>1, <2>2
  <2>4. CASE HelloSeen /\ Snapshot # <<>>
    <3>1. Now.round \in Rounds
      BY <1>0, <2>2, <2>4, SnapshotShape DEF PRECONNECT, IN_ROUND, COMPLETED
    <3>2. ~PauseToCome'
      BY <2>1, <2>3, <2>4 DEF PauseToCome, Pausing
    <3>3. Comes(client, Snapshot, "paused", FALSE)
      BY <1>0, <2>2, <2>4, SnapshotBrings
    <3>4. inbox = <<>> \/ Comes(client, inbox, "paused", FALSE)
      BY <1>1, <1>11, <2>1, <2>2, <2>3, <3>2
    <3>5. QED
      BY <1>0, <1>11, <2>4, <3>2, <3>3, <3>4, ComesMoves
  <2>5. CASE ~(HelloSeen /\ Snapshot # <<>>)
    BY <1>0, <1>1, <1>11, <2>1, <2>2, <2>3, <2>5, ComesMoves
  <2>6. QED
    BY <2>4, <2>5
<1> HIDE DEF Brings
<1>12. QED
  BY <1>0, <1>3, <1>4, <1>5, <1>6, <1>7, <1>8, <1>9, <1>10, <1>11, ClientMoves

-----------------------------------------------------------------------------
(* The theorems about a room *)

CInv == FollowsPhase /\ NothingBeforeStart /\ FollowsTimer /\ FollowsPause

LEMMA InitEstablishesCInv == RoomInit => CInv
<1> SUFFICES ASSUME RoomInit PROVE CInv
  OBVIOUS
<1>1. marks = {} /\ inbox = <<>> /\ client.phase = "idle"
  BY DEF RoomInit, Init
<1>2. FollowsPhase /\ FollowsTimer /\ FollowsPause
  BY <1>1 DEF FollowsPhase, FollowsTimer, FollowsPause
<1>3. NothingBeforeStart
  BY <1>1 DEF NothingBeforeStart, Untouched
<1>4. QED
  BY <1>2, <1>3 DEF CInv

LEMMA StepPreservesCInv == RInv /\ CInv /\ [RoomNext]_<<vars, roomVars>> => CInv'
BY StepFollowsPhase, StepNothingBeforeStart, StepFollowsTimer, StepFollowsPause DEF CInv

(***************************************************************************)
(* Whatever a room's dispatchers, operator and socket do, plans and marks  *)
(* belong to the phase they were made for, and the client will know what   *)
(* was announced once its queue is empty.                                  *)
(***************************************************************************)
THEOREM RoomInvariant == RoomSpec => [](RInv /\ CInv)
BY InitEstablishesRInv, StepPreservesRInv, InitEstablishesCInv, StepPreservesCInv, PTL
DEF RoomSpec

(***************************************************************************)
(* Every state of a room has its types.                                    *)
(***************************************************************************)
THEOREM RoomTypeInvariant == RoomSpec => []RoomTypeOK
<1>1. RInv /\ CInv => RoomTypeOK
  BY DEF RInv, RoomTyped
<1>2. QED
  BY <1>1, RoomInvariant, PTL

(* The plan of the current phase.                                           *)
LEMMA PlanOfPhase ==
  ASSUME RoomTyped
  PROVE  /\ Now.phase = PRECONNECT => CurrentPlan = <<K("pairing", Now.round)>>
         /\ Now.phase = IN_ROUND =>
              \/ CurrentPlan = <<K("pairing", Now.round), K("round_start", Now.round)>>
              \/ CurrentPlan = <<K("pairing", Now.round), K("round_start", Now.round),
                                 K("warning", Now.round)>>
         /\ Now.phase = BREAK => CurrentPlan = <<K("round_end", Now.round)>>
         /\ Now.phase = COMPLETED =>
              CurrentPlan = <<K("round_end", Now.round), K("event_end", Now.round)>>
         /\ Now.phase # NOT_STARTED => Now.round \in Rounds
         /\ Now.phase \in {NOT_STARTED, PRECONNECT, IN_ROUND, BREAK, COMPLETED}
<1> DEFINE r == Now.round
           left == rounds[r].ends_at - clock
<1>0. clock \in Nat /\ rounds \in Timetables /\ Sound(rounds)
  BY DEF RoomTyped, RoomTypeOK, TypeOK
<1>1. /\ Now.phase # NOT_STARTED => r \in Rounds
      /\ Now.phase \in {NOT_STARTED, PRECONNECT, IN_ROUND, BREAK, COMPLETED}
  BY <1>0, PhaseShape, ConstantTypes DEF Now
<1>2. r \in Rounds => CurrentPlan = Plan(Now.phase, r, left)
  BY ConstantTypes DEF CurrentPlan, Now, NoRound
<1>3. r \in Rounds =>
        /\ <<K("pairing", r), K("round_start", r)>> \o <<K("warning", r)>>
             = <<K("pairing", r), K("round_start", r), K("warning", r)>>
        /\ <<K("pairing", r), K("round_start", r)>> \o <<>>
             = <<K("pairing", r), K("round_start", r)>>
  BY KeyFields, ShortConcat DEF Kind
<1> HIDE DEF r, left
<1>4. Now.phase = PRECONNECT => CurrentPlan = <<K("pairing", r)>>
  BY <1>1, <1>2 DEF Plan, NOT_STARTED, PRECONNECT, IN_ROUND, BREAK, COMPLETED
<1>5. Now.phase = IN_ROUND =>
        \/ CurrentPlan = <<K("pairing", r), K("round_start", r)>>
        \/ CurrentPlan = <<K("pairing", r), K("round_start", r), K("warning", r)>>
  BY <1>1, <1>2, <1>3 DEF Plan, NOT_STARTED, PRECONNECT, IN_ROUND, BREAK, COMPLETED
<1>6. Now.phase = BREAK => CurrentPlan = <<K("round_end", r)>>
  BY <1>1, <1>2 DEF Plan, NOT_STARTED, PRECONNECT, IN_ROUND, BREAK, COMPLETED
<1>7. Now.phase = COMPLETED => CurrentPlan = <<K("round_end", r), K("event_end", r)>>
  BY <1>1, <1>2 DEF Plan, NOT_STARTED, PRECONNECT, IN_ROUND, BREAK, COMPLETED
<1>8. QED
  BY <1>1, <1>4, <1>5, <1>6, <1>7 DEF r

(* When the server has nothing left to send, what the phase calls for has   *)
(* been sent: there is no message it cannot build.                          *)
LEMMA CaughtUp ==
  ASSUME RoomTyped, Caught, NumRounds <= MaxRoundNumber, Now.phase # NOT_STARTED
  PROVE  /\ Now.round \in Rounds
         /\ Now.phase \in {PRECONNECT, IN_ROUND} => K("pairing", Now.round) \in marks
         /\ Now.phase = IN_ROUND => K("round_start", Now.round) \in marks
         /\ Now.phase = BREAK => K("round_end", Now.round) \in marks
         /\ Now.phase = COMPLETED => K("event_end", Now.round) \in marks
         /\ Now.phase \in {PRECONNECT, IN_ROUND, BREAK, COMPLETED}
<1>1. CurrentPlan # <<>> /\ Now.round \in Rounds
      /\ Now.phase \in {PRECONNECT, IN_ROUND, BREAK, COMPLETED}
  BY PlanOfPhase
<1>2. \A n \in 1..Len(CurrentPlan) : CurrentPlan[n].round = Now.round
  BY <1>1, NewPlanIsCurrent
<1>3. Now.round <= MaxRoundNumber
  <2>1. Now.round \in Int /\ Now.round <= NumRounds
    BY <1>1, RoundTypes
  <2>2. NumRounds \in Int /\ MaxRoundNumber \in Int
    BY ConstantTypes
  <2>3. QED
    BY <2>1, <2>2
<1>4. \A n \in 1..Len(CurrentPlan) : Valid(CurrentPlan[n])
  BY <1>2, <1>3 DEF Valid
<1>5. Len(CurrentPlan) \in Nat
  BY <1>1, PlanProperties DEF RoomTyped, RoomTypeOK
<1>6. \A n \in 1..Len(CurrentPlan) : CurrentPlan[n] \in marks
  <2> SUFFICES ASSUME NEW n \in 1..Len(CurrentPlan) PROVE CurrentPlan[n] \in marks
    OBVIOUS
  <2>1. \A m \in 1..n : m \in 1..Len(CurrentPlan)
    BY <1>5
  <2>2. QED
    BY <1>4, <2>1 DEF Caught
<1>d. /\ PRECONNECT # IN_ROUND /\ PRECONNECT # BREAK /\ PRECONNECT # COMPLETED
      /\ IN_ROUND # BREAK /\ IN_ROUND # COMPLETED /\ BREAK # COMPLETED
  BY DEF PRECONNECT, IN_ROUND, BREAK, COMPLETED
<1>7. \A a, b, c :
        /\ CurrentPlan = <<a>> => a \in marks
        /\ CurrentPlan = <<a, b>> => a \in marks /\ b \in marks
        /\ CurrentPlan = <<a, b, c>> => a \in marks /\ b \in marks
  <2> SUFFICES ASSUME NEW a, NEW b, NEW c
               PROVE  /\ CurrentPlan = <<a>> => a \in marks
                      /\ CurrentPlan = <<a, b>> => a \in marks /\ b \in marks
                      /\ CurrentPlan = <<a, b, c>> => a \in marks /\ b \in marks
    OBVIOUS
  <2>1. CASE CurrentPlan = <<a>>
    BY <1>6, <2>1
  <2>2. CASE CurrentPlan = <<a, b>>
    BY <1>6, <2>2
  <2>3. CASE CurrentPlan = <<a, b, c>>
    BY <1>6, <2>3
  <2>4. QED
    BY <2>1, <2>2, <2>3
<1>8. QED
  BY <1>1, <1>7, <1>d, PlanOfPhase

(* What a settled client knows.                                             *)
LEMMA SettledClientKnows ==
  ASSUME RInv, CInv, Settled, ~rewound, NumRounds <= MaxRoundNumber
  PROVE  /\ Now.phase = PRECONNECT => client.phase = "preconnecting"
         /\ Now.phase = IN_ROUND => client.phase = "in_round"
         /\ Now.phase = BREAK => client.phase = "round_ending"
         /\ Now.phase = COMPLETED => client.phase = "event_ended"
         /\ Now.phase \in {PRECONNECT, IN_ROUND} =>
              /\ client.round = Now.round /\ client.paired = TRUE
              /\ ~stale => client.end = rounds[Now.round].ends_at
              /\ ~muddled => client.paused = (paused = Now.round)
         /\ Now.phase \in {NOT_STARTED, PRECONNECT, IN_ROUND, BREAK, COMPLETED}
         /\ Now.phase # NOT_STARTED => Now.round \in Rounds
         /\ Now.phase = NOT_STARTED => client.phase # "in_round"
<1>1. /\ RoomTyped /\ Following /\ inbox = <<>> /\ Caught /\ op.action = "none"
  BY DEF RInv, Settled, Following, NoAction
<1>2. \A f, v : Comes(client, inbox, f, v) => client[f] = v
  BY <1>1 DEF Comes, Untouched
<1>3. CASE Now.phase = NOT_STARTED
  BY <1>3 DEF CInv, NothingBeforeStart, NOT_STARTED, PRECONNECT, IN_ROUND, BREAK, COMPLETED
<1>4. CASE Now.phase # NOT_STARTED
  <2>1. /\ Now.round \in Rounds
        /\ Now.phase \in {PRECONNECT, IN_ROUND} => K("pairing", Now.round) \in marks
        /\ Now.phase = IN_ROUND => K("round_start", Now.round) \in marks
        /\ Now.phase = BREAK => K("round_end", Now.round) \in marks
        /\ Now.phase = COMPLETED => K("event_end", Now.round) \in marks
        /\ Now.phase \in {PRECONNECT, IN_ROUND, BREAK, COMPLETED}
    BY <1>1, <1>4, CaughtUp
  <2>2. /\ Now.phase \in {PRECONNECT, IN_ROUND} =>
             /\ Comes(client, inbox, "round", Now.round)
             /\ Comes(client, inbox, "paired", TRUE)
        /\ Now.phase = PRECONNECT => Comes(client, inbox, "phase", "preconnecting")
        /\ Now.phase = IN_ROUND => Comes(client, inbox, "phase", "in_round")
        /\ Now.phase = BREAK => Comes(client, inbox, "phase", "round_ending")
        /\ Now.phase = COMPLETED => Comes(client, inbox, "phase", "event_ended")
    BY <1>1, <2>1 DEF CInv, FollowsPhase
  <2>3. ASSUME Now.phase \in {PRECONNECT, IN_ROUND}, ~stale
        PROVE  client.end = rounds[Now.round].ends_at
    <3>1. Comes(client, inbox, "end", EndToCome)
      BY <1>1, <2>1, <2>3 DEF CInv, FollowsTimer
    <3>2. client["end"] = EndToCome
      BY <1>2, <3>1
    <3>3. rounds[Now.round].ends_at \in Nat
      BY <1>1, <2>1 DEF RoomTyped, TimesAreNat
    <3>4. EndToCome = rounds[Now.round].ends_at
      BY <1>1, <3>3 DEF EndToCome
    <3>5. QED
      BY <3>2, <3>4
  <2>4. ASSUME Now.phase \in {PRECONNECT, IN_ROUND}, ~muddled
        PROVE  client.paused = (paused = Now.round)
    <3>1. PauseToCome <=> paused = Now.round
      BY <1>1 DEF PauseToCome
    <3>2. /\ PauseToCome => Comes(client, inbox, "paused", TRUE)
          /\ ~PauseToCome => Comes(client, inbox, "paused", FALSE)
      BY <1>1, <2>1, <2>4 DEF CInv, FollowsPause
    <3>3. /\ PauseToCome => client.paused = TRUE
          /\ ~PauseToCome => client.paused = FALSE
      BY <1>2, <3>2
    <3>4. QED
      BY <3>1, <3>3
  <2>5. /\ Now.phase \in {PRECONNECT, IN_ROUND} =>
             client.round = Now.round /\ client.paired = TRUE
        /\ Now.phase = PRECONNECT => client.phase = "preconnecting"
        /\ Now.phase = IN_ROUND => client.phase = "in_round"
        /\ Now.phase = BREAK => client.phase = "round_ending"
        /\ Now.phase = COMPLETED => client.phase = "event_ended"
    BY <1>2, <2>2
  <2>6. QED
    BY <1>4, <2>1, <2>3, <2>4, <2>5
<1>5. QED
  BY <1>3, <1>4

(* A settled client is in a round only if the server is.                    *)
LEMMA InRoundTogether ==
  ASSUME RInv, CInv, Settled, ~rewound, client.phase = "in_round",
         NumRounds <= MaxRoundNumber
  PROVE  Now.phase = IN_ROUND /\ Now.round \in Rounds /\ client.round = Now.round
         /\ InRound(rounds, Now.round, clock)
<1>1. Now.phase = IN_ROUND
  BY SettledClientKnows
<1>2. Now.round \in Rounds /\ client.round = Now.round
  BY <1>1, SettledClientKnows DEF NOT_STARTED, IN_ROUND
<1>3. clock \in Int /\ rounds \in Timetables /\ Sound(rounds)
  BY DEF RInv, RoomTyped, RoomTypeOK, TypeOK
<1>4. InRound(rounds, Now.round, clock)
  BY <1>1, <1>3, PhaseShape DEF Now, NOT_STARTED, PRECONNECT, IN_ROUND, BREAK, COMPLETED
<1>5. QED
  BY <1>1, <1>2, <1>4

(***************************************************************************)
(* However the messages of the dispatchers, the operator and a snapshot    *)
(* interleave and whatever a crash repeats, a participant who has missed   *)
(* nothing is in the phase the server is in.  The event has no round the   *)
(* message validators refuse.                                              *)
(***************************************************************************)
THEOREM RoomPhase ==
  ASSUME NumRounds <= MaxRoundNumber
  PROVE  RoomSpec => []PhaseAgrees
<1>1. RInv /\ CInv => PhaseAgrees
  <2> SUFFICES ASSUME RInv, CInv, Settled, ~rewound
               PROVE  /\ Now.phase = PRECONNECT => client.phase = "preconnecting"
                      /\ Now.phase = IN_ROUND => client.phase = "in_round"
                      /\ Now.phase = BREAK => client.phase = "round_ending"
                      /\ Now.phase = COMPLETED => client.phase = "event_ended"
                      /\ Now.phase \in {PRECONNECT, IN_ROUND} =>
                           client.round = Now.round /\ client.paired
    BY DEF PhaseAgrees, Now
  <2>1. QED
    BY SettledClientKnows
<1>2. QED
  BY <1>1, RoomInvariant, PTL

(***************************************************************************)
(* The participant's countdown ends when the server ends the round, and    *)
(* has not run out while the round runs.                                   *)
(***************************************************************************)
THEOREM RoomTimer ==
  ASSUME NumRounds <= MaxRoundNumber
  PROVE  RoomSpec => []TimerAgrees
<1>1. RInv /\ CInv => TimerAgrees
  <2> SUFFICES ASSUME RInv, CInv, Settled, ~rewound, ~stale, client.phase = "in_round"
               PROVE  /\ client.end = rounds[client.round].ends_at
                      /\ timer_visual_state(client, clock) # "expired"
    BY DEF TimerAgrees
  <2>1. Now.phase = IN_ROUND /\ Now.round \in Rounds /\ client.round = Now.round
        /\ InRound(rounds, Now.round, clock)
    BY InRoundTogether
  <2>2. client.end = rounds[Now.round].ends_at
    BY <2>1, SettledClientKnows
  <2>3. /\ clock \in Int /\ client.end \in Int /\ clock < client.end
        /\ client.paused \in BOOLEAN
    BY <2>1, <2>2 DEF InRound, RInv, RoomTyped, RoomTypeOK, TypeOK, ClientState
  <2>4. timer_visual_state(client, clock) # "expired"
    <3>1. ~(client.end <= clock)
      BY <2>3
    <3>2. CASE client.paused
      BY <3>2 DEF timer_visual_state
    <3>3. CASE ~client.paused
      BY <3>1, <3>3 DEF timer_visual_state
    <3>4. QED
      BY <3>2, <3>3
  <2>5. QED
    BY <2>1, <2>2, <2>4
<1>2. QED
  BY <1>1, RoomInvariant, PTL

(***************************************************************************)
(* The client of a round shows the pause exactly as long as the operator's *)
(* newest log row is one.  What breaks this is in the hypothesis ~muddled  *)
(* of PauseAgrees: a pause or resume rolled back after its broadcast, an   *)
(* extension of the paused round, and a snapshot or a repeated round_start *)
(* sent in a pause, each until the next message that sets the banner.      *)
(***************************************************************************)
THEOREM RoomPause ==
  ASSUME NumRounds <= MaxRoundNumber
  PROVE  RoomSpec => []PauseAgrees
<1>1. RInv /\ CInv => PauseAgrees
  <2> SUFFICES ASSUME RInv, CInv, Settled, ~rewound, ~muddled, client.phase = "in_round"
               PROVE  client.paused <=> paused = client.round
    BY DEF PauseAgrees
  <2>1. Now.phase = IN_ROUND /\ client.round = Now.round
    BY InRoundTogether
  <2>2. client.paused = (paused = Now.round)
    BY <2>1, SettledClientKnows
  <2>3. QED
    BY <2>1, <2>2
<1>2. QED
  BY <1>1, RoomInvariant, PTL
=============================================================================
