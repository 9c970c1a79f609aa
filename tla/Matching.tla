------------------------------ MODULE Matching ------------------------------
(***************************************************************************)
(* The pairing engine, apps/events/matching.py: generate_schedule builds   *)
(* the rounds one after the other (bye, hardest-first greedy, bounded      *)
(* backtracking when greedy strands somebody), then improves every round   *)
(* by pair swaps; validate_schedule is the gate its callers put before     *)
(* persist_schedule.  One step is one iteration of a loop of the code; the *)
(* only choice is the input: how many participants and rounds, which tags  *)
(* each participant has, and the event's tag weight.                       *)
(*                                                                         *)
(* Participants are their rank 0..n-1 in UUID order, as in the code.       *)
(* A score is tag_weight * Jaccard, clamped to 1; it is kept as a multiple *)
(* of 1/One, so that every comparison the code makes is exact (the 1e-9    *)
(* of the code only absorbs rounding).                                     *)
(***************************************************************************)
EXTENDS Integers, Sequences, FiniteSets, FiniteSetsExt, Functions

CONSTANTS
    Counts,             \* participant counts an event is tried with
    RoundCounts,        \* values of Event.num_rounds
    Tags,               \* tags a participant may carry,
    FewTags,            \* and in events of more than SmallCount participants
    SmallCount,
    Weights,            \* tag weights, in units of 1/WeightUnit
    WeightUnit,
    MAX_PASSES,         \* accepted swaps per round
    MaxRecoveryNodes,   \* max_recovery_nodes
    AuditCount          \* schedules up to this size are audited place by place

ASSUME MatchingAssumption ==
    /\ Counts \subseteq Nat /\ RoundCounts \subseteq Nat
    /\ IsFiniteSet(Tags) /\ FewTags \subseteq Tags /\ SmallCount \in Nat
    /\ Weights \subseteq Nat /\ WeightUnit \in Nat \ {0}
    /\ MAX_PASSES \in Nat /\ MaxRecoveryNodes \in Nat /\ AuditCount \in Nat

NoBye == -1

VARIABLES
    n, rounds, profiles, weight,    \* the MatchInput
    phase,      \* which loop generate_schedule is in, or how it ended
    forbidden,  \* forbidden_i: whom each participant has already met
    byes,       \* rounds_bye_i
    schedule,   \* rounds_pairs_i
    r,          \* the round being built or improved (r_idx + 1)
    cur,        \* round_pairs_i / current_pairs
    remaining,  \* participants of the round not paired yet
    stack,      \* the frames of search()
    nodes,      \* recovery_nodes
    passes      \* accepted swaps in the round being improved

input == <<n, rounds, profiles, weight>>
vars == <<n, rounds, profiles, weight, phase, forbidden, byes, schedule, r, cur,
          remaining, stack, nodes, passes>>

Ids == 0 .. n - 1

(***************************************************************************)
(* Scores                                                                  *)
(***************************************************************************)
One == WeightUnit * ProductSet(1 .. Cardinality(Tags))

compute_match_score(a, b) ==
    LET union == profiles[a] \cup profiles[b]
        both  == profiles[a] \cap profiles[b]
        raw   == (weight * Cardinality(both) * (One \div WeightUnit))
                     \div Cardinality(union)
    IN  IF union = {} THEN 0 ELSE Min({One, raw})

PairScore(p) == compute_match_score(p[1], p[2])

canon(x, y) == IF x < y THEN <<x, y>> ELSE <<y, x>>

(***************************************************************************)
(* Choosing whom to pair next and with whom.  Both the greedy loop and the *)
(* recovery take the participant with the fewest partners left, and try    *)
(* the best score first; the lower rank breaks a tie.                      *)
(***************************************************************************)
Options(i, rest) == rest \ (forbidden[i] \cup {i})

Hardest(rest) ==
    CHOOSE i \in rest : \A k \in rest :
        \/ Cardinality(Options(i, rest)) < Cardinality(Options(k, rest))
        \/ /\ Cardinality(Options(i, rest)) = Cardinality(Options(k, rest))
           /\ i <= k

BestPartner(i, cands) ==
    CHOOSE j \in cands : \A k \in cands :
        \/ compute_match_score(i, j) > compute_match_score(i, k)
        \/ compute_match_score(i, j) = compute_match_score(i, k) /\ j <= k

Meet(forb, ps) ==
    [i \in Ids |-> forb[i] \cup {j \in Ids : canon(i, j) \in ps /\ i # j}]

(***************************************************************************)
(* Init and the checks at the top of generate_schedule                     *)
(***************************************************************************)
MaxRounds(k) == IF k % 2 = 0 THEN k - 1 ELSE k

Init ==
    /\ n \in Counts /\ rounds \in RoundCounts
    /\ profiles \in [0 .. n - 1 ->
                        SUBSET (IF n <= SmallCount THEN Tags ELSE FewTags)]
    /\ weight \in Weights
    /\ phase = "check"
    /\ forbidden = [i \in 0 .. n - 1 |-> {}]
    /\ byes = <<>> /\ schedule = <<>> /\ r = 0 /\ cur = <<>>
    /\ remaining = {} /\ stack = <<>> /\ nodes = 0 /\ passes = 0

CheckInput ==
    /\ phase = "check"
    /\ phase' = IF rounds >= 1 /\ n >= 2 /\ rounds <= MaxRounds(n)
                THEN "round" ELSE "rejected"
    /\ UNCHANGED <<input, r, forbidden, byes, schedule, cur, remaining, stack,
                   nodes, passes>>

(***************************************************************************)
(* One round: the bye, then hardest-first greedy                           *)
(***************************************************************************)
\* max over the participants who never sat out, by partners left, then rank.
\* There always is one: rounds <= MaxRounds(n), so the code's own error for
\* an empty list is unreachable (and would show as a deadlock here).
Eligible == {i \in Ids : \A q \in DOMAIN byes : byes[q] # i}

ByeKey(i) == (n - 1 - Cardinality(forbidden[i])) * n + i

PickBye == CHOOSE i \in Eligible : \A k \in Eligible : ByeKey(k) <= ByeKey(i)

StartRound ==
    /\ phase = "round" /\ r < rounds
    /\ r' = r + 1
    /\ n % 2 = 1 => Eligible # {}
    /\ LET bye == IF n % 2 = 1 THEN PickBye ELSE NoBye
       IN  /\ byes' = Append(byes, bye)
           /\ remaining' = Ids \ {bye}
    /\ cur' = <<>>
    /\ phase' = "greedy"
    /\ UNCHANGED <<input, forbidden, schedule, stack, nodes, passes>>

GreedyPair ==
    /\ phase = "greedy" /\ remaining # {}
    /\ LET i == Hardest(remaining)
       IN  /\ Options(i, remaining) # {}
           /\ LET j == BestPartner(i, Options(i, remaining))
              IN  /\ cur' = Append(cur, canon(i, j))
                  /\ remaining' = remaining \ {i, j}
                  /\ forbidden' = Meet(forbidden, {canon(i, j)})
    /\ UNCHANGED <<input, r, phase, byes, schedule, stack, nodes, passes>>

(***************************************************************************)
(* Recovery: forbidden_i is restored and search() backtracks over the      *)
(* whole round.  A frame is one activation of search: the participants     *)
(* still to pair, the one it pairs, the partners it has not tried and the  *)
(* partner it is trying.                                                   *)
(***************************************************************************)
WorkingSet == Ids \ {byes[Len(byes)]}

\* Plausible bug: only the best partner is tried.
FrameBestOnly(rest, forb) ==
    LET pid == IF rest = {} THEN NoBye ELSE Hardest(rest)
    IN  [rest |-> rest, pid |-> pid, partner |-> NoBye,
         todo |-> IF rest = {} \/ rest \subseteq forb[pid] \cup {pid} THEN {}
                  ELSE {BestPartner(pid, rest \ (forb[pid] \cup {pid}))}]

Frame(rest, forb) ==
    LET pid == IF rest = {} THEN NoBye
               ELSE CHOOSE i \in rest : \A k \in rest :
                      LET free(x) == Cardinality((rest \ {x}) \ forb[x])
                      IN  free(i) < free(k) \/ (free(i) = free(k) /\ i <= k)
    IN  [rest |-> rest, pid |-> pid, partner |-> NoBye,
         todo |-> IF rest = {} THEN {} ELSE rest \ (forb[pid] \cup {pid})]

\* forbidden_before: the meetings of the rounds already built.
Before == [i \in Ids |-> {j \in Ids : i # j /\ \E q \in DOMAIN schedule :
                                canon(i, j) \in Range(schedule[q])}]

Stranded ==
    /\ phase = "greedy" /\ remaining # {}
    /\ Options(Hardest(remaining), remaining) = {}
    /\ forbidden' = Before
    /\ stack' = <<Frame(WorkingSet, Before)>>
    /\ nodes' = 1
    /\ phase' = "recover"
    /\ UNCHANGED <<input, r, byes, schedule, cur, remaining, passes>>

Top == stack[Len(stack)]

\* search(remaining_s - {pid_r, partner}, chosen), for the next best partner.
SearchDescend ==
    /\ phase = "recover" /\ nodes <= MaxRecoveryNodes /\ Top.todo # {}
    /\ LET j == BestPartner(Top.pid, Top.todo)
       IN  stack' = Append([stack EXCEPT ![Len(stack)].todo = @ \ {j},
                                         ![Len(stack)].partner = j],
                           Frame(Top.rest \ {Top.pid, j}, forbidden))
    /\ nodes' = nodes + 1
    /\ UNCHANGED <<input, r, phase, forbidden, byes, schedule, cur, remaining,
                   passes>>

\* Every partner of the frame failed: return False to the caller's loop.
SearchBacktrack ==
    /\ phase = "recover" /\ nodes <= MaxRecoveryNodes
    /\ Top.rest # {} /\ Top.todo = {} /\ Len(stack) > 1
    /\ stack' = SubSeq(stack, 1, Len(stack) - 1)
    /\ UNCHANGED <<input, r, phase, forbidden, byes, schedule, cur, remaining,
                   nodes, passes>>

Recovered ==
    /\ phase = "recover" /\ nodes <= MaxRecoveryNodes /\ Top.rest = {}
    /\ cur' = [k \in 1 .. Len(stack) - 1 |->
                  canon(stack[k].pid, stack[k].partner)]
    /\ forbidden' = Meet(forbidden, Range(cur'))
    /\ remaining' = {}
    /\ stack' = <<>>
    /\ phase' = "greedy"
    /\ UNCHANGED <<input, r, byes, schedule, nodes, passes>>

\* MatchingImpossibleError: the round has no matching left, or the search
\* met its node limit (every activation past it returns False at once).
RecoveryFails ==
    /\ phase = "recover"
    /\ \/ nodes > MaxRecoveryNodes
       \/ Top.rest # {} /\ Top.todo = {} /\ Len(stack) = 1
    /\ phase' = "impossible"
    /\ UNCHANGED <<input, r, forbidden, byes, schedule, cur, remaining, stack,
                   nodes, passes>>

FinishRound ==
    /\ phase = "greedy" /\ remaining = {}
    /\ schedule' = Append(schedule, cur)
    /\ phase' = "round"
    /\ UNCHANGED <<input, r, forbidden, byes, cur, remaining, stack, nodes,
                   passes>>

(***************************************************************************)
(* Local improvement of every round in turn                                *)
(***************************************************************************)
StartImproving ==
    /\ phase = "round" /\ r = rounds
    /\ phase' = "improve" /\ r' = 1 /\ cur' = schedule[1] /\ passes' = 0
    /\ UNCHANGED <<input, forbidden, byes, schedule, remaining, stack, nodes>>

\* Swap k of the pairs at i < j: <<A,C>> and <<B,D>>, or <<A,D>> and <<B,C>>.
Swapped(i, j, k) ==
    LET a == cur[i][1]  b == cur[i][2]  c == cur[j][1]  d == cur[j][2]
    IN  IF k = 1 THEN <<canon(a, c), canon(b, d)>>
                 ELSE <<canon(a, d), canon(b, c)>>

OtherPairs == UNION {Range(schedule[q]) : q \in (DOMAIN schedule) \ {r}}

\* Plausible bug: a swap may bring together two people who meet in another
\* round.
LegalInRound(p) == p[1] # p[2]

Legal(p) == p[1] # p[2] /\ (p \notin OtherPairs \/ p \in Range(cur))

Improves(i, j, k) ==
    LET new == Swapped(i, j, k)
    IN  /\ Legal(new[1]) /\ Legal(new[2])
        /\ PairScore(new[1]) + PairScore(new[2])
             > PairScore(cur[i]) + PairScore(cur[j])

Improvements ==
    {s \in (DOMAIN cur) \X (DOMAIN cur) \X {1, 2} :
        s[1] < s[2] /\ Improves(s[1], s[2], s[3])}

\* The first one in the order of the two scanning loops.
FirstOf(S) ==
    CHOOSE s \in S : \A t \in S :
        \/ s[1] < t[1]
        \/ s[1] = t[1] /\ s[2] < t[2]
        \/ s[1] = t[1] /\ s[2] = t[2] /\ s[3] <= t[3]

Swap ==
    /\ phase = "improve" /\ passes < MAX_PASSES /\ Improvements # {}
    /\ LET s == FirstOf(Improvements)
           new == Swapped(s[1], s[2], s[3])
       IN  cur' = [cur EXCEPT ![s[1]] = new[1], ![s[2]] = new[2]]
    /\ passes' = passes + 1
    /\ UNCHANGED <<input, phase, r, forbidden, byes, schedule, remaining,
                   stack, nodes>>

\* Nothing left to improve, or MAX_PASSES swaps made: the next round, or the
\* result.
RoundImproved ==
    /\ phase = "improve" /\ (passes = MAX_PASSES \/ Improvements = {})
    /\ schedule' = [schedule EXCEPT ![r] = cur]
    /\ IF r < rounds
       THEN /\ r' = r + 1 /\ cur' = schedule[r + 1] /\ passes' = 0
            /\ UNCHANGED phase
       ELSE phase' = "done" /\ UNCHANGED <<r, cur, passes>>
    /\ UNCHANGED <<input, forbidden, byes, remaining, stack, nodes>>

Ended ==
    /\ phase \in {"done", "rejected", "impossible"}
    /\ UNCHANGED vars

Next ==
    \/ CheckInput \/ StartRound \/ GreedyPair \/ Stranded
    \/ SearchDescend \/ SearchBacktrack \/ Recovered \/ RecoveryFails
    \/ FinishRound \/ StartImproving \/ Swap \/ RoundImproved \/ Ended

Spec == Init /\ [][Next]_vars

(***************************************************************************)
(* validate_schedule: the kinds of violation it reports for a schedule     *)
(* (sequences of pairs, one bye a round).                                  *)
(***************************************************************************)
PairsPerRound == n \div 2

RoundKinds(ps, bye) ==
    {kind \in {"UNMATCHED_IN_EVEN_EVENT", "MISSING_UNMATCHED",
               "WRONG_PAIR_COUNT", "UNKNOWN_PARTICIPANT", "SELF_PAIR",
               "WRONG_CANONICAL_ORDER", "DUPLICATE_IN_ROUND",
               "SCORE_OUT_OF_RANGE", "UNMATCHED_PAIRED"} :
        CASE kind = "UNMATCHED_IN_EVEN_EVENT" -> n % 2 = 0 /\ bye # NoBye
          [] kind = "MISSING_UNMATCHED" -> n % 2 = 1 /\ bye = NoBye
          [] kind = "WRONG_PAIR_COUNT" -> Len(ps) # PairsPerRound
          [] kind = "UNKNOWN_PARTICIPANT" ->
               \/ bye \notin Ids \cup {NoBye}
               \/ \E k \in DOMAIN ps : ps[k][1] \notin Ids \/ ps[k][2] \notin Ids
          [] kind = "SELF_PAIR" -> \E k \in DOMAIN ps : ps[k][1] = ps[k][2]
          [] kind = "WRONG_CANONICAL_ORDER" ->
               \E k \in DOMAIN ps : ps[k][1] > ps[k][2]
          [] kind = "DUPLICATE_IN_ROUND" ->
               \E k, l \in DOMAIN ps : k < l /\ Range(ps[k]) \cap Range(ps[l]) # {}
          [] kind = "SCORE_OUT_OF_RANGE" ->
               \E k \in DOMAIN ps :
                  Range(ps[k]) \subseteq Ids /\ PairScore(ps[k]) \notin 0 .. One
          [] kind = "UNMATCHED_PAIRED" ->
               bye # NoBye /\ \E k \in DOMAIN ps : bye \in Range(ps[k])}

\* Plausible bug: nothing is compared between rounds.
validate_rounds_only(sched, bs) ==
    UNION {RoundKinds(sched[q], bs[q]) : q \in DOMAIN sched}
    \cup (IF Len(sched) # rounds THEN {"WRONG_ROUND_COUNT"} ELSE {})

validate_schedule(sched, bs) ==
    UNION {RoundKinds(sched[q], bs[q]) : q \in DOMAIN sched}
    \cup {kind \in {"WRONG_ROUND_COUNT", "REPEATED_PARTNER", "UNMATCHED_TWICE"} :
            CASE kind = "WRONG_ROUND_COUNT" -> Len(sched) # rounds
              [] kind = "REPEATED_PARTNER" ->
                   \E q, t \in DOMAIN sched : q < t /\
                      \E p \in Range(sched[q]), o \in Range(sched[t]) :
                         canon(p[1], p[2]) = canon(o[1], o[2])
              [] kind = "UNMATCHED_TWICE" ->
                   \E q, t \in DOMAIN bs :
                      q < t /\ bs[q] = bs[t] /\ bs[q] # NoBye}

-----------------------------------------------------------------------------
(***************************************************************************)
(* Properties                                                              *)
(***************************************************************************)
\* What a schedule has to be, said of meetings and not of the code's checks:
\* in every round everybody is in exactly one pair or sits out, nobody meets
\* anybody twice, nobody sits out twice, and nobody sits out of an event with
\* an even number of participants.
Meetings(sched, q) == {{p[1], p[2]} : p \in Range(sched[q])}

Sound(sched, bs) ==
    /\ Len(sched) = rounds
    /\ \A q \in 1 .. rounds :
         /\ \A p \in Range(sched[q]) : p[1] < p[2]
         /\ UNION Meetings(sched, q) = Ids \ {bs[q]}
         /\ 2 * Len(sched[q]) = Cardinality(Ids \ {bs[q]})
         /\ (bs[q] = NoBye) <=> (n % 2 = 0)
         /\ bs[q] \in Ids \cup {NoBye}
         /\ \A t \in 1 .. rounds : q # t =>
              /\ Meetings(sched, q) \cap Meetings(sched, t) = {}
              /\ bs[q] # NoBye => bs[q] # bs[t]

\* The schedule is sound from the end of the greedy rounds on, after every
\* swap and in the result of generate_schedule, whatever mixture of greedy
\* choices, recovery and swaps in this and in other rounds produced it.
ScheduleSound ==
    phase \in {"improve", "done"} =>
        Sound([schedule EXCEPT ![r] = cur], byes)

\* validate_schedule accepts the generated schedule, and once one pair and the
\* bye of its round are replaced by any others, or the last round is dropped,
\* it reports a violation exactly when the schedule is unsound: the gate before
\* persist_schedule neither lets a bad schedule through nor refuses a good one.
ValidatorIsExact ==
    (phase = "done" /\ n <= AuditCount) =>
        /\ validate_schedule(schedule, byes) = {}
        /\ validate_schedule(SubSeq(schedule, 1, rounds - 1), byes) # {}
        /\ \A q \in 1 .. rounds, a, b \in 0 .. n, bye \in NoBye .. n :
             \A k \in DOMAIN schedule[q] :
                LET s  == [schedule EXCEPT ![q][k] = <<a, b>>]
                    bs == [byes EXCEPT ![q] = bye]
                IN  validate_schedule(s, bs) = {} <=> Sound(s, bs)

\* A round is given up only when it has no matching left that avoids every
\* earlier meeting, or when the search ran into its node limit: the
\* backtracking loses no candidate.  (The rounds before may still be to
\* blame: see the README.)
FailureIsReal ==
    (phase = "impossible" /\ nodes <= MaxRecoveryNodes) =>
        LET edges == {e \in kSubset(2, WorkingSet) :
                         \A i, j \in e : j \notin Before[i]}
        IN  ~ \E m \in kSubset(PairsPerRound, edges) : UNION m = WorkingSet
=============================================================================
