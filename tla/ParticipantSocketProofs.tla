---------------------- MODULE ParticipantSocketProofs ----------------------
(***************************************************************************)
(* Proofs about ParticipantSocket for every window, limit, interval and    *)
(* timeout, and for every sequence of messages, valid or not.              *)
(***************************************************************************)
EXTENDS ParticipantSocket, FiniteSetTheorems, SequenceTheorems,
        WellFoundedInduction, TLAPS

(* The constants are numbers, as the settings they stand for.               *)
LEMMA ConstantTypes ==
  /\ Window \in Nat \ {0} /\ RateLimit \in Nat \ {0}
  /\ Interval \in Nat \ {0} /\ Timeout \in Nat \ {0}
BY SocketAssumption

(* A set of naturals that is not empty has a least element.                 *)
LEMMA LeastElement ==
  ASSUME NEW S \in SUBSET Nat, S # {}
  PROVE  \E j \in S : \A i \in S : j <= i
<1> DEFINE R == OpToRel(<, Nat)
<1>1. IsWellFoundedOn(R, Nat)
  BY NatLessThanWellFounded
<1> HIDE DEF R
<1>2. PICK j \in S : \A i \in S : ~(<<i, j>> \in R)
  BY <1>1, WFMin
<1>3. \A i \in S : ~(i < j)
  BY <1>2 DEF R, OpToRel
<1>4. QED
  BY <1>2, <1>3

(* The loop that pops old stamps ends (_within_rate_limit): all it popped   *)
(* were a window old, and the one in front of which it stopped was not.     *)
LEMMA PoppedProperties ==
  ASSUME NEW ts \in Seq(Nat), NEW now \in Nat
  PROVE  /\ Popped(ts, now) \in 0..Len(ts)
         /\ \A i \in 1..Popped(ts, now) : ts[i] + Window <= now
         /\ Popped(ts, now) < Len(ts) =>
              ts[Popped(ts, now) + 1] + Window > now
<1> DEFINE S == {j \in 1..(Len(ts) + 1) : j = Len(ts) + 1 \/ ts[j] + Window > now}
<1>0. Len(ts) \in Nat /\ \A i \in 1..Len(ts) : ts[i] \in Nat
  OBVIOUS
<1>1. S \in SUBSET Nat /\ Len(ts) + 1 \in S
  BY <1>0
<1>2. PICK j \in S : \A i \in S : j <= i
  BY <1>1, LeastElement
<1>3. j \in 1..(Len(ts) + 1) /\ j - 1 \in 0..Len(ts)
  BY <1>0, <1>2
<1>4. ASSUME NEW i \in 1..(j - 1) PROVE ts[i] + Window <= now
  <2>1. i \in 1..Len(ts) /\ i \notin S
    BY <1>0, <1>2, <1>3
  <2>2. QED
    BY <1>0, <2>1, ConstantTypes
<1>5. j - 1 < Len(ts) => ts[(j - 1) + 1] + Window > now
  BY <1>0, <1>2, <1>3
<1> HIDE DEF S
<1>6. \E k \in 0..Len(ts) :
        /\ \A i \in 1..k : ts[i] + Window <= now
        /\ k < Len(ts) => ts[k + 1] + Window > now
  BY <1>3, <1>4, <1>5
<1>7. QED
  BY <1>6 DEF Popped

-----------------------------------------------------------------------------
(* The inductive invariant *)

TypeOK ==
  /\ clock \in Nat /\ active \in Nat /\ wakes \in Nat /\ faults \in Nat
  /\ state \in {"new", "open", "closed"} /\ greeted \in BOOLEAN
  /\ stamps \in Seq(Nat) /\ handled \in Seq(Nat) /\ choking \in BOOLEAN

\* The heartbeat task is never overdue, and it wakes up in time to notice that
\* nothing was heard since active.
HeartbeatIsDue ==
  state = "open" =>
    active <= clock /\ clock <= wakes /\ wakes <= active + Timeout + Interval

\* The first k handled messages are a window old and popped, the others are
\* the stamps; nothing was handled in the future.
StampsAreRecent ==
  /\ \A i \in 1..Len(handled) : handled[i] <= clock
  /\ \E k \in 0..Len(handled) :
       /\ stamps = SubSeq(handled, k + 1, Len(handled))
       /\ \A i \in 1..k : handled[i] + Window <= clock

\* Only a closed socket has a code.
OpenIsNotClosed == state # "closed" => closed = 0

IInv ==
  /\ TypeOK /\ HeartbeatIsDue /\ StampsAreRecent
  /\ RateLimited /\ NoInternalError /\ OpenIsNotClosed

(* The end of a sequence after its first a elements.                        *)
LEMMA SuffixProperties ==
  ASSUME NEW h \in Seq(Nat), NEW a \in 0..Len(h)
  PROVE  /\ SubSeq(h, a + 1, Len(h)) \in Seq(Nat)
         /\ Len(SubSeq(h, a + 1, Len(h))) = Len(h) - a
         /\ \A i \in 1..(Len(h) - a) : SubSeq(h, a + 1, Len(h))[i] = h[a + i]
<1>1. Len(h) \in Nat /\ \A i \in 1..Len(h) : h[i] \in Nat
  OBVIOUS
<1>2. QED
  BY <1>1

(* What is left after the loop is again an end of the handled messages, and *)
(* everything before it is a window old.                                    *)
LEMMA RecentIsSuffix ==
  ASSUME TypeOK, StampsAreRecent
  PROVE  \E k \in 0..Len(handled) :
           /\ recent(stamps) = SubSeq(handled, k + 1, Len(handled))
           /\ recent(stamps) \in Seq(Nat)
           /\ Len(recent(stamps)) = Len(handled) - k
           /\ \A i \in 1..k : handled[i] + Window <= clock
<1> DEFINE n == Len(handled)
           p == Popped(stamps, clock)
<1>0. /\ n \in Nat /\ \A i \in 1..n : handled[i] \in Nat
      /\ clock \in Nat /\ stamps \in Seq(Nat) /\ handled \in Seq(Nat)
  BY DEF TypeOK
<1>1. PICK k \in 0..n : /\ stamps = SubSeq(handled, k + 1, n)
                        /\ \A i \in 1..k : handled[i] + Window <= clock
  BY DEF StampsAreRecent
<1>2. /\ Len(stamps) = n - k
      /\ \A i \in 1..(n - k) : stamps[i] = handled[k + i]
  BY <1>0, <1>1
<1>3. p \in 0..(n - k) /\ \A i \in 1..p : stamps[i] + Window <= clock
  BY <1>0, <1>2, PoppedProperties
<1>4. recent(stamps) = SubSeq(stamps, p + 1, n - k)
  BY <1>2 DEF recent
<1> HIDE DEF p
<1>5. /\ recent(stamps) \in Seq(Nat) /\ Len(recent(stamps)) = n - (k + p)
      /\ \A i \in 1..(n - (k + p)) : recent(stamps)[i] = handled[k + p + i]
  <2>1. /\ recent(stamps) \in Seq(Nat)
        /\ Len(recent(stamps)) = (n - k) - p
        /\ \A i \in 1..((n - k) - p) : recent(stamps)[i] = stamps[p + i]
    <3> DEFINE left == SubSeq(stamps, p + 1, Len(stamps))
    <3>1. /\ left \in Seq(Nat) /\ Len(left) = Len(stamps) - p
          /\ \A i \in 1..(Len(stamps) - p) : left[i] = stamps[p + i]
      BY <1>0, <1>2, <1>3, SuffixProperties
    <3>2. recent(stamps) = left
      BY <1>2, <1>4
    <3> HIDE DEF left
    <3>3. QED
      BY <1>2, <3>1, <3>2
  <2>2. \A i \in 1..(n - (k + p)) :
          p + i \in 1..(n - k) /\ k + (p + i) = k + p + i
    BY <1>0, <1>1, <1>3
  <2>3. (n - k) - p = n - (k + p)
    BY <1>0, <1>1, <1>3
  <2>4. QED
    BY <1>2, <2>1, <2>2, <2>3
<1> DEFINE rest == SubSeq(handled, (k + p) + 1, n)
<1>6. /\ rest \in Seq(Nat) /\ Len(rest) = n - (k + p)
      /\ \A i \in 1..(n - (k + p)) : rest[i] = handled[k + p + i]
  <2>1. k + p \in 0..n
    BY <1>0, <1>1, <1>3
  <2>2. QED
    BY <1>0, <2>1, SuffixProperties
<1> HIDE DEF rest
<1>7. recent(stamps) = rest
  BY <1>5, <1>6, SeqEqual
<1>8. \A i \in 1..(k + p) : handled[i] + Window <= clock
  <2> SUFFICES ASSUME NEW i \in 1..(k + p) PROVE handled[i] + Window <= clock
    OBVIOUS
  <2>1. CASE i <= k
    BY <1>1, <2>1
  <2>2. CASE i > k
    <3>1. i - k \in 1..p /\ i - k \in 1..(n - k)
      BY <1>0, <1>1, <1>3, <2>2
    <3>2. stamps[i - k] = handled[k + (i - k)] /\ stamps[i - k] + Window <= clock
      BY <1>2, <1>3, <3>1
    <3>3. k + (i - k) = i
      BY <1>1
    <3>4. QED
      BY <3>2, <3>3
  <2>3. QED
    BY <1>1, <1>3, <2>1, <2>2
<1>9. k + p \in 0..n
  BY <1>0, <1>1, <1>3
<1>10. QED
  BY <1>5, <1>7, <1>8, <1>9 DEF rest

(* A message let past the rate limit: afterwards the stamps are still the   *)
(* recent part of what was handled, and every window of any length-Window   *)
(* stretch that the message falls into lies within that part.               *)
LEMMA HandlingKeepsLimit ==
  ASSUME TypeOK, StampsAreRecent, RateLimited,
         Len(recent(stamps)) < RateLimit,
         stamps' = Append(recent(stamps), clock),
         handled' = Append(handled, clock),
         clock' = clock
  PROVE  /\ stamps' \in Seq(Nat) /\ handled' \in Seq(Nat)
         /\ StampsAreRecent' /\ RateLimited'
<1> DEFINE n == Len(handled)
<1>0. /\ n \in Nat /\ \A i \in 1..n : handled[i] \in Nat
      /\ clock \in Nat /\ handled \in Seq(Nat)
  BY DEF TypeOK
<1>1. PICK k \in 0..n :
        /\ recent(stamps) = SubSeq(handled, k + 1, n)
        /\ recent(stamps) \in Seq(Nat)
        /\ Len(recent(stamps)) = n - k
        /\ \A i \in 1..k : handled[i] + Window <= clock
  BY RecentIsSuffix
<1>2. /\ handled' \in Seq(Nat) /\ Len(handled') = n + 1
      /\ \A i \in 1..n : handled'[i] = handled[i]
      /\ handled'[n + 1] = clock
  BY <1>0
<1>3. stamps' \in Seq(Nat) /\ Len(stamps') = n + 1 - k
  BY <1>0, <1>1
<1>4. StampsAreRecent'
  <2>1. \A i \in 1..(n + 1) : handled'[i] <= clock
    BY <1>0, <1>2 DEF StampsAreRecent
  <2>2. \A i \in 1..k : handled'[i] + Window <= clock
    BY <1>0, <1>1, <1>2
  <2>3. stamps' = SubSeq(handled', k + 1, n + 1)
    <3> DEFINE rest == SubSeq(handled', k + 1, n + 1)
    <3>1. /\ rest \in Seq(Nat) /\ Len(rest) = n + 1 - k
          /\ \A i \in 1..(n + 1 - k) : rest[i] = handled'[k + i]
      <4>1. k \in 0..Len(handled')
        BY <1>0, <1>1, <1>2
      <4>2. QED
        BY <1>2, <4>1, SuffixProperties
    <3>2. \A i \in 1..(n - k) : recent(stamps)[i] = handled[k + i]
      BY <1>0, <1>1, SuffixProperties
    <3>3. \A i \in 1..(n + 1 - k) : stamps'[i] = handled'[k + i]
      <4> SUFFICES ASSUME NEW i \in 1..(n + 1 - k)
                   PROVE  stamps'[i] = handled'[k + i]
        OBVIOUS
      <4>1. CASE i = n + 1 - k
        <5>1. stamps'[(n - k) + 1] = clock /\ (n - k) + 1 = i /\ k + i = n + 1
          BY <1>0, <1>1, <4>1
        <5>2. QED
          BY <1>2, <5>1
      <4>2. CASE i # n + 1 - k
        <5>0. n \in Nat /\ k \in 0..n
          BY <1>0, <1>1
        <5>1. i \in 1..(n - k) /\ k + i \in 1..n
          <6> HIDE DEF n
          <6>1. QED
            BY <4>2, <5>0
        <5>2. stamps'[i] = recent(stamps)[i]
          BY <1>1, <5>1
        <5>3. QED
          BY <1>2, <3>2, <5>1, <5>2
      <4>3. QED
        BY <4>1, <4>2
    <3> HIDE DEF rest
    <3>4. stamps' = rest
      BY <1>3, <3>1, <3>3, SeqEqual
    <3>5. QED
      BY <3>4 DEF rest
  <2>4. k \in 0..(n + 1)
    BY <1>0, <1>1
  <2>5. QED
    BY <1>2, <2>1, <2>2, <2>3, <2>4 DEF StampsAreRecent
<1>5. RateLimited'
  <2> DEFINE In(h, i) == {j \in 1..Len(h) : h[i] <= h[j] /\ h[j] < h[i] + Window}
  <2> SUFFICES ASSUME NEW i \in 1..(n + 1)
               PROVE  Cardinality(In(handled', i)) <= RateLimit
    BY <1>2 DEF RateLimited
  <2>1. CASE clock < handled'[i] + Window
    <3>1. ASSUME NEW j \in In(handled', i) PROVE j \in (k + 1)..(n + 1)
      <4>1. j \in 1..(n + 1) /\ handled'[i] <= handled'[j]
        BY <1>2
      <4>2. handled'[i] \in Nat /\ handled'[j] \in Nat
        BY <1>0, <1>2, <4>1
      <4>3. clock < handled'[j] + Window
        <5>1. clock \in Nat /\ Window \in Nat
          BY <1>0, ConstantTypes
        <5>2. QED
          BY <2>1, <4>1, <4>2, <5>1
      <4>4. ASSUME j \in 1..k PROVE FALSE
        BY <1>0, <1>1, <1>2, <4>2, <4>3, <4>4, ConstantTypes
      <4>5. QED
        BY <1>0, <1>1, <4>1, <4>4
    <3>2. /\ IsFiniteSet((k + 1)..(n + 1))
          /\ Cardinality((k + 1)..(n + 1)) = n + 1 - k
      BY <1>0, <1>1, FS_Interval
    <3>3. In(handled', i) \in SUBSET ((k + 1)..(n + 1))
      BY <3>1
    <3> HIDE DEF In
    <3>4. /\ Cardinality(In(handled', i)) <= n + 1 - k
          /\ Cardinality(In(handled', i)) \in Nat
      BY <3>2, <3>3, FS_Subset, FS_CardinalityType
    <3>5. QED
      BY <1>0, <1>1, <3>4, ConstantTypes
  <2>2. CASE ~(clock < handled'[i] + Window)
    <3>1. i \in 1..n
      BY <1>0, <1>2, <2>2, ConstantTypes
    <3>2. In(handled', i) = In(handled, i)
      <4>1. ASSUME NEW j \in 1..(n + 1), handled'[j] < handled'[i] + Window
            PROVE  j \in 1..n
        BY <1>0, <1>2, <2>2, <4>1
      <4>2. \A j \in 1..n : handled'[j] = handled[j] /\ j \in 1..(n + 1)
        BY <1>0, <1>2
      <4>3. handled'[i] = handled[i]
        BY <1>2, <3>1
      <4>4. \A j : j \in In(handled', i) <=> j \in In(handled, i)
        BY <1>2, <4>1, <4>2, <4>3
      <4> HIDE DEF In
      <4>5. QED
        BY <4>4
    <3>3. QED
      BY <3>1, <3>2 DEF RateLimited
  <2>3. QED
    BY <2>1, <2>2
<1>6. QED
  BY <1>2, <1>3, <1>4, <1>5

-----------------------------------------------------------------------------
(* The rules of a client's message and of the message built from it *)

(* The four tables of validators.py name different message types.           *)
LEMMA RuleDomains ==
  /\ DOMAIN ClientRules =
       {"hello", "clock_sync", "ping", "ready", "offer", "answer", "ice"}
  /\ DOMAIN AnswerRules = {"s_hello", "s_clock_sync", "pong"}
  /\ DOMAIN RoundRules = {"pairing", "round_start", "round_warning", "round_end"}
  /\ DOMAIN OtherRules = {"partner_state", "s_offer", "s_answer", "s_ice",
                          "turn_credentials", "event_end", "error"}
BY DEF ClientRules, AnswerRules, RoundRules, OtherRules

(* So every type has the rules of its own table.                            *)
LEMMA RulesOfTables ==
  /\ \A t \in DOMAIN ClientRules : RulesOf(t) = ClientRules[t]
  /\ \A t \in DOMAIN AnswerRules : RulesOf(t) = AnswerRules[t]
  /\ \A t \in DOMAIN OtherRules : RulesOf(t) = OtherRules[t]
BY RuleDomains DEF RulesOf, ClientTypes

(* A client's time stamp is checked before it is echoed.                    *)
LEMMA ClientStampIsChecked ==
  ASSUME NEW t \in {"hello", "clock_sync", "ping"}, NEW p,
         validate_payload(t, p)
  PROVE  Accepts("posint", p["client_ts"])
<1>1. RulesOf(t) = [client_ts |-> "posint"]
  BY RuleDomains, RulesOfTables DEF ClientRules
<1>2. Accepts("posint", IF "client_ts" \in DOMAIN p THEN p["client_ts"]
                        ELSE "missing")
  <2>1. DOMAIN [client_ts |-> "posint"] = {"client_ts"}
    OBVIOUS
  <2>2. QED
    BY <1>1, <2>1 DEF validate_payload
<1>3. ~Accepts("posint", "missing")
  BY DEF Accepts
<1>4. QED
  BY <1>2, <1>3

(* An answer echoes the client's time stamp, which the client's rule has    *)
(* already checked: build_message cannot fail.                              *)
LEMMA AnswerIsValid ==
  ASSUME NEW t \in {"hello", "clock_sync", "ping"}, NEW p,
         validate_payload(t, p)
  PROVE  validate_payload(ReplyType[t], AnswerPayload(t, p))
<1>1. Accepts("posint", p["client_ts"])
  BY ClientStampIsChecked
<1>2. /\ Accepts("posint", "large") /\ Accepts("text", "text")
      /\ Accepts("items", "items") /\ Accepts("object?", "missing")
  BY DEF Accepts
<1>3. CASE t = "hello"
  <2>1. RulesOf("s_hello") =
          [participant_id |-> "text", server_ts |-> "posint",
           client_ts_echo |-> "posint", event_id |-> "text",
           supported_versions |-> "items", capacity |-> "object?"]
    BY RuleDomains, RulesOfTables DEF AnswerRules
  <2>2. ReplyType[t] = "s_hello"
    BY <1>3 DEF ReplyType
  <2>3. QED
    BY <1>1, <1>2, <1>3, <2>1, <2>2 DEF validate_payload, AnswerPayload
<1>4. CASE t \in {"clock_sync", "ping"}
  <2>1. \A u \in {"s_clock_sync", "pong"} :
          RulesOf(u) = [client_ts_echo |-> "posint", server_ts |-> "posint"]
    BY RuleDomains, RulesOfTables DEF AnswerRules
  <2>2. ReplyType[t] \in {"s_clock_sync", "pong"}
    BY <1>4 DEF ReplyType
  <2>3. QED
    BY <1>1, <1>2, <1>4, <2>1, <2>2 DEF validate_payload, AnswerPayload
<1>5. QED
  BY <1>3, <1>4

(* A relayed signal carries the sender's fields under rules that are not    *)
(* stricter than the sender's (_handle_webrtc_signal).                      *)
LEMMA SignalIsValid ==
  ASSUME NEW t \in {"offer", "answer", "ice"}, NEW p,
         validate_payload(t, p)
  PROVE  validate_payload(ReplyType[t], SignalPayload(t, p))
<1>1. ~Accepts("text", "missing") /\ ~Accepts("nonneg", "missing")
      /\ Accepts("text", "text")
  BY DEF Accepts
<1>2. CASE t \in {"offer", "answer"}
  <2>1. RulesOf(t) = [room_id |-> "text", sdp |-> "text"]
    BY <1>2, RuleDomains, RulesOfTables DEF ClientRules
  <2>2. Accepts("text", p["room_id"]) /\ Accepts("text", p["sdp"])
    <3>1. DOMAIN [room_id |-> "text", sdp |-> "text"] = {"room_id", "sdp"}
      OBVIOUS
    <3>2. QED
      BY <1>1, <2>1, <3>1 DEF validate_payload
  <2>3. \A u \in {"s_offer", "s_answer"} :
          RulesOf(u) = [room_id |-> "text", from_participant_id |-> "text",
                        sdp |-> "text"]
    BY RuleDomains, RulesOfTables DEF OtherRules
  <2>4. ReplyType[t] \in {"s_offer", "s_answer"}
    BY <1>2 DEF ReplyType
  <2>5. QED
    BY <1>1, <1>2, <2>2, <2>3, <2>4 DEF validate_payload, SignalPayload
<1>3. CASE t = "ice"
  <2>1. RulesOf(t) = [room_id |-> "text", candidate |-> "text",
                      sdp_mid |-> "text", sdp_mline_index |-> "nonneg"]
    BY <1>3, RuleDomains, RulesOfTables DEF ClientRules
  <2>2. /\ Accepts("text", p["room_id"]) /\ Accepts("text", p["candidate"])
        /\ Accepts("text", p["sdp_mid"])
        /\ Accepts("nonneg", p["sdp_mline_index"])
    <3>1. DOMAIN RulesOf(t) =
            {"room_id", "candidate", "sdp_mid", "sdp_mline_index"}
      BY <2>1
    <3>2. QED
      BY <1>1, <2>1, <3>1 DEF validate_payload
  <2>3. RulesOf("s_ice") =
          [room_id |-> "text", from_participant_id |-> "text",
           candidate |-> "text", sdp_mid |-> "text",
           sdp_mline_index |-> "nonneg"]
    BY RuleDomains, RulesOfTables DEF OtherRules
  <2>4. ReplyType[t] = "s_ice"
    BY <1>3 DEF ReplyType
  <2>5. QED
    BY <1>1, <1>3, <2>2, <2>3, <2>4 DEF validate_payload, SignalPayload
<1>4. QED
  BY <1>2, <1>3

(* A relayed signal can be encoded if the sender's message can.             *)
LEMMA SignalIsEncodable ==
  ASSUME NEW t \in {"offer", "answer", "ice"}, NEW p,
         validate_payload(t, p), Encodable(p)
  PROVE  p["room_id"] # "halved" /\ Encodable(SignalPayload(t, p))
<1>1. ~Accepts("text", "missing") /\ ~Accepts("nonneg", "missing")
  BY DEF Accepts
<1>2. CASE t \in {"offer", "answer"}
  <2>1. RulesOf(t) = [room_id |-> "text", sdp |-> "text"]
    BY <1>2, RuleDomains, RulesOfTables DEF ClientRules
  <2>2. DOMAIN RulesOf(t) = {"room_id", "sdp"}
    BY <2>1
  <2>3. "room_id" \in DOMAIN p /\ "sdp" \in DOMAIN p
    BY <1>1, <2>1, <2>2 DEF validate_payload
  <2>4. QED
    BY <1>2, <2>3 DEF Encodable, SignalPayload
<1>3. CASE t = "ice"
  <2>1. RulesOf(t) = [room_id |-> "text", candidate |-> "text",
                      sdp_mid |-> "text", sdp_mline_index |-> "nonneg"]
    BY <1>3, RuleDomains, RulesOfTables DEF ClientRules
  <2>2. DOMAIN RulesOf(t) =
          {"room_id", "candidate", "sdp_mid", "sdp_mline_index"}
    BY <2>1
  <2>3. {"room_id", "candidate", "sdp_mid", "sdp_mline_index"} \subseteq DOMAIN p
    BY <1>1, <2>1, <2>2 DEF validate_payload
  <2>4. QED
    BY <1>3, <2>3 DEF Encodable, SignalPayload
<1>4. QED
  BY <1>2, <1>3

(* What a client can send is a text that is not JSON, JSON nested too       *)
(* deeply, JSON that is not an object, or an object.                        *)
LEMMA FrameOfMessage ==
  ASSUME NEW m \in Messages
  PROVE  m.frame \in {"not_json", "not_object", "too_deep", "object"}
<1>1. ASSUME NEW t, NEW p PROVE Envelope(t, p).frame = "object"
  BY DEF Envelope
<1> DEFINE ping == Envelope("ping", Payload("ping"))
<1>2. CASE m \in UNION {{Envelope(t, p) : p \in PayloadChoices(t)} :
                        t \in ClientTypes}
  BY <1>1, <1>2
<1>3. CASE m \in {Envelope(t, Payload(t)) : t \in ServerTypes}
  BY <1>1, <1>3
<1>4. CASE m \in {[ping EXCEPT !.frame = x] :
                 x \in {"not_json", "not_object", "too_deep"}}
  BY <1>4 DEF Envelope
<1>5. CASE m \in {[ping EXCEPT !.version = x] : x \in Value}
  BY <1>5 DEF Envelope
<1>6. CASE m \in {[ping EXCEPT !.type = x] :
                 x \in {"missing", "other", "unheard_of"}}
  BY <1>6 DEF Envelope
<1>7. CASE m \in {[ping EXCEPT !.enclosed = FALSE]}
  BY <1>7 DEF Envelope
<1>8. \/ m \in UNION {{Envelope(t, p) : p \in PayloadChoices(t)} :
                     t \in ClientTypes}
      \/ m \in {Envelope(t, Payload(t)) : t \in ServerTypes}
      \/ m \in {[ping EXCEPT !.frame = x] :
                x \in {"not_json", "not_object", "too_deep"}}
      \/ m \in {[ping EXCEPT !.version = x] : x \in Value}
      \/ m \in {[ping EXCEPT !.type = x] :
                x \in {"missing", "other", "unheard_of"}}
      \/ m \in {[ping EXCEPT !.enclosed = FALSE]}
  BY Zenon DEF Messages
<1> HIDE DEF ping
<1>9. QED
  BY <1>2, <1>3, <1>4, <1>5, <1>6, <1>7, <1>8, Zenon

(* What _handle_message may do with a message.                              *)
LEMMA HandlerOfMessage ==
  ASSUME NEW m, NEW room, HandleMessage(m.type, m.payload, room)
  PROVE  \/ Tell("p", "ERR_INVALID_STATE")
         \/ /\ m.type \in {"hello", "clock_sync", "ping"}
            /\ Send("p", m.type, AnswerPayload(m.type, m.payload))
         \/ /\ m.type \in {"offer", "answer", "ice"}
            /\ HandleSignal(m.type, m.payload, room)
         \/ closed' = closed
BY Zenon DEF HandleMessage

(* A message that passes the envelope and the payload rules and can be      *)
(* passed on does not lead to ERR_INTERNAL: its answer, or the signal made  *)
(* of it, can be built.                                                     *)
LEMMA HandledIsNotInternal ==
  ASSUME NEW m \in Messages, NEW room, validate_message(m) = "ok",
         greeted \in BOOLEAN, closed # 4004, ~Choking(m),
         HandleMessage(m.type, m.payload, room)
  PROVE  closed' # 4004
<1> DEFINE type == m.type
           p == m.payload
<1>1. validate_payload(type, p)
  BY FrameOfMessage DEF validate_message
<1>2. ASSUME NEW who, NEW kind, NEW built, Send(who, kind, built),
             validate_payload(ReplyType[kind], built)
      PROVE  closed' # 4004
  BY <1>2 DEF Send, Tell
<1>3. ASSUME NEW who, NEW kind, Tell(who, kind)
      PROVE  closed' # 4004
  BY <1>3 DEF Tell
<1>4. CASE Tell("p", "ERR_INVALID_STATE") \/ closed' = closed
  BY <1>3, <1>4
<1>5. ASSUME type \in {"hello", "clock_sync", "ping"},
             Send("p", type, AnswerPayload(type, p))
      PROVE  closed' # 4004
  BY <1>1, <1>2, <1>5, AnswerIsValid
<1>6. ASSUME type \in {"offer", "answer", "ice"}, HandleSignal(type, p, room)
      PROVE  closed' # 4004
  <2>0. p["room_id"] # "halved" /\ Encodable(SignalPayload(type, p))
    <3>1. Encodable(p)
      BY <1>6 DEF Choking
    <3>2. QED
      BY <1>1, <1>6, <3>1, SignalIsEncodable
  <2>1. CASE Partner(room) = "nobody"
    BY <1>3, <1>6, <2>0, <2>1 DEF HandleSignal
  <2>2. CASE Partner(room) # "nobody"
    <3>1. Send(Partner(room), type, SignalPayload(type, p))
      BY <1>6, <2>0, <2>2 DEF HandleSignal
    <3>2. QED
      BY <1>1, <1>2, <1>6, <3>1, SignalIsValid
  <2>3. QED
    BY <2>1, <2>2
<1>7. HandleMessage(type, p, room)
  OBVIOUS
<1>8. \/ Tell("p", "ERR_INVALID_STATE")
      \/ /\ type \in {"hello", "clock_sync", "ping"}
         /\ Send("p", type, AnswerPayload(type, p))
      \/ type \in {"offer", "answer", "ice"} /\ HandleSignal(type, p, room)
      \/ closed' = closed
  BY <1>7, HandlerOfMessage
<1>9. QED
  BY <1>4, <1>5, <1>6, <1>8

(* A message that is refused is answered with an error of its own.          *)
LEMMA RefusedIsNotInternal ==
  ASSUME NEW m \in Messages, validate_message(m) \notin {"ok", "raises"},
         closed # 4004,
         IF validate_message(m) \in DOMAIN CloseCode
         THEN Fatal(validate_message(m)) ELSE Tell("p", validate_message(m))
  PROVE  closed' # 4004
<1>1. validate_message(m) # "ERR_INTERNAL"
  BY FrameOfMessage DEF validate_message
<1>2. \A e \in DOMAIN CloseCode \ {"ERR_INTERNAL"} : CloseCode[e] # 4004
  BY DEF CloseCode
<1>3. CASE validate_message(m) \in DOMAIN CloseCode
  BY <1>1, <1>2, <1>3 DEF Fatal, CloseWith
<1>4. CASE validate_message(m) \notin DOMAIN CloseCode
  BY <1>4 DEF Tell
<1>5. QED
  BY <1>3, <1>4

-----------------------------------------------------------------------------
(* The steps *)

(* The invariant holds before the client connects.                          *)
LEMMA InitEstablishes == Init => IInv
<1> SUFFICES ASSUME Init PROVE IInv
  OBVIOUS
<1>1. handled = <<>> /\ Len(handled) = 0 /\ stamps = <<>>
  BY DEF Init
<1>2. TypeOK /\ HeartbeatIsDue /\ NoInternalError /\ OpenIsNotClosed
  <2>1. <<>> \in Seq(Nat)
    OBVIOUS
  <2>2. TypeOK
    BY <2>1, ConstantTypes DEF Init, TypeOK
  <2>3. HeartbeatIsDue
    BY DEF Init, HeartbeatIsDue
  <2>4. NoInternalError
    BY DEF Init, NoInternalError
  <2>5. OpenIsNotClosed
    BY DEF Init, OpenIsNotClosed
  <2>6. QED
    BY <2>2, <2>3, <2>4, <2>5
<1>3. RateLimited
  BY <1>1 DEF RateLimited
<1>4. StampsAreRecent
  <2>1. SubSeq(<<>>, 0 + 1, 0) = <<>>
    OBVIOUS
  <2>2. QED
    BY <1>1, <2>1 DEF StampsAreRecent
<1>5. QED
  BY <1>2, <1>3, <1>4 DEF IInv

(* Steps that handle no message and do not turn back the clock leave what   *)
(* is known of the handled messages as it is.                               *)
LEMMA HandledUnchanged ==
  ASSUME IInv, handled' = handled, stamps' = stamps,
         clock' \in Nat, clock <= clock'
  PROVE  StampsAreRecent' /\ RateLimited'
<1>1. /\ clock \in Nat /\ handled \in Seq(Nat) /\ Len(handled) \in Nat
      /\ \A i \in 1..Len(handled) : handled[i] \in Nat
  BY DEF IInv, TypeOK
<1>2. RateLimited'
  BY DEF IInv, RateLimited
<1>3. PICK k \in 0..Len(handled) :
        /\ stamps = SubSeq(handled, k + 1, Len(handled))
        /\ \A i \in 1..k : handled[i] + Window <= clock
  BY DEF IInv, StampsAreRecent
<1>4. \A i \in 1..k : handled[i] + Window <= clock'
  BY <1>1, <1>3, ConstantTypes
<1>5. \A i \in 1..Len(handled) : handled[i] <= clock'
  BY <1>1 DEF IInv, StampsAreRecent
<1>6. QED
  BY <1>2, <1>3, <1>4, <1>5 DEF StampsAreRecent

(* A step that leaves the socket open sets no code.                         *)
LEMMA OpenStaysOpen ==
  ASSUME IInv, [Next]_vars
  PROVE  OpenIsNotClosed'
<1>0. OpenIsNotClosed
  BY DEF IInv
<1>1. ASSUME NEW err, Fatal(err) PROVE state' = "closed"
  BY <1>1 DEF Fatal, CloseWith
<1>2. ASSUME NEW who, NEW kind, Tell(who, kind)
      PROVE  state' = state /\ closed' = closed
  BY <1>2 DEF Tell
<1>3. ASSUME NEW m, NEW room, ReceiveMessage(m, room)
      PROVE  OpenIsNotClosed'
  <2>1. ASSUME NEW who, NEW kind, NEW p, Send(who, kind, p)
        PROVE  state' = "closed" \/ (state' = state /\ closed' = closed)
    BY <1>1, <1>2, <2>1 DEF Send
  <2>2. \/ HandleMessage(m.type, m.payload, room)
        \/ \E err : Fatal(err)
        \/ \E who, kind : Tell(who, kind)
    BY <1>3, Zenon DEF ReceiveMessage
  <2>3. HandleMessage(m.type, m.payload, room) =>
          \/ \E err : Fatal(err)
          \/ \E who, kind : Tell(who, kind)
          \/ \E who, kind, p : Send(who, kind, p)
          \/ state' = state /\ closed' = closed
    BY Zenon DEF HandleMessage, HandleSignal
  <2>4. QED
    BY <1>0, <1>1, <1>2, <2>1, <2>2, <2>3 DEF OpenIsNotClosed
<1>4. ASSUME NEW m, HandlerFails(m) PROVE OpenIsNotClosed'
  BY <1>1, <1>4 DEF HandlerFails, OpenIsNotClosed
<1>5. CASE Connect
  BY <1>0, <1>1, <1>5 DEF Connect, OpenIsNotClosed
<1>6. CASE ReceiveTooBig \/ ReceiveTooMany \/ ClientCloses
  BY <1>1, <1>6
  DEF ReceiveTooBig, ReceiveTooMany, ClientCloses, CloseWith, OpenIsNotClosed
<1>7. CASE ReceiveTelemetry \/ Heartbeat \/ Tick \/ UNCHANGED vars
  BY <1>0, <1>7
  DEF ReceiveTelemetry, Heartbeat, Tick, vars, CloseWith, OpenIsNotClosed
<1>8. QED
  BY <1>3, <1>4, <1>5, <1>6, <1>7 DEF Next

(* Every step keeps the invariant.                                          *)
LEMMA StepPreserves == IInv /\ [Next]_vars => IInv'
<1> SUFFICES ASSUME IInv, [Next]_vars PROVE IInv'
  OBVIOUS
<1> USE ConstantTypes
<1>0. TypeOK /\ HeartbeatIsDue /\ StampsAreRecent /\ RateLimited
      /\ NoInternalError /\ OpenIsNotClosed
  BY DEF IInv
<1>a. OpenIsNotClosed'
  BY OpenStaysOpen
<1>1. CASE Connect
  <2>1. StampsAreRecent' /\ RateLimited'
    BY <1>0, <1>1, HandledUnchanged DEF Connect, TypeOK
  <2>2. TypeOK'
    BY <1>0, <1>1 DEF Connect, TypeOK, Fatal, CloseWith
  <2>3. HeartbeatIsDue'
    BY <1>0, <1>1 DEF Connect, TypeOK, HeartbeatIsDue, Fatal, CloseWith
  <2>4. NoInternalError'
    BY <1>0, <1>1
    DEF Connect, TypeOK, NoInternalError, Fatal, CloseWith, CloseCode
  <2>5. QED
    BY <1>a, <2>1, <2>2, <2>3, <2>4 DEF IInv
<1>2. CASE ReceiveTelemetry
  <2>1. StampsAreRecent' /\ RateLimited'
    BY <1>0, <1>2, HandledUnchanged DEF ReceiveTelemetry, TypeOK
  <2>2. TypeOK' /\ HeartbeatIsDue' /\ NoInternalError'
    BY <1>0, <1>2
    DEF ReceiveTelemetry, TypeOK, HeartbeatIsDue, NoInternalError
  <2>3. QED
    BY <1>a, <2>1, <2>2 DEF IInv
<1>3. CASE ReceiveTooBig
  <2>1. StampsAreRecent' /\ RateLimited'
    BY <1>0, <1>3, HandledUnchanged DEF ReceiveTooBig, TypeOK
  <2>2. TypeOK' /\ HeartbeatIsDue' /\ NoInternalError'
    BY <1>0, <1>3
    DEF ReceiveTooBig, TypeOK, HeartbeatIsDue, NoInternalError, CloseWith
  <2>3. QED
    BY <1>a, <2>1, <2>2 DEF IInv
<1>4. CASE ReceiveTooMany
  <2>1. stamps' \in Seq(Nat) /\ StampsAreRecent'
    <3>1. PICK k \in 0..Len(handled) :
            /\ recent(stamps) = SubSeq(handled, k + 1, Len(handled))
            /\ recent(stamps) \in Seq(Nat)
            /\ \A i \in 1..k : handled[i] + Window <= clock
      BY <1>0, RecentIsSuffix
    <3>2. QED
      BY <1>0, <1>4, <3>1 DEF ReceiveTooMany, StampsAreRecent
  <2>2. RateLimited'
    BY <1>0, <1>4 DEF ReceiveTooMany, RateLimited
  <2>3. TypeOK' /\ HeartbeatIsDue' /\ NoInternalError'
    BY <1>0, <1>4, <2>1
    DEF ReceiveTooMany, TypeOK, HeartbeatIsDue, NoInternalError, Fatal,
        CloseWith, CloseCode
  <2>4. QED
    BY <1>a, <2>1, <2>2, <2>3 DEF IInv
<1>5. ASSUME NEW m \in Messages, NEW room \in RoomsNamed(m),
             ReceiveMessage(m, room)
      PROVE  IInv'
  <2>1. /\ stamps' \in Seq(Nat) /\ handled' \in Seq(Nat)
        /\ StampsAreRecent' /\ RateLimited'
    BY <1>0, <1>5, HandlingKeepsLimit DEF ReceiveMessage
  <2>2. NoInternalError'
    <3>0. CASE Choking(m)
      BY <1>5, <3>0 DEF ReceiveMessage, NoInternalError
    <3>1. closed # 4004
      BY <1>0, <1>5 DEF ReceiveMessage, OpenIsNotClosed
    <3>2. CASE ~Choking(m) /\ validate_message(m) = "ok"
      <4>1. HandleMessage(m.type, m.payload, room)
        BY <1>5, <3>2 DEF ReceiveMessage
      <4>2. closed' # 4004
        BY <1>0, <3>1, <3>2, <4>1, HandledIsNotInternal DEF TypeOK
      <4>3. QED
        BY <4>2 DEF NoInternalError
    <3>3. CASE ~Choking(m) /\ validate_message(m) # "ok"
      <4>0. validate_message(m) # "raises"
        BY <3>3, FrameOfMessage DEF Choking, validate_message
      <4>1. IF validate_message(m) \in DOMAIN CloseCode
            THEN Fatal(validate_message(m)) ELSE Tell("p", validate_message(m))
        BY <1>5, <3>3, <4>0 DEF ReceiveMessage
      <4>2. closed' # 4004
        BY <3>1, <3>3, <4>0, <4>1, RefusedIsNotInternal
      <4>3. QED
        BY <4>2 DEF NoInternalError
    <3>4. QED
      BY <3>0, <3>2, <3>3
  <2>3. state' \in {"open", "closed"} /\ greeted' \in BOOLEAN
    <3>1. state = "open"
      BY <1>5 DEF ReceiveMessage
    <3>2. ASSUME NEW err, Fatal(err) PROVE state' = "closed"
      BY <3>2 DEF Fatal, CloseWith
    <3>3. ASSUME NEW who, NEW kind, Tell(who, kind) PROVE state' = "open"
      BY <3>1, <3>3 DEF Tell
    <3>4. ASSUME NEW who, NEW kind, NEW p, Send(who, kind, p)
          PROVE  state' \in {"open", "closed"}
      BY <3>2, <3>3, <3>4 DEF Send
    <3>5. CASE validate_message(m) = "ok"
      <4>1. HandleMessage(m.type, m.payload, room)
        BY <1>5, <3>5 DEF ReceiveMessage
      <4>2. /\ \/ \E err : Fatal(err)
               \/ \E who, kind : Tell(who, kind)
               \/ \E who, kind, p : Send(who, kind, p)
               \/ state' = state
            /\ greeted' \in {greeted, TRUE}
        BY <4>1, Zenon DEF HandleMessage, HandleSignal
      <4>3. QED
        BY <1>0, <3>1, <3>2, <3>3, <3>4, <4>2 DEF TypeOK
    <3>6. CASE validate_message(m) # "ok"
      <4>1. /\ \/ \E err : Fatal(err)
               \/ \E who, kind : Tell(who, kind)
            /\ greeted' = greeted
        BY <1>5, <3>6, Zenon DEF ReceiveMessage
      <4>2. QED
        BY <1>0, <3>2, <3>3, <4>1 DEF TypeOK
    <3>7. QED
      BY <3>5, <3>6
  <2>4. TypeOK' /\ HeartbeatIsDue'
    <3>1. choking' \in BOOLEAN
      BY <1>5 DEF ReceiveMessage, Choking
    <3>2. /\ clock' = clock /\ wakes' = wakes /\ faults' = faults
          /\ active' = clock /\ state = "open"
      BY <1>5 DEF ReceiveMessage
    <3>3. QED
      BY <1>0, <2>1, <2>3, <3>1, <3>2 DEF TypeOK, HeartbeatIsDue
  <2>5. QED
    BY <1>a, <2>1, <2>2, <2>4 DEF IInv
<1>6. ASSUME NEW m, HandlerFails(m)
      PROVE  IInv'
  <2>1. /\ stamps' \in Seq(Nat) /\ handled' \in Seq(Nat)
        /\ StampsAreRecent' /\ RateLimited'
    BY <1>0, <1>6, HandlingKeepsLimit DEF HandlerFails
  <2>2. TypeOK' /\ HeartbeatIsDue' /\ NoInternalError'
    BY <1>0, <1>6, <2>1
    DEF HandlerFails, TypeOK, HeartbeatIsDue, NoInternalError, Fatal, CloseWith
  <2>3. QED
    BY <1>a, <2>1, <2>2 DEF IInv
<1>7. CASE Heartbeat
  <2>1. StampsAreRecent' /\ RateLimited'
    BY <1>0, <1>7, HandledUnchanged DEF Heartbeat, TypeOK
  <2>2. TypeOK' /\ HeartbeatIsDue' /\ NoInternalError'
    BY <1>0, <1>7
    DEF Heartbeat, TypeOK, HeartbeatIsDue, NoInternalError, CloseWith
  <2>3. QED
    BY <1>a, <2>1, <2>2 DEF IInv
<1>8. CASE ClientCloses
  <2>1. StampsAreRecent' /\ RateLimited'
    BY <1>0, <1>8, HandledUnchanged DEF ClientCloses, TypeOK
  <2>2. TypeOK' /\ HeartbeatIsDue' /\ NoInternalError'
    BY <1>0, <1>8
    DEF ClientCloses, TypeOK, HeartbeatIsDue, NoInternalError, CloseWith
  <2>3. QED
    BY <1>a, <2>1, <2>2 DEF IInv
<1>9. CASE Tick
  <2>1. StampsAreRecent' /\ RateLimited'
    BY <1>0, <1>9, HandledUnchanged DEF Tick, TypeOK
  <2>2. TypeOK' /\ HeartbeatIsDue' /\ NoInternalError'
    BY <1>0, <1>9 DEF Tick, TypeOK, HeartbeatIsDue, NoInternalError
  <2>3. QED
    BY <1>a, <2>1, <2>2 DEF IInv
<1>10. CASE UNCHANGED vars
  <2>1. StampsAreRecent' /\ RateLimited'
    BY <1>0, <1>10, HandledUnchanged DEF vars, TypeOK
  <2>2. TypeOK' /\ HeartbeatIsDue' /\ NoInternalError'
    BY <1>0, <1>10 DEF vars, TypeOK, HeartbeatIsDue, NoInternalError
  <2>3. QED
    BY <1>a, <2>1, <2>2 DEF IInv
<1>11. QED
  BY <1>1, <1>2, <1>3, <1>4, <1>5, <1>6, <1>7, <1>8, <1>9, <1>10 DEF Next

-----------------------------------------------------------------------------
(* The theorems *)

(* The inductive invariant holds in every state of a socket's life.         *)
THEOREM SocketInvariant == Spec => []IInv
BY InitEstablishes, StepPreserves, PTL DEF Spec

(* Whatever limit and window are configured, and however the messages are   *)
(* spread over time, the popleft loop of _within_rate_limit lets at most    *)
(* the limit through in any stretch of a window.                            *)
THEOREM SocketRateLimit == Spec => []RateLimited
<1>1. IInv => RateLimited
  BY DEF IInv
<1>2. QED
  BY <1>1, SocketInvariant, PTL

(* The rules for what clients send imply the rules that build_message       *)
(* applies to the answers and signals made of it: without a fault of a      *)
(* service, only a message that cannot be parsed, or a signal that cannot   *)
(* be encoded, makes the server close with the code of ERR_INTERNAL.        *)
THEOREM SocketNoInternalError == Spec => []NoInternalError
<1>1. IInv => NoInternalError
  BY DEF IInv
<1>2. QED
  BY <1>1, SocketInvariant, PTL

(* For every heartbeat interval and timeout, a socket that is still open    *)
(* was heard of within their sum.                                           *)
THEOREM SocketSilentIsClosed == Spec => []SilentIsClosed
<1>1. IInv => SilentIsClosed
  BY ConstantTypes DEF IInv, TypeOK, HeartbeatIsDue, SilentIsClosed
<1>2. QED
  BY <1>1, SocketInvariant, PTL

=============================================================================
