-------------------------- MODULE ParticipantSocket --------------------------
(***************************************************************************)
(* The message layer of ParticipantConsumer (apps/events/consumers.py): a  *)
(* participant's socket from connect to close.  receive checks telemetry,  *)
(* size, rate and form before _handle_message looks at the type; signals   *)
(* are relayed to the partner of the room they name.  The heartbeat task   *)
(* closes a silent socket.  What the handshake does beyond its answer is   *)
(* in ConnectionPresence.  Time is in ticks; the event loop keeps up with  *)
(* it, so a heartbeat that is due is not put off.                          *)
(***************************************************************************)
EXTENDS ProtocolRules, Sequences, FiniteSets

CONSTANTS
  Window,     \* the minute of the rate limit
  RateLimit,  \* PROTOCOL_RATE_LIMIT_MESSAGES_PER_MINUTE
  Interval,   \* WEBSOCKET_HEARTBEAT_INTERVAL_SECONDS
  Timeout,    \* WEBSOCKET_HEARTBEAT_TIMEOUT_SECONDS
  MaxClock,   \* bound on time
  MaxFaults   \* bound on failures of the session store and the layer

ASSUME SocketAssumption ==
  /\ {Window, RateLimit, Interval, Timeout} \subseteq Nat \ {0}
  /\ {MaxClock, MaxFaults} \subseteq Nat

VARIABLES
  clock,
  state,    \* "new", "open", "closed"
  greeted,  \* handshake_complete
  stamps,   \* _rate_timestamps
  active,   \* last_activity
  wakes,    \* when the heartbeat task wakes up next
  sent,     \* the message sent last: its receiver and its type
  closed,   \* the code the socket was closed with, 0 while it is not
  handled,  \* history: times of the messages that came past the rate limit
  choking,  \* history: whether the last of them was one that cannot be parsed,
            \* or not be passed on (Choking)
  faults

vars == <<clock, state, greeted, stamps, active, wakes, sent, closed, handled,
          choking, faults>>

\* The Pair rows: participant "p" meets "q" in round 1 and "r" in round 2.
Pairs == [room1 |-> {"p", "q"}, room2 |-> {"p", "r"}, room3 |-> {"q", "r"}]

Nothing == [to |-> "nobody", type |-> "nothing"]

Init ==
  /\ clock = 0 /\ state = "new" /\ greeted = FALSE /\ stamps = <<>>
  /\ active = 0 /\ wakes = Interval /\ sent = Nothing /\ closed = 0
  /\ handled = <<>> /\ choking = FALSE /\ faults = 0

\* ERROR_CLOSE_CODES
CloseCode ==
  [ERR_VERSION_MISMATCH |-> 4002, ERR_NOT_AUTHENTICATED |-> 4001,
   ERR_ALREADY_CONNECTED |-> 4001, ERR_RATE_LIMITED |-> 4003,
   ERR_INTERNAL |-> 4004]

\* _send, _send_error and _fatal.
Tell(who, t) == sent' = [to |-> who, type |-> t] /\ UNCHANGED <<state, closed>>

CloseWith(code) == state' = "closed" /\ closed' = code

Fatal(err) ==
  /\ sent' = [to |-> "p", type |-> err]
  /\ CloseWith(CloseCode[err])

-----------------------------------------------------------------------------

\* connect: a failure of the session store, no participant, or a socket with
\* its heartbeat task.
Connect ==
  /\ state = "new"
  /\ active' = clock /\ wakes' = clock + Interval
  /\ \/ /\ faults < MaxFaults /\ faults' = faults + 1
        /\ Fatal("ERR_INTERNAL")
     \/ Fatal("ERR_NOT_AUTHENTICATED") /\ UNCHANGED faults
     \/ state' = "open" /\ UNCHANGED <<sent, closed, faults>>
  /\ UNCHANGED <<clock, greeted, stamps, handled, choking>>

\* receive, before the rate limit: telemetry is noted and nothing follows,
ReceiveTelemetry ==
  /\ state = "open"
  /\ active' = clock
  /\ UNCHANGED <<clock, state, greeted, stamps, wakes, sent, closed, handled,
                 choking, faults>>

\* a message over the size limit closes the socket.
ReceiveTooBig ==
  /\ state = "open"
  /\ active' = clock
  /\ sent' = [to |-> "p", type |-> "ERR_INVALID_MESSAGE"] /\ CloseWith(1009)
  /\ UNCHANGED <<clock, greeted, stamps, wakes, handled, choking, faults>>

\* The loop of _within_rate_limit: how many stamps it pops from the left,
\* where the oldest ones are, before it meets one less than a window old.
Popped(ts, now) ==
  CHOOSE k \in 0..Len(ts) :
    /\ \A i \in 1..k : ts[i] + Window <= now
    /\ k < Len(ts) => ts[k + 1] + Window > now

\* Plausible bug: the window is one tick short.
recent_short(ts) == SubSeq(ts, Popped(ts, clock + 1) + 1, Len(ts))

\* _within_rate_limit forgets what is a window old or older,
recent(ts) == SubSeq(ts, Popped(ts, clock) + 1, Len(ts))

\* and refuses the message when the limit is reached.
ReceiveTooMany ==
  /\ state = "open"
  /\ active' = clock
  /\ stamps' = recent(stamps)
  /\ Len(stamps') >= RateLimit
  /\ Fatal("ERR_RATE_LIMITED")
  /\ UNCHANGED <<clock, greeted, wakes, handled, choking, faults>>

\* _resolve_partner_for_participant: any Pair with that room, of any round.
Partner(room) ==
  IF room \in DOMAIN Pairs /\ "p" \in Pairs[room]
  THEN CHOOSE x \in Pairs[room] : x # "p" ELSE "nobody"

ReplyType ==
  [hello |-> "s_hello", ping |-> "pong", clock_sync |-> "s_clock_sync",
   offer |-> "s_offer", answer |-> "s_answer", ice |-> "s_ice"]

\* The payloads the builders of schemas.py make out of a client's payload; the
\* server's own fields are texts and numbers.  First the answers,
AnswerPayload(t, p) ==
  IF t = "hello"
  THEN [participant_id |-> "text", server_ts |-> "large",
        client_ts_echo |-> p["client_ts"], event_id |-> "text",
        supported_versions |-> "items"]
  ELSE [client_ts_echo |-> p["client_ts"], server_ts |-> "large"]

\* then the signals for the partner.
SignalPayload(t, p) ==
  IF t \in {"offer", "answer"}
  THEN [room_id |-> p["room_id"], from_participant_id |-> "text",
        sdp |-> p["sdp"]]
  ELSE [room_id |-> p["room_id"], from_participant_id |-> "text",
        candidate |-> p["candidate"], sdp_mid |-> p["sdp_mid"],
        sdp_mline_index |-> p["sdp_mline_index"]]

\* build_message validates what it builds, and receive turns any exception of
\* a handler into ERR_INTERNAL.
Send(who, t, built) ==
  IF validate_payload(ReplyType[t], built)
  THEN Tell(who, ReplyType[t]) ELSE Fatal("ERR_INTERNAL")

\* Texts and numbers that JSON and the rules admit, but that the database and
\* the channel layer cannot encode.
Encodable(p) == \A f \in DOMAIN p : p[f] \notin {"huge", "halved"}

\* _handle_webrtc_signal: the query and group_send raise on what they cannot
\* encode, which receive turns into ERR_INTERNAL as well.
HandleSignal(t, p, room) ==
  IF p["room_id"] = "halved" THEN Fatal("ERR_INTERNAL")
  ELSE IF Partner(room) = "nobody" THEN Tell("p", "ERR_WRONG_ROOM")
  ELSE IF ~Encodable(SignalPayload(t, p)) THEN Fatal("ERR_INTERNAL")
  ELSE Send(Partner(room), t, SignalPayload(t, p))

\* _handle_message
HandleMessage(t, p, room) ==
  CASE ~greeted /\ t # "hello" ->
         Tell("p", "ERR_INVALID_STATE") /\ UNCHANGED greeted
    [] ~greeted /\ t = "hello" ->
         greeted' = TRUE /\ Send("p", t, AnswerPayload(t, p))
    [] greeted /\ t \in {"ping", "clock_sync"} ->
         Send("p", t, AnswerPayload(t, p)) /\ UNCHANGED greeted
    [] greeted /\ t \in {"offer", "answer", "ice"} ->
         HandleSignal(t, p, room) /\ UNCHANGED greeted
    [] greeted /\ t = "ready" ->
         UNCHANGED <<greeted, sent, state, closed>>
    [] OTHER -> Tell("p", "ERR_INVALID_STATE") /\ UNCHANGED greeted

\* The messages a client may send: a payload in order or with one field wrong,
\* any message of the server's, and an envelope in order or with one defect.
Usual(rule) ==
  CASE rule = "posint" -> "large" [] rule = "nonneg" -> "zero"
    [] rule = "round" -> "positive"
    [] rule \in {"text", "word", "bool", "items"} -> rule
    [] OTHER -> "missing"

Payload(t) == [f \in DOMAIN RulesOf(t) |-> Usual(RulesOf(t)[f])]

Envelope(t, p) ==
  [frame |-> "object", version |-> "positive", type |-> t,
   enclosed |-> TRUE, payload |-> p]

PayloadChoices(t) ==
  {Payload(t)} \cup
  {[Payload(t) EXCEPT ![f] = x] : f \in DOMAIN Payload(t), x \in Value}

Messages ==
  (UNION {{Envelope(t, p) : p \in PayloadChoices(t)} : t \in ClientTypes})
  \cup {Envelope(t, Payload(t)) : t \in ServerTypes}
  \cup
  LET m == Envelope("ping", Payload("ping"))
  IN  {[m EXCEPT !.frame = x] : x \in {"not_json", "not_object", "too_deep"}}
      \cup {[m EXCEPT !.version = x] : x \in Value}
      \cup {[m EXCEPT !.type = x] : x \in {"missing", "other", "unheard_of"}}
      \cup {[m EXCEPT !.enclosed = FALSE]}

RoomsNamed(m) ==
  IF "room_id" \in DOMAIN m.payload THEN DOMAIN Pairs ELSE {"room1"}

\* A message that cannot be parsed, or a signal that cannot be passed on.
Choking(m) ==
  \/ m.frame = "too_deep"
  \/ m.type \in {"offer", "answer", "ice"} /\ ~Encodable(m.payload)

\* receive, past the rate limit.  Every payload that fails is answered alike; an
\* exception that is not a protocol error is answered as an internal one.
ReceiveMessage(m, room) ==
  /\ state = "open"
  /\ Len(recent(stamps)) < RateLimit
  /\ active' = clock
  /\ stamps' = Append(recent(stamps), clock)
  /\ handled' = Append(handled, clock)
  /\ choking' = Choking(m)
  /\ LET verdict == validate_message(m)
     IN  \/ verdict = "ok" /\ HandleMessage(m.type, m.payload, room)
         \/ verdict = "raises" /\ Fatal("ERR_INTERNAL") /\ UNCHANGED greeted
         \/ /\ verdict \notin {"ok", "raises"}
            /\ UNCHANGED greeted
            /\ IF verdict \in DOMAIN CloseCode THEN Fatal(verdict)
               ELSE Tell("p", verdict)
  /\ UNCHANGED <<clock, wakes, faults>>

\* A handler whose query or group_send fails; a hello has been noted by then.
HandlerFails(m) ==
  /\ state = "open"
  /\ Len(recent(stamps)) < RateLimit
  /\ greeted <=> m.type # "hello"
  /\ validate_message(m) = "ok"
  /\ faults < MaxFaults /\ faults' = faults + 1
  /\ active' = clock
  /\ stamps' = Append(recent(stamps), clock)
  /\ handled' = Append(handled, clock)
  /\ greeted' = TRUE
  /\ Fatal("ERR_INTERNAL")
  /\ UNCHANGED <<clock, wakes, choking>>

\* Plausible bug: a silent socket is left for another interval.
HeartbeatLenient ==
  /\ state = "open" /\ wakes = clock
  /\ IF clock - active > Timeout + Interval
     THEN CloseWith(1000) /\ UNCHANGED wakes
     ELSE wakes' = clock + Interval /\ UNCHANGED <<state, closed>>
  /\ UNCHANGED <<clock, greeted, stamps, active, sent, handled, choking, faults>>

\* One turn of _heartbeat_loop.
Heartbeat ==
  /\ state = "open" /\ wakes = clock
  /\ IF clock - active > Timeout
     THEN CloseWith(1000) /\ UNCHANGED wakes
     ELSE wakes' = clock + Interval /\ UNCHANGED <<state, closed>>
  /\ UNCHANGED <<clock, greeted, stamps, active, sent, handled, choking, faults>>

\* External: the client goes away; disconnect cancels the heartbeat task.
ClientCloses ==
  /\ state = "open"
  /\ CloseWith(1001)
  /\ UNCHANGED <<clock, greeted, stamps, active, wakes, sent, handled, choking,
                 faults>>

\* External: time passes, not beyond a heartbeat that is due.
Tick ==
  /\ clock < MaxClock /\ state # "closed"
  /\ state = "open" => clock < wakes
  /\ clock' = clock + 1
  /\ UNCHANGED <<state, greeted, stamps, active, wakes, sent, closed, handled,
                 choking, faults>>

Next ==
  \/ Connect \/ ReceiveTelemetry \/ ReceiveTooBig \/ ReceiveTooMany
  \/ \E m \in Messages : \E room \in RoomsNamed(m) : ReceiveMessage(m, room)
  \/ \E t \in {"hello", "offer", "answer", "ice"} :
       HandlerFails(Envelope(t, Payload(t)))
  \/ Heartbeat \/ ClientCloses \/ Tick

Spec == Init /\ [][Next]_vars

-----------------------------------------------------------------------------

\* The rules fit each other: whatever passes those for client messages also
\* passes, echoed or relayed, the rules its answer is built with.  A socket is
\* closed with ERR_INTERNAL only after a fault of a service, or by a message
\* that the parser, the database or the channel layer chokes on before or after
\* those rules (consumers.py receive, schemas.py build_message).
NoInternalError == closed = 4004 => faults > 0 \/ choking

\* However the messages are spread over time, no stretch of a window holds
\* more than RateLimit handled messages (_within_rate_limit).
RateLimited ==
  \A i \in 1..Len(handled) :
    Cardinality({j \in 1..Len(handled) :
                   handled[i] <= handled[j] /\ handled[j] < handled[i] + Window})
      <= RateLimit

\* A socket that stays open has been heard of within the timeout and one
\* interval: a silent client does not hold its place longer (_heartbeat_loop).
SilentIsClosed == state = "open" => clock - active <= Timeout + Interval
=============================================================================
