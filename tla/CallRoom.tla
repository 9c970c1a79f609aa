------------------------------ MODULE CallRoom ------------------------------
(***************************************************************************)
(* One participant's call room: CallRoomState of                           *)
(* apps/events/call_room_logic.py, fed by the orchestrator's dispatch, by  *)
(* the operator's broadcasts (operator.py) and by the snapshot a           *)
(* reconnecting socket receives (consumers.py, orchestrator.py).           *)
(*                                                                         *)
(* The channel layer and the socket are a FIFO queue that a disconnection  *)
(* empties.  While a socket is between joining its groups and sending the  *)
(* snapshot, messages of the groups wait behind the snapshot.  The         *)
(* dispatcher is prompt (OrchestratorDispatch checks late ones); it may    *)
(* crash and its publications may fail.                                    *)
(***************************************************************************)
EXTENDS OrchestratorDispatch

CONSTANTS
  HelloTTL,         \* PROTOCOL_RECONNECT_WINDOW_SECONDS
  ReconnectWindow,  \* RECONNECT_WINDOW_MS: how long the client retries
  MaxOps,           \* bound on operator actions and partner reports together
  MaxDrops,         \* bound on disconnections
  MaxLag            \* bound on the messages on their way when a second ends

ASSUME CallRoomAssumption ==
  /\ HelloTTL \in Nat
  /\ ReconnectWindow \in Nat
  /\ MaxOps \in Nat
  /\ MaxDrops \in Nat
  /\ MaxLag \in Nat

VARIABLES
  client,   \* CallRoomState
  socket,   \* "down", "joining" (in the groups), "up", "dead" (gave up)
  inbox,    \* messages on their way to the client
  helloAt,  \* time of the last client.hello
  lostAt,   \* when the socket was lost, if it is down
  read,     \* read[i]: the timetable the current dispatch of i has read
  op,       \* the operator action whose transaction is open, or NoAction
  paused,   \* the round of the newest log row if that is a pause, or NoRound
  pausedAt, \* when that was
  ops, drops,  \* how many so far
  missed,   \* history: a message was lost, or the phase forgotten, since the
            \* last pairing or snapshot with nothing queued behind it
  stale,    \* history: an end of round was sent that was read before a change
            \* of the timetable, or that was rolled back
  rewound,  \* history: a resume moved the event back to an earlier phase
  muddled   \* history: a pause or resume was rolled back after its broadcast,
            \* a paused round was extended, or a message that clears the
            \* client's banner was sent during a pause; until the next message
            \* that sets the banner

roomVars == <<client, socket, inbox, helloAt, lostAt, read, op, paused,
              pausedAt, ops, drops, missed, stale, rewound, muddled>>
clientVars == <<client, socket, helloAt, lostAt, drops>>
operatorVars == <<op, paused, pausedAt, ops, stale, rewound, muddled>>

NoAction == [action |-> "none", round |-> NoRound, shift |-> 0, at |-> 0]

Phases == {"idle", "preconnecting", "in_round", "round_ending",
           "event_ended", "disconnected"}
Presence == {"none", "connected", "reconnecting", "gone"}
RoomKind == Kind \cup {"pause", "resume", "extend"} \cup Presence
Message == [kind : RoomKind, round : Rounds \cup {NoRound}, end : Nat]
Msg(kind, r, end) == [kind |-> kind, round |-> r, end |-> end]

ClientState ==
  [phase : Phases, round : Rounds \cup {NoRound}, end : Nat,
   warning : BOOLEAN, paired : BOOLEAN, paused : BOOLEAN, presence : Presence]

RoomTypeOK ==
  /\ TypeOK
  /\ client \in ClientState
  /\ socket \in {"down", "joining", "up", "dead"}
  /\ inbox \in Seq(Message)
  /\ helloAt \in Nat
  /\ lostAt \in Nat
  /\ read \in [Dispatcher -> Timetables]
  /\ op.action \in {"none", "pause", "resume", "extend"}
  /\ paused \in Rounds \cup {NoRound}
  /\ {missed, stale, rewound, muddled} \subseteq BOOLEAN

RoomInit ==
  /\ Init
  /\ client = [phase |-> "idle", round |-> NoRound, end |-> 0,
               warning |-> FALSE, paired |-> FALSE, paused |-> FALSE,
               presence |-> "none"]
  /\ socket = "up"
  /\ inbox = <<>>
  /\ helloAt = 0
  /\ lostAt = 0
  /\ read = [i \in Dispatcher |-> calculate_full_schedule]
  /\ op = NoAction
  /\ paused = NoRound
  /\ pausedAt = 0
  /\ ops = 0 /\ drops = 0
  /\ missed = FALSE /\ stale = FALSE /\ rewound = FALSE /\ muddled = FALSE

-----------------------------------------------------------------------------
(* CallRoomState: one operator per handler. *)

on_pairing(c, m) ==
  [phase |-> "preconnecting", round |-> m.round, end |-> m.end,
   warning |-> FALSE, paired |-> TRUE, paused |-> FALSE,
   presence |-> "connected"]

\* Plausible bug: round_start does not take the client into the round.
on_round_start_keeps_phase(c, m) ==
  [c EXCEPT !.round = m.round, !.warning = FALSE, !.paused = FALSE]

on_round_start(c, m) ==
  [c EXCEPT !.phase = "in_round", !.round = m.round, !.warning = FALSE,
            !.paused = FALSE]

on_round_warning(c, m) ==
  [c EXCEPT !.round = m.round, !.end = m.end, !.warning = TRUE]

on_round_end(c, m) ==
  [c EXCEPT !.phase = "round_ending", !.round = m.round, !.warning = FALSE,
            !.paired = FALSE, !.paused = FALSE, !.presence = "none"]

on_event_end(c, m) ==
  [c EXCEPT !.phase = "event_ended", !.warning = FALSE, !.paired = FALSE,
            !.paused = FALSE, !.presence = "none"]

on_operator_pause(c, m) == [c EXCEPT !.round = m.round, !.paused = TRUE]

\* Plausible bug: resume moves the end but leaves the timer frozen.
on_operator_resume_frozen(c, m) ==
  [c EXCEPT !.round = m.round, !.end = m.end, !.warning = FALSE]

on_operator_resume(c, m) ==
  [c EXCEPT !.round = m.round, !.end = m.end, !.warning = FALSE,
            !.paused = FALSE]

\* Plausible bug: the new end of an extended round is ignored.
on_operator_extend_ignored(c, m) == [c EXCEPT !.round = m.round]

on_operator_extend(c, m) == [c EXCEPT !.round = m.round, !.end = m.end]

\* on_partner_state; partner_presence_from_protocol maps "disconnected" to
\* gone.
on_partner_state(c, m) == [c EXCEPT !.presence = m.kind]

on_disconnect(c) == [c EXCEPT !.phase = "disconnected"]

on_transient_disconnect(c) ==
  IF c.phase \in {"preconnecting", "in_round", "round_ending"} THEN c
  ELSE on_disconnect(c)

Handle(c, m) ==
  CASE m.kind = "pairing" -> on_pairing(c, m)
    [] m.kind = "round_start" -> on_round_start(c, m)
    [] m.kind = "warning" -> on_round_warning(c, m)
    [] m.kind = "round_end" -> on_round_end(c, m)
    [] m.kind = "event_end" -> on_event_end(c, m)
    [] m.kind = "pause" -> on_operator_pause(c, m)
    [] m.kind = "resume" -> on_operator_resume(c, m)
    [] m.kind = "extend" -> on_operator_extend(c, m)
    [] m.kind \in Presence -> on_partner_state(c, m)

\* timer_visual_state with compute_remaining_ms, for a synchronised clock.
timer_visual_state(c, now) ==
  CASE c.paused -> "paused"
    [] ~c.paused /\ c.end <= now -> "expired"
    [] ~c.paused /\ c.end > now /\ (c.warning \/ c.end - now <= FinalSeconds) ->
         "warning"
    [] OTHER -> "normal"

-----------------------------------------------------------------------------
(* The server: messages to the participant's groups. *)

Listening == socket \in {"joining", "up"}

\* group_send reaches the participant's socket, if it is in its groups.
Deliver(m) == inbox' = IF Listening THEN Append(inbox, m) ELSE inbox

\* Round r will be paused once the open action is committed.
Pausing(r) == op.action = "pause" \/ (op.action # "resume" /\ paused = r)

\* The client has been told of a timetable that is not committed.
ShiftPending == op.action \in {"resume", "extend"}

\* dispatch reads the phase and the rounds.
RoomDispatchCall(i) ==
  /\ DispatchCall(i)
  /\ read' = [read EXCEPT ![i] = rounds]
  /\ UNCHANGED <<clientVars, operatorVars, inbox, missed>>

\* The dispatch skips a key that is marked already.
RoomAlreadySent(i) ==
  /\ pc[i] = "get"
  /\ Head(todo[i]) \in marks
  /\ AlreadySent(i)
  /\ UNCHANGED roomVars

\* The broadcast of one key as a single step: OrchestratorDispatch has the
\* finer ones.  Its payload comes from the Round read when dispatch began.
Broadcast(i) ==
  LET k == Head(todo[i])
  IN  /\ pc[i] = "get"
      /\ k \notin marks
      /\ Valid(k)
      /\ Deliver(Msg(k.kind, k.round, read[i][k.round].ends_at))
      /\ missed' = ((missed /\ k.kind # "pairing") \/ ~Listening)
      /\ muddled' = IF k.kind = "warning" THEN muddled ELSE Pausing(k.round)
      /\ stale' = IF k.kind \in {"pairing", "warning"}
                  THEN read[i] # rounds \/ ShiftPending ELSE stale
      /\ UNCHANGED <<clientVars, read, op, paused, pausedAt, ops,
                     rewound>>

RoomSendOnce(i) ==
  /\ Broadcast(i)
  /\ marks' = marks \cup {Head(todo[i])}
  /\ Advance(i)
  /\ UNCHANGED <<clock, rounds, stream, extends, faults, crashed, late>>

\* The dispatcher dies before it has marked what it sent: a later dispatch
\* sends it again.
RoomCrash(i) ==
  /\ Broadcast(i)
  /\ faults < MaxFaults
  /\ faults' = faults + 1
  /\ pc' = [pc EXCEPT ![i] = "idle"]
  /\ todo' = [todo EXCEPT ![i] = <<>>]
  /\ UNCHANGED <<clock, rounds, marks, stream, extends, crashed, late>>

\* _publish swallows the exception of group_send; the mark is set.
RoomPublishFails(i) ==
  /\ pc[i] = "get"
  /\ Head(todo[i]) \notin marks
  /\ faults < MaxFaults
  /\ faults' = faults + 1
  /\ marks' = marks \cup {Head(todo[i])}
  /\ Advance(i)
  /\ missed' = TRUE
  /\ UNCHANGED <<clock, rounds, stream, extends, crashed, late, clientVars,
                 operatorVars, inbox, read>>

\* Dispatches and operator transactions end within a second.
RoomTick ==
  /\ Quiet /\ Caught /\ op = NoAction
  /\ Len(inbox) <= MaxLag
  /\ Tick
  /\ UNCHANGED roomVars

Rewinds(r, d) == get_current_phase(Shift(rounds, r, d), clock)
                   # get_current_phase(rounds, clock)

\* _broadcast of pause, resume or extend, inside the open transaction.
Tell(action, r, d) ==
  /\ op = NoAction
  /\ ops < MaxOps
  /\ ops' = ops + 1
  /\ op' = [action |-> action, round |-> r, shift |-> d, at |-> clock]
  /\ Deliver(Msg(action, r, rounds[r].ends_at + d))
  /\ missed' = (missed \/ ~Listening)
  /\ rewound' = (rewound \/ Rewinds(r, d))
  /\ muddled' = (muddled /\ action = "extend")
  /\ UNCHANGED <<vars, clientVars, read, paused, pausedAt, stale>>

TellPause ==
  LET now == get_current_phase(rounds, clock)
  IN  /\ paused = NoRound
      /\ now.phase = IN_ROUND
      /\ Tell("pause", now.round, 0)

TellResume ==
  /\ paused # NoRound
  /\ Tell("resume", paused, IF clock - pausedAt > 1 THEN clock - pausedAt ELSE 1)

TellExtend(d) ==
  LET now == get_current_phase(rounds, clock)
  IN  /\ now.phase = IN_ROUND
      /\ Tell("extend", now.round, d)

\* COMMIT: the log row and the timetable change.
CommitAction ==
  LET moved == IF op.action = "pause" THEN rounds
               ELSE Shift(rounds, op.round, op.shift)
  IN  /\ op # NoAction
      /\ rounds' = moved
      /\ paused' = IF op.action = "pause" THEN op.round ELSE NoRound
      /\ pausedAt' = IF op.action = "pause" THEN op.at ELSE 0
      /\ op' = NoAction
      /\ stale' = (stale \/ (moved # rounds /\ ~Quiet))
      /\ rewound' = (rewound \/ Rewinds(op.round, op.shift))
      /\ muddled' = (muddled \/ (op.action = "extend" /\ paused = op.round))
      /\ UNCHANGED <<clock, marks, pc, todo, stream, extends, faults, crashed,
                     late, clientVars, inbox, read, ops, missed>>

\* The transaction is rolled back after its broadcast.
RollbackAction ==
  /\ op # NoAction
  /\ faults < MaxFaults
  /\ faults' = faults + 1
  /\ op' = NoAction
  /\ muddled' = (muddled \/ op.action # "extend")
  /\ stale' = (stale \/ ShiftPending)
  /\ UNCHANGED <<clock, rounds, marks, pc, todo, stream, extends, crashed,
                 late, clientVars, inbox, read, paused, pausedAt, ops, missed, rewound>>

\* partner_presence_jobs: only while the participant has a current pair.
PartnerReport(state) ==
  /\ Listening
  /\ ops < MaxOps
  /\ ops' = ops + 1
  /\ get_current_phase(rounds, clock).phase \in {PRECONNECT, IN_ROUND}
  /\ Deliver(Msg(state, NoRound, 0))
  /\ UNCHANGED <<vars, clientVars, read, op, paused, pausedAt, missed, stale,
                 rewound, muddled>>

-----------------------------------------------------------------------------
(* The client's socket *)

Receive ==
  /\ socket = "up"
  /\ inbox # <<>>
  /\ client' = Handle(client, Head(inbox))
  /\ inbox' = Tail(inbox)
  /\ UNCHANGED <<vars, socket, helloAt, lostAt, drops, read, operatorVars, missed>>

\* The network drops the socket and what is on its way.
Drop ==
  /\ Listening
  /\ drops < MaxDrops
  /\ drops' = drops + 1
  /\ socket' = "down"
  /\ lostAt' = clock
  /\ inbox' = <<>>
  /\ client' = on_transient_disconnect(client)
  /\ missed' = (missed \/ inbox # <<>> \/ client'.phase = "disconnected")
  /\ UNCHANGED <<vars, helloAt, read, operatorVars>>

\* reconnect_window_exhausted: the client stops retrying.
GiveUp ==
  /\ socket = "down"
  /\ clock - lostAt >= ReconnectWindow
  /\ socket' = "dead"
  /\ client' = on_disconnect(client)
  /\ UNCHANGED <<vars, helloAt, lostAt, drops, inbox, read, operatorVars, missed>>

\* client.hello: the new socket joins its groups.
Join ==
  /\ socket = "down"
  /\ clock - lostAt < ReconnectWindow
  /\ socket' = "joining"
  /\ lostAt' = 0
  /\ UNCHANGED <<vars, client, helloAt, drops, inbox, read,
                 operatorVars, missed>>

\* reconnect_snapshot_messages.
Snapshot ==
  LET now == get_current_phase(rounds, clock)
      pairing == Msg("pairing", now.round, rounds[now.round].ends_at)
      start == Msg("round_start", now.round, 0)
  IN  IF now.phase = COMPLETED THEN <<Msg("event_end", NoRound, 0)>>
      ELSE IF now.round = NoRound \/ now.round > MaxRoundNumber THEN <<>>
      ELSE CASE now.phase = PRECONNECT -> <<pairing>>
             [] now.phase = IN_ROUND -> <<pairing, start>>
             [] OTHER -> <<>>

HelloSeen == clock < helloAt + HelloTTL

\* _maybe_send_reconnect_snapshot: the snapshot goes out before anything the
\* groups have queued; a first hello, or one after the mark expired, gets none.
SendSnapshot ==
  LET messages == IF HelloSeen THEN Snapshot ELSE <<>>
  IN  /\ socket = "joining"
      /\ socket' = "up"
      /\ helloAt' = clock
      /\ inbox' = messages \o inbox
      /\ missed' = (missed /\ (messages = <<>> \/ inbox # <<>>))
      /\ muddled' = IF messages = <<>> THEN muddled
                    ELSE Pausing(get_current_phase(rounds, clock).round)
                           \/ (muddled /\ inbox # <<>>)
      /\ stale' = (stale \/ (messages # <<>> /\ ShiftPending))
      /\ UNCHANGED <<vars, client, lostAt, drops, read, op, paused, pausedAt,
                     ops, rewound>>

RoomNext ==
  \/ RoomTick
  \/ \E i \in Dispatcher :
       \/ RoomDispatchCall(i) \/ RoomAlreadySent(i) \/ RoomSendOnce(i)
       \/ RoomCrash(i) \/ RoomPublishFails(i)
  \/ TellPause \/ TellResume \/ \E d \in Extras : TellExtend(d)
  \/ CommitAction \/ RollbackAction
  \/ PartnerReport("gone")
  \/ Receive \/ Drop \/ GiveUp \/ Join \/ SendSnapshot

RoomSpec == RoomInit /\ [][RoomNext]_<<vars, roomVars>>

-----------------------------------------------------------------------------
(* Properties *)

\* Everything sent has arrived and the server has nothing left to send.
Settled ==
  /\ socket = "up" /\ inbox = <<>>
  /\ Quiet /\ Caught /\ op = NoAction
  /\ ~missed

(***************************************************************************)
(* "current state is replayed where available" (protocol.md, lifecycle):   *)
(* a client that has missed nothing since its last pairing or snapshot is  *)
(* in the phase the server is in, however messages of the dispatcher, of   *)
(* the operator and of a snapshot interleaved and whatever was repeated by *)
(* a crashed dispatcher.                                                   *)
(***************************************************************************)
PhaseAgrees ==
  Settled /\ ~rewound =>
    LET now == get_current_phase(rounds, clock)
    IN  /\ now.phase = PRECONNECT => client.phase = "preconnecting"
        /\ now.phase = IN_ROUND => client.phase = "in_round"
        /\ now.phase = BREAK => client.phase = "round_ending"
        /\ now.phase = COMPLETED => client.phase = "event_ended"
        /\ now.phase \in {PRECONNECT, IN_ROUND} =>
             client.round = now.round /\ client.paired

(***************************************************************************)
(* The participant's countdown ends when the server ends the round:        *)
(* extensions and resumes reach the client whether they are broadcast,     *)
(* come with a later message, or with a snapshot; only a dispatch that     *)
(* had already read the timetable may bring back the old end.              *)
(***************************************************************************)
TimerAgrees ==
  Settled /\ ~rewound /\ ~stale /\ client.phase = "in_round" =>
    /\ client.end = rounds[client.round].ends_at
    /\ timer_visual_state(client, clock) # "expired"

(***************************************************************************)
(* "Freeze round timer during an operator pause action": the client shows  *)
(* the pause exactly as long as the operator's newest log row is one.      *)
(* Three things the code does break this, each until the next message that *)
(* sets the banner: a pause or resume rolled back after its broadcast, an  *)
(* extension of the paused round, and a reconnection, or a late or         *)
(* repeated round_start, in a pause.                                       *)
(***************************************************************************)
PauseAgrees ==
  Settled /\ ~rewound /\ ~muddled /\ client.phase = "in_round" =>
    (client.paused <=> paused = client.round)

=============================================================================
