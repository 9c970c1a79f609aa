# TLA+ models of the speed-networking server

The system runs a timed online event: participants register, are matched into
pairs for a number of rounds, connect by WebSocket and talk to each round's
partner over WebRTC. A Django/Channels server keeps the timetable, tells
everybody what happens now, and relays the signalling; operators pause, resume
and extend rounds from the admin pages. This directory holds models of the
server's stateful parts, TLC runs that check them on small instances, and TLAPS
proofs for every value of the constants.

All paths below are relative to `src/`.

## 1. Inventory

| Component | State | Operations | Talks to |
|---|---|---|---|
| Leader lease (`apps/events/leadership.py`) | one `LeaderLease` row | acquire, renew, release, is_leader | database; hosts' clocks |
| Event state machine (`state_machine.py`) | `Event.status`, `EventTransitionLog` | transition, find incomplete, reconcile | event row lock, shared with recalculation |
| Recalculation (`scheduling.py`) | rounds and pairs | recalculate_pairs_pre_start | matching, event row lock |
| Scheduler (`scheduler.py`) | `Round` rows | calculate_full_schedule, get_current_phase | read by operator, orchestrator, consumers |
| Operator service (`operator.py`, `admin.py`) | `Round` rows, `OperatorActionLog` | pause, resume, extend | channel layer, scheduler |
| Orchestrator (`orchestrator.py`) | sent-marks in the cache | dispatch, broadcasts, presence notices, socket invalidation | scheduler, cache, channel layer |
| Consumer (`consumers.py`) | per socket: handshake flag, rate window, last activity; owner and absence keys in the cache; absence tasks in memory; `Participant.status` | connect, receive, hello, disconnect, session_replaced, absence watch, signal relay, heartbeat | cache, database, orchestrator, partner's socket |
| Join and sessions (`auth.py`, `views.py`) | join tokens, sessions, latest session in the cache | issue_join_token, join_participant, session check | invalidates sockets |
| Registration (`apps/registration`) | `Participant` rows, confirmation tokens | register, confirm | mail, join |
| Matching (`matching.py`, `scoring.py`) | a schedule under construction | generate_schedule, validate_schedule | recalculation |
| Protocol validation (`apps/protocol/validators.py`, `schemas.py`) | none | validate and build messages | consumer, orchestrator |
| Call room client (`call_room_logic.py`, twin `static/events/js/call_room.js`) | client state | one handler per server message | orchestrator, operator, relay |
| Perfect negotiation (`perfect_negotiator.js`) | RTCPeerConnection state, flags, timers | prepare, open, offer, answer, restart, give up | relay, browser |
| Media failover (`apps/protocol/media_transport.py`) | active adapter, escalation timer, shared tracks | preconnect, open, switch_partner, leave, escalate, recover | call room |
| Clock sync (`clock_sync.py`) | samples | offset estimate | consumer |
| TURN credentials, preconnect notices, reports, health, seed and load tools | none of interest | | |

What is hard here: database rows written by concurrent requests with and
without locks (state machine, operator), read-then-write on a shared cache
(dispatch marks, connection claim), in-memory tasks that race with messages and
disappear on restart (absence watch), a timetable that operators move while
dispatchers and phases depend on it, clocks that differ between hosts,
instants at which one interval ends and the next begins, broadcasts made before
a commit, two peers that offer at once, a timer thread without a lock, and
searches with limits. `PROJECT.json` lists
the hazards one by one with their lines.

What makes the parts correct:

- lease: no two leaders at once, as far as clocks allow;
- state machine: only legal edges, and an audit trail that explains the status;
- operator: no second is lost or invented, breaks survive, a pause can be
  resumed, requests do not deadlock;
- dispatch: the legal message sequence, nothing twice, everything eventually;
- consumer: one live connection per participant, absence reported exactly when
  it is real; the answer to every accepted message can be built, the rate limit
  holds in every window, a silent socket is closed;
- call room: the client's phase, countdown and pause banner are the server's,
  whatever was extended, paused, repeated or replayed, up to the windows that
  section 3 names;
- negotiation: both peers end in the same exchange after any glare, no spurious
  failure, a lost media path is repaired or reported;
- media failover: invisible to the caller, confined to the selected room, never
  two peers or an open camera without one, no call that hangs silently, as long
  as no operation overtakes the timer's callback;
- matching: everybody once a round, nobody meets twice, byes are fair, the
  validator knows exactly that, and a failure is a real one;
- admission: one row per email address, a link that works as long as the event
  lasts, only the latest session connected and the participant never locked out.

## 2. Modules

**`LeaderLease`** — nodes with their own clocks (`offset`) run the statements of
acquire, renew, release and is_leader one at a time on one row (`lease`). `now[n]`
is the instant a call read before its statements, so it may be old when the row
is reached. `until[n]` records the expiry of the lease a node was last told it
holds: what it may act on.

**`EventLifecycle`** — workers run `transition_event`,
`recalculate_pairs_pre_start` and `reconcile_interrupted_transition` as
transactions on the event row. `SELECT … FOR UPDATE` is `LockEvent`, uncommitted
writes live in `buf` and `call`, `EndTransaction` is commit or rollback, `Crash`
is either end of the connection dying. `Orphans` are incomplete rows from an
earlier deployment (the situation reconciliation is written for and its tests
construct).

**`RoundScheduler`** — the timetable and `get_current_phase` as operators:
`Hits` are the rounds whose loop body would return, `FirstHit` the one where the
loop stops.

**`OperatorControl`** (extends `RoundScheduler`) — pause, resume and extend as
READ COMMITTED transactions. The steps follow the statements: read the phase or
the newest log row (`…Begin`), check it (`PauseCheck`), fetch the paused round
(`LoadRound`), write the active round (`WriteActive`), select the later ones
(`ReadRest`), write each (`WriteLater`), broadcast, commit. Row locks come from
the UPDATEs alone. Written values are applied at the commit, computed from what
was read. Time is in whole seconds; `stamp` orders log rows of one second.
`Spec` lets requests overlap; `SerialSpec` starts one when no other is running.

**`OrchestratorDispatch`** (extends `RoundScheduler`) — one or more dispatchers.
`Plan` lists the `_send_once` calls of a phase; each is a cache get
(`AlreadySent`), a publication (`Publish`, `PublishFails`) and a cache set
(`MarkSent`). A message the validators refuse (a round number above
`MaxRoundNumber`) cannot be built, and the exception ends the dispatch. `stream`
is what one participant receives. An extension is a single step here; its inner
steps are `OperatorControl`'s subject. `late` remembers that a second passed
without a completed dispatch. The lifetime of a mark in the cache exceeds an
event and is not modelled.

**`CallRoom`** (extends `OrchestratorDispatch`) — the composition of dispatcher,
operator and one participant's client. `read[i]` is the timetable a dispatch has
read, which an operator may change before it publishes. An operator action tells
the participants first (`Tell`) and then commits or rolls back. The channel layer
and the socket are a FIFO `inbox`; a disconnection empties it, and a socket that
is joining gets the snapshot ahead of what the groups sent meanwhile. The client
is a record with one operator per handler of `CallRoomState`. Histories mark what
the properties must except: `missed`, `stale`, `rewound` and `muddled` (comments
at the VARIABLES); `stale` and `muddled` end with the next message that sets the
end of the round or the banner.

**`MediaTransport`** and **`FailoverTransport`** — the contract of the abstract
class, and the class that switches from a direct adapter to a relay. `preconnect`
and `switch_partner` are two steps each, since they first choose the adapter
(`_restore_primary_if_needed`) and then use whatever `self._active` is by then;
between them only the timer's thread runs. The other operations are one step,
with the events the adapters emit inside it: they choose no adapter. The callback
of the escalation timer runs on a thread of its own and takes three steps: look at
the flags, decide, replace the adapter. `View` is the refinement mapping: what a
caller sees, which in the middle of an operation is the call it asks for and,
while a callback replaces the adapter, the call being carried over.
`ImplementsContract` instantiates `MediaTransport` with it. `fault` becomes
`"raced"`, for good, once an operation or an event came between the checks and the
effect of a callback, and `"broken"` when the fallback factory raised.

**`Matching`** — `generate_schedule` with one step per loop iteration: byes,
hardest-first greedy, the bounded backtracking search with its stack and node
counter, then swap passes. Participants are ranks, scores exact integers. The
operators were compared with the Python code on 4096 schedules. `RoundKinds` and
its neighbours are `validate_schedule`; `ScheduleSound` is stated independently.

**`Admission`** — registration, confirmation, join link, session, socket, one step
per query, cache call or mail; `authenticate_join_token` is the one transaction.
Registrations are for one email address so that they compete. Histories: `rushed`
(the duplicate query of two requests came before either insert), `lapsed` (an
old row copy was written back over a new token, or the event was extended after
the link was issued), `slipped` (a socket accepted before a join said hello after
it) and `moved` (the browser that holds a participant's recorded session has
followed the link of another participant, which replaces the session).

**`ProtocolRules`** and **`ParticipantSocket`** — the validators as tables from
field to rule over classes of values (a bool is not an integer, a round number
ends at 6, …), and the consumer's message layer: telemetry, size, rate and form
checks in the code's order, dispatch by type, relay to the partner of the room a
signal names, heartbeat, and both ways in which `receive` answers an unexpected
exception with `ERR_INTERNAL`. The relay rebuilds the message, so the client's and
the server's rules must fit each other. `choking` records that the last message
handled was one that cannot be parsed or encoded.

**`PerfectNegotiation`** — two peers over an ordered relay. The browser's
`RTCPeerConnection` is external: a chain of operations carried out one at a time;
what a handler does after an await happens in the step in which the operation
ends. `prepareRound`, `open`, `endRound`, automatic and manual offers, collision
and rollback, answers, ICE restart, permanent failure, loss and return of
signalling are actions. The polite peer is also the offerer (pairs are stored in
canonical order). `lost` and `raced` mark lost signals and the races listed in
section 3.

**`ConnectionPresence`** — the sockets of one participant, opened one after the
other or at once, with their handlers cut at every await on cache, database or
channel layer. Generations of the absence watch are named after the socket whose
closing started them. Exceptions that the code logs and skips are `StepFails`
with the table `AfterFailure`; other exceptions of a handler end in `_fatal`
(`HandlerFails`). `lost` remembers a failed claim, replacement or notice.
`SerialSpec` lets a handler start only when no other handler of this participant
is running; `Spec` has no such limit.

`MC…` modules hold symmetry sets, instance data and fairness. `…Proofs` modules
hold theorems. Operators introduced by "Plausible bug:" are variants of the
definition that follows them, used to confirm that a property notices the bug.

## 3. Runs

All runs pass; bounds are in the cfg files.

| Run | Shows | Instance |
|---|---|---|
| `lease` | NoSplitBrain, KnownExpiryIsSafe, TakeoverOnlyAfterExpiry | 3 nodes, TTL 2, skew up to 1, 4 instants, 3 versions: enough for a take-over of a take-over with a stale `now` |
| `lifecycle` | AuditChain, ReconciledRowsAreClosed, OnlyValidTransitions, RecalculateOnlyBeforeStart, EveryCallReturns | 2 workers, one orphan row, all nine initial statuses, up to 3 new rows |
| `operator_serial` | EveryGrantCounts, BreaksPreserved, ResumeRestoresRemaining | 3 rounds of 3 s, breaks of 2 s, 4 requests, 12 instants: pause and resume across the end of a round, extend in between |
| `operator_live` | EveryRequestEnds | 2 overlapping requests |
| `dispatch` | InOrder, AtMostOnce, RoundEndIsSent, TimelineIsDelivered | 2 rounds of 3 s, break 2 s, 1 dispatcher, 1 crash or failed publication, 1 extension |
| `presence` | NotGoneWhileOnline, ExclusiveWhenQuiet, StatusFollowsSocket, AbsenceIsReported | 2 sockets, 1 join, 1 restart, 1 phase change, 1 failure |
| `room` | PhaseAgrees, TimerAgrees, PauseAgrees | 2 rounds of 2 s, 8 instants, 2 operator actions or partner reports, 1 fault, 1 disconnection |
| `media` | PairScoped, CameraFollowsPeer, ConnectedIsReported, ImplementsContract, NoSilentCall | 2 rooms, one of them selected, 2 partners, 4 operations, 1 adapter failure |
| `matching` | ScheduleSound, ValidatorIsExact, FailureIsReal | 1 to 8 participants, 3 to 7 rounds, all tag assignments of a few tags; the two search limits are lowered until they bite |
| `admission` | OneRowPerEmail, LinkKeepsWorking, LatestSessionOnly | 2 registrations, 2 names, 1 confirmation, 2 join links, 2 browsers, 2 joins, 1 extension, 1 failing service |
| `socket` | NoInternalError, RateLimited, SilentIsClosed | every client message over all value classes, window 3, limit 2, interval 2, timeout 3, 6 ticks, 1 fault |
| `negotiation` | GlareResolves, NoFalseFailure, LossIsSettled | 4 offers, 1 interruption of the media path (a loss, or a failure at once), 1 loss of signalling |

Two rounds suffice for dispatch and call room because a message depends on at
most one round and its successor; operators get a third so that "all later rounds"
is more than one. Clock bounds let every event run to its end in the shortest case
and stop in the middle in the longest. Four operations of the transport reach
preconnect, open, a switch to the other room and one more while the timer of the
first is still running. Matching needs eight participants because greedy first
strands somebody at six. Four offers are two colliding ones, the answer to a
rollback, and an ICE restart. Two links and two joins let two browsers compete for
one participant, one browser move from one participant to the other, and a
confirmation write a token back. The socket's window and limit are small enough
to be filled, to slide and to be filled again in six ticks.

The runs of operator and presence use the serial specifications: they show what
holds when requests, or the handlers of one participant, do not overlap. With
`SPECIFICATION Spec` in `OperatorSerial.cfg` or `Presence.cfg` TLC shows within
seconds why (first two items below).

### Where the code does less than a document says

- *overlapping operator requests*: both read the later rounds before either
  commits and one shift is lost (`operator.py:104`), while the docstring at line
  142 promises that the remaining rounds move. One Daphne process is enough:
  admin views run in threads.
- *overlapping handlers of one participant*: closing the old socket and greeting
  the new one interleave at awaits (`consumers.py:493`), so that a connected
  participant is reported gone.
- *extend while paused*: the EXTEND row becomes the newest (`operator.py:89`), and
  resume is refused, though `docs/event-day-runbook.md:218` expects a resume
  to follow a pause.
- *short breaks*: with a break not longer than the preconnect time
  `get_current_phase` goes from running to preconnect (`scheduler.py:152`,
  `models.py:72` allows it) and no `server.round_end` is sent
  (`docs/protocol.md:480`). The instances keep the break longer.
- *dispatch ignores a pause* (`orchestrator.py:438`): a round paused past its
  scheduled end is announced as ended and later goes on (`docs/protocol.md:971`).
  `stale` and `rewound` except the resulting windows in `CallRoom`.
- *more than six rounds*: the validators end at 6, `models.py:68` and
  `docs/matching.md:93-95` allow more; a dispatch in round 7 raises.
  `MaxRoundNumber` is that limit; the instances stay below it.
- *greedy can strand a feasible event*: with 6 participants and 5 rounds
  backtracking within one round cannot undo earlier rounds, so
  `generate_schedule` may fail though a schedule exists. `FailureIsReal` is
  therefore about the round. `docs/matching.md` asks for N >= R+1; the code also
  takes an odd N = R, where a bye a round makes it possible.
- *the timer thread*: its callback checks and acts without a lock; an operation in
  between makes it act on the wrong call (`"raced"`). `PairScoped` ("pair-scoped",
  `media_transport.py:449`) is then false: a call in the selected room is up on
  the primary, the timer fires and its callback passes the checks (`:573-576`);
  `switch_partner` to another room passes `_restore_primary_if_needed` (`:715`)
  while `_using_fallback` is still false; the callback replaces the adapter
  (`:657-668`) and the relay is active and bound; the caller goes on at `:716` and
  puts the other room on it. `preconnect` does the same at `:699-700`. TLC prints
  this trace when `fault # "raced"` is taken out of `PairScoped`. A `leave` or a
  late connection that meets a callback past its checks leaves a peer or a report
  behind in the same way. If the fallback factory
  raises, `_switching` stays set and no later failure is handled (`"broken"`). A
  transport used again after `leave()` is not bound to its adapter, and the relay
  has no timer of its own.
- *admission*: email addresses are not unique in the database, so two overlapping
  requests with different names both insert; when mail or tags fail the row stays
  and a retry is told `duplicate_email`; the confirmation saves the whole row and
  may write an old join token back; an extension does not reach the expiry of
  links already issued; a cache failure while the session is remembered locks the
  new session out; a socket accepted before a join and greeted after it goes on
  working (`slipped`); and when a browser follows the link of another participant,
  `cycle_key` (`auth.py:91`) deletes the session that the cache still names for
  the first one, as whom nobody can connect until the link is followed again
  (`moved`).
- *internal errors*: `validate_message` is documented to raise nothing but
  `ProtocolError` (`validators.py:597-601`), but `json.loads` raises
  `RecursionError` on JSON that is nested too deeply, which `:608` does not catch;
  `consumers.py:233-236` closes the socket with `ERR_INTERNAL`. A signal with half
  a surrogate pair in a text, or an ICE index of more than 64 bits, passes every
  rule and is refused by the database or by the channel layer's encoding, with the
  same end (`:238-245`). `NoInternalError` excepts these two (`choking`).
- *the pause banner* (`call_room_logic.py:324`: "Freeze round timer during an operator
  pause action"): a pause or resume that is rolled back after its broadcast
  (`operator.py:79`), an extension of the paused round, and a snapshot, whose
  pairing and round_start clear the banner, or a `round_start` sent late or again,
  in a pause, leave the client with a banner that is not
  the server's. `PauseAgrees` excepts each of them until the next message that
  sets the banner (`muddled`); TLC finds each of them when its part of the exception is dropped.
- *rate limit*: `docs/protocol.md` counts every text message; telemetry and
  oversized messages return before the counter. `_resolve_partner` accepts the
  room of any round, not only the current one.
- *negotiation* (the header, line 11, promises deterministic perfect
  negotiation): if the impolite peer's first offer is lost because its partner has
  not prepared the round, it stays in `have-local-offer` and ignores every offer
  until the escalation timer; an offer that arrives between createOffer and
  setLocalDescription of the manual offer is rolled back in `stable`, which throws
  (`perfect_negotiator.js:774`, `:624`); there is no
  `isSettingRemoteAnswerPending`, so the impolite peer ignores an offer while an
  answer is being applied (`:765`); `localDescription` is read after the await on
  the bitrate cap and may be another description (`:779`). These are `lost` and
  `raced`.

- *clock skew* (`NoSplitBrain`): with clocks `MaxOffset` apart a leader that acts
  in the last `MaxOffset` of its lease may not be alone, while
  `leadership.py:7` speaks of "exactly one process … at any given time". In the
  instant of expiry `acquire_lease` (`>=`, line 91) still says yes and
  `get_current_leader` (`>`, line 156) already says nobody.
- *status writes outside the state machine* (`AuditChain`): the editable status
  column of the admin list (`admin.py:122`) bypasses the log that `models.py:319`
  calls an audit record for every transition. And since log row and status share
  one transaction, a crash leaves no incomplete row behind, contrary to
  `state_machine.py:109-111`; `Orphans` can only come from elsewhere.
- *one dispatcher* (`AtMostOnce`): `_send_once` is get, send, set; a second
  instance between get and set repeats the message, contrary to
  `orchestrator.py:400-402`. Add a second element to `Dispatcher` to see it.
- *no overlapping handshakes* (`ExclusiveWhenQuiet`): two handshakes between
  cache.get and cache.set (`consumers.py:443-444`) replace nobody and both stay.
- *one server process* (`docker-compose.prod.yml:34`): the absence tasks are in the
  memory of a process (`consumers.py:51`). With a second process that serves the
  next socket, `_clear_absence_watch` cannot cancel a task that has compared the
  generations, and it reports a participant who is back; and a restart of the
  process of a socket that has claimed the connection, but not yet told the
  previous owner, leaves that owner connected besides the next socket. With
  `Home` over two processes TLC shows both (the second with three sockets).
- *no early socket* (`StatusFollowsSocket`): `_mark_reconnected` compares the
  status loaded at connect time (`consumers.py:370`), so a socket opened before
  the old one closed can leave a connected participant `disconnected`.

`CHECK_DEADLOCK FALSE` is set where the system really stops: when the event day
(`MaxClock`, `MaxRequests`) is over, the call has ended, or all sockets,
operations or requests have been used.

Fairness. A worker or request that has begun goes on (weak fairness: the process
is running), and waiters for a row lock get it in turn (strong fairness:
PostgreSQL queues them). `dispatch` assumes that a dispatcher with something to
do is called and goes on, and that a second that ends with nothing left to do
eventually ends (strong fairness, because calls come in between); late dispatches
remain possible and are what `late` records. Presence assumes that handlers run
on, that a message in a consumer's queue is taken up, and that the timer fires.
`media` assumes only that the timer's thread runs and that an operation that has
begun goes on. `negotiation` assumes that
timers fire, that an ICE attempt comes to a result, and that a client whose
signalling is down reconnects or gives up. Nothing forces anybody to call, connect, crash or fail.

## 4. Proofs

Assumptions are the ASSUMEs of the modules: types of the constants only. The
theorems about dispatch, the call room and presence that need a hypothesis of
their own (a break longer than the preconnect time, one dispatcher, one process, no
more rounds than the validators accept) have it in their statement; those about
operators and presence are for handlers that do not overlap (`SerialSpec`), except
`PresenceStatus`. The lemmas follow the invariants below; each step proof has one
case per action.

- `LeaderLeaseProofs`. `KnownExpiryIsSafe` says that a node's knowledge is never
  better than the row, or else outdated on somebody's clock. With the facts that
  instants read are not in the future and that an absent row is blank it is
  inductive (`LeaseInvariant`), and `NoSplitBrain` follows: of two nodes only one
  is the row's leader, so the other's knowledge ends within the skew.
- `EventLifecycleProofs`. The chain property needs that the lock holder's `view`
  is the committed status (`LockProtectsView`), that a transition past its check
  has a legal edge (`ValidatedEdge`), and that only orphan rows are ever being
  reconciled (`ReconcilesOrphans`). Types, audit chain, closed rows, legal edges
  and no recalculation after the start follow for any number of workers.
- `OperatorControlProofs`. For requests that do not overlap: at most one is being
  served (`OneRequest`), so what it has read is still what the rows hold
  (`SnapshotIsFresh`), so a commit is `Shift` of the current timetable
  (`CommitShape`), which gives the acting round exactly the shift and moves the
  rest rigidly (`ShiftKeepsShape`). `EveryGrantCounts` and `BreaksPreserved`
  follow for every timetable. `PhaseInRound` gives that a pause records a
  remaining time that is not negative; since the newest log row, if it is a pause,
  still fits the timetable (`PauseIsCurrent`), a resumed round gets that time back
  (`OperatorResume`).
- `ParticipantSocketProofs`. `StampsAreRecent` says that the stamps the rate limit
  keeps are the end of the history of handled messages, and that what was popped is
  a window old: hence no window holds more than the limit (`SocketRateLimit`). `HeartbeatIsDue` bounds
  when the task looks next, which gives `SocketSilentIsClosed`. That no accepted
  message that can be passed on breaks an answer or a relayed signal is a
  comparison of two tables of rules, field by field (`SocketNoInternalError`); since
  `choking` is about the last message only, it also needs that an open socket has
  no closing code (`OpenIsNotClosed`).
- `OrchestratorDispatchProofs`. With any number of dispatchers nothing is planned,
  sent or marked before its time (`AllDue`), because a plan is made from a phase
  and time only moves on; and a break cannot pass without a completed dispatch
  unless one was late (`BreakIsUsed`). `DispatchRoundEnd` follows when a break is
  longer than the preconnect time, since otherwise the code skips the end of the
  round (section 3). `DispatchOrder` and `DispatchOnce` are for one dispatcher at a
  time, which is what the leader lease is for: what was sent has all messages
  before it marked (`BeforeIsMarked`), a plan never falls behind the stream
  (`PlanIsAhead`), and a message sent is marked unless its dispatcher died
  (`SentIsAccounted`).
  The same module proves the call room, which extends the dispatch: `RoomPhase`,
  `RoomTimer` and `RoomPause` hold for any number of dispatchers and every break
  length. What makes the client agree is the last message in its queue that sets a
  field (`Comes`): the queue decides the phase (`FollowsPhase`,
  `NothingBeforeStart`), the end of the countdown (`FollowsTimer`) and the banner
  (`FollowsPause`) it will have when it has read everything. Receiving, appending,
  and prepending a snapshot each preserve that, by a lemma of their own. Under it
  lie facts about the server: the timetable stays sound and the newest operation is
  the one in force (`RoomTyped`), a plan that will still be sent agrees with it
  (`PlansAreCurrent`), and a client hears of its partner before a round begins
  (`PairingComesFirst`). The hypothesis is `NumRounds <= MaxRoundNumber`: an event
  may have more rounds (`models.py:68`), but a dispatch in a round above 6 raises in
  the validators, and the client does not learn that the round began (section 3).
- `MediaProofs`, first half: `FailoverTransport`. One lemma for each piece of an operation (`…Fields`)
  says what it does to adapter, route, timer, media and session; the operations
  are compositions of them. The invariant is stated on the transport record, so
  that it can be asserted of intermediate values: `Camera`, `Shape`, `Reported`,
  and `TimersAreOld`, which makes a callback that fired before the connection came
  up give up. `MidOperation` says what the first step of `preconnect` and
  `switch_partner` has settled, and that no callback can pass its checks before
  the second: its generation is outdated. `Scoped` holds after a failed fallback
  too, until a race; the rest until either. `FailoverRefinement` maps every step to
  a step of `MediaTransport` or to a stutter, until a fault: an operation is its
  first step, the second one a stutter.
- `MediaProofs`, second half: `PerfectNegotiation`, for any number of offers,
  interruptions and lost sockets. As long as nothing was lost or raced, the peers
  are `Coordinated`. An offer, or the answer to it, is in one of six places: sent,
  taken, applied, waiting for the bitrate cap, returned, settled; never in two
  (`OnePlace`). It belongs to the offer its maker waits with (`OwnersWait`). Both
  offers may be under way, but the polite peer has given up its own before it
  answers (`OneExchange`). The chains hold only certain pairs of operations
  (`PeersFit`), the wires only certain sequences (`WiresFit`): behind an answer on
  its way to the impolite peer an offer of the polite one may follow, before it come
  only offers that are ignored. Answers still waiting for the cap from earlier
  exchanges never match the current one (`CapsAreOld`). `NegotiationGlare` then
  follows because a peer that waits for an answer has its offer in one of the places
  (`ImpoliteProceeds`, `PoliteProceeds`), all of which are empty in a quiet call, and
  two agreed exchanges differ only while an answer is under way (`Agree`). Every
  step has a lemma for either peer, since the peers are not symmetric.
- `AdmissionProofs`. `Registered` relates the progress of a request, its row and
  its mail; two requests past the duplicate query have overlapped. `Linked` says
  that all versions of a row with one token, in the database and in the copies
  that confirmations hold, have one expiry: without it a copy written back could
  carry the right token and an old expiry. `Latest` names for every deviation the
  join that is about to remove it (`Joining`).
- `ConnectionPresenceProofs`. Two invariants. `Alone`: a socket opened after the
  previous one was closed has loaded the status as it is, until it makes it active.
  It needs no order among handlers, so `PresenceStatus` is proved of `Spec`. For
  handlers that do not overlap (`SerialSpec`), `Claimed` says that whoever is
  online owns the connection, or is about to be told that it is taken; a closing
  socket that is not the owner stops there, so nobody is online when an absence
  begins, and nobody waits for one when a handshake is over (`Present`).
  `PresenceExclusive` and `PresenceNotGone` assume `OneProcess`: one server process
  serves the participant, as the production stack has it. Without it both are false
  (section 3).

Type correctness is part of the inductive invariants and is proved, so no run
repeats it. The inductive invariants were checked by TLC on the instances of the
runs, or larger ones, before they were proved.

Only model-checked: `Matching`, whose properties are about the results of recursive searches, that is,
induction over data; and all liveness (`EveryCallReturns`, `EveryRequestEnds`,
`TimelineIsDelivered`, `AbsenceIsReported`, `NoSilentCall`, `LossIsSettled`), which
the prover does not support.

## 5. Not modelled

- *Browser scripts* other than the negotiator: the twins of `call_room_logic.py`
  and `media_transport.py`, and the wiring to the page.
- *Clock synchronisation*: a median over samples; `CallRoom` assumes its result.
- *Preconnect service, manual broadcasts*: they send what the phase says on
  request and keep no state.
- *Connection reports, TURN credentials, health endpoint, admin pages, seed and
  load tools, templates, migrations*: single-row upserts, pure computation, I/O.
- *Registration*: the request rate limit, the form's email lookup and the device
  check.
- *Rows of a schedule* (`persist_schedule`) and the RECALCULATE log row.
- *ICE candidates*, statistics, and the restart path for browsers without
  `restartIce`.
- *Lifetimes of cache keys*: marks live longer than an event, and the absence key
  (300 s) longer than the grace period (25 s).

## 6. Plan

1. RECALCULATE rows in `OperatorControl`: they also hide a pause.
2. An abstract timetable that `OperatorControl` implements and
   `OrchestratorDispatch` uses.
