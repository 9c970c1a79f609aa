-------------------------- MODULE FailoverTransport --------------------------
(***************************************************************************)
(* FailoverMediaTransport of apps/protocol/media_transport.py, with the    *)
(* adapters it switches between, the local media they share and the        *)
(* RoundMediaSession that listens to it.                                   *)
(*                                                                         *)
(* Two threads touch the object: the caller's, which calls the operations  *)
(* and on which the adapters emit their events, and the thread of the      *)
(* escalation timer.  Nothing is locked.  preconnect and switch_partner    *)
(* take two steps, and the timer's thread may run between them: they       *)
(* choose the adapter, then use the one that is active by then.  The       *)
(* timer's callback takes three: it looks at the flags, decides, and       *)
(* replaces the adapter.  The other operations are one step: they choose   *)
(* no adapter, and a callback they meet past its guards is a race (fault)  *)
(* wherever it meets them.                                                 *)
(*                                                                         *)
(* The adapters under src/ connect inside open() and switch_partner(); a   *)
(* browser's peer connection, and the adapter of the tests, connects some  *)
(* time later or never.  Both are allowed here (argument "instant"); open  *)
(* on a peer that is already up emits CONNECTED at once.                   *)
(***************************************************************************)
EXTENDS Naturals

CONSTANTS
  Room,        \* room ids
  Partner,     \* partner ids
  None,        \* Python's None
  Selected,    \* selected_room_id: the room with a fallback, or None
  MaxCalls,    \* bound on the operations the caller performs
  MaxFailures  \* bound on the failures the active adapter reports

ASSUME FailoverAssumption ==
  /\ None \notin Room \cup Partner
  /\ Selected \in Room \cup {None}
  /\ MaxCalls \in Nat
  /\ MaxFailures \in Nat

VARIABLES
  t,         \* the FailoverMediaTransport and what it owns
  caller,    \* the operation the caller's thread is in the middle of
  thread,    \* the callback of the escalation timer
  calls,     \* operations so far
  failures,  \* failures reported by adapters so far
  fault      \* history: "raced" once an operation or an event came between
             \* the checks and the effect of a callback, else "broken" once
             \* the fallback could not be built

vars == <<t, caller, thread, calls, failures, fault>>

Kind == {"direct", "relay"}
State == {"idle", "preconnected", "open", "closed"}

Adapter ==
  [state : State, room : Room \cup {None}, partner : Partner \cup {None},
   muted : BOOLEAN,
   peer : BOOLEAN,       \* peer_connection_id is not None
   connected : BOOLEAN]  \* that peer has emitted CONNECTED and not FAILED

NewAdapter ==
  [state |-> "idle", room |-> None, partner |-> None, muted |-> TRUE,
   peer |-> FALSE, connected |-> FALSE]

Transport ==
  [adapter : [Kind -> Adapter],
   active : Kind, using_fallback : BOOLEAN, switching : BOOLEAN,
   bound : BOOLEAN,              \* the active adapter's events are forwarded
   primary_connected : BOOLEAN,
   generation : Nat,             \* _escalation_generation
   timer : Nat,                  \* generation of the pending timer, or 0
   live : BOOLEAN,               \* SharedLocalMedia: acquired and live
   acquired : Nat,               \* get_user_media_calls
   releases : Nat,               \* release() calls (history)
   session : [is_connected : BOOLEAN, is_degraded : BOOLEAN],
   told : BOOLEAN]               \* the session was told of trouble in the
                                 \* current call (history)

NoOperation == [pc |-> "idle", room |-> None, partner |-> None]

NoThread == [pc |-> "idle", gen |-> 0, room |-> None, partner |-> None,
             was_open |-> FALSE]

TypeOK ==
  /\ t \in Transport
  /\ caller \in [pc : {"idle", "preconnect", "switch"},
                 room : Room \cup {None}, partner : Partner \cup {None}]
  /\ thread \in [pc : {"idle", "fired", "handle", "switch"}, gen : Nat,
                 room : Room \cup {None}, partner : Partner \cup {None},
                 was_open : BOOLEAN]
  /\ calls \in Nat
  /\ failures \in Nat
  /\ fault \in {"none", "raced", "broken"}

Init ==
  /\ t = [adapter |-> [k \in Kind |-> NewAdapter],
          active |-> "direct", using_fallback |-> FALSE, switching |-> FALSE,
          bound |-> TRUE, primary_connected |-> FALSE, generation |-> 0,
          timer |-> 0, live |-> FALSE, acquired |-> 0, releases |-> 0,
          session |-> [is_connected |-> FALSE, is_degraded |-> FALSE],
          told |-> FALSE]
  /\ caller = NoOperation
  /\ thread = NoThread
  /\ calls = 0
  /\ failures = 0
  /\ fault = "none"

-----------------------------------------------------------------------------
(* The pieces the operations are made of: each maps an object to an object. *)

Active(s) == s.adapter[s.active]

SetActive(s, a) == [s EXCEPT !.adapter = [s.adapter EXCEPT ![s.active] = a]]

fallback_allowed_for_room(r) == Selected # None /\ r = Selected

ClearTimer(s) == [s EXCEPT !.generation = s.generation + 1, !.timer = 0]

\* Plausible bug: no timer once a call has been connected on this transport.
ArmTimerOnce(s) ==
  LET c == ClearTimer(s)
  IN  IF s.using_fallback \/ s.switching \/ s.session.is_connected THEN c
      ELSE [c EXCEPT !.timer = c.generation]

ArmTimer(s) ==
  LET c == ClearTimer(s)
  IN  IF s.using_fallback \/ s.switching \/ s.primary_connected THEN c
      ELSE [c EXCEPT !.timer = c.generation]

\* RoundMediaSession: the listeners.
TellConnected(s) ==
  [s EXCEPT !.session = [is_connected |-> TRUE, is_degraded |-> FALSE]]
TellDegraded(s) ==
  [s EXCEPT !.session = [s.session EXCEPT !.is_degraded = TRUE],
            !.told = TRUE]
TellFailed(s) ==
  [s EXCEPT !.session = [s.session EXCEPT !.is_connected = FALSE],
            !.told = TRUE]

\* Plausible bug: the CONNECTED of a relay is not passed on.
ForwardConnectedPrimaryOnly(s) ==
  IF s.bound
  THEN LET c == ClearTimer([s EXCEPT !.primary_connected = ~s.using_fallback])
       IN  IF s.using_fallback THEN c ELSE TellConnected(c)
  ELSE s

\* The forwarder of CONNECTED.
ForwardConnected(s) ==
  IF s.bound
  THEN TellConnected(ClearTimer(
         [s EXCEPT !.primary_connected = ~s.using_fallback]))
  ELSE s

\* _attach_shared_tracks: SharedLocalMedia.acquire.
AcquireMedia(s) ==
  IF s.live THEN s
  ELSE [s EXCEPT !.live = TRUE, !.acquired = s.acquired + 1]

\* preconnect, open, switch_partner, abandon and leave of _LifecycleAdapter.
AdapterPreconnect(s, r, p) ==
  AcquireMedia(SetActive(s,
    [state |-> "preconnected", room |-> r, partner |-> p, muted |-> TRUE,
     peer |-> TRUE, connected |-> FALSE]))

AdapterOpen(s, instant) ==
  LET up == instant \/ Active(s).connected
      o == SetActive(s, [Active(s) EXCEPT !.state = "open", !.muted = FALSE,
                                          !.connected = up])
  IN  IF up THEN ForwardConnected(o) ELSE o

AdapterSwitchPartner(s, r, p, instant) ==
  LET o == AcquireMedia(SetActive(s,
             [state |-> "open", room |-> r, partner |-> p, muted |-> FALSE,
              peer |-> TRUE, connected |-> instant]))
  IN  IF instant THEN ForwardConnected(o) ELSE o

AdapterAbandon(s) ==
  SetActive(s, [Active(s) EXCEPT !.peer = FALSE, !.connected = FALSE,
                                 !.state = "closed"])

AdapterLeave(s) ==
  AdapterAbandon(SetActive(s, [Active(s) EXCEPT !.room = None,
                                 !.partner = None, !.muted = TRUE]))

\* Plausible bug: the old adapter is unbound but its peer is left open.
CloseActiveUnbindOnly(s) == [s EXCEPT !.bound = FALSE]

\* _close_active_keep_media.
CloseActive(s) == AdapterAbandon([s EXCEPT !.bound = FALSE])

\* _activate_fallback up to the emission of DEGRADED.
MayActivate(s) ==
  /\ ~s.switching
  /\ ~s.using_fallback
  /\ fallback_allowed_for_room(Active(s).room)

StartSwitch(s) == TellDegraded([ClearTimer(s) EXCEPT !.switching = TRUE])

\* Plausible bug: the call is not opened again on the fallback.
FinishSwitchClosed(s, r, p, was_open, instant) ==
  LET closed == CloseActive(s)
      relay == [closed EXCEPT !.adapter = [closed.adapter EXCEPT
                                             !["relay"] = NewAdapter],
                  !.active = "relay", !.using_fallback = TRUE,
                  !.primary_connected = FALSE, !.bound = TRUE]
  IN  [AdapterPreconnect(relay, r, p) EXCEPT !.switching = FALSE]

\* _activate_fallback, the rest: a fresh relay takes over the call that was
\* current when the switch began.
FinishSwitch(s, r, p, was_open, instant) ==
  LET closed == CloseActive(s)
      relay == [closed EXCEPT !.adapter = [closed.adapter EXCEPT
                                             !["relay"] = NewAdapter],
                  !.active = "relay", !.using_fallback = TRUE,
                  !.primary_connected = FALSE, !.bound = TRUE]
      ready == AdapterPreconnect(relay, r, p)
  IN  [(IF was_open THEN AdapterOpen(ready, instant) ELSE ready)
         EXCEPT !.switching = FALSE]

\* _activate_fallback in one go, on the caller's thread.
Activate(s, instant) ==
  FinishSwitch(StartSwitch(s), Active(s).room, Active(s).partner,
               Active(s).state = "open", instant)

\* Plausible bug: the fallback stays for the rest of the event.
RestorePrimaryNever(s, r) == s

RestorePrimaryIfNeeded(s, r) ==
  IF s.using_fallback /\ ~fallback_allowed_for_room(r)
  THEN [CloseActive(ClearTimer(s)) EXCEPT
          !.active = "direct", !.using_fallback = FALSE,
          !.primary_connected = FALSE, !.bound = TRUE]
  ELSE s

-----------------------------------------------------------------------------
(* The caller's thread *)

Raced == IF thread.pc \in {"handle", "switch"} THEN "raced" ELSE fault

\* An operation of the caller begins, and turns t into s.
Call(s) ==
  /\ caller.pc = "idle"
  /\ calls < MaxCalls
  /\ calls' = calls + 1
  /\ t' = s
  /\ fault' = Raced
  /\ UNCHANGED <<thread, failures>>

\* preconnect and switch_partner, until they reach for self._active.
BeginCall(op, r, p) ==
  /\ Call(RestorePrimaryIfNeeded(
       [ClearTimer(t) EXCEPT !.primary_connected = FALSE, !.told = FALSE], r))
  /\ caller' = [pc |-> op, room |-> r, partner |-> p]

preconnect(r, p) == BeginCall("preconnect", r, p)

switch_partner(r, p) == BeginCall("switch", r, p)

\* They go on with whatever adapter is active now, and return.
EndCall(s) ==
  /\ t' = s
  /\ caller' = NoOperation
  /\ fault' = Raced
  /\ UNCHANGED <<thread, calls, failures>>

preconnect_ends ==
  /\ caller.pc = "preconnect"
  /\ EndCall(AdapterPreconnect(t, caller.room, caller.partner))

switch_partner_ends(instant) ==
  /\ caller.pc = "switch"
  /\ EndCall(ArmTimer(
       AdapterSwitchPartner(t, caller.room, caller.partner, instant)))

open(instant) ==
  /\ Call(ArmTimer(AdapterOpen([t EXCEPT !.primary_connected = FALSE],
                               instant)))
  /\ UNCHANGED caller

leave ==
  /\ Call([AdapterLeave([ClearTimer(t) EXCEPT !.bound = FALSE]) EXCEPT
             !.live = FALSE, !.releases = t.releases + 1,
             !.using_fallback = FALSE, !.primary_connected = FALSE])
  /\ UNCHANGED caller

\* A no-op unless the fallback may be activated.
force_fallback(instant) ==
  /\ caller.pc = "idle"
  /\ MayActivate(t)
  /\ t' = Activate(t, instant)
  /\ fault' = Raced
  /\ UNCHANGED <<caller, thread, calls, failures>>

\* The peer connection of the active adapter comes up.
AdapterConnects ==
  /\ caller.pc = "idle"
  /\ Active(t).state = "open" /\ Active(t).peer /\ ~Active(t).connected
  /\ t' = ForwardConnected(SetActive(t, [Active(t) EXCEPT !.connected = TRUE]))
  /\ fault' = Raced
  /\ UNCHANGED <<caller, thread, calls, failures>>

\* The active adapter emits FAILED: the forwarder clears the timer and
\* _on_active_failed switches to the fallback or passes the failure on.
AdapterFails(instant) ==
  LET down == SetActive(t, [Active(t) EXCEPT !.connected = FALSE])
      quiet == ClearTimer(down)
  IN  /\ caller.pc = "idle"
      /\ failures < MaxFailures
      /\ failures' = failures + 1
      /\ Active(t).peer
      /\ t' = IF ~t.bound THEN down
              ELSE IF MayActivate(quiet) THEN Activate(quiet, instant)
              ELSE TellFailed(quiet)
      /\ fault' = Raced
      /\ UNCHANGED <<caller, thread, calls>>

\* fallback_factory() raises inside _activate_fallback: the exception leaves
\* through the caller, and _switching stays set.
FactoryRaises ==
  /\ caller.pc = "idle"
  /\ MayActivate(t)
  /\ t' = CloseActive(StartSwitch(t))
  /\ fault' = IF Raced = "raced" THEN "raced" ELSE "broken"
  /\ UNCHANGED <<caller, thread, calls, failures>>

-----------------------------------------------------------------------------
(* The timer's thread *)

\* threading.Timer: the delay is over; cancel() comes too late from now on.
TimerFires ==
  /\ t.timer # 0
  /\ thread.pc = "idle"
  /\ thread' = [thread EXCEPT !.pc = "fired", !.gen = t.timer]
  /\ t' = [t EXCEPT !.timer = 0]
  /\ UNCHANGED <<caller, calls, failures, fault>>

\* _on_escalation_timeout: the guards.
TimeoutCheck ==
  /\ thread.pc = "fired"
  /\ thread' = IF \/ thread.gen # t.generation
                  \/ t.using_fallback \/ t.switching \/ t.primary_connected
               THEN NoThread ELSE [thread EXCEPT !.pc = "handle"]
  /\ UNCHANGED <<t, caller, calls, failures, fault>>

\* _handle_escalation_timeout: no fallback for this room, or it refuses.
TimeoutGivesUp ==
  /\ thread.pc = "handle"
  /\ ~MayActivate(t)
  /\ t' = TellFailed(TellDegraded(t))
  /\ thread' = NoThread
  /\ UNCHANGED <<caller, calls, failures, fault>>

\* _handle_escalation_timeout: the switch begins for the room it reads now.
TimeoutStartsSwitch ==
  /\ thread.pc = "handle"
  /\ MayActivate(t)
  /\ t' = StartSwitch(t)
  /\ thread' = [pc |-> "switch", gen |-> 0, room |-> Active(t).room,
                partner |-> Active(t).partner,
                was_open |-> Active(t).state = "open"]
  /\ UNCHANGED <<caller, calls, failures, fault>>

TimeoutFinishesSwitch(instant) ==
  /\ thread.pc = "switch"
  /\ t' = FinishSwitch(t, thread.room, thread.partner, thread.was_open, instant)
  /\ thread' = NoThread
  /\ UNCHANGED <<caller, calls, failures, fault>>

\* The factory raises; _on_escalation_timeout logs it.
TimeoutSwitchRaises ==
  /\ thread.pc = "switch"
  /\ t' = CloseActive(t)
  /\ thread' = NoThread
  /\ fault' = IF fault = "raced" THEN "raced" ELSE "broken"
  /\ UNCHANGED <<caller, calls, failures>>

TimerThread ==
  \/ TimerFires \/ TimeoutCheck \/ TimeoutGivesUp \/ TimeoutStartsSwitch
  \/ \E instant \in BOOLEAN : TimeoutFinishesSwitch(instant)

CallerGoesOn ==
  preconnect_ends \/ \E instant \in BOOLEAN : switch_partner_ends(instant)

Next ==
  \/ \E r \in Room, p \in Partner : preconnect(r, p) \/ switch_partner(r, p)
  \/ CallerGoesOn
  \/ \E instant \in BOOLEAN :
       open(instant) \/ force_fallback(instant) \/ AdapterFails(instant)
  \/ leave
  \/ AdapterConnects
  \/ FactoryRaises
  \/ TimerThread
  \/ TimeoutSwitchRaises

\* Both threads are scheduled: a callback runs on, and so does an operation
\* that has begun.  Nothing else is promised.
Spec == Init /\ [][Next]_vars /\ WF_vars(TimerThread) /\ WF_vars(CallerGoesOn)

-----------------------------------------------------------------------------
(* Properties *)

\* What a caller sees of the transport.  In the middle of an operation it is
\* the call the operation asks for; while a callback replaces the adapter it
\* is the call the callback is carrying over.
View ==
  IF caller.pc # "idle"
  THEN [state |-> IF caller.pc = "switch" THEN "open" ELSE "preconnected",
        room |-> caller.room, partner |-> caller.partner,
        muted |-> caller.pc = "preconnect"]
  ELSE IF thread.pc = "switch"
  THEN [state |-> IF thread.was_open THEN "open" ELSE "preconnected",
        room |-> thread.room, partner |-> thread.partner,
        muted |-> ~thread.was_open]
  ELSE [state |-> Active(t).state, room |-> Active(t).room,
        partner |-> Active(t).partner, muted |-> Active(t).muted]

Contract == INSTANCE MediaTransport WITH
  state <- View.state, room <- View.room, partner <- View.partner,
  muted <- View.muted, ops <- calls

(***************************************************************************)
(* "Callers depend only on MediaTransport" (FailoverMediaTransport): the   *)
(* transport implements the contract.  Timeouts, failures of the primary,  *)
(* forced fallbacks and the return to the primary are invisible in state,  *)
(* call and muting, which only the caller's operations change, as long as  *)
(* none of them overtakes a running callback and the fallback can be       *)
(* built.                                                                  *)
(***************************************************************************)
ImplementsContract ==
  /\ Contract!Init
  /\ [][Contract!Next \/ fault' # "none"]_(Contract!vars)

(***************************************************************************)
(* "Pair-scoped primary->fallback switch": the relay carries a call only   *)
(* in the selected room, whatever timers, failures, failed fallbacks and   *)
(* partner switches happened, as long as nothing came between the guards   *)
(* and the effect of a callback.  Without that condition it is false: a    *)
(* callback that replaces the adapter between the two steps of             *)
(* switch_partner puts the new room on the relay.  A transport that was    *)
(* left and is used again is not bound to its adapter and is not covered.  *)
(***************************************************************************)
PairScoped ==
  fault # "raced" /\ t.bound /\ t.active = "relay" => Active(t).room = Selected

(***************************************************************************)
(* "Close this adapter's peer without releasing shared camera/mic tracks": *)
(* there is at most one peer connection, the active adapter's, and between *)
(* operations camera and microphone are on exactly while there is one;     *)
(* they are acquired at most once between two leaves.                      *)
(***************************************************************************)
CameraFollowsPeer ==
  fault = "none" =>
    /\ \A k \in Kind : t.adapter[k].peer => k = t.active
    /\ caller.pc = "idle" => (t.live <=> Active(t).peer)
    /\ t.acquired <= t.releases + 1

(***************************************************************************)
(* A call that is up is never taken for a failed one: while the active     *)
(* adapter is connected the session says so, and no pending timer can      *)
(* escalate it.                                                            *)
(***************************************************************************)
ConnectedIsReported ==
  t.bound /\ fault = "none" /\ Active(t).connected =>
    /\ t.session.is_connected /\ ~t.session.is_degraded
    /\ t.timer = 0
    /\ thread.pc \in {"idle", "fired"}

(***************************************************************************)
(* The escalation timer keeps an unconnected call from hanging silently: a *)
(* call opened on the primary connects, or the session is told of trouble, *)
(* or the caller moves on, unless an operation overtook a callback.        *)
(***************************************************************************)
NoSilentCall ==
  (t.bound /\ t.active = "direct" /\ Active(t).state = "open"
     /\ ~Active(t).connected)
  ~> (\/ Active(t).connected \/ t.told
      \/ ~t.bound \/ Active(t).state # "open" \/ fault # "none")

=============================================================================
