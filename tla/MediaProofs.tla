------------------------------ MODULE MediaProofs ------------------------------
(***************************************************************************)
(* Proofs about the media of a call.                                       *)
(*                                                                         *)
(* FailoverTransport, for every set of rooms and partners, every selected  *)
(* room and every interleaving of the caller, the adapters and the         *)
(* escalation timer: the relay stays in its room, camera and peer go       *)
(* together, a connected call is known to be connected, and the transport  *)
(* implements the contract of MediaTransport.                              *)
(*                                                                         *)
(* PerfectNegotiation, for any number of offers, interruptions and lost    *)
(* sockets: colliding offers are resolved, and no answer comes without the *)
(* offer it belongs to.                                                    *)
(***************************************************************************)
EXTENDS FailoverTransport, PerfectNegotiation, SequenceTheorems, TLAPS


-----------------------------------------------------------------------------
(* The inductive invariant, as predicates on the transport *)

\* A relay whose events are forwarded is the fallback, in the selected room.
Scoped(s) ==
  s.bound /\ s.active = "relay" => s.using_fallback /\ Active(s).room = Selected

\* Nothing is left of a call on this adapter.
Down(a) == ~a.peer /\ ~a.connected

\* Only the active adapter has a peer, and no acquisition of the media goes
\* without a release before the next.
Peers(s) ==
  /\ \A k \in Kind : k # s.active => Down(s.adapter[k])
  /\ s.acquired <= IF s.live THEN s.releases + 1 ELSE s.releases

\* Besides, the media is acquired exactly while there is a peer.
Camera(s) == Peers(s) /\ (s.live <=> Active(s).peer)

\* The active adapter is in a call or has no room, and sends exactly when it
\* is open.
Shape(s) ==
  /\ Active(s).muted <=> Active(s).state # "open"
  /\ Active(s).state \in {"open", "preconnected"} \/ Active(s).room = None

\* A connection of the active adapter is known to the session and to the timer.
Reported(s) ==
  s.bound /\ Active(s).connected =>
    s.session.is_connected /\ ~s.session.is_degraded /\ s.timer = 0

\* A transport between operations, and one in the middle of an operation that
\* has chosen the adapter and not yet begun the call.
Good(s) == Camera(s) /\ Shape(s) /\ Reported(s)
Half(s) == Peers(s) /\ Reported(s)

\* A timer belongs to the current generation or to an earlier one; since a
\* connection began a new one, no callback that fired before can go on.
TimersAreOld ==
  /\ t.timer <= t.generation /\ thread.gen <= t.generation
  /\ fault = "none" /\ t.bound /\ Active(t).connected =>
       \/ thread.pc = "idle"
       \/ thread.pc = "fired" /\ thread.gen < t.generation

\* In the middle of an operation no timer is pending and no callback can go
\* on, and a relay that is bound is the one for the new call.
MidOperation ==
  caller.pc # "idle" =>
    /\ caller.room \in Room /\ caller.partner \in Partner
    /\ fault # "raced" =>
         /\ t.timer = 0
         /\ \/ thread.pc = "idle"
            \/ thread.pc = "fired" /\ thread.gen < t.generation
         /\ t.bound /\ t.active = "relay" => caller.room = Selected

IInv ==
  /\ TypeOK /\ TimersAreOld /\ MidOperation
  /\ thread.pc = "switch" => thread.room = Selected
  /\ fault # "raced" => Scoped(t)
  /\ fault = "none" => Half(t)
  /\ fault = "none" /\ caller.pc = "idle" => Good(t)

-----------------------------------------------------------------------------
(* What the pieces of the operations do to each field *)

\* Two transports that agree on a group of fields.
SameAdapters(u, s) == u.adapter = s.adapter /\ u.active = s.active
SameRoute(u, s) ==
  /\ u.using_fallback = s.using_fallback /\ u.switching = s.switching
  /\ u.bound = s.bound
SamePrimary(u, s) == u.primary_connected = s.primary_connected
SameTimer(u, s) == u.generation = s.generation /\ u.timer = s.timer
SameMedia(u, s) ==
  u.live = s.live /\ u.acquired = s.acquired /\ u.releases = s.releases
SameSession(u, s) == u.session = s.session

(* The active adapter of a transport is an adapter.                         *)
LEMMA ActiveIsAdapter ==
  ASSUME NEW s \in Transport
  PROVE  /\ s.active \in Kind /\ Active(s) \in Adapter
         /\ s.adapter \in [Kind -> Adapter]
BY DEF Transport, Active

(* Replacing the active adapter.                                            *)
LEMMA SetActiveFields ==
  ASSUME NEW s \in Transport, NEW a \in Adapter
  PROVE  LET u == SetActive(s, a)
         IN  /\ u \in Transport
             /\ Active(u) = a /\ u.active = s.active
             /\ \A k \in Kind : k # s.active => u.adapter[k] = s.adapter[k]
             /\ SameRoute(u, s) /\ SamePrimary(u, s) /\ SameTimer(u, s)
             /\ SameMedia(u, s) /\ SameSession(u, s)
BY DEF Transport, SetActive, Active, SameRoute, SamePrimary, SameTimer,
       SameMedia, SameSession

(* Cancelling the timer begins a new generation.                            *)
LEMMA ClearTimerFields ==
  ASSUME NEW s \in Transport
  PROVE  LET u == ClearTimer(s)
         IN  /\ u \in Transport
             /\ u.generation = s.generation + 1 /\ u.timer = 0
             /\ SameAdapters(u, s) /\ SameRoute(u, s) /\ SamePrimary(u, s)
             /\ SameMedia(u, s) /\ SameSession(u, s)
<1>1. s.generation \in Nat /\ s.generation + 1 \in Nat
  BY DEF Transport
<1>2. ClearTimer(s) \in Transport
  BY <1>1 DEF Transport, ClearTimer
<1>3. ClearTimer(s).generation = s.generation + 1 /\ ClearTimer(s).timer = 0
  BY DEF Transport, ClearTimer
<1>4. QED
  BY <1>2, <1>3 DEF Transport, ClearTimer, SameAdapters, SameRoute,
                    SamePrimary, SameMedia, SameSession

(* Arming it too; there is no timer for a fallback or a connected primary.  *)
LEMMA ArmTimerFields ==
  ASSUME NEW s \in Transport
  PROVE  LET u == ArmTimer(s)
         IN  /\ u \in Transport
             /\ u.generation = s.generation + 1 /\ u.timer <= u.generation
             /\ s.using_fallback \/ s.primary_connected => u.timer = 0
             /\ SameAdapters(u, s) /\ SameRoute(u, s) /\ SamePrimary(u, s)
             /\ SameMedia(u, s) /\ SameSession(u, s)
<1> DEFINE c == ClearTimer(s)
<1>1. /\ c \in Transport /\ c.generation = s.generation + 1 /\ c.timer = 0
      /\ SameAdapters(c, s) /\ SameRoute(c, s) /\ SamePrimary(c, s)
      /\ SameMedia(c, s) /\ SameSession(c, s)
  BY ClearTimerFields
<1> HIDE DEF c
<1>2. ArmTimer(s) = IF s.using_fallback \/ s.switching \/ s.primary_connected
                    THEN c ELSE [c EXCEPT !.timer = c.generation]
  BY DEF ArmTimer, c
<1>3. QED
  BY <1>1, <1>2 DEF Transport, SameAdapters, SameRoute, SamePrimary,
                    SameMedia, SameSession

(* The CONNECTED of a bound adapter reaches the session and stops the timer.*)
LEMMA ForwardConnectedFields ==
  ASSUME NEW s \in Transport
  PROVE  LET u == ForwardConnected(s)
         IN  /\ u \in Transport
             /\ SameAdapters(u, s) /\ SameRoute(u, s) /\ SameMedia(u, s)
             /\ ~s.bound => u = s
             /\ s.bound => /\ u.generation = s.generation + 1 /\ u.timer = 0
                           /\ u.primary_connected = ~s.using_fallback
                           /\ u.session.is_connected /\ ~u.session.is_degraded
<1>1. CASE ~s.bound
  BY <1>1 DEF ForwardConnected, SameAdapters, SameRoute, SameMedia
<1>2. CASE s.bound
  <2> DEFINE v == [s EXCEPT !.primary_connected = ~s.using_fallback]
             c == ClearTimer(v)
  <2>1. /\ v \in Transport /\ v.primary_connected = ~s.using_fallback
        /\ SameAdapters(v, s) /\ SameRoute(v, s) /\ SameTimer(v, s)
        /\ SameMedia(v, s)
    BY DEF Transport, SameAdapters, SameRoute, SameTimer, SameMedia
  <2> HIDE DEF v
  <2>2. /\ c \in Transport /\ c.generation = v.generation + 1 /\ c.timer = 0
        /\ SameAdapters(c, v) /\ SameRoute(c, v) /\ SamePrimary(c, v)
        /\ SameMedia(c, v)
    BY <2>1, ClearTimerFields
  <2> HIDE DEF c
  <2>3. ForwardConnected(s) =
          [c EXCEPT !.session = [is_connected |-> TRUE, is_degraded |-> FALSE]]
    BY <1>2 DEF ForwardConnected, TellConnected, v, c
  <2> DEFINE u == ForwardConnected(s)
  <2>4. u \in Transport
    <3>1. [is_connected |-> TRUE, is_degraded |-> FALSE]
            \in [is_connected : BOOLEAN, is_degraded : BOOLEAN]
      OBVIOUS
    <3>2. ASSUME NEW x \in [is_connected : BOOLEAN, is_degraded : BOOLEAN]
          PROVE  [c EXCEPT !.session = x] \in Transport
      BY <2>2 DEF Transport
    <3>3. QED
      BY <2>3, <3>1, <3>2
  <2>5. /\ u.session = [is_connected |-> TRUE, is_degraded |-> FALSE]
        /\ SameAdapters(u, c) /\ SameRoute(u, c) /\ SamePrimary(u, c)
        /\ SameTimer(u, c) /\ SameMedia(u, c)
    BY <2>2, <2>3
    DEF Transport, SameAdapters, SameRoute, SamePrimary, SameTimer, SameMedia
  <2>6. u.session.is_connected /\ ~u.session.is_degraded
    BY <2>5
  <2> HIDE DEF u
  <2>7. QED
    BY <1>2, <2>1, <2>2, <2>4, <2>5, <2>6
    DEF u, SameAdapters, SameRoute, SamePrimary, SameTimer, SameMedia
<1>3. QED
  BY <1>1, <1>2 DEF Transport

(* The media is live afterwards, and acquired once more if it was not.      *)
LEMMA AcquireMediaFields ==
  ASSUME NEW s \in Transport
  PROVE  LET u == AcquireMedia(s)
         IN  /\ u \in Transport
             /\ u.live /\ u.releases = s.releases
             /\ u.acquired = IF s.live THEN s.acquired ELSE s.acquired + 1
             /\ SameAdapters(u, s) /\ SameRoute(u, s) /\ SamePrimary(u, s)
             /\ SameTimer(u, s) /\ SameSession(u, s)
<1> DEFINE u == AcquireMedia(s)
<1>1. s.acquired \in Nat /\ s.acquired + 1 \in Nat /\ s.live \in BOOLEAN
  BY DEF Transport
<1>2. CASE s.live
  BY <1>1, <1>2
  DEF AcquireMedia, SameAdapters, SameRoute, SamePrimary, SameTimer, SameSession
<1>3. CASE ~s.live
  <2>1. u = [s EXCEPT !.live = TRUE, !.acquired = s.acquired + 1]
    BY <1>3 DEF AcquireMedia
  <2> HIDE DEF u
  <2>2. u \in Transport
    BY <1>1, <2>1 DEF Transport
  <2>3. u.live = TRUE /\ u.acquired = s.acquired + 1
    BY <2>1 DEF Transport
  <2>4. QED
    BY <1>3, <2>1, <2>2, <2>3
    DEF u, Transport, SameAdapters, SameRoute, SamePrimary, SameTimer, SameSession
<1>4. QED
  BY <1>2, <1>3

(* Telling the session of trouble changes nothing but the session.          *)
LEMMA TellFields ==
  ASSUME NEW s \in Transport
  PROVE  \A u \in {TellDegraded(s), TellFailed(s)} :
           /\ u \in Transport
           /\ SameAdapters(u, s) /\ SameRoute(u, s) /\ SamePrimary(u, s)
           /\ SameTimer(u, s) /\ SameMedia(u, s)
<1>1. s.session \in [is_connected : BOOLEAN, is_degraded : BOOLEAN]
  BY DEF Transport
<1>2. /\ [s.session EXCEPT !.is_degraded = TRUE]
           \in [is_connected : BOOLEAN, is_degraded : BOOLEAN]
      /\ [s.session EXCEPT !.is_connected = FALSE]
           \in [is_connected : BOOLEAN, is_degraded : BOOLEAN]
  BY <1>1
<1>3. TellDegraded(s) \in Transport /\ TellFailed(s) \in Transport
  BY <1>2 DEF Transport, TellDegraded, TellFailed
<1>4. QED
  BY <1>3 DEF Transport, TellDegraded, TellFailed, SameAdapters, SameRoute,
              SamePrimary, SameTimer, SameMedia

-----------------------------------------------------------------------------
(* What the operations of an adapter do to each field *)

(* preconnect: a new peer for the call, muted, with live media.             *)
LEMMA AdapterPreconnectFields ==
  ASSUME NEW s \in Transport, NEW r \in Room \cup {None},
         NEW p \in Partner \cup {None}
  PROVE  LET u == AdapterPreconnect(s, r, p)
         IN  /\ u \in Transport /\ u.active = s.active
             /\ Active(u) = [state |-> "preconnected", room |-> r, partner |-> p,
                             muted |-> TRUE, peer |-> TRUE, connected |-> FALSE]
             /\ \A k \in Kind : k # s.active => u.adapter[k] = s.adapter[k]
             /\ u.live /\ u.releases = s.releases
             /\ u.acquired = IF s.live THEN s.acquired ELSE s.acquired + 1
             /\ SameRoute(u, s) /\ SamePrimary(u, s) /\ SameTimer(u, s)
             /\ SameSession(u, s)
<1> DEFINE a == [state |-> "preconnected", room |-> r, partner |-> p,
                 muted |-> TRUE, peer |-> TRUE, connected |-> FALSE]
           v == SetActive(s, a)
<1>1. a \in Adapter
  BY DEF Adapter, State
<1> HIDE DEF a
<1>2. /\ v \in Transport
      /\ Active(v) = a /\ v.active = s.active
      /\ \A k \in Kind : k # s.active => v.adapter[k] = s.adapter[k]
      /\ SameRoute(v, s) /\ SamePrimary(v, s) /\ SameTimer(v, s)
      /\ SameMedia(v, s) /\ SameSession(v, s)
  BY <1>1, SetActiveFields
<1> DEFINE u == AcquireMedia(v)
<1>3. AdapterPreconnect(s, r, p) = u
  BY DEF AdapterPreconnect, a
<1> HIDE DEF v
<1>4. /\ u \in Transport /\ u.live /\ u.releases = v.releases
      /\ u.acquired = IF v.live THEN v.acquired ELSE v.acquired + 1
      /\ SameAdapters(u, v) /\ SameRoute(u, v) /\ SamePrimary(u, v)
      /\ SameTimer(u, v) /\ SameSession(u, v)
  BY <1>2, AcquireMediaFields
<1> HIDE DEF u
<1>5. Active(u) = a
  BY <1>2, <1>4 DEF Active, SameAdapters
<1>6. QED
  BY <1>2, <1>3, <1>4, <1>5
  DEF a, SameAdapters, SameRoute, SamePrimary, SameTimer, SameMedia, SameSession

(* open: the call is sent; if its peer is up, CONNECTED is emitted.         *)
LEMMA AdapterOpenFields ==
  ASSUME NEW s \in Transport, NEW instant \in BOOLEAN
  PROVE  LET u == AdapterOpen(s, instant)
             up == instant \/ Active(s).connected
         IN  /\ u \in Transport /\ u.active = s.active
             /\ Active(u) = [Active(s) EXCEPT !.state = "open", !.muted = FALSE,
                                              !.connected = up]
             /\ \A k \in Kind : k # s.active => u.adapter[k] = s.adapter[k]
             /\ SameRoute(u, s) /\ SameMedia(u, s)
             /\ s.generation <= u.generation /\ (u.timer = s.timer \/ u.timer = 0)
             /\ up /\ s.bound =>
                  /\ u.primary_connected = ~s.using_fallback /\ u.timer = 0
                  /\ u.session.is_connected /\ ~u.session.is_degraded
<1> DEFINE up == instant \/ Active(s).connected
           a == [Active(s) EXCEPT !.state = "open", !.muted = FALSE,
                                  !.connected = up]
           o == SetActive(s, a)
<1>0. s.generation \in Nat
  BY DEF Transport
<1>1. a \in Adapter /\ up \in BOOLEAN
  BY ActiveIsAdapter DEF Adapter, State
<1> HIDE DEF a, up
<1>2. /\ o \in Transport
      /\ Active(o) = a /\ o.active = s.active
      /\ \A k \in Kind : k # s.active => o.adapter[k] = s.adapter[k]
      /\ SameRoute(o, s) /\ SamePrimary(o, s) /\ SameTimer(o, s)
      /\ SameMedia(o, s) /\ SameSession(o, s)
  BY <1>1, SetActiveFields
<1> DEFINE u == IF up THEN ForwardConnected(o) ELSE o
<1>3. AdapterOpen(s, instant) = u
  BY DEF AdapterOpen, a, up
<1> HIDE DEF o
<1>4. CASE ~up
  BY <1>0, <1>2, <1>3, <1>4
  DEF a, up, SameRoute, SamePrimary, SameTimer, SameMedia, SameSession
<1>5. CASE up
  <2> DEFINE f == ForwardConnected(o)
  <2>1. /\ f \in Transport
        /\ SameAdapters(f, o) /\ SameRoute(f, o) /\ SameMedia(f, o)
        /\ ~o.bound => f = o
        /\ o.bound => /\ f.generation = o.generation + 1 /\ f.timer = 0
                      /\ f.primary_connected = ~o.using_fallback
                      /\ f.session.is_connected /\ ~f.session.is_degraded
    BY <1>2, ForwardConnectedFields
  <2>2. u = f
    BY <1>5
  <2> HIDE DEF f, u
  <2>3. Active(f) = a /\ f.active = s.active
    BY <1>2, <2>1 DEF Active, SameAdapters
  <2>4. /\ \A k \in Kind : k # s.active => f.adapter[k] = s.adapter[k]
        /\ SameRoute(f, s) /\ SameMedia(f, s)
    BY <1>2, <2>1 DEF SameAdapters, SameRoute, SameMedia
  <2>5. s.generation <= f.generation /\ (f.timer = s.timer \/ f.timer = 0)
    BY <1>0, <1>2, <2>1 DEF SameTimer
  <2>6. s.bound => /\ f.primary_connected = ~s.using_fallback /\ f.timer = 0
                   /\ f.session.is_connected /\ ~f.session.is_degraded
    BY <1>2, <2>1 DEF SameRoute
  <2>7. QED
    BY <1>3, <2>1, <2>2, <2>3, <2>4, <2>5, <2>6 DEF a, up
<1>6. QED
  BY <1>4, <1>5

(* switch_partner: a new peer for the new call, sent at once.               *)
LEMMA AdapterSwitchFields ==
  ASSUME NEW s \in Transport, NEW r \in Room, NEW p \in Partner,
         NEW instant \in BOOLEAN
  PROVE  LET u == AdapterSwitchPartner(s, r, p, instant)
         IN  /\ u \in Transport /\ u.active = s.active
             /\ Active(u) = [state |-> "open", room |-> r, partner |-> p,
                             muted |-> FALSE, peer |-> TRUE,
                             connected |-> instant]
             /\ \A k \in Kind : k # s.active => u.adapter[k] = s.adapter[k]
             /\ u.live /\ u.releases = s.releases
             /\ u.acquired = IF s.live THEN s.acquired ELSE s.acquired + 1
             /\ SameRoute(u, s)
             /\ s.generation <= u.generation /\ (u.timer = s.timer \/ u.timer = 0)
             /\ instant /\ s.bound =>
                  /\ u.primary_connected = ~s.using_fallback /\ u.timer = 0
                  /\ u.session.is_connected /\ ~u.session.is_degraded
<1> DEFINE a == [state |-> "open", room |-> r, partner |-> p, muted |-> FALSE,
                 peer |-> TRUE, connected |-> instant]
           v == SetActive(s, a)
           o == AcquireMedia(v)
<1>0. s.generation \in Nat
  BY DEF Transport
<1>1. a \in Adapter
  BY DEF Adapter, State
<1> HIDE DEF a
<1>2. /\ v \in Transport
      /\ Active(v) = a /\ v.active = s.active
      /\ \A k \in Kind : k # s.active => v.adapter[k] = s.adapter[k]
      /\ SameRoute(v, s) /\ SamePrimary(v, s) /\ SameTimer(v, s)
      /\ SameMedia(v, s) /\ SameSession(v, s)
  BY <1>1, SetActiveFields
<1> DEFINE u == IF instant THEN ForwardConnected(o) ELSE o
<1>3. AdapterSwitchPartner(s, r, p, instant) = u
  BY DEF AdapterSwitchPartner, a
<1> HIDE DEF v
<1>4. /\ o \in Transport /\ o.live /\ o.releases = v.releases
      /\ o.acquired = IF v.live THEN v.acquired ELSE v.acquired + 1
      /\ SameAdapters(o, v) /\ SameRoute(o, v) /\ SamePrimary(o, v)
      /\ SameTimer(o, v) /\ SameSession(o, v)
  BY <1>2, AcquireMediaFields
<1> HIDE DEF o
<1>5. /\ Active(o) = a /\ o.active = s.active
      /\ \A k \in Kind : k # s.active => o.adapter[k] = s.adapter[k]
      /\ o.releases = s.releases
      /\ o.acquired = IF s.live THEN s.acquired ELSE s.acquired + 1
      /\ SameRoute(o, s) /\ SameTimer(o, s)
  BY <1>2, <1>4
  DEF Active, SameAdapters, SameRoute, SameTimer, SameMedia
<1>6. CASE ~instant
  BY <1>0, <1>3, <1>4, <1>5, <1>6 DEF a, SameTimer
<1>7. CASE instant
  <2> DEFINE f == ForwardConnected(o)
  <2>1. /\ f \in Transport
        /\ SameAdapters(f, o) /\ SameRoute(f, o) /\ SameMedia(f, o)
        /\ ~o.bound => f = o
        /\ o.bound => /\ f.generation = o.generation + 1 /\ f.timer = 0
                      /\ f.primary_connected = ~o.using_fallback
                      /\ f.session.is_connected /\ ~f.session.is_degraded
    BY <1>4, ForwardConnectedFields
  <2>2. u = f
    BY <1>7
  <2> HIDE DEF f, u
  <2>3. Active(f) = a /\ f.active = s.active
    BY <1>5, <2>1 DEF Active, SameAdapters
  <2>4. /\ \A k \in Kind : k # s.active => f.adapter[k] = s.adapter[k]
        /\ SameRoute(f, s) /\ f.live /\ f.releases = s.releases
        /\ f.acquired = IF s.live THEN s.acquired ELSE s.acquired + 1
    BY <1>4, <1>5, <2>1 DEF SameAdapters, SameRoute, SameMedia
  <2>5. s.generation <= f.generation /\ (f.timer = s.timer \/ f.timer = 0)
    BY <1>0, <1>5, <2>1 DEF SameTimer
  <2>6. s.bound => /\ f.primary_connected = ~s.using_fallback /\ f.timer = 0
                   /\ f.session.is_connected /\ ~f.session.is_degraded
    BY <1>5, <2>1 DEF SameRoute
  <2>7. QED
    BY <1>3, <2>1, <2>2, <2>3, <2>4, <2>5, <2>6 DEF a
<1>8. QED
  BY <1>6, <1>7

(* _close_active_keep_media: the peer is closed, its events are not heard   *)
(* any more, and camera and microphone stay.                                *)
LEMMA CloseActiveFields ==
  ASSUME NEW s \in Transport
  PROVE  LET u == CloseActive(s)
         IN  /\ u \in Transport /\ u.active = s.active
             /\ Active(u) = [Active(s) EXCEPT !.peer = FALSE, !.connected = FALSE,
                                              !.state = "closed"]
             /\ \A k \in Kind : k # s.active => u.adapter[k] = s.adapter[k]
             /\ ~u.bound /\ u.using_fallback = s.using_fallback
             /\ u.switching = s.switching
             /\ SamePrimary(u, s) /\ SameTimer(u, s) /\ SameMedia(u, s)
             /\ SameSession(u, s)
<1> DEFINE v == [s EXCEPT !.bound = FALSE]
           a == [Active(v) EXCEPT !.peer = FALSE, !.connected = FALSE,
                                  !.state = "closed"]
<1>1. /\ v \in Transport /\ v.bound = FALSE /\ v.using_fallback = s.using_fallback
      /\ v.switching = s.switching
      /\ SameAdapters(v, s) /\ SamePrimary(v, s) /\ SameTimer(v, s)
      /\ SameMedia(v, s) /\ SameSession(v, s)
  BY DEF Transport, SameAdapters, SamePrimary, SameTimer, SameMedia, SameSession
<1> HIDE DEF v
<1>2. a \in Adapter
  BY <1>1, ActiveIsAdapter DEF Adapter, State
<1>3. CloseActive(s) = SetActive(v, a)
  BY DEF CloseActive, AdapterAbandon, v
<1>4. Active(v) = Active(s)
  BY <1>1 DEF Active, SameAdapters
<1> DEFINE u == SetActive(v, a)
<1>5. /\ u \in Transport /\ Active(u) = a /\ u.active = v.active
      /\ \A k \in Kind : k # v.active => u.adapter[k] = v.adapter[k]
      /\ SameRoute(u, v) /\ SamePrimary(u, v) /\ SameTimer(u, v)
      /\ SameMedia(u, v) /\ SameSession(u, v)
  BY <1>1, <1>2, SetActiveFields
<1> HIDE DEF u
<1>6. QED
  BY <1>1, <1>3, <1>4, <1>5
  DEF u, SameAdapters, SameRoute, SamePrimary, SameTimer, SameMedia, SameSession

-----------------------------------------------------------------------------
(* What the operations of the transport do *)

\* What every operation and every event keeps, from transport s to u.
Kept(s, u) ==
  /\ u \in Transport
  /\ Scoped(s) => Scoped(u)
  /\ u.timer <= u.generation /\ s.generation <= u.generation
  /\ u.bound /\ Active(u).connected => s.generation < u.generation
  /\ Good(s) => Good(u)

\* What a caller sees of an adapter.
Seen(u, s) ==
  /\ Active(u).state = Active(s).state /\ Active(u).room = Active(s).room
  /\ Active(u).partner = Active(s).partner /\ Active(u).muted = Active(s).muted

\* The transport preconnect and switch_partner hand to the adapter.
Begun(s, r) ==
  RestorePrimaryIfNeeded([ClearTimer(s) EXCEPT !.primary_connected = FALSE,
                                               !.told = FALSE], r)

(* Beginning a call: the timer is cancelled, and a relay that stays bound   *)
(* is the fallback of a room that is the selected one.                      *)
LEMMA BegunFields ==
  ASSUME NEW s \in Transport, NEW r \in Room
  PROVE  LET u == Begun(s, r)
         IN  /\ u \in Transport
             /\ s.generation < u.generation /\ u.timer = 0
             /\ Scoped(s) /\ u.bound /\ u.active = "relay" =>
                  u.using_fallback /\ r = Selected
             /\ Scoped(s) => Scoped(u)
             /\ Half(s) => Half(u)
             /\ SameMedia(u, s)
<1> DEFINE v == ClearTimer(s)
           w == [v EXCEPT !.primary_connected = FALSE, !.told = FALSE]
<1>1. /\ v \in Transport
      /\ v.generation = s.generation + 1 /\ v.timer = 0
      /\ SameAdapters(v, s) /\ SameRoute(v, s)
      /\ SameMedia(v, s) /\ SameSession(v, s)
  BY ClearTimerFields
<1> HIDE DEF v
<1>2. /\ w \in Transport
      /\ w.generation = s.generation + 1 /\ w.timer = 0
      /\ SameAdapters(w, s) /\ SameRoute(w, s)
      /\ SameMedia(w, s) /\ SameSession(w, s)
  BY <1>1 DEF Transport, SameAdapters, SameRoute, SameMedia, SameSession
<1>3. Begun(s, r) = RestorePrimaryIfNeeded(w, r)
  BY DEF Begun, v
<1> HIDE DEF w
<1>4. CASE w.using_fallback /\ ~fallback_allowed_for_room(r)
  <2> DEFINE c0 == ClearTimer(w)
             c == CloseActive(c0)
             u == [c EXCEPT !.active = "direct", !.using_fallback = FALSE,
                            !.primary_connected = FALSE, !.bound = TRUE]
  <2>1. /\ c0 \in Transport /\ c0.generation = w.generation + 1 /\ c0.timer = 0
        /\ SameAdapters(c0, w) /\ SameMedia(c0, w) /\ SameSession(c0, w)
    BY <1>2, ClearTimerFields
  <2>2. Begun(s, r) = u
    BY <1>3, <1>4 DEF RestorePrimaryIfNeeded
  <2> HIDE DEF c0
  <2>3. /\ c \in Transport /\ c.active = c0.active
        /\ Active(c) = [Active(c0) EXCEPT !.peer = FALSE, !.connected = FALSE,
                                          !.state = "closed"]
        /\ \A k \in Kind : k # c0.active => c.adapter[k] = c0.adapter[k]
        /\ SameTimer(c, c0) /\ SameMedia(c, c0) /\ SameSession(c, c0)
    BY <2>1, CloseActiveFields
  <2>4. Active(c).peer = FALSE /\ Active(c).connected = FALSE
    BY <2>1, <2>3, ActiveIsAdapter DEF Adapter
  <2> HIDE DEF c
  <2>5. /\ u \in Transport /\ u.active = "direct" /\ u.adapter = c.adapter
        /\ SameTimer(u, c) /\ SameMedia(u, c) /\ SameSession(u, c)
    BY <2>3 DEF Transport, Kind, SameTimer, SameMedia, SameSession
  <2> HIDE DEF u
  <2>6. s.generation < u.generation /\ u.timer = 0
    <3>1. s.generation \in Nat /\ w.generation \in Nat
      BY <1>2 DEF Transport
    <3>2. QED
      BY <1>2, <2>1, <2>3, <2>5, <3>1 DEF SameTimer
  <2>7. ASSUME Half(s), NEW k \in Kind
        PROVE  Down(u.adapter[k])
    <3>1. c.active = s.active /\ c0.adapter = s.adapter /\ c0.active = s.active
      BY <1>2, <2>1, <2>3 DEF SameAdapters
    <3>2. CASE k = s.active
      BY <2>4, <2>5, <3>1, <3>2 DEF Active, Down
    <3>3. CASE k # s.active
      BY <2>3, <2>5, <2>7, <3>1, <3>3 DEF Half, Peers
    <3>4. QED
      BY <3>2, <3>3
  <2>8. SameMedia(u, s)
    BY <1>2, <2>1, <2>3, <2>5 DEF SameMedia
  <2>9. ASSUME Half(s)
        PROVE  Half(u)
    <3>1. ~Active(u).connected
      BY <2>5, <2>7, <2>9 DEF Active, Down, Kind
    <3>2. Peers(u)
      BY <2>7, <2>8, <2>9 DEF Half, Peers, SameMedia
    <3>3. QED
      BY <3>1, <3>2 DEF Half, Reported
  <2>10. Scoped(u)
    BY <2>5 DEF Scoped
  <2>11. QED
    BY <2>2, <2>5, <2>6, <2>8, <2>9, <2>10
<1>5. CASE ~(w.using_fallback /\ ~fallback_allowed_for_room(r))
  <2>1. Begun(s, r) = w
    BY <1>3, <1>5 DEF RestorePrimaryIfNeeded
  <2>2. w.bound /\ w.active = "relay" /\ Scoped(s)
          => w.using_fallback /\ r = Selected
    BY <1>2, <1>5 DEF Scoped, SameAdapters, SameRoute, fallback_allowed_for_room
  <2>3. Scoped(s) => Scoped(w)
    BY <1>2 DEF Scoped, SameAdapters, SameRoute, Active
  <2>4. Half(s) => Half(w)
    BY <1>2
    DEF Half, Peers, Reported, SameAdapters, SameRoute, SameMedia, SameSession,
        Active
  <2>5. s.generation < w.generation
    BY <1>2 DEF Transport
  <2>6. QED
    BY <1>2, <2>1, <2>2, <2>3, <2>4, <2>5
<1>6. QED
  BY <1>4, <1>5

\* An adapter that carries a call on as it was, open or preconnected.
Carries(a, r, p, was_open, up) ==
  /\ a.state = IF was_open THEN "open" ELSE "preconnected"
  /\ a.room = r /\ a.partner = p
  /\ a.muted <=> ~was_open
  /\ a.peer
  /\ a.connected <=> was_open /\ up

(* The relay takes the call over: from the selected room, muted or sending  *)
(* as the primary was, with a peer of its own and the media it finds.       *)
LEMMA FinishSwitchFields ==
  ASSUME NEW s \in Transport, NEW r \in Room \cup {None},
         NEW p \in Partner \cup {None}, NEW was_open \in BOOLEAN,
         NEW instant \in BOOLEAN
  PROVE  LET u == FinishSwitch(s, r, p, was_open, instant)
         IN  /\ u \in Transport
             /\ u.bound /\ u.active = "relay" /\ u.using_fallback
             /\ Carries(Active(u), r, p, was_open, instant)
             /\ (\A k \in Kind : k # s.active => Down(s.adapter[k]))
                  => Down(u.adapter["direct"])
             /\ u.live /\ u.releases = s.releases
             /\ u.acquired = IF s.live THEN s.acquired ELSE s.acquired + 1
             /\ s.generation <= u.generation /\ (u.timer = s.timer \/ u.timer = 0)
             /\ was_open /\ instant =>
                  /\ u.timer = 0
                  /\ u.session.is_connected /\ ~u.session.is_degraded
<1> DEFINE c == CloseActive(s)
           relay == [c EXCEPT !.adapter = [c.adapter EXCEPT !["relay"] = NewAdapter],
                              !.active = "relay", !.using_fallback = TRUE,
                              !.primary_connected = FALSE, !.bound = TRUE]
           ready == AdapterPreconnect(relay, r, p)
           o == IF was_open THEN AdapterOpen(ready, instant) ELSE ready
           u == [o EXCEPT !.switching = FALSE]
<1>0. s.generation \in Nat
  BY DEF Transport
<1>1. /\ c \in Transport /\ c.active = s.active
      /\ Active(c) = [Active(s) EXCEPT !.peer = FALSE, !.connected = FALSE,
                                       !.state = "closed"]
      /\ \A k \in Kind : k # s.active => c.adapter[k] = s.adapter[k]
      /\ SameTimer(c, s) /\ SameMedia(c, s)
  BY CloseActiveFields
<1>2. (\A k \in Kind : k # s.active => Down(s.adapter[k]))
        => Down(c.adapter["direct"])
  <2>1. "direct" \in Kind
    BY DEF Kind
  <2>2. CASE s.active = "direct"
    BY <1>1, <2>2, ActiveIsAdapter DEF Active, Adapter, Down
  <2>3. CASE s.active # "direct"
    BY <1>1, <2>1, <2>3
  <2>4. QED
    BY <2>2, <2>3
<1> HIDE DEF c
<1>3. NewAdapter \in Adapter
  BY DEF NewAdapter, Adapter, State
<1>4. [c.adapter EXCEPT !["relay"] = NewAdapter] \in [Kind -> Adapter]
  BY <1>1, <1>3, ActiveIsAdapter
<1>5. /\ relay \in Transport /\ relay.active = "relay"
      /\ relay.adapter = [c.adapter EXCEPT !["relay"] = NewAdapter]
      /\ relay.using_fallback = TRUE /\ relay.bound = TRUE
      /\ SameTimer(relay, c) /\ SameMedia(relay, c)
  <2>1. ASSUME NEW x \in [Kind -> Adapter]
        PROVE  LET v == [c EXCEPT !.adapter = x, !.active = "relay",
                           !.using_fallback = TRUE,
                           !.primary_connected = FALSE, !.bound = TRUE]
               IN  /\ v \in Transport /\ v.active = "relay" /\ v.adapter = x
                   /\ v.using_fallback = TRUE /\ v.bound = TRUE
                   /\ SameTimer(v, c) /\ SameMedia(v, c)
    BY <1>1 DEF Transport, Kind, SameTimer, SameMedia
  <2>2. QED
    BY <1>4, <2>1
<1>6. relay.adapter["direct"] = c.adapter["direct"]
  BY <1>1, <1>5 DEF Transport, Kind
<1> HIDE DEF relay
<1>7. /\ ready \in Transport /\ ready.active = "relay"
      /\ Active(ready) = [state |-> "preconnected", room |-> r, partner |-> p,
                          muted |-> TRUE, peer |-> TRUE, connected |-> FALSE]
      /\ \A k \in Kind : k # "relay" => ready.adapter[k] = relay.adapter[k]
      /\ ready.live /\ ready.releases = relay.releases
      /\ ready.acquired = IF relay.live THEN relay.acquired
                          ELSE relay.acquired + 1
      /\ SameRoute(ready, relay) /\ SameTimer(ready, relay)
  <2>1. /\ ready \in Transport /\ ready.active = relay.active
        /\ Active(ready) = [state |-> "preconnected", room |-> r,
                            partner |-> p, muted |-> TRUE, peer |-> TRUE,
                            connected |-> FALSE]
        /\ \A k \in Kind : k # relay.active => ready.adapter[k] = relay.adapter[k]
        /\ ready.live /\ ready.releases = relay.releases
        /\ ready.acquired = IF relay.live THEN relay.acquired
                            ELSE relay.acquired + 1
        /\ SameRoute(ready, relay) /\ SameTimer(ready, relay)
    <3>1. relay \in Transport
      BY <1>5
    <3> HIDE DEF ready
    <3>2. ready = AdapterPreconnect(relay, r, p)
      BY DEF ready
    <3>3. QED
      BY <3>1, <3>2, AdapterPreconnectFields
  <2>2. QED
    BY <1>5, <2>1
<1> HIDE DEF ready
<1>8. /\ o \in Transport /\ o.active = "relay"
      /\ Carries(Active(o), r, p, was_open, instant)
      /\ o.adapter["direct"] = ready.adapter["direct"]
      /\ SameRoute(o, ready) /\ SameMedia(o, ready)
      /\ ready.generation <= o.generation
      /\ (o.timer = ready.timer \/ o.timer = 0)
      /\ was_open /\ instant =>
           /\ o.timer = 0
           /\ o.session.is_connected /\ ~o.session.is_degraded
  <2>0. ready.generation \in Nat
    BY <1>7 DEF Transport
  <2>1. CASE ~was_open
    <3>1. o = ready
      BY <2>1
    <3> HIDE DEF o
    <3>2. Carries(Active(o), r, p, was_open, instant)
      BY <1>7, <2>1, <3>1 DEF Carries
    <3>3. QED
      <4>1. SameRoute(o, ready) /\ SameMedia(o, ready)
        BY <3>1 DEF SameRoute, SameMedia
      <4>2. o.adapter["direct"] = ready.adapter["direct"]
        BY <3>1
      <4>3. ready.generation <= o.generation
        BY <2>0, <3>1
      <4>4. QED
        BY <1>7, <2>1, <3>1, <3>2, <4>1, <4>2, <4>3
  <2>2. CASE was_open
    <3> DEFINE f == AdapterOpen(ready, instant)
    <3>1. ready.bound = TRUE /\ Active(ready).connected = FALSE
      BY <1>5, <1>7 DEF SameRoute
    <3>2. /\ f \in Transport /\ f.active = ready.active
          /\ Active(f) = [Active(ready) EXCEPT
                            !.state = "open", !.muted = FALSE,
                            !.connected = instant \/ Active(ready).connected]
          /\ \A k \in Kind : k # ready.active => f.adapter[k] = ready.adapter[k]
          /\ SameRoute(f, ready) /\ SameMedia(f, ready)
          /\ ready.generation <= f.generation
          /\ (f.timer = ready.timer \/ f.timer = 0)
          /\ (instant \/ Active(ready).connected) /\ ready.bound =>
               /\ f.timer = 0
               /\ f.session.is_connected /\ ~f.session.is_degraded
      BY <1>7, AdapterOpenFields
    <3>3. o = f
      BY <2>2
    <3> HIDE DEF f, o
    <3>4. Carries(Active(f), r, p, was_open, instant)
      <4> DEFINE a == Active(ready)
      <4>1. a = [state |-> "preconnected", room |-> r, partner |-> p,
                 muted |-> TRUE, peer |-> TRUE, connected |-> FALSE]
        BY <1>7
      <4>2. Active(f) = [a EXCEPT !.state = "open", !.muted = FALSE,
                                  !.connected = instant \/ a.connected]
        BY <3>2
      <4> HIDE DEF a
      <4>3. /\ Active(f).state = "open" /\ Active(f).room = r
            /\ Active(f).partner = p /\ ~Active(f).muted /\ Active(f).peer
        BY <4>1, <4>2
      <4>4. Active(f).connected = (instant \/ a.connected)
        BY <4>1, <4>2
      <4>5. a.connected = FALSE
        BY <4>1
      <4>6. Active(f).connected <=> instant
        BY <4>4, <4>5
      <4>7. QED
        BY <2>2, <4>3, <4>6 DEF Carries
    <3>5. f.adapter["direct"] = ready.adapter["direct"]
      BY <1>7, <3>2 DEF Kind
    <3>6. QED
      BY <1>7, <2>2, <3>1, <3>2, <3>3, <3>4, <3>5
  <2>3. QED
    BY <2>1, <2>2
<1>9. FinishSwitch(s, r, p, was_open, instant) = u
  BY DEF FinishSwitch, c, relay, ready
<1> HIDE DEF o
<1>10. /\ u \in Transport
       /\ SameAdapters(u, o) /\ SameMedia(u, o) /\ SameTimer(u, o)
       /\ SameSession(u, o)
       /\ u.bound = o.bound /\ u.using_fallback = o.using_fallback
  BY <1>8 DEF Transport, SameAdapters, SameMedia, SameTimer, SameSession
<1> HIDE DEF u
<1>11. /\ Active(u) = Active(o) /\ u.active = "relay"
       /\ u.adapter["direct"] = c.adapter["direct"]
  BY <1>6, <1>7, <1>8, <1>10 DEF Active, SameAdapters, Kind
<1>12. u.bound /\ u.using_fallback
  BY <1>5, <1>7, <1>8, <1>10 DEF SameRoute
<1>13. /\ u.live /\ u.releases = s.releases
       /\ u.acquired = IF s.live THEN s.acquired ELSE s.acquired + 1
  BY <1>1, <1>5, <1>7, <1>8, <1>10 DEF SameMedia
<1>14. s.generation <= u.generation /\ (u.timer = s.timer \/ u.timer = 0)
  BY <1>0, <1>1, <1>5, <1>7, <1>8, <1>10 DEF SameTimer
<1>15. was_open /\ instant => /\ u.timer = 0
                              /\ u.session.is_connected /\ ~u.session.is_degraded
  BY <1>8, <1>10 DEF SameTimer, SameSession
<1>16. QED
  BY <1>2, <1>8, <1>9, <1>10, <1>11, <1>12, <1>13, <1>14, <1>15

(* The switch begins: nobody can begin a second one, and the timer stops.   *)
LEMMA StartSwitchFields ==
  ASSUME NEW s \in Transport
  PROVE  LET u == StartSwitch(s)
         IN  /\ u \in Transport
             /\ u.generation = s.generation + 1 /\ u.timer = 0
             /\ SameAdapters(u, s) /\ SameMedia(u, s)
             /\ u.bound = s.bound /\ u.using_fallback = s.using_fallback
<1> DEFINE c == ClearTimer(s)
           v == [c EXCEPT !.switching = TRUE]
           u == StartSwitch(s)
<1>1. /\ c \in Transport /\ c.generation = s.generation + 1 /\ c.timer = 0
      /\ SameAdapters(c, s) /\ SameRoute(c, s) /\ SameMedia(c, s)
  BY ClearTimerFields
<1> HIDE DEF c
<1>2. /\ v \in Transport /\ SameAdapters(v, c) /\ SameMedia(v, c)
      /\ SameTimer(v, c)
      /\ v.bound = c.bound /\ v.using_fallback = c.using_fallback
  BY <1>1 DEF Transport, SameAdapters, SameMedia, SameTimer
<1>3. u = TellDegraded(v)
  BY DEF StartSwitch, c
<1> HIDE DEF v, u
<1>4. /\ u \in Transport /\ SameAdapters(u, v) /\ SameRoute(u, v)
      /\ SameTimer(u, v) /\ SameMedia(u, v)
  BY <1>2, <1>3, TellFields
<1>5. QED
  BY <1>1, <1>2, <1>4
  DEF u, SameAdapters, SameRoute, SameTimer, SameMedia

(* The fallback may only be activated in the selected room, which is one.   *)
LEMMA ActivateInSelectedRoom ==
  ASSUME NEW s \in Transport, MayActivate(s)
  PROVE  /\ Active(s).room = Selected /\ Selected # None
         /\ Active(s).room \in Room \cup {None}
         /\ Active(s).partner \in Partner \cup {None}
         /\ (Active(s).state = "open") \in BOOLEAN
BY ActiveIsAdapter DEF MayActivate, fallback_allowed_for_room, Adapter

-----------------------------------------------------------------------------
(* Every operation and every event keeps what it must *)

\* A transport whose timer belongs to its past.
Sane(s) == s \in Transport /\ s.timer <= s.generation

(* A relay that takes over a call of the selected room is a good transport. *)
LEMMA FinishSwitchKeeps ==
  ASSUME NEW s, Sane(s), NEW r \in Room \cup {None}, r = Selected,
         NEW p \in Partner \cup {None}, NEW was_open \in BOOLEAN,
         NEW instant \in BOOLEAN
  PROVE  LET u == FinishSwitch(s, r, p, was_open, instant)
         IN  /\ u \in Transport /\ Scoped(u)
             /\ u.timer <= u.generation /\ s.generation <= u.generation
             /\ Camera(s) => Good(u)
             /\ Carries(Active(u), r, p, was_open, instant)
<1> DEFINE u == FinishSwitch(s, r, p, was_open, instant)
<1>1. /\ s \in Transport /\ s.timer <= s.generation
      /\ s.generation \in Nat /\ s.timer \in Nat
      /\ s.acquired \in Nat /\ s.releases \in Nat
  BY DEF Sane, Transport
<1>2. /\ u \in Transport
      /\ u.bound /\ u.active = "relay" /\ u.using_fallback
      /\ Carries(Active(u), r, p, was_open, instant)
      /\ (\A k \in Kind : k # s.active => Down(s.adapter[k]))
           => Down(u.adapter["direct"])
      /\ u.live /\ u.releases = s.releases
      /\ u.acquired = IF s.live THEN s.acquired ELSE s.acquired + 1
      /\ s.generation <= u.generation /\ (u.timer = s.timer \/ u.timer = 0)
      /\ was_open /\ instant =>
           /\ u.timer = 0
           /\ u.session.is_connected /\ ~u.session.is_degraded
  BY <1>1, FinishSwitchFields
<1> HIDE DEF u
<1>3. Scoped(u)
  BY <1>2 DEF Scoped, Carries
<1>4. u.timer <= u.generation
  <2>1. u.generation \in Nat
    BY <1>2 DEF Transport
  <2>2. QED
    BY <1>1, <1>2, <2>1
<1>5. ASSUME Camera(s)
      PROVE  Good(u)
  <2>1. Camera(u)
    <3>1. \A k \in Kind : k # u.active => Down(u.adapter[k])
      BY <1>2, <1>5 DEF Camera, Peers, Kind
    <3>2. u.live <=> Active(u).peer
      BY <1>2 DEF Carries
    <3>3. u.acquired <= u.releases + 1
      BY <1>1, <1>2, <1>5 DEF Camera, Peers
    <3>4. QED
      BY <1>2, <3>1, <3>2, <3>3 DEF Camera, Peers
  <2>2. Shape(u)
    BY <1>2 DEF Shape, Carries
  <2>3. Reported(u)
    BY <1>2 DEF Reported, Carries
  <2>4. QED
    BY <2>1, <2>2, <2>3 DEF Good
<1>6. QED
  BY <1>2, <1>3, <1>4, <1>5 DEF u

(* The switch in one go, from where the timer was stopped.                  *)
LEMMA ActivateKeeps ==
  ASSUME NEW s, Sane(s), MayActivate(s), NEW instant \in BOOLEAN
  PROVE  LET u == Activate(s, instant)
         IN  /\ Kept(s, u)
             /\ Carries(Active(u), Active(s).room, Active(s).partner,
                        Active(s).state = "open", instant)
<1> DEFINE v == StartSwitch(s)
           r == Active(s).room
           p == Active(s).partner
           was_open == Active(s).state = "open"
           u == FinishSwitch(v, r, p, was_open, instant)
<1>1. s \in Transport /\ s.generation \in Nat /\ s.timer <= s.generation
  BY DEF Sane, Transport
<1>2. /\ v \in Transport /\ v.generation = s.generation + 1 /\ v.timer = 0
      /\ SameAdapters(v, s) /\ SameMedia(v, s)
      /\ v.bound = s.bound /\ v.using_fallback = s.using_fallback
  BY <1>1, StartSwitchFields
<1> HIDE DEF v
<1>3. Sane(v)
  <2>1. v.timer <= v.generation
    BY <1>1, <1>2
  <2>2. QED
    BY <1>2, <2>1 DEF Sane
<1>4. /\ r \in Room \cup {None} /\ r = Selected /\ p \in Partner \cup {None}
      /\ was_open \in BOOLEAN
  BY <1>1, ActivateInSelectedRoom
<1>5. /\ u \in Transport /\ Scoped(u)
      /\ u.timer <= u.generation /\ v.generation <= u.generation
      /\ Camera(v) => Good(u)
      /\ Carries(Active(u), r, p, was_open, instant)
  BY <1>3, <1>4, FinishSwitchKeeps
<1>6. Activate(s, instant) = u
  BY DEF Activate, v
<1>7. s.generation < u.generation
  <2>1. u.generation \in Nat
    BY <1>5 DEF Transport
  <2>2. QED
    BY <1>1, <1>2, <1>5, <2>1
<1>8. Camera(s) => Camera(v)
  BY <1>2 DEF Camera, Peers, Active, SameAdapters, SameMedia
<1> HIDE DEF r, p, was_open
<1> HIDE DEF u
<1>9. Kept(s, u)
  <2>1. s.generation <= u.generation
    <3>1. u.generation \in Nat
      BY <1>5 DEF Transport
    <3>2. QED
      BY <1>1, <1>7, <3>1
  <2>2. QED
    BY <1>5, <1>7, <1>8, <2>1 DEF Kept, Good
<1>10. QED
  BY <1>5, <1>6, <1>9 DEF r, p, was_open

\* The active adapter is in this state, in this call and muted or not.
InCall(u, state, r, p, muted) ==
  /\ Active(u).state = state /\ Active(u).room = r /\ Active(u).partner = p
  /\ Active(u).muted = muted

\* The transport may begin a call in room r, and does so from s to u.
MayCarry(s, r) == Scoped(s) /\ (s.bound /\ s.active = "relay" => r = Selected)

Begins(s, u, r) ==
  /\ u \in Transport
  /\ u.timer <= u.generation /\ s.generation <= u.generation
  /\ MayCarry(s, r) => Scoped(u)
  /\ Half(s) => Good(u)

(* The second step of preconnect.                                           *)
LEMMA PreconnectKeeps ==
  ASSUME NEW s, Sane(s), NEW r \in Room, NEW p \in Partner
  PROVE  LET u == AdapterPreconnect(s, r, p)
         IN  Begins(s, u, r) /\ InCall(u, "preconnected", r, p, TRUE)
<1> DEFINE u == AdapterPreconnect(s, r, p)
<1>1. /\ s \in Transport /\ s.timer <= s.generation
      /\ s.generation \in Nat /\ s.timer \in Nat
      /\ s.acquired \in Nat /\ s.releases \in Nat
  BY DEF Sane, Transport
<1>2. /\ u \in Transport /\ u.active = s.active
      /\ Active(u) = [state |-> "preconnected", room |-> r, partner |-> p,
                      muted |-> TRUE, peer |-> TRUE, connected |-> FALSE]
      /\ \A k \in Kind : k # s.active => u.adapter[k] = s.adapter[k]
      /\ u.live /\ u.releases = s.releases
      /\ u.acquired = IF s.live THEN s.acquired ELSE s.acquired + 1
      /\ SameRoute(u, s) /\ SameTimer(u, s)
  BY <1>1, AdapterPreconnectFields
<1> HIDE DEF u
<1>3. /\ Active(u).state = "preconnected" /\ Active(u).room = r
      /\ Active(u).partner = p /\ Active(u).muted = TRUE
      /\ Active(u).peer = TRUE /\ Active(u).connected = FALSE
  BY <1>2
<1>4. MayCarry(s, r) => Scoped(u)
  BY <1>2, <1>3 DEF MayCarry, Scoped, SameRoute
<1>5. u.timer <= u.generation /\ s.generation <= u.generation
  BY <1>1, <1>2 DEF SameTimer
<1>6. ASSUME Half(s)
      PROVE  Good(u)
  <2>1. \A k \in Kind : k # u.active => Down(u.adapter[k])
    BY <1>2, <1>6 DEF Half, Peers
  <2>2. u.acquired <= u.releases + 1
    BY <1>1, <1>2, <1>6 DEF Half, Peers
  <2>3. Camera(u)
    BY <1>2, <1>3, <2>1, <2>2 DEF Camera, Peers
  <2>4. QED
    BY <1>3, <2>3 DEF Good, Shape, Reported
<1>7. QED
  BY <1>2, <1>3, <1>4, <1>5, <1>6 DEF Begins, InCall, u

(* The second step of switch_partner: the timer is armed unless the call is *)
(* up already.                                                              *)
LEMMA SwitchPartnerKeeps ==
  ASSUME NEW s, Sane(s), NEW r \in Room, NEW p \in Partner,
         NEW instant \in BOOLEAN
  PROVE  LET u == ArmTimer(AdapterSwitchPartner(s, r, p, instant))
         IN  Begins(s, u, r) /\ InCall(u, "open", r, p, FALSE)
<1> DEFINE w == AdapterSwitchPartner(s, r, p, instant)
           u == ArmTimer(w)
<1>1. /\ s \in Transport /\ s.generation \in Nat
      /\ s.acquired \in Nat /\ s.releases \in Nat
  BY DEF Sane, Transport
<1>2. /\ w \in Transport /\ w.active = s.active
      /\ Active(w) = [state |-> "open", room |-> r, partner |-> p,
                      muted |-> FALSE, peer |-> TRUE, connected |-> instant]
      /\ \A k \in Kind : k # s.active => w.adapter[k] = s.adapter[k]
      /\ w.live /\ w.releases = s.releases
      /\ w.acquired = IF s.live THEN s.acquired ELSE s.acquired + 1
      /\ SameRoute(w, s)
      /\ s.generation <= w.generation
      /\ instant /\ s.bound =>
           /\ w.primary_connected = ~s.using_fallback
           /\ w.session.is_connected /\ ~w.session.is_degraded
  BY <1>1, AdapterSwitchFields
<1>3. w.generation \in Nat
  BY <1>2 DEF Transport
<1> HIDE DEF w
<1>4. /\ u \in Transport
      /\ u.generation = w.generation + 1 /\ u.timer <= u.generation
      /\ w.using_fallback \/ w.primary_connected => u.timer = 0
      /\ SameAdapters(u, w) /\ SameRoute(u, w)
      /\ SameMedia(u, w) /\ SameSession(u, w)
  BY <1>2, ArmTimerFields
<1> HIDE DEF u
<1>5. Active(u) = Active(w) /\ u.active = s.active
  BY <1>2, <1>4 DEF SameAdapters, Active
<1>6. /\ Active(u).state = "open" /\ Active(u).room = r
      /\ Active(u).partner = p /\ Active(u).muted = FALSE
      /\ Active(u).peer = TRUE /\ Active(u).connected = instant
  BY <1>2, <1>5
<1>7. MayCarry(s, r) => Scoped(u)
  BY <1>2, <1>4, <1>5, <1>6 DEF MayCarry, Scoped, SameRoute
<1>8. s.generation <= u.generation
  BY <1>1, <1>2, <1>3, <1>4
<1>9. ASSUME Half(s)
      PROVE  Good(u)
  <2>1. \A k \in Kind : k # u.active => Down(u.adapter[k])
    BY <1>2, <1>4, <1>5, <1>9 DEF Half, Peers, SameAdapters
  <2>2. u.acquired <= u.releases + 1
    BY <1>1, <1>2, <1>4, <1>9 DEF Half, Peers, SameMedia
  <2>3. u.live
    BY <1>2, <1>4 DEF SameMedia
  <2>4. ASSUME u.bound, instant
        PROVE  u.session.is_connected /\ ~u.session.is_degraded /\ u.timer = 0
    BY <1>2, <1>4, <2>4 DEF SameRoute, SameSession
  <2>5. Camera(u)
    BY <1>6, <2>1, <2>2, <2>3 DEF Camera, Peers
  <2>6. QED
    BY <1>6, <2>4, <2>5 DEF Good, Shape, Reported
<1>10. QED
  BY <1>4, <1>6, <1>7, <1>8, <1>9 DEF Begins, InCall, u, w

(* open: the call is the one that was prepared.                             *)
LEMMA OpenKeeps ==
  ASSUME NEW s, Sane(s), NEW instant \in BOOLEAN
  PROVE  LET u == ArmTimer(AdapterOpen([s EXCEPT !.primary_connected = FALSE],
                                       instant))
         IN  /\ Kept(s, u)
             /\ InCall(u, "open", Active(s).room, Active(s).partner, FALSE)
<1> DEFINE v == [s EXCEPT !.primary_connected = FALSE]
           w == AdapterOpen(v, instant)
           u == ArmTimer(w)
           up == instant \/ Active(s).connected
<1>1. s \in Transport /\ s.generation \in Nat
  BY DEF Sane, Transport
<1>2. /\ v \in Transport /\ SameAdapters(v, s) /\ SameRoute(v, s)
      /\ SameTimer(v, s) /\ SameMedia(v, s)
  BY <1>1 DEF Transport, SameAdapters, SameRoute, SameTimer, SameMedia
<1> HIDE DEF v
<1>3. Active(v) = Active(s) /\ v.active = s.active
  BY <1>2 DEF Active, SameAdapters
<1>4. /\ w \in Transport /\ w.active = v.active
      /\ Active(w) = [Active(v) EXCEPT !.state = "open", !.muted = FALSE,
                        !.connected = instant \/ Active(v).connected]
      /\ \A k \in Kind : k # v.active => w.adapter[k] = v.adapter[k]
      /\ SameRoute(w, v) /\ SameMedia(w, v)
      /\ v.generation <= w.generation
      /\ (instant \/ Active(v).connected) /\ v.bound =>
           /\ w.primary_connected = ~v.using_fallback
           /\ w.session.is_connected /\ ~w.session.is_degraded
  BY <1>2, AdapterOpenFields
<1>5. w.generation \in Nat
  BY <1>4 DEF Transport
<1> HIDE DEF w
<1>6. /\ u \in Transport
      /\ u.generation = w.generation + 1 /\ u.timer <= u.generation
      /\ w.using_fallback \/ w.primary_connected => u.timer = 0
      /\ SameAdapters(u, w) /\ SameRoute(u, w)
      /\ SameMedia(u, w) /\ SameSession(u, w)
  BY <1>4, ArmTimerFields
<1> HIDE DEF u
<1>7. /\ Active(u) = [Active(s) EXCEPT !.state = "open", !.muted = FALSE,
                                       !.connected = up]
      /\ u.active = s.active
  BY <1>3, <1>4, <1>6 DEF SameAdapters, Active
<1> HIDE DEF up
<1>8. /\ Active(u).state = "open" /\ Active(u).room = Active(s).room
      /\ Active(u).partner = Active(s).partner /\ Active(u).muted = FALSE
      /\ Active(u).peer = Active(s).peer /\ Active(u).connected = up
  BY <1>1, <1>7, ActiveIsAdapter DEF Adapter
<1>9. Scoped(s) => Scoped(u)
  BY <1>1, <1>2, <1>4, <1>6, <1>7, <1>8 DEF Scoped, SameRoute
<1>10. s.generation < u.generation /\ s.generation <= u.generation
  <2>1. v.generation = s.generation
    BY <1>2 DEF SameTimer
  <2>2. u.generation \in Nat
    BY <1>6 DEF Transport
  <2>3. QED
    BY <1>1, <1>4, <1>5, <1>6, <2>1, <2>2
<1>11. ASSUME Good(s)
       PROVE  Good(u)
  <2>1. \A k \in Kind : k # u.active => Down(u.adapter[k])
    BY <1>2, <1>3, <1>4, <1>6, <1>7, <1>11 DEF Good, Camera, Peers, SameAdapters
  <2>2. (u.live <=> Active(u).peer)
    BY <1>2, <1>4, <1>6, <1>8, <1>11 DEF Good, Camera, Peers, SameMedia
  <2>3. u.acquired <= IF u.live THEN u.releases + 1 ELSE u.releases
    BY <1>2, <1>4, <1>6, <1>11 DEF Good, Camera, Peers, SameMedia
  <2>4. ASSUME u.bound, up
        PROVE  u.session.is_connected /\ ~u.session.is_degraded /\ u.timer = 0
    BY <1>2, <1>3, <1>4, <1>6, <2>4 DEF SameRoute, SameSession, up
  <2>5. Shape(u)
    BY <1>8 DEF Shape
  <2>6. Reported(u)
    BY <1>8, <2>4 DEF Reported
  <2>7. QED
    BY <2>1, <2>2, <2>3, <2>5, <2>6 DEF Good, Camera, Peers
<1>12. QED
  BY <1>6, <1>8, <1>9, <1>10, <1>11 DEF Kept, InCall, u, w, v

(* leave: camera and microphone are released with the peer.                 *)
LEMMA LeaveKeeps ==
  ASSUME NEW s, Sane(s)
  PROVE  LET u == [AdapterLeave([ClearTimer(s) EXCEPT !.bound = FALSE]) EXCEPT
                     !.live = FALSE, !.releases = s.releases + 1,
                     !.using_fallback = FALSE, !.primary_connected = FALSE]
         IN  Kept(s, u) /\ InCall(u, "closed", None, None, TRUE)
<1> DEFINE c == ClearTimer(s)
           v == [c EXCEPT !.bound = FALSE]
           a == [Active(v) EXCEPT !.room = None, !.partner = None,
                                  !.muted = TRUE]
           w == SetActive(v, a)
           b == [Active(w) EXCEPT !.peer = FALSE, !.connected = FALSE,
                                  !.state = "closed"]
           x == SetActive(w, b)
           u == [x EXCEPT !.live = FALSE, !.releases = s.releases + 1,
                   !.using_fallback = FALSE, !.primary_connected = FALSE]
<1>1. s \in Transport /\ s.generation \in Nat
  BY DEF Sane, Transport
<1>2. /\ c \in Transport /\ c.generation = s.generation + 1 /\ c.timer = 0
      /\ SameAdapters(c, s) /\ SameMedia(c, s)
  BY <1>1, ClearTimerFields
<1>3. AdapterLeave(v) = x
  BY DEF AdapterLeave, AdapterAbandon
<1> HIDE DEF c
<1>4. /\ v \in Transport /\ ~v.bound /\ SameAdapters(v, c) /\ SameTimer(v, c)
      /\ SameMedia(v, c)
  BY <1>2 DEF Transport, SameAdapters, SameTimer, SameMedia
<1> HIDE DEF v
<1>5. a \in Adapter
  BY <1>4, ActiveIsAdapter DEF Adapter
<1> HIDE DEF a
<1>6. /\ w \in Transport /\ Active(w) = a /\ w.active = v.active
      /\ \A k \in Kind : k # v.active => w.adapter[k] = v.adapter[k]
      /\ SameRoute(w, v) /\ SameTimer(w, v) /\ SameMedia(w, v)
  BY <1>4, <1>5, SetActiveFields
<1> HIDE DEF w
<1>7. b \in Adapter
  BY <1>6, ActiveIsAdapter DEF Adapter, State
<1> HIDE DEF b
<1>8. /\ x \in Transport /\ Active(x) = b /\ x.active = w.active
      /\ \A k \in Kind : k # w.active => x.adapter[k] = w.adapter[k]
      /\ SameRoute(x, w) /\ SameTimer(x, w) /\ SameMedia(x, w)
  BY <1>6, <1>7, SetActiveFields
<1> HIDE DEF x
<1>9. s.releases \in Nat /\ s.releases + 1 \in Nat
  BY <1>1 DEF Transport
<1>10. /\ u \in Transport /\ SameAdapters(u, x) /\ u.bound = x.bound
       /\ SameTimer(u, x)
       /\ u.live = FALSE /\ u.acquired = x.acquired
       /\ u.releases = s.releases + 1
  BY <1>8, <1>9 DEF Transport, SameAdapters, SameTimer
<1> HIDE DEF u
<1>11. /\ Active(u).state = "closed" /\ Active(u).room = None
       /\ Active(u).partner = None /\ Active(u).muted = TRUE
       /\ Active(u).peer = FALSE
  <2>1. Active(u) = b
    BY <1>8, <1>10 DEF Active, SameAdapters
  <2>2. Active(w) = a /\ a \in Adapter /\ Active(v) \in Adapter
    BY <1>4, <1>5, <1>6, ActiveIsAdapter
  <2>3. a.room = None /\ a.partner = None /\ a.muted = TRUE
    BY <2>2 DEF a, Adapter
  <2>4. QED
    BY <2>1, <2>2, <2>3 DEF b, Adapter
<1>12. ~u.bound
  BY <1>4, <1>6, <1>8, <1>10 DEF SameRoute
<1>13. u.timer = 0 /\ u.generation = s.generation + 1
  BY <1>2, <1>4, <1>6, <1>8, <1>10 DEF SameTimer
<1>14. ASSUME Good(s)
       PROVE  Good(u)
  <2>1. \A k \in Kind : k # s.active => u.adapter[k] = s.adapter[k]
    BY <1>2, <1>4, <1>6, <1>8, <1>10 DEF SameAdapters
  <2>2. u.active = s.active
    BY <1>2, <1>4, <1>6, <1>8, <1>10 DEF SameAdapters
  <2>3. \A k \in Kind : k # u.active => Down(u.adapter[k])
    BY <1>14, <2>1, <2>2 DEF Good, Camera, Peers
  <2>4. u.acquired = s.acquired
    BY <1>2, <1>4, <1>6, <1>8, <1>10 DEF SameMedia
  <2>5. u.acquired <= u.releases
    BY <1>1, <1>9, <1>10, <1>14, <2>4 DEF Good, Camera, Peers, Transport
  <2>6. QED
    BY <1>10, <1>11, <1>12, <2>3, <2>5 DEF Good, Camera, Peers, Shape, Reported
<1>15. Kept(s, u)
  BY <1>1, <1>10, <1>12, <1>13, <1>14 DEF Kept, Scoped
<1>16. QED
  BY <1>3, <1>11, <1>15 DEF InCall, u, v, c

(* The peer connection comes up: the forwarder tells the session.           *)
LEMMA ConnectsKeeps ==
  ASSUME NEW s, Sane(s), Active(s).state = "open", Active(s).peer
  PROVE  LET u == ForwardConnected(
                    SetActive(s, [Active(s) EXCEPT !.connected = TRUE]))
         IN  Kept(s, u) /\ Seen(u, s)
<1> DEFINE a == [Active(s) EXCEPT !.connected = TRUE]
           v == SetActive(s, a)
           u == ForwardConnected(v)
<1>1. /\ s \in Transport /\ s.generation \in Nat /\ s.timer <= s.generation
      /\ s.timer \in Nat /\ Active(s) \in Adapter
  BY ActiveIsAdapter DEF Sane, Transport
<1>2. /\ a \in Adapter /\ a.state = Active(s).state /\ a.room = Active(s).room
      /\ a.partner = Active(s).partner /\ a.muted = Active(s).muted
      /\ a.peer = Active(s).peer /\ a.connected = TRUE
  BY <1>1 DEF Adapter
<1> HIDE DEF a
<1>3. /\ v \in Transport /\ Active(v) = a /\ v.active = s.active
      /\ \A k \in Kind : k # s.active => v.adapter[k] = s.adapter[k]
      /\ SameRoute(v, s) /\ SameTimer(v, s) /\ SameMedia(v, s)
  BY <1>1, <1>2, SetActiveFields
<1> HIDE DEF v
<1>4. /\ u \in Transport
      /\ SameAdapters(u, v) /\ SameRoute(u, v) /\ SameMedia(u, v)
      /\ ~v.bound => u = v
      /\ v.bound => /\ u.generation = v.generation + 1 /\ u.timer = 0
                    /\ u.session.is_connected /\ ~u.session.is_degraded
  BY <1>3, ForwardConnectedFields
<1> HIDE DEF u
<1>5. Active(u) = a /\ u.active = s.active
  BY <1>3, <1>4 DEF Active, SameAdapters
<1>6. u.bound = s.bound
  BY <1>3, <1>4 DEF SameRoute
<1>7. /\ u.timer <= u.generation /\ s.generation <= u.generation
      /\ u.bound => s.generation < u.generation
  <2>1. v.generation = s.generation /\ v.timer = s.timer
    BY <1>3 DEF SameTimer
  <2>2. v.bound = u.bound
    BY <1>4 DEF SameRoute
  <2>3. CASE u.bound
    BY <1>1, <1>4, <2>1, <2>2, <2>3
  <2>4. CASE ~u.bound
    BY <1>1, <1>4, <2>1, <2>2, <2>4
  <2>5. QED
    BY <2>3, <2>4
<1>8. Scoped(s) => Scoped(u)
  BY <1>1, <1>2, <1>3, <1>4, <1>5 DEF Scoped, SameRoute
<1>9. ASSUME Good(s)
      PROVE  Good(u)
  <2>1. \A k \in Kind : k # u.active => Down(u.adapter[k])
    BY <1>3, <1>4, <1>5, <1>9 DEF Good, Camera, Peers, SameAdapters
  <2>2. (u.live <=> Active(u).peer)
    BY <1>2, <1>3, <1>4, <1>5, <1>9 DEF Good, Camera, Peers, SameMedia
  <2>3. u.acquired <= IF u.live THEN u.releases + 1 ELSE u.releases
    BY <1>3, <1>4, <1>9 DEF Good, Camera, Peers, SameMedia
  <2>4. Shape(u)
    BY <1>2, <1>5, <1>9 DEF Good, Shape
  <2>5. Reported(u)
    BY <1>4 DEF Reported, SameRoute
  <2>6. QED
    BY <2>1, <2>2, <2>3, <2>4, <2>5 DEF Good, Camera, Peers
<1>10. QED
  BY <1>2, <1>4, <1>5, <1>7, <1>8, <1>9 DEF Kept, Seen, u, v, a

(* A connection that is lost is not there; nothing else changes but the     *)
(* timer and what the session hears.                                        *)
LEMMA DownKeeps ==
  ASSUME NEW s, Sane(s), NEW u \in Transport,
         u.active = s.active,
         Active(u) = [Active(s) EXCEPT !.connected = FALSE],
         \A k \in Kind : k # s.active => u.adapter[k] = s.adapter[k],
         SameRoute(u, s), SameMedia(u, s),
         s.generation <= u.generation, u.timer <= u.generation
  PROVE  Kept(s, u) /\ Seen(u, s)
<1>1. s \in Transport /\ Active(s) \in Adapter
  BY ActiveIsAdapter DEF Sane
<1>2. /\ Active(u).state = Active(s).state /\ Active(u).room = Active(s).room
      /\ Active(u).partner = Active(s).partner
      /\ Active(u).muted = Active(s).muted /\ Active(u).peer = Active(s).peer
      /\ Active(u).connected = FALSE
  BY <1>1 DEF Adapter
<1>3. Scoped(s) => Scoped(u)
  BY <1>1, <1>2 DEF Scoped, SameRoute
<1>4. ASSUME Good(s)
      PROVE  Good(u)
  <2>1. \A k \in Kind : k # u.active => Down(u.adapter[k])
    BY <1>4 DEF Good, Camera, Peers
  <2>2. (u.live <=> Active(u).peer)
    BY <1>2, <1>4 DEF Good, Camera, Peers, SameMedia
  <2>3. u.acquired <= IF u.live THEN u.releases + 1 ELSE u.releases
    BY <1>4 DEF Good, Camera, Peers, SameMedia
  <2>4. Shape(u)
    BY <1>2, <1>4 DEF Good, Shape
  <2>5. Reported(u)
    BY <1>2 DEF Reported
  <2>6. QED
    BY <2>1, <2>2, <2>3, <2>4, <2>5 DEF Good, Camera, Peers
<1>5. QED
  BY <1>2, <1>3, <1>4 DEF Kept, Seen

(* The active adapter fails: nobody listens, or the failure is passed on,   *)
(* or the fallback takes over.                                              *)
LEMMA FailsKeeps ==
  ASSUME NEW s, Sane(s), NEW instant \in BOOLEAN
  PROVE  LET down == SetActive(s, [Active(s) EXCEPT !.connected = FALSE])
             quiet == ClearTimer(down)
             told == TellFailed(quiet)
             relay == Activate(quiet, instant)
         IN  /\ Kept(s, down) /\ Seen(down, s)
             /\ Kept(s, told) /\ Seen(told, s)
             /\ MayActivate(quiet) =>
                  /\ Kept(s, relay)
                  /\ Carries(Active(relay), Active(s).room, Active(s).partner,
                             Active(s).state = "open", instant)
<1> DEFINE a == [Active(s) EXCEPT !.connected = FALSE]
           down == SetActive(s, a)
           quiet == ClearTimer(down)
           told == TellFailed(quiet)
           relay == Activate(quiet, instant)
<1>1. /\ s \in Transport /\ s.generation \in Nat /\ s.timer <= s.generation
      /\ s.timer \in Nat /\ Active(s) \in Adapter
  BY ActiveIsAdapter DEF Sane, Transport
<1>2. a \in Adapter
  BY <1>1 DEF Adapter
<1>3. /\ down \in Transport /\ Active(down) = a /\ down.active = s.active
      /\ \A k \in Kind : k # s.active => down.adapter[k] = s.adapter[k]
      /\ SameRoute(down, s) /\ SameTimer(down, s) /\ SameMedia(down, s)
  BY <1>1, <1>2, SetActiveFields
<1>4. Kept(s, down) /\ Seen(down, s)
  <2>1. s.generation <= down.generation /\ down.timer <= down.generation
    BY <1>1, <1>3 DEF SameTimer
  <2> HIDE DEF down
  <2>2. QED
    BY <1>3, <2>1, DownKeeps
<1> HIDE DEF down
<1>5. /\ quiet \in Transport
      /\ quiet.generation = down.generation + 1 /\ quiet.timer = 0
      /\ SameAdapters(quiet, down) /\ SameRoute(quiet, down)
      /\ SameMedia(quiet, down)
  BY <1>3, ClearTimerFields
<1>6. quiet.generation = s.generation + 1
  BY <1>3, <1>5 DEF SameTimer
<1> HIDE DEF quiet
<1>7. /\ Active(quiet) = a /\ quiet.active = s.active
      /\ \A k \in Kind : k # s.active => quiet.adapter[k] = s.adapter[k]
      /\ SameRoute(quiet, s) /\ SameMedia(quiet, s)
  BY <1>3, <1>5 DEF Active, SameAdapters, SameRoute, SameMedia
<1>8. Kept(s, quiet) /\ Seen(quiet, s)
  <2>1. s.generation <= quiet.generation /\ quiet.timer <= quiet.generation
    BY <1>1, <1>5, <1>6
  <2>2. QED
    BY <1>5, <1>7, <2>1, DownKeeps
<1>9. Kept(s, told) /\ Seen(told, s)
  <2>1. /\ told \in Transport
        /\ SameAdapters(told, quiet) /\ SameRoute(told, quiet)
        /\ SameTimer(told, quiet) /\ SameMedia(told, quiet)
    BY <1>5, TellFields
  <2> HIDE DEF told
  <2>2. /\ Active(told) = a /\ told.active = s.active
        /\ \A k \in Kind : k # s.active => told.adapter[k] = s.adapter[k]
        /\ SameRoute(told, s) /\ SameMedia(told, s)
    BY <1>7, <2>1 DEF Active, SameAdapters, SameRoute, SameMedia
  <2>3. s.generation <= told.generation /\ told.timer <= told.generation
    BY <1>1, <1>5, <1>6, <2>1 DEF SameTimer
  <2>4. QED
    BY <2>1, <2>2, <2>3, DownKeeps
<1>10. ASSUME MayActivate(quiet)
       PROVE  /\ Kept(s, relay)
              /\ Carries(Active(relay), Active(s).room, Active(s).partner,
                         Active(s).state = "open", instant)
  <2>1. Sane(quiet)
    BY <1>5, <1>8 DEF Sane, Kept
  <2>2. /\ Kept(quiet, relay)
        /\ Carries(Active(relay), Active(quiet).room, Active(quiet).partner,
                   Active(quiet).state = "open", instant)
    BY <1>10, <2>1, ActivateKeeps
  <2> HIDE DEF relay
  <2>3. Carries(Active(relay), Active(s).room, Active(s).partner,
                Active(s).state = "open", instant)
    BY <1>8, <2>2 DEF Seen
  <2>4. quiet.generation \in Nat /\ relay.generation \in Nat
    BY <1>5, <2>2 DEF Kept, Transport
  <2>5. s.generation < relay.generation /\ s.generation <= relay.generation
    BY <1>1, <1>6, <2>2, <2>4 DEF Kept
  <2>6. Kept(s, relay)
    BY <1>8, <2>2, <2>5 DEF Kept
  <2>7. QED
    BY <2>3, <2>6
<1>11. QED
  BY <1>4, <1>9, <1>10 DEF down, quiet

(* What is left when the fallback cannot be built has no listener.          *)
LEMMA CloseKeeps ==
  ASSUME NEW s, Sane(s)
  PROVE  \A u \in {CloseActive(s), CloseActive(StartSwitch(s))} :
           /\ u \in Transport /\ Scoped(u) /\ ~u.bound
           /\ u.timer <= u.generation /\ s.generation <= u.generation
<1> DEFINE v == StartSwitch(s)
           c == CloseActive(s)
           d == CloseActive(v)
<1>1. /\ s \in Transport /\ s.generation \in Nat /\ s.timer <= s.generation
  BY DEF Sane, Transport
<1>2. v \in Transport /\ v.generation = s.generation + 1 /\ v.timer = 0
  BY <1>1, StartSwitchFields
<1> HIDE DEF v
<1>3. c \in Transport /\ ~c.bound /\ SameTimer(c, s)
  BY <1>1, CloseActiveFields
<1>4. d \in Transport /\ ~d.bound /\ SameTimer(d, v)
  BY <1>2, CloseActiveFields
<1> HIDE DEF c, d
<1>5. /\ Scoped(c) /\ c.timer <= c.generation /\ s.generation <= c.generation
  BY <1>1, <1>3 DEF Scoped, SameTimer
<1>6. /\ Scoped(d) /\ d.timer <= d.generation /\ s.generation <= d.generation
  BY <1>1, <1>2, <1>4 DEF Scoped, SameTimer
<1>7. QED
  BY <1>3, <1>4, <1>5, <1>6 DEF c, d, v

-----------------------------------------------------------------------------
(* The inductive invariant *)

(* The invariant knows enough of the transport for every operation.         *)
LEMMA IInvIsSane ==
  ASSUME IInv
  PROVE  /\ Sane(t) /\ t \in Transport /\ t.generation \in Nat /\ t.timer \in Nat
         /\ fault \in {"none", "raced", "broken"}
         /\ calls \in Nat /\ calls + 1 \in Nat
         /\ failures \in Nat /\ failures + 1 \in Nat
BY DEF IInv, TypeOK, TimersAreOld, Sane, Transport

(* What a good transport is, it is in the middle of an operation, too.       *)
LEMMA GoodIsHalf ==
  ASSUME NEW s, Good(s)
  PROVE  Half(s)
BY DEF Good, Half, Camera

(* An operation or event that keeps what it must keeps the invariant: if it *)
(* came between the steps of a callback, the history says so.               *)
LEMMA KeptStep ==
  ASSUME IInv, caller.pc = "idle", Kept(t, t'), UNCHANGED <<caller, thread>>,
         fault' = Raced, calls' \in Nat, failures' \in Nat
  PROVE  IInv'
<1>1. TypeOK'
  BY DEF IInv, TypeOK, Kept, Raced
<1>2. /\ fault' = "none" => fault = "none"
      /\ fault' # "raced" =>
           fault # "raced" /\ thread.pc \in {"idle", "fired"}
  BY DEF Raced, IInv, TypeOK
<1>3. fault' # "raced" => Scoped(t)'
  BY <1>2 DEF IInv, Kept
<1>4. TimersAreOld'
  <2>1. /\ t.generation \in Nat /\ thread.gen \in Nat /\ t'.generation \in Nat
        /\ t.generation <= t'.generation /\ thread.gen <= t.generation
        /\ t'.timer <= t'.generation
    BY DEF IInv, TypeOK, TimersAreOld, Kept, Transport
  <2>2. t'.bound /\ Active(t').connected => thread.gen < t'.generation
    BY <2>1 DEF Kept
  <2>3. thread.gen <= t'.generation
    BY <2>1
  <2>4. QED
    BY <1>2, <2>1, <2>2, <2>3 DEF TimersAreOld
<1>5. thread'.pc = "switch" => thread'.room = Selected
  BY DEF IInv
<1>6. fault' = "none" => Good(t)'
  BY <1>2 DEF IInv, Kept
<1>7. fault' = "none" => Half(t)'
  BY <1>6, GoodIsHalf
<1>8. MidOperation'
  BY DEF MidOperation
<1>9. QED
  BY <1>1, <1>3, <1>4, <1>5, <1>6, <1>7, <1>8 DEF IInv

(* A fresh transport is good.                                               *)
LEMMA FailoverInit == Init => IInv
<1> SUFFICES ASSUME Init
             PROVE  IInv
  OBVIOUS
<1>1. NewAdapter \in Adapter
  BY DEF NewAdapter, Adapter, State
<1>2. t \in Transport
  <2>1. [k \in Kind |-> NewAdapter] \in [Kind -> Adapter]
    BY <1>1
  <2>2. [is_connected |-> FALSE, is_degraded |-> FALSE]
          \in [is_connected : BOOLEAN, is_degraded : BOOLEAN]
    OBVIOUS
  <2> DEFINE f == [k \in Kind |-> NewAdapter]
             q == [is_connected |-> FALSE, is_degraded |-> FALSE]
  <2> HIDE DEF f, q
  <2>3. t = [adapter |-> f, active |-> "direct", using_fallback |-> FALSE,
             switching |-> FALSE, bound |-> TRUE, primary_connected |-> FALSE,
             generation |-> 0, timer |-> 0, live |-> FALSE, acquired |-> 0,
             releases |-> 0, session |-> q, told |-> FALSE]
    BY DEF Init, f, q
  <2>4. f \in [Kind -> Adapter]
        /\ q \in [is_connected : BOOLEAN, is_degraded : BOOLEAN]
    BY <2>1, <2>2 DEF f, q
  <2>5. QED
    BY <2>3, <2>4 DEF Transport, Kind
<1>3. /\ t.active = "direct" /\ t.live = FALSE /\ t.acquired = 0
      /\ t.releases = 0 /\ t.timer = 0 /\ t.generation = 0
      /\ t.adapter = [k \in Kind |-> NewAdapter]
  BY DEF Init
<1>4. \A k \in Kind : t.adapter[k] = NewAdapter
  BY <1>3
<1>5. Active(t) = NewAdapter
  BY <1>3 DEF Active, Kind
<1>6. /\ thread.pc = "idle" /\ thread.gen = 0 /\ thread.room = None
      /\ thread.partner = None /\ thread.was_open = FALSE
  BY DEF Init, NoThread
<1>7. TypeOK /\ caller.pc = "idle"
  BY <1>2 DEF Init, TypeOK, NoThread, NoOperation
<1>8. Scoped(t)
  BY <1>3 DEF Scoped
<1>9. TimersAreOld
  BY <1>3, <1>6 DEF TimersAreOld
<1>10. Good(t)
  BY <1>3, <1>4, <1>5
  DEF Good, Camera, Peers, Down, Shape, Reported, NewAdapter
<1>11. QED
  BY <1>6, <1>7, <1>8, <1>9, <1>10, GoodIsHalf DEF IInv, MidOperation

(* An operation of the caller leaves the callback alone.                    *)
LEMMA CallStep ==
  ASSUME IInv, NEW s, Kept(t, s), Call(s), UNCHANGED caller
  PROVE  IInv'
<1>1. t' = s /\ UNCHANGED thread /\ fault' = Raced /\ caller.pc = "idle"
      /\ calls' = calls + 1 /\ failures' = failures
  BY DEF Call
<1>2. QED
  BY <1>1, IInvIsSane, KeptStep

(* The first step of preconnect and of switch_partner: no callback that has *)
(* not yet passed its guards can go on.                                     *)
LEMMA BeginCallStep ==
  ASSUME IInv, NEW op \in {"preconnect", "switch"}, NEW r \in Room,
         NEW p \in Partner, BeginCall(op, r, p)
  PROVE  IInv'
<1> DEFINE u == Begun(t, r)
<1>1. /\ t' = u /\ UNCHANGED thread /\ fault' = Raced
      /\ calls' = calls + 1 /\ failures' = failures
      /\ caller' = [pc |-> op, room |-> r, partner |-> p]
      /\ caller.pc = "idle"
  BY DEF BeginCall, Call, Begun
<1>2. /\ u \in Transport
      /\ t.generation < u.generation /\ u.timer = 0
      /\ Scoped(t) /\ u.bound /\ u.active = "relay" =>
           u.using_fallback /\ r = Selected
      /\ Scoped(t) => Scoped(u)
      /\ Half(t) => Half(u)
  BY IInvIsSane, BegunFields
<1> HIDE DEF u
<1>3. /\ caller'.pc = op /\ caller'.pc # "idle" /\ caller'.room = r
      /\ caller'.partner = p
  BY <1>1
<1>4. /\ t.generation \in Nat /\ u.generation \in Nat /\ thread.gen \in Nat
      /\ thread.gen < u.generation /\ thread.gen <= u.generation
      /\ u.timer <= u.generation
  <2>1. t.generation \in Nat /\ u.generation \in Nat /\ thread.gen \in Nat
    BY <1>2 DEF IInv, TypeOK, Transport
  <2>2. thread.gen <= t.generation
    BY DEF IInv, TimersAreOld
  <2>3. QED
    BY <1>2, <2>1, <2>2
<1>5. /\ fault' = "none" => fault = "none"
      /\ fault' # "raced" =>
           fault # "raced" /\ thread.pc \in {"idle", "fired"}
  BY <1>1 DEF Raced, IInv, TypeOK
<1>6. TypeOK'
  <2>1. caller' \in [pc : {"idle", "preconnect", "switch"},
                     room : Room \cup {None}, partner : Partner \cup {None}]
    BY <1>1
  <2>2. fault' \in {"none", "raced", "broken"}
    BY <1>1, IInvIsSane DEF Raced
  <2>3. QED
    BY <1>1, <1>2, <2>1, <2>2 DEF IInv, TypeOK
<1>7. TimersAreOld'
  BY <1>1, <1>4, <1>5 DEF TimersAreOld
<1>8. fault' # "raced" => Scoped(t)'
  BY <1>1, <1>2, <1>5 DEF IInv
<1>9. fault' = "none" => Half(t)'
  BY <1>1, <1>2, <1>5 DEF IInv
<1>10. MidOperation'
  BY <1>1, <1>2, <1>3, <1>4, <1>5 DEF MidOperation, IInv
<1>11. thread'.pc = "switch" => thread'.room = Selected
  BY <1>1 DEF IInv
<1>12. QED
  BY <1>3, <1>6, <1>7, <1>8, <1>9, <1>10, <1>11 DEF IInv

(* The second step: what it does to the transport that the first one left.  *)
LEMMA EndCallStep ==
  ASSUME IInv, caller.pc # "idle", NEW s, Begins(t, s, caller.room), EndCall(s)
  PROVE  IInv'
<1>1. /\ t' = s /\ UNCHANGED <<thread, calls, failures>> /\ fault' = Raced
      /\ caller' = NoOperation
  BY DEF EndCall
<1>2. /\ fault' = "none" => fault = "none"
      /\ fault' # "raced" => fault # "raced"
  BY <1>1 DEF Raced, IInv, TypeOK
<1>3. TypeOK' /\ caller'.pc = "idle"
  <2>1. /\ NoOperation.pc = "idle"
        /\ NoOperation \in [pc : {"idle", "preconnect", "switch"},
                            room : Room \cup {None},
                            partner : Partner \cup {None}]
    BY DEF NoOperation
  <2>2. fault' \in {"none", "raced", "broken"}
    BY <1>1, IInvIsSane DEF Raced
  <2>3. QED
    BY <1>1, <2>1, <2>2 DEF IInv, TypeOK, Begins
<1>4. TimersAreOld'
  <2>1. /\ t.generation \in Nat /\ thread.gen \in Nat /\ s.generation \in Nat
        /\ t.generation <= s.generation /\ thread.gen <= t.generation
        /\ s.timer <= s.generation
    BY DEF IInv, TypeOK, TimersAreOld, Begins, Transport
  <2>2. fault' = "none" =>
          \/ thread.pc = "idle"
          \/ thread.pc = "fired" /\ thread.gen < t.generation
    BY <1>2 DEF IInv, MidOperation
  <2>3. thread.gen <= s.generation
    BY <2>1
  <2>4. thread.gen < t.generation => thread.gen < s.generation
    BY <2>1
  <2>5. QED
    BY <1>1, <2>1, <2>2, <2>3, <2>4 DEF TimersAreOld
<1>5. fault' # "raced" => Scoped(t)'
  BY <1>1, <1>2 DEF IInv, MidOperation, Begins, MayCarry
<1>6. fault' = "none" => Good(t)'
  BY <1>1, <1>2 DEF IInv, Begins
<1>7. fault' = "none" => Half(t)'
  BY <1>6, GoodIsHalf
<1>8. thread'.pc = "switch" => thread'.room = Selected
  BY <1>1 DEF IInv
<1>9. QED
  BY <1>3, <1>4, <1>5, <1>6, <1>7, <1>8 DEF IInv, MidOperation

(* The operations that begin a call, in their two steps.                    *)
LEMMA NewCallStep ==
  ASSUME IInv, NEW r \in Room, NEW p \in Partner, NEW instant \in BOOLEAN
  PROVE  /\ preconnect(r, p) => IInv'
         /\ switch_partner(r, p) => IInv'
         /\ preconnect_ends => IInv'
         /\ switch_partner_ends(instant) => IInv'
<1>1. preconnect(r, p) \/ switch_partner(r, p) => IInv'
  BY BeginCallStep DEF preconnect, switch_partner
<1>2. caller.pc # "idle" => caller.room \in Room /\ caller.partner \in Partner
  BY DEF IInv, MidOperation
<1>3. ASSUME preconnect_ends
      PROVE  IInv'
  <2> DEFINE s == AdapterPreconnect(t, caller.room, caller.partner)
  <2>1. EndCall(s) /\ caller.pc = "preconnect"
    BY <1>3 DEF preconnect_ends
  <2>2. Begins(t, s, caller.room)
    BY <1>2, <2>1, IInvIsSane, PreconnectKeeps
  <2> HIDE DEF s
  <2>3. QED
    BY <2>1, <2>2, EndCallStep
<1>4. ASSUME switch_partner_ends(instant)
      PROVE  IInv'
  <2> DEFINE s == ArmTimer(AdapterSwitchPartner(t, caller.room, caller.partner,
                                                instant))
  <2>1. EndCall(s) /\ caller.pc = "switch"
    BY <1>4 DEF switch_partner_ends
  <2>2. Begins(t, s, caller.room)
    BY <1>2, <2>1, IInvIsSane, SwitchPartnerKeeps
  <2> HIDE DEF s
  <2>3. QED
    BY <2>1, <2>2, EndCallStep
<1>5. QED
  BY <1>1, <1>3, <1>4

(* The other operations, and the events of the active adapter.              *)
LEMMA CallerStep ==
  ASSUME IInv, NEW instant \in BOOLEAN
  PROVE  /\ open(instant) => IInv'
         /\ leave => IInv'
         /\ force_fallback(instant) => IInv'
         /\ AdapterFails(instant) => IInv'
         /\ AdapterConnects => IInv'
         /\ FactoryRaises => IInv'
<1>1. ASSUME open(instant)
      PROVE  IInv'
  <2> DEFINE s == ArmTimer(AdapterOpen([t EXCEPT !.primary_connected = FALSE],
                                       instant))
  <2>1. Call(s) /\ UNCHANGED caller
    BY <1>1 DEF open
  <2>2. Kept(t, s)
    BY IInvIsSane, OpenKeeps
  <2> HIDE DEF s
  <2>3. QED
    BY <2>1, <2>2, CallStep
<1>2. ASSUME leave
      PROVE  IInv'
  <2> DEFINE s == [AdapterLeave([ClearTimer(t) EXCEPT !.bound = FALSE]) EXCEPT
                     !.live = FALSE, !.releases = t.releases + 1,
                     !.using_fallback = FALSE, !.primary_connected = FALSE]
  <2>1. Call(s) /\ UNCHANGED caller
    BY <1>2 DEF leave
  <2>2. Kept(t, s)
    BY IInvIsSane, LeaveKeeps
  <2> HIDE DEF s
  <2>3. QED
    BY <2>1, <2>2, CallStep
<1>3. ASSUME force_fallback(instant)
      PROVE  IInv'
  <2>1. Kept(t, Activate(t, instant))
    BY <1>3, IInvIsSane, ActivateKeeps DEF force_fallback
  <2>2. QED
    BY <1>3, <2>1, IInvIsSane, KeptStep DEF force_fallback
<1>4. ASSUME AdapterFails(instant)
      PROVE  IInv'
  <2> DEFINE down == SetActive(t, [Active(t) EXCEPT !.connected = FALSE])
             quiet == ClearTimer(down)
  <2>1. /\ t' = IF ~t.bound THEN down
                ELSE IF MayActivate(quiet) THEN Activate(quiet, instant)
                ELSE TellFailed(quiet)
        /\ failures' = failures + 1 /\ UNCHANGED <<caller, thread, calls>>
        /\ fault' = Raced /\ caller.pc = "idle"
    BY <1>4 DEF AdapterFails
  <2>2. /\ Kept(t, down) /\ Kept(t, TellFailed(quiet))
        /\ MayActivate(quiet) => Kept(t, Activate(quiet, instant))
    BY IInvIsSane, FailsKeeps
  <2> HIDE DEF down, quiet
  <2>3. Kept(t, t')
    BY <2>1, <2>2
  <2>4. QED
    BY <2>1, <2>3, IInvIsSane, KeptStep
<1>5. ASSUME AdapterConnects
      PROVE  IInv'
  <2>1. Kept(t, ForwardConnected(
                  SetActive(t, [Active(t) EXCEPT !.connected = TRUE])))
    BY <1>5, IInvIsSane, ConnectsKeeps DEF AdapterConnects
  <2>2. QED
    BY <1>5, <2>1, IInvIsSane, KeptStep DEF AdapterConnects
<1>6. ASSUME FactoryRaises
      PROVE  IInv'
  <2>1. /\ t' = CloseActive(StartSwitch(t)) /\ caller.pc = "idle"
        /\ fault' \in {"raced", "broken"}
        /\ UNCHANGED <<caller, thread, calls, failures>>
    BY <1>6 DEF FactoryRaises
  <2>2. /\ t' \in Transport /\ Scoped(t') /\ ~t'.bound
        /\ t'.timer <= t'.generation /\ t.generation <= t'.generation
    BY <2>1, IInvIsSane, CloseKeeps
  <2>3. thread.gen <= t'.generation
    BY <2>2 DEF IInv, TypeOK, TimersAreOld, Transport
  <2>4. MidOperation'
    BY <2>1 DEF MidOperation
  <2>5. QED
    BY <2>1, <2>2, <2>3, <2>4 DEF IInv, TypeOK, TimersAreOld
<1>7. QED
  BY <1>1, <1>2, <1>3, <1>4, <1>5, <1>6

(* The steps of the timer's thread.  It gives up or begins a switch only    *)
(* for a call that is not connected, or an operation came in between.       *)
LEMMA TimerStep ==
  ASSUME IInv, NEW instant \in BOOLEAN
  PROVE  /\ TimerFires => IInv'
         /\ TimeoutCheck => IInv'
         /\ TimeoutGivesUp => IInv'
         /\ TimeoutStartsSwitch => IInv'
         /\ TimeoutFinishesSwitch(instant) => IInv'
         /\ TimeoutSwitchRaises => IInv'
<1>0. /\ NoThread.pc = "idle" /\ NoThread.gen = 0 /\ NoThread.room = None
      /\ NoThread \in [pc : {"idle", "fired", "handle", "switch"}, gen : Nat,
                       room : Room \cup {None}, partner : Partner \cup {None},
                       was_open : BOOLEAN]
  BY DEF NoThread
<1>a. ASSUME t.timer # 0 \/ thread.pc \in {"handle", "switch"}
      PROVE  fault # "raced" => caller.pc = "idle"
  BY <1>a DEF IInv, MidOperation
<1>b. ASSUME fault # "raced" => caller.pc = "idle", UNCHANGED caller,
             fault = "raced" => fault' = "raced"
      PROVE  MidOperation'
  BY <1>b DEF IInv, MidOperation
<1>1. ASSUME TimerFires
      PROVE  IInv'
  <2>1. /\ t' = [t EXCEPT !.timer = 0] /\ t.timer # 0 /\ thread.pc = "idle"
        /\ thread' = [thread EXCEPT !.pc = "fired", !.gen = t.timer]
        /\ UNCHANGED <<caller, calls, failures, fault>>
    BY <1>1 DEF TimerFires
  <2>2. /\ t' \in Transport /\ t'.timer = 0 /\ t'.generation = t.generation
        /\ SameAdapters(t', t) /\ SameRoute(t', t) /\ SameMedia(t', t)
        /\ SameSession(t', t)
    BY <2>1, IInvIsSane
    DEF Transport, SameAdapters, SameRoute, SameMedia, SameSession
  <2>3. /\ thread'.pc = "fired" /\ thread'.gen = t.timer
        /\ thread' \in [pc : {"idle", "fired", "handle", "switch"}, gen : Nat,
                        room : Room \cup {None}, partner : Partner \cup {None},
                        was_open : BOOLEAN]
    BY <2>1, IInvIsSane DEF IInv, TypeOK
  <2>4. TypeOK'
    BY <2>1, <2>2, <2>3 DEF IInv, TypeOK
  <2>5. Active(t') = Active(t)
    BY <2>2 DEF Active, SameAdapters
  <2>6. fault' # "raced" => Scoped(t)'
    BY <2>1, <2>2, <2>5 DEF IInv, Scoped, SameAdapters, SameRoute
  <2>7. fault' = "none" => Good(t)'
    BY <1>a, <2>1, <2>2, <2>5
    DEF IInv, Good, Camera, Peers, Shape, Reported, SameAdapters, SameRoute,
        SameMedia, SameSession
  <2>8. TimersAreOld'
    <3>1. t.timer <= t.generation
      BY DEF IInv, TimersAreOld
    <3>2. fault = "none" => ~(t.bound /\ Active(t).connected)
      BY <2>1 DEF IInv, Half, Reported
    <3>3. t'.timer <= t'.generation
      BY <2>2, IInvIsSane
    <3>4. QED
      BY <2>1, <2>2, <2>3, <2>5, <3>1, <3>2, <3>3
      DEF TimersAreOld, SameRoute
  <2>9. MidOperation'
    BY <1>a, <1>b, <2>1
  <2>10. QED
    BY <2>3, <2>4, <2>6, <2>7, <2>8, <2>9, GoodIsHalf DEF IInv
<1>2. ASSUME TimeoutCheck
      PROVE  IInv'
  <2>1. /\ UNCHANGED <<t, caller, calls, failures, fault>> /\ thread.pc = "fired"
    BY <1>2 DEF TimeoutCheck
  <2>2. CASE thread' = NoThread
    <3>1. MidOperation'
      BY <1>0, <2>1, <2>2 DEF IInv, MidOperation
    <3>2. QED
      BY <1>0, <2>1, <2>2, <3>1, IInvIsSane DEF IInv, TypeOK, TimersAreOld
  <2>3. CASE thread.gen = t.generation /\ thread' = [thread EXCEPT !.pc = "handle"]
    <3>1. /\ thread'.pc = "handle" /\ thread'.gen = thread.gen
          /\ thread' \in [pc : {"idle", "fired", "handle", "switch"}, gen : Nat,
                          room : Room \cup {None},
                          partner : Partner \cup {None}, was_open : BOOLEAN]
      BY <2>3 DEF IInv, TypeOK
    <3>2. fault = "none" => ~(t.bound /\ Active(t).connected)
      BY <2>1, <2>3, IInvIsSane DEF IInv, TimersAreOld
    <3>3. MidOperation'
      <4>1. fault # "raced" => caller.pc = "idle"
        BY <2>1, <2>3, IInvIsSane DEF IInv, MidOperation
      <4>2. QED
        BY <1>b, <2>1, <4>1
    <3>4. QED
      BY <2>1, <3>1, <3>2, <3>3 DEF IInv, TypeOK, TimersAreOld
  <2>4. QED
    BY <1>2, <2>2, <2>3 DEF TimeoutCheck
<1>3. ASSUME thread.pc = "handle", fault = "none"
      PROVE  ~(t.bound /\ Active(t).connected)
  BY <1>3 DEF IInv, TimersAreOld
<1>4. ASSUME TimeoutGivesUp
      PROVE  IInv'
  <2> DEFINE u == TellDegraded(t)
             v == TellFailed(u)
  <2>1. /\ t' = v /\ thread' = NoThread /\ thread.pc = "handle"
        /\ UNCHANGED <<caller, calls, failures, fault>>
    BY <1>4 DEF TimeoutGivesUp
  <2>2. /\ u \in Transport /\ SameAdapters(u, t) /\ SameRoute(u, t)
        /\ SameTimer(u, t) /\ SameMedia(u, t)
    BY IInvIsSane, TellFields
  <2> HIDE DEF u
  <2>3. /\ v \in Transport /\ SameAdapters(v, u) /\ SameRoute(v, u)
        /\ SameTimer(v, u) /\ SameMedia(v, u)
    BY <2>2, TellFields
  <2> HIDE DEF v
  <2>4. /\ t' \in Transport /\ SameAdapters(t', t) /\ SameRoute(t', t)
        /\ SameTimer(t', t) /\ SameMedia(t', t)
    BY <2>1, <2>2, <2>3
    DEF SameAdapters, SameRoute, SameTimer, SameMedia
  <2>5. Active(t') = Active(t)
    BY <2>4 DEF Active, SameAdapters
  <2>6. TypeOK'
    BY <1>0, <2>1, <2>4 DEF IInv, TypeOK
  <2>7. fault' # "raced" => Scoped(t)'
    BY <2>1, <2>4, <2>5 DEF IInv, Scoped, SameAdapters, SameRoute
  <2>8. fault' = "none" => Good(t)'
    BY <1>3, <1>a, <2>1, <2>4, <2>5
    DEF IInv, Good, Camera, Peers, Shape, Reported, SameAdapters, SameRoute, SameMedia
  <2>9. TimersAreOld'
    BY <1>0, <2>1, <2>4, IInvIsSane DEF IInv, TimersAreOld, SameTimer
  <2>10. MidOperation'
    BY <1>a, <1>b, <2>1
  <2>11. QED
    BY <1>0, <2>1, <2>6, <2>7, <2>8, <2>9, <2>10, GoodIsHalf DEF IInv
<1>5. ASSUME TimeoutStartsSwitch
      PROVE  IInv'
  <2>1. /\ t' = StartSwitch(t) /\ thread.pc = "handle" /\ MayActivate(t)
        /\ thread' = [pc |-> "switch", gen |-> 0, room |-> Active(t).room,
                      partner |-> Active(t).partner,
                      was_open |-> Active(t).state = "open"]
        /\ UNCHANGED <<caller, calls, failures, fault>>
    BY <1>5 DEF TimeoutStartsSwitch
  <2>2. /\ t' \in Transport
        /\ t'.generation = t.generation + 1 /\ t'.timer = 0
        /\ SameAdapters(t', t) /\ SameMedia(t', t)
        /\ t'.bound = t.bound /\ t'.using_fallback = t.using_fallback
    BY <2>1, IInvIsSane, StartSwitchFields
  <2>3. /\ thread'.pc = "switch" /\ thread'.gen = 0 /\ thread'.room = Selected
        /\ thread' \in [pc : {"idle", "fired", "handle", "switch"}, gen : Nat,
                        room : Room \cup {None}, partner : Partner \cup {None},
                        was_open : BOOLEAN]
    BY <2>1, IInvIsSane, ActivateInSelectedRoom
  <2>4. Active(t') = Active(t)
    BY <2>2 DEF Active, SameAdapters
  <2>5. TypeOK'
    BY <2>1, <2>2, <2>3 DEF IInv, TypeOK
  <2>6. fault' # "raced" => Scoped(t)'
    BY <2>1, <2>2, <2>4 DEF IInv, Scoped, SameAdapters
  <2>7. fault' = "none" => Good(t)'
    BY <1>3, <1>a, <2>1, <2>2, <2>4
    DEF IInv, Good, Camera, Peers, Shape, Reported, SameAdapters, SameMedia
  <2>8. TimersAreOld'
    BY <1>3, <2>1, <2>2, <2>3, <2>4, IInvIsSane DEF TimersAreOld
  <2>9. MidOperation'
    BY <1>a, <1>b, <2>1
  <2>10. QED
    BY <2>3, <2>5, <2>6, <2>7, <2>8, <2>9, GoodIsHalf DEF IInv
<1>6. ASSUME TimeoutFinishesSwitch(instant)
      PROVE  IInv'
  <2>1. /\ t' = FinishSwitch(t, thread.room, thread.partner, thread.was_open,
                             instant)
        /\ thread' = NoThread /\ thread.pc = "switch"
        /\ UNCHANGED <<caller, calls, failures, fault>>
    BY <1>6 DEF TimeoutFinishesSwitch
  <2>2. /\ thread.room \in Room \cup {None} /\ thread.room = Selected
        /\ thread.partner \in Partner \cup {None}
        /\ thread.was_open \in BOOLEAN
    BY <2>1 DEF IInv, TypeOK
  <2>3. /\ t' \in Transport /\ Scoped(t')
        /\ t'.timer <= t'.generation /\ t.generation <= t'.generation
        /\ Camera(t) => Good(t')
    BY <2>1, <2>2, IInvIsSane, FinishSwitchKeeps
  <2>4. TimersAreOld'
    <3>1. t'.generation \in Nat
      BY <2>3 DEF Transport
    <3>2. QED
      BY <1>0, <2>1, <2>3, <3>1 DEF TimersAreOld
  <2>5. MidOperation'
    BY <1>a, <1>b, <2>1
  <2>6. fault' = "none" => Good(t)'
    BY <1>a, <2>1, <2>3 DEF IInv, Good
  <2>7. QED
    BY <1>0, <2>1, <2>3, <2>4, <2>5, <2>6, GoodIsHalf DEF IInv, TypeOK
<1>7. ASSUME TimeoutSwitchRaises
      PROVE  IInv'
  <2>1. /\ t' = CloseActive(t) /\ thread' = NoThread /\ thread.pc = "switch"
        /\ fault' = IF fault = "raced" THEN "raced" ELSE "broken"
        /\ UNCHANGED <<caller, calls, failures>>
    BY <1>7 DEF TimeoutSwitchRaises
  <2>2. /\ t' \in Transport /\ Scoped(t')
        /\ t'.timer <= t'.generation /\ t'.generation \in Nat
    BY <2>1, IInvIsSane, CloseKeeps DEF Transport
  <2>3. MidOperation'
    BY <1>a, <1>b, <2>1
  <2>4. QED
    BY <1>0, <2>1, <2>2, <2>3 DEF IInv, TypeOK, TimersAreOld
<1>8. QED
  BY <1>1, <1>2, <1>4, <1>5, <1>6, <1>7

(* Every step keeps the invariant.                                          *)
LEMMA FailoverNext == IInv /\ [Next]_vars => IInv'
<1> SUFFICES ASSUME IInv, [Next]_vars
             PROVE  IInv'
  OBVIOUS
<1>0. TRUE \in BOOLEAN
  OBVIOUS
<1>1. ASSUME NEW r \in Room, NEW p \in Partner,
             preconnect(r, p) \/ switch_partner(r, p)
      PROVE  IInv'
  BY <1>0, <1>1, NewCallStep
<1>7. ASSUME CallerGoesOn
      PROVE  IInv'
  <2>1. caller.room \in Room /\ caller.partner \in Partner
    BY <1>7 DEF CallerGoesOn, preconnect_ends, switch_partner_ends, IInv,
                MidOperation
  <2>2. CASE preconnect_ends
    BY <1>0, <2>1, <2>2, NewCallStep
  <2>3. ASSUME NEW instant \in BOOLEAN, switch_partner_ends(instant)
        PROVE  IInv'
    BY <2>1, <2>3, NewCallStep
  <2>4. QED
    BY <1>7, <2>2, <2>3 DEF CallerGoesOn
<1>2. ASSUME NEW instant \in BOOLEAN,
             open(instant) \/ force_fallback(instant) \/ AdapterFails(instant)
      PROVE  IInv'
  BY <1>2, CallerStep
<1>3. ASSUME leave \/ AdapterConnects \/ FactoryRaises
      PROVE  IInv'
  <2>1. TRUE \in BOOLEAN
    OBVIOUS
  <2>2. QED
    BY <1>3, <2>1, CallerStep
<1>4. ASSUME TimerThread \/ TimeoutSwitchRaises
      PROVE  IInv'
  <2>1. TRUE \in BOOLEAN
    OBVIOUS
  <2>2. ASSUME NEW instant \in BOOLEAN, TimeoutFinishesSwitch(instant)
        PROVE  IInv'
    BY <2>2, TimerStep
  <2>3. ASSUME TimerFires \/ TimeoutCheck \/ TimeoutGivesUp
               \/ TimeoutStartsSwitch \/ TimeoutSwitchRaises
        PROVE  IInv'
    BY <2>1, <2>3, TimerStep
  <2>4. QED
    BY <1>4, <2>2, <2>3 DEF TimerThread
<1>5. CASE UNCHANGED vars
  BY <1>5 DEF vars, IInv, TypeOK, TimersAreOld, MidOperation, Scoped, Good, Half,
              Camera, Peers, Down, Shape, Reported, Active
<1>6. QED
  BY <1>1, <1>2, <1>3, <1>4, <1>5, <1>7 DEF Next

-----------------------------------------------------------------------------
(* The theorems *)

(* In every run of one transport, with any number of rooms, operations,     *)
(* failures and callbacks in any order, also between the two steps of       *)
(* preconnect and switch_partner: timers are of the past, and a callback    *)
(* that replaces the adapter does so for the selected room.  As long as     *)
(* nothing raced, a bound relay is the fallback of the selected room; as    *)
(* long as the fallback could be built, too, peers, media, muting and the   *)
(* session's idea of the connection go together.                            *)
THEOREM FailoverInvariant == Spec => []IInv
<1>1. Init => IInv
  BY FailoverInit
<1>2. IInv /\ [Next]_vars => IInv'
  BY FailoverNext
<1>3. QED
  BY <1>1, <1>2, PTL DEF Spec

(* "Pair-scoped primary->fallback switch": no timer, failure or partner     *)
(* switch leaves a call of another room on the relay, unless an operation   *)
(* or an event came between the guards and the effect of a callback.        *)
THEOREM FailoverScope == Spec => []PairScoped
<1>1. IInv => PairScoped
  BY DEF IInv, Scoped, PairScoped
<1>2. QED
  BY <1>1, FailoverInvariant, PTL

(* While nothing raced and every fallback could be built: one peer          *)
(* connection at most, between operations camera and microphone on exactly  *)
(* while there is one, and acquired once between two leaves.                *)
THEOREM FailoverCamera == Spec => []CameraFollowsPeer
<1>1. IInv => CameraFollowsPeer
  <2> SUFFICES ASSUME IInv, fault = "none"
               PROVE  /\ \A k \in Kind : t.adapter[k].peer => k = t.active
                      /\ caller.pc = "idle" => (t.live <=> Active(t).peer)
                      /\ t.acquired <= t.releases + 1
    BY DEF CameraFollowsPeer
  <2>1. Peers(t) /\ t.acquired \in Nat /\ t.releases \in Nat
    BY DEF IInv, Half, TypeOK, Transport
  <2>2. caller.pc = "idle" => (t.live <=> Active(t).peer)
    BY DEF IInv, Good, Camera
  <2>3. QED
    BY <2>1, <2>2 DEF Peers, Down
<1>2. QED
  BY <1>1, FailoverInvariant, PTL

(* While nothing raced and every fallback could be built: a call that is up *)
(* is not escalated, and the session knows that it is up.                   *)
THEOREM FailoverConnected == Spec => []ConnectedIsReported
<1>1. IInv => ConnectedIsReported
  BY DEF IInv, Half, Reported, TimersAreOld, ConnectedIsReported
<1>2. QED
  BY <1>1, FailoverInvariant, PTL

-----------------------------------------------------------------------------
(* The transport implements the contract *)

\* The contract allows the step, or takes none.
Allowed == Contract!Next \/ UNCHANGED Contract!vars

(* Between operations, and while no callback replaces the adapter, a caller *)
(* sees the active one.                                                     *)
LEMMA ViewOfActive ==
  ASSUME caller.pc = "idle", thread.pc # "switch"
  PROVE  /\ View.state = Active(t).state /\ View.room = Active(t).room
         /\ View.partner = Active(t).partner /\ View.muted = Active(t).muted
BY DEF View

(* So it does after a step.                                                 *)
LEMMA ViewOfActiveNext ==
  ASSUME caller'.pc = "idle", thread'.pc # "switch"
  PROVE  /\ View'.state = Active(t').state /\ View'.room = Active(t').room
         /\ View'.partner = Active(t').partner
         /\ View'.muted = Active(t').muted
BY DEF View

(* A step that overtakes no callback happens while there is none to see.    *)
LEMMA NotRaced ==
  ASSUME IInv, UNCHANGED thread, fault' = Raced, fault' = "none"
  PROVE  /\ fault = "none"
         /\ caller.pc = "idle" => Good(t)
         /\ thread.pc # "switch" /\ thread'.pc # "switch"
BY DEF IInv, TypeOK, Raced

(* A call that is carried on is the call that was.                          *)
LEMMA CarriedIsSeen ==
  ASSUME NEW s \in Transport, NEW u \in Transport, NEW up, Shape(s),
         Active(s).room # None,
         Carries(Active(u), Active(s).room, Active(s).partner,
                 Active(s).state = "open", up)
  PROVE  Seen(u, s)
<1>1. Active(s).muted \in BOOLEAN /\ Active(u).muted \in BOOLEAN
  BY ActiveIsAdapter DEF Adapter
<1>2. Active(u).muted <=> Active(s).muted
  BY DEF Carries, Shape
<1>3. Active(u).state = Active(s).state
  BY DEF Carries, Shape
<1>4. QED
  BY <1>1, <1>2, <1>3 DEF Carries, Seen

(* An event of the adapter leaves the caller's view alone.                  *)
LEMMA EventIsHidden ==
  ASSUME IInv, caller.pc = "idle", UNCHANGED <<caller, thread, calls>>,
         fault' = Raced, fault' = "none", Seen(t', t)
  PROVE  Allowed
<1>1. thread.pc # "switch" /\ thread'.pc # "switch"
  BY NotRaced
<1>2. /\ View'.state = View.state /\ View'.room = View.room
      /\ View'.partner = View.partner /\ View'.muted = View.muted
  BY <1>1, ViewOfActive, ViewOfActiveNext DEF Seen
<1>3. QED
  BY <1>2 DEF Allowed, Contract!vars

(* A call that the caller sees preconnected or opened is an operation of    *)
(* the contract.                                                            *)
LEMMA NewCallIsAllowed ==
  ASSUME NEW r \in Room, NEW p \in Partner, calls' = calls + 1,
         View'.room = r, View'.partner = p,
         \/ View'.state = "preconnected" /\ View'.muted = TRUE
         \/ View'.state = "open" /\ View'.muted = FALSE
  PROVE  Allowed
BY DEF Allowed, Contract!Next, Contract!preconnect, Contract!switch_partner

(* An operation that is done in one step is the operation of the contract.  *)
LEMMA CallIsSeen ==
  ASSUME IInv, NEW s, Call(s), UNCHANGED caller, fault' = "none"
  PROVE  /\ InCall(s, "open", Active(t).room, Active(t).partner, FALSE)
              => Allowed
         /\ InCall(s, "closed", None, None, TRUE) => Allowed
<1>1. t' = s /\ calls' = calls + 1 /\ UNCHANGED thread /\ fault' = Raced
      /\ caller.pc = "idle" /\ caller'.pc = "idle"
  BY DEF Call
<1>2. thread.pc # "switch" /\ thread'.pc # "switch"
  BY <1>1, NotRaced
<1>3. /\ View.state = Active(t).state /\ View.room = Active(t).room
      /\ View.partner = Active(t).partner /\ View.muted = Active(t).muted
  BY <1>1, <1>2, ViewOfActive
<1>4. /\ View'.state = Active(s).state /\ View'.room = Active(s).room
      /\ View'.partner = Active(s).partner /\ View'.muted = Active(s).muted
  BY <1>1, <1>2, ViewOfActiveNext
<1>5. InCall(s, "open", Active(t).room, Active(t).partner, FALSE) => Allowed
  BY <1>1, <1>3, <1>4 DEF Allowed, InCall, Contract!Next, Contract!open
<1>6. InCall(s, "closed", None, None, TRUE) => Allowed
  BY <1>1, <1>4 DEF Allowed, InCall, Contract!Next, Contract!leave
<1>7. QED
  BY <1>5, <1>6

(* The first step of an operation that begins a call is the operation of    *)
(* the contract.                                                            *)
LEMMA NewCallRefines ==
  ASSUME IInv, NEW r \in Room, NEW p \in Partner,
         preconnect(r, p) \/ switch_partner(r, p)
  PROVE  Allowed
<1>1. PICK op \in {"preconnect", "switch"} : BeginCall(op, r, p)
  BY DEF preconnect, switch_partner
<1>2. /\ caller'.pc = op /\ caller'.room = r /\ caller'.partner = p
      /\ calls' = calls + 1
  BY <1>1 DEF BeginCall, Call
<1>3. /\ View'.state = IF op = "switch" THEN "open" ELSE "preconnected"
      /\ View'.room = r /\ View'.partner = p
      /\ View'.muted = (op = "preconnect")
  BY <1>2 DEF View
<1>4. QED
  BY <1>2, <1>3, NewCallIsAllowed

(* The second step is hidden: the adapter is in the call that was announced.*)
LEMMA EndCallIsHidden ==
  ASSUME IInv, NEW s, EndCall(s), fault' = "none", caller.pc # "idle",
         InCall(s, IF caller.pc = "switch" THEN "open" ELSE "preconnected",
                caller.room, caller.partner, caller.pc = "preconnect")
  PROVE  Allowed
<1>1. t' = s /\ calls' = calls /\ UNCHANGED thread /\ fault' = Raced
      /\ caller'.pc = "idle"
  BY DEF EndCall, NoOperation
<1>2. thread'.pc # "switch"
  BY <1>1, NotRaced
<1>3. /\ View'.state = Active(s).state /\ View'.room = Active(s).room
      /\ View'.partner = Active(s).partner /\ View'.muted = Active(s).muted
  BY <1>1, <1>2, ViewOfActiveNext
<1>4. /\ View.state = IF caller.pc = "switch" THEN "open" ELSE "preconnected"
      /\ View.room = caller.room /\ View.partner = caller.partner
      /\ View.muted = (caller.pc = "preconnect")
  BY DEF View
<1>5. QED
  BY <1>1, <1>3, <1>4 DEF Allowed, InCall, Contract!vars

(* So it is, whatever the operation.                                        *)
LEMMA CallerGoesOnRefines ==
  ASSUME IInv, fault' = "none", CallerGoesOn
  PROVE  Allowed
<1>1. caller.pc # "idle" => caller.room \in Room /\ caller.partner \in Partner
  BY DEF IInv, MidOperation
<1>2. CASE preconnect_ends
  <2> DEFINE s == AdapterPreconnect(t, caller.room, caller.partner)
  <2>1. EndCall(s) /\ caller.pc = "preconnect"
    BY <1>2 DEF preconnect_ends
  <2>2. InCall(s, "preconnected", caller.room, caller.partner, TRUE)
    BY <1>1, <2>1, IInvIsSane, PreconnectKeeps
  <2> HIDE DEF s
  <2>3. QED
    BY <2>1, <2>2, EndCallIsHidden
<1>3. ASSUME NEW instant \in BOOLEAN, switch_partner_ends(instant)
      PROVE  Allowed
  <2> DEFINE s == ArmTimer(AdapterSwitchPartner(t, caller.room, caller.partner,
                                                instant))
  <2>1. EndCall(s) /\ caller.pc = "switch"
    BY <1>3 DEF switch_partner_ends
  <2>2. InCall(s, "open", caller.room, caller.partner, FALSE)
    BY <1>1, <2>1, IInvIsSane, SwitchPartnerKeeps
  <2> HIDE DEF s
  <2>3. QED
    BY <2>1, <2>2, EndCallIsHidden
<1>4. QED
  BY <1>2, <1>3 DEF CallerGoesOn

(* So are open and leave; what the adapters report and what the fallback    *)
(* does about it is hidden, unless the fallback cannot be built.            *)
LEMMA CallerRefines ==
  ASSUME IInv, NEW instant \in BOOLEAN, fault' = "none"
  PROVE  /\ open(instant) => Allowed
         /\ leave => Allowed
         /\ force_fallback(instant) => Allowed
         /\ AdapterFails(instant) => Allowed
         /\ AdapterConnects => Allowed
         /\ ~FactoryRaises
<1>1. ASSUME open(instant)
      PROVE  Allowed
  <2> DEFINE s == ArmTimer(AdapterOpen([t EXCEPT !.primary_connected = FALSE],
                                       instant))
  <2>1. Call(s) /\ UNCHANGED caller
    BY <1>1 DEF open
  <2>2. InCall(s, "open", Active(t).room, Active(t).partner, FALSE)
    BY IInvIsSane, OpenKeeps
  <2> HIDE DEF s
  <2>3. QED
    BY <2>1, <2>2, CallIsSeen
<1>2. ASSUME leave
      PROVE  Allowed
  <2> DEFINE s == [AdapterLeave([ClearTimer(t) EXCEPT !.bound = FALSE]) EXCEPT
                     !.live = FALSE, !.releases = t.releases + 1,
                     !.using_fallback = FALSE, !.primary_connected = FALSE]
  <2>1. Call(s) /\ UNCHANGED caller
    BY <1>2 DEF leave
  <2>2. InCall(s, "closed", None, None, TRUE)
    BY IInvIsSane, LeaveKeeps
  <2> HIDE DEF s
  <2>3. QED
    BY <2>1, <2>2, CallIsSeen
<1>3. ASSUME force_fallback(instant)
      PROVE  Allowed
  <2>1. /\ MayActivate(t) /\ t' = Activate(t, instant) /\ fault' = Raced
        /\ UNCHANGED <<caller, thread, calls>> /\ caller.pc = "idle"
    BY <1>3 DEF force_fallback
  <2>2. /\ t' \in Transport
        /\ Carries(Active(t'), Active(t).room, Active(t).partner,
                   Active(t).state = "open", instant)
    BY <2>1, IInvIsSane, ActivateKeeps DEF Kept
  <2>3. Shape(t) /\ Active(t).room # None
    BY <2>1, NotRaced, IInvIsSane, ActivateInSelectedRoom DEF Good
  <2>4. Seen(t', t)
    BY <2>2, <2>3, IInvIsSane, CarriedIsSeen
  <2>5. QED
    BY <2>1, <2>4, EventIsHidden
<1>4. ASSUME AdapterFails(instant)
      PROVE  Allowed
  <2> DEFINE down == SetActive(t, [Active(t) EXCEPT !.connected = FALSE])
             quiet == ClearTimer(down)
  <2>1. /\ t' = IF ~t.bound THEN down
                ELSE IF MayActivate(quiet) THEN Activate(quiet, instant)
                ELSE TellFailed(quiet)
        /\ UNCHANGED <<caller, thread, calls>> /\ fault' = Raced
        /\ caller.pc = "idle"
    BY <1>4 DEF AdapterFails
  <2>2. /\ Seen(down, t) /\ Seen(TellFailed(quiet), t)
        /\ MayActivate(quiet) =>
             /\ Activate(quiet, instant) \in Transport
             /\ Carries(Active(Activate(quiet, instant)), Active(t).room,
                        Active(t).partner, Active(t).state = "open", instant)
    BY IInvIsSane, FailsKeeps DEF Kept
  <2>3. MayActivate(quiet) => Active(t).room # None
    <3>1. /\ t \in Transport
          /\ [Active(t) EXCEPT !.connected = FALSE] \in Adapter
      BY IInvIsSane, ActiveIsAdapter DEF Adapter
    <3>2. /\ down \in Transport
          /\ Active(down) = [Active(t) EXCEPT !.connected = FALSE]
      BY <3>1, SetActiveFields
    <3> HIDE DEF down
    <3>3. SameAdapters(quiet, down) /\ quiet \in Transport
      BY <3>2, ClearTimerFields
    <3> HIDE DEF quiet
    <3>4. Active(quiet).room = Active(t).room
      BY <3>1, <3>2, <3>3, ActiveIsAdapter DEF SameAdapters, Active, Adapter
    <3>5. QED
      BY <3>3, <3>4, ActivateInSelectedRoom
  <2> HIDE DEF down, quiet
  <2>4. Shape(t)
    BY <2>1, NotRaced DEF Good
  <2>5. MayActivate(quiet) => Seen(Activate(quiet, instant), t)
    BY <2>2, <2>3, <2>4, IInvIsSane, CarriedIsSeen
  <2>6. Seen(t', t)
    BY <2>1, <2>2, <2>5
  <2>7. QED
    BY <2>1, <2>6, EventIsHidden
<1>5. ASSUME AdapterConnects
      PROVE  Allowed
  <2>1. /\ Active(t).state = "open" /\ Active(t).peer
        /\ t' = ForwardConnected(
                  SetActive(t, [Active(t) EXCEPT !.connected = TRUE]))
        /\ fault' = Raced /\ UNCHANGED <<caller, thread, calls>>
        /\ caller.pc = "idle"
    BY <1>5 DEF AdapterConnects
  <2>2. Seen(t', t)
    BY <2>1, IInvIsSane, ConnectsKeeps
  <2>3. QED
    BY <2>1, <2>2, EventIsHidden
<1>6. ~FactoryRaises
  BY DEF FactoryRaises
<1>7. QED
  BY <1>1, <1>2, <1>3, <1>4, <1>5, <1>6

(* No step of the timer's thread can be seen.                               *)
LEMMA TimerRefines ==
  ASSUME IInv, NEW instant \in BOOLEAN, fault' = "none"
  PROVE  /\ TimerFires => Allowed
         /\ TimeoutCheck => Allowed
         /\ TimeoutGivesUp => Allowed
         /\ TimeoutStartsSwitch => Allowed
         /\ TimeoutFinishesSwitch(instant) => Allowed
         /\ ~TimeoutSwitchRaises
<1>a. ASSUME t.timer # 0 \/ thread.pc \in {"handle", "switch"}, fault = "none"
      PROVE  caller.pc = "idle"
  BY <1>a DEF IInv, MidOperation
<1>1. ASSUME caller.pc = "idle", caller' = caller, thread.pc # "switch",
             thread'.pc # "switch", Seen(t', t), calls' = calls
      PROVE  Allowed
  BY <1>1, ViewOfActive, ViewOfActiveNext DEF Allowed, Contract!vars, Seen
<1>2. ASSUME TimerFires
      PROVE  Allowed
  <2>0. caller.pc = "idle" /\ caller' = caller
    BY <1>2, <1>a DEF TimerFires
  <2>1. /\ t' = [t EXCEPT !.timer = 0] /\ thread.pc = "idle" /\ calls' = calls
        /\ thread' = [thread EXCEPT !.pc = "fired", !.gen = t.timer]
    BY <1>2 DEF TimerFires
  <2>2. t'.adapter = t.adapter /\ t'.active = t.active
    BY <2>1, IInvIsSane DEF Transport
  <2>3. thread'.pc = "fired"
    BY <2>1 DEF IInv, TypeOK
  <2>4. QED
    BY <1>1, <2>0, <2>1, <2>2, <2>3 DEF Seen, Active
<1>3. ASSUME TimeoutCheck
      PROVE  Allowed
  <2>1. t' = t /\ calls' = calls /\ thread.pc = "fired" /\ caller' = caller
    BY <1>3 DEF TimeoutCheck
  <2>2. thread'.pc # "switch"
    BY <1>3 DEF TimeoutCheck, NoThread, IInv, TypeOK
  <2>3. CASE caller.pc = "idle"
    BY <1>1, <2>1, <2>2, <2>3 DEF Seen
  <2>4. CASE caller.pc # "idle"
    BY <2>1, <2>4 DEF Allowed, Contract!vars, View
  <2>5. QED
    BY <2>3, <2>4
<1>4. ASSUME TimeoutGivesUp
      PROVE  Allowed
  <2> DEFINE u == TellDegraded(t)
             v == TellFailed(u)
  <2>0. caller.pc = "idle" /\ caller' = caller
    BY <1>4, <1>a DEF TimeoutGivesUp
  <2>1. t' = v /\ thread' = NoThread /\ thread.pc = "handle" /\ calls' = calls
    BY <1>4 DEF TimeoutGivesUp
  <2>2. u \in Transport /\ SameAdapters(u, t)
    BY IInvIsSane, TellFields
  <2> HIDE DEF u
  <2>3. SameAdapters(v, u)
    BY <2>2, TellFields
  <2> HIDE DEF v
  <2>4. QED
    BY <1>1, <2>0, <2>1, <2>2, <2>3 DEF Seen, Active, SameAdapters, NoThread
<1>5. ASSUME TimeoutStartsSwitch
      PROVE  Allowed
  <2>0. caller.pc = "idle" /\ caller'.pc = "idle"
    BY <1>5, <1>a DEF TimeoutStartsSwitch
  <2>1. /\ thread.pc = "handle" /\ MayActivate(t)
        /\ thread' = [pc |-> "switch", gen |-> 0, room |-> Active(t).room,
                      partner |-> Active(t).partner,
                      was_open |-> Active(t).state = "open"]
        /\ calls' = calls /\ fault = "none"
    BY <1>5 DEF TimeoutStartsSwitch
  <2>2. Shape(t) /\ Active(t).room # None /\ Active(t).muted \in BOOLEAN
    BY <2>0, <2>1, IInvIsSane, ActivateInSelectedRoom, ActiveIsAdapter
    DEF IInv, Good, Adapter
  <2>3. /\ View.state = Active(t).state /\ View.room = Active(t).room
        /\ View.partner = Active(t).partner /\ View.muted = Active(t).muted
    BY <2>0, <2>1, ViewOfActive
  <2>4. /\ View'.state = IF thread'.was_open THEN "open" ELSE "preconnected"
        /\ View'.room = thread'.room /\ View'.partner = thread'.partner
        /\ View'.muted = ~thread'.was_open
    BY <2>0, <2>1 DEF View
  <2>5. /\ thread'.room = Active(t).room /\ thread'.partner = Active(t).partner
        /\ thread'.was_open = (Active(t).state = "open")
    BY <2>1
  <2>6. View'.state = View.state /\ View'.room = View.room
        /\ View'.partner = View.partner
    BY <2>2, <2>3, <2>4, <2>5 DEF Shape
  <2>7. View'.muted = View.muted
    BY <2>2, <2>3, <2>4, <2>5 DEF Shape
  <2>8. QED
    BY <2>1, <2>6, <2>7 DEF Allowed, Contract!vars
<1>6. ASSUME TimeoutFinishesSwitch(instant)
      PROVE  Allowed
  <2>0. caller.pc = "idle" /\ caller'.pc = "idle"
    BY <1>6, <1>a DEF TimeoutFinishesSwitch
  <2>1. /\ t' = FinishSwitch(t, thread.room, thread.partner, thread.was_open,
                             instant)
        /\ thread' = NoThread /\ thread.pc = "switch" /\ calls' = calls
    BY <1>6 DEF TimeoutFinishesSwitch
  <2>2. /\ thread.room \in Room \cup {None} /\ thread.room = Selected
        /\ thread.partner \in Partner \cup {None}
        /\ thread.was_open \in BOOLEAN
    BY <2>1 DEF IInv, TypeOK
  <2>3. /\ t' \in Transport
        /\ Carries(Active(t'), thread.room, thread.partner, thread.was_open,
                   instant)
    BY <2>1, <2>2, IInvIsSane, FinishSwitchKeeps
  <2>4. /\ View.state = IF thread.was_open THEN "open" ELSE "preconnected"
        /\ View.room = thread.room /\ View.partner = thread.partner
        /\ View.muted = ~thread.was_open
    BY <2>0, <2>1 DEF View
  <2>5. /\ View'.state = Active(t').state /\ View'.room = Active(t').room
        /\ View'.partner = Active(t').partner
        /\ View'.muted = Active(t').muted
    BY <2>0, <2>1, ViewOfActiveNext DEF NoThread
  <2>6. Active(t').muted \in BOOLEAN
    BY <2>3, ActiveIsAdapter DEF Adapter
  <2>7. View'.state = View.state /\ View'.room = View.room
        /\ View'.partner = View.partner
    BY <2>3, <2>4, <2>5 DEF Carries
  <2>8. View'.muted = View.muted
    BY <2>2, <2>3, <2>4, <2>5, <2>6 DEF Carries
  <2>9. QED
    BY <2>1, <2>7, <2>8 DEF Allowed, Contract!vars
<1>7. ~TimeoutSwitchRaises
  BY DEF TimeoutSwitchRaises
<1>8. QED
  BY <1>2, <1>3, <1>4, <1>5, <1>6, <1>7

(* The mapping takes the initial state to the contract's, and every step to *)
(* a step of the contract, to a stutter, or into a fault.                   *)
LEMMA ContractInit == Init => Contract!Init
<1> SUFFICES ASSUME Init
             PROVE  Contract!Init
  OBVIOUS
<1>1. /\ Active(t) = NewAdapter /\ thread.pc # "switch" /\ calls = 0
      /\ caller.pc = "idle"
  BY DEF Init, Active, Kind, NoThread, NoOperation
<1>2. /\ View.state = NewAdapter.state /\ View.room = NewAdapter.room
      /\ View.partner = NewAdapter.partner /\ View.muted = NewAdapter.muted
  BY <1>1, ViewOfActive
<1>3. /\ NewAdapter.state = "idle" /\ NewAdapter.room = None
      /\ NewAdapter.partner = None /\ NewAdapter.muted = TRUE
  BY DEF NewAdapter
<1>4. QED
  BY <1>1, <1>2, <1>3 DEF Contract!Init

LEMMA ContractNext ==
  IInv /\ [Next]_vars => [Contract!Next \/ fault' # "none"]_(Contract!vars)
<1> SUFFICES ASSUME IInv, [Next]_vars, fault' = "none"
             PROVE  Allowed
  BY DEF Allowed
<1>0. TRUE \in BOOLEAN
  OBVIOUS
<1>1. ASSUME NEW r \in Room, NEW p \in Partner,
             preconnect(r, p) \/ switch_partner(r, p)
      PROVE  Allowed
  BY <1>1, NewCallRefines
<1>7. ASSUME CallerGoesOn
      PROVE  Allowed
  BY <1>7, CallerGoesOnRefines
<1>2. ASSUME NEW instant \in BOOLEAN,
             open(instant) \/ force_fallback(instant) \/ AdapterFails(instant)
      PROVE  Allowed
  BY <1>2, CallerRefines
<1>3. ASSUME leave \/ AdapterConnects \/ FactoryRaises
      PROVE  Allowed
  BY <1>0, <1>3, CallerRefines
<1>4. ASSUME TimerThread \/ TimeoutSwitchRaises
      PROVE  Allowed
  <2>1. ASSUME NEW instant \in BOOLEAN, TimeoutFinishesSwitch(instant)
        PROVE  Allowed
    BY <2>1, TimerRefines
  <2>2. ASSUME TimerFires \/ TimeoutCheck \/ TimeoutGivesUp
               \/ TimeoutStartsSwitch \/ TimeoutSwitchRaises
        PROVE  Allowed
    BY <1>0, <2>2, TimerRefines
  <2>3. QED
    BY <1>4, <2>1, <2>2 DEF TimerThread
<1>5. CASE UNCHANGED vars
  BY <1>5 DEF vars, Allowed, Contract!vars, View, Active
<1>6. QED
  BY <1>1, <1>2, <1>3, <1>4, <1>5, <1>7 DEF Next

(* "Callers depend only on MediaTransport": whatever the timer, the         *)
(* adapters and the fallback do behind it, the transport is a transport of  *)
(* the contract until an operation overtakes a callback or the fallback     *)
(* cannot be built.                                                         *)
THEOREM FailoverRefinement == Spec => ImplementsContract
<1>1. Init => Contract!Init
  BY ContractInit
<1>2. IInv /\ [Next]_vars => [Contract!Next \/ fault' # "none"]_(Contract!vars)
  BY ContractNext
<1>3. QED
  BY <1>1, <1>2, FailoverInvariant, PTL DEF Spec, ImplementsContract

-----------------------------------------------------------------------------
(* PerfectNegotiation: the inductive invariant *)

polite == peer["polite"]
impolite == peer["impolite"]
toPolite == wire["polite"]
toImpolite == wire["impolite"]

Signal(type, id) == [type |-> type, id |-> id]

\* Chains of operations.
Only(c, do) == Len(c) = 1 /\ c[1].do = do
Both(c, do, next) == Len(c) = 2 /\ c[1].do = do /\ c[2].do = next
Does(c, do) == \E n \in DOMAIN c : c[n].do = do
About(c, dos, id) == \A n \in DOMAIN c : c[n].do \in dos => c[n].id = id

(* Each peer by itself *)

\* The operations that can be waiting together.
PoliteChain(c) ==
  \/ c = <<>>
  \/ Only(c, "mute") \/ Only(c, "create") \/ Only(c, "set") \/ Only(c, "offer")
  \/ Only(c, "rollback") \/ Only(c, "remote") \/ Only(c, "reply")
  \/ Only(c, "answer")
  \/ Both(c, "mute", "remote") \/ Both(c, "remote", "create")
  \/ Both(c, "create", "reply") \/ Both(c, "reply", "set")
  \/ Both(c, "create", "rollback") \/ Both(c, "rollback", "set")
  \/ Both(c, "set", "rollback") \/ Both(c, "offer", "rollback")
  \/ Both(c, "answer", "rollback")

ImpoliteChain(c) ==
  \/ c = <<>>
  \/ Only(c, "mute") \/ Only(c, "offer") \/ Only(c, "remote")
  \/ Only(c, "reply") \/ Only(c, "answer")
  \/ Both(c, "mute", "remote")

\* The state of a connection and what is waiting in its chain go together.
StateFits(x) ==
  /\ x.pc # "live" => x.chain = <<>>
  /\ x.pc = "waiting" =>
       x.sig = "stable" /\ x.agreed = 0 /\ x.capping = <<>> /\ ~x.making
  /\ x.pc = "live" =>
       /\ x.making <=> \/ Does(x.chain, "offer") \/ Does(x.chain, "create")
                       \/ Does(x.chain, "set")
       /\ x.sig = "remote" <=> Does(x.chain, "reply")
       /\ x.agreed = 0 => x.need # "none"
  /\ Does(x.chain, "answer") => x.sig = "local"
  /\ x.sig = "local" =>
       ~x.making /\ ~Does(x.chain, "mute") /\ ~Does(x.chain, "remote")
  /\ x.pending = 0 <=> x.sig = "stable"
  /\ About(x.chain, {"answer"}, x.pending)

\* Only offers that were made are in progress, agreed on or waiting.
Numbered(x) ==
  /\ x.pending <= offers /\ x.agreed <= offers
  /\ \A n \in DOMAIN x.capping : x.capping[n] \in 1 .. offers

PeersFit ==
  /\ PoliteChain(polite.chain) /\ ImpoliteChain(impolite.chain)
  /\ StateFits(polite) /\ StateFits(impolite)
  /\ Numbered(polite) /\ Numbered(impolite)
  /\ ~polite.broken /\ ~impolite.broken

(* Where the offer of the impolite peer is, or the answer to it *)

CarriesOffer(w) == \E n \in DOMAIN w : w[n].type = "offer"
CarriesAnswer(w) == \E n \in DOMAIN w : w[n].type = "answer"
EndsWith(w, m) == w # <<>> /\ w[Len(w)] = m

SentToPolite == CarriesOffer(toPolite)
TakenByPolite == Does(polite.chain, "rollback") \/ Does(polite.chain, "remote")
AppliedByPolite == polite.sig = "remote"
CappedByPolite == polite.capping # <<>>
ReturnedToImpolite == CarriesAnswer(toImpolite)
SettledByImpolite == Does(impolite.chain, "answer")

InProgressI ==
  \/ SentToPolite \/ TakenByPolite \/ AppliedByPolite \/ CappedByPolite
  \/ ReturnedToImpolite \/ SettledByImpolite

(* Where the offer of the polite peer is, or the answer to it *)

\* An offer that the impolite peer will not see while it waits for an answer.
SentToImpolite ==
  /\ EndsWith(toImpolite, Signal("offer", polite.pending))
  /\ impolite.sig = "local" => ReturnedToImpolite \/ SettledByImpolite
TakenByImpolite == Does(impolite.chain, "remote")
AppliedByImpolite == impolite.sig = "remote"
\* The answer that will be sent is the one that waits.
CappedByImpolite ==
  /\ impolite.sig # "local"
  /\ \E n \in DOMAIN impolite.capping : impolite.capping[n] = impolite.agreed
ReturnedToPolite == CarriesAnswer(toPolite)
SettledByPolite == Does(polite.chain, "answer")

InProgressP ==
  \/ SentToImpolite \/ TakenByImpolite \/ AppliedByImpolite
  \/ CappedByImpolite \/ ReturnedToPolite \/ SettledByPolite

\* An offer is in one place.
OnePlace ==
  /\ SentToPolite => ~TakenByPolite /\ ~AppliedByPolite /\ ~CappedByPolite
       /\ ~ReturnedToImpolite /\ ~SettledByImpolite
  /\ TakenByPolite => ~AppliedByPolite /\ ~CappedByPolite
       /\ ~ReturnedToImpolite /\ ~SettledByImpolite
  /\ AppliedByPolite => ~CappedByPolite /\ ~ReturnedToImpolite
       /\ ~SettledByImpolite
  /\ CappedByPolite => ~ReturnedToImpolite /\ ~SettledByImpolite
  /\ ReturnedToImpolite => ~SettledByImpolite
  /\ SentToImpolite => ~TakenByImpolite /\ ~AppliedByImpolite
       /\ ~CappedByImpolite /\ ~ReturnedToPolite /\ ~SettledByPolite
  /\ TakenByImpolite => ~AppliedByImpolite /\ ~CappedByImpolite
       /\ ~ReturnedToPolite /\ ~SettledByPolite
  /\ AppliedByImpolite => ~CappedByImpolite /\ ~ReturnedToPolite
       /\ ~SettledByPolite
  /\ CappedByImpolite => ~ReturnedToPolite /\ ~SettledByPolite
  /\ ReturnedToPolite => ~SettledByPolite

\* Both offers may be under way, but the polite peer has given up its own
\* before it answers the other one.
OneExchange ==
  /\ ReturnedToPolite => ~TakenByPolite
  /\ ReturnedToPolite \/ SettledByPolite =>
       /\ ~AppliedByPolite /\ ~CappedByPolite
       /\ ~ReturnedToImpolite /\ ~SettledByImpolite

\* What is under way belongs to the offer that its maker waits with.
OwnersWait ==
  /\ InProgressI => impolite.sig = "local"
  /\ InProgressP => polite.sig = "local"
  /\ About(polite.chain, {"rollback", "remote"}, impolite.pending)
  /\ AppliedByPolite => polite.pending = impolite.pending
  /\ CappedByPolite => polite.capping = <<impolite.pending>>
  /\ CappedByPolite \/ ReturnedToImpolite \/ SettledByImpolite =>
       polite.agreed = impolite.pending
  /\ About(impolite.chain, {"remote"}, polite.pending)
  /\ AppliedByImpolite => impolite.pending = polite.pending
  /\ CappedByImpolite \/ ReturnedToPolite \/ SettledByPolite =>
       impolite.agreed = polite.pending

(* The wires *)

\* What is on its way to the polite peer: an answer before an offer.
WireToPolite(w, p, i) ==
  \/ w = <<>>
  \/ w = <<Signal("offer", i)>>
  \/ w = <<Signal("answer", p)>>
  \/ w = <<Signal("answer", p), Signal("offer", i)>>

\* Nothing, or an offer that is not ignored.
Fresh(w, p, waits) ==
  w = <<>> \/ (waits /\ w = <<Signal("offer", p)>>)

\* Offers that are ignored, the answer, and what was sent after it.
Answered(w, i, p, waits) ==
  \E k \in DOMAIN w :
    /\ w[k] = Signal("answer", i)
    /\ \A n \in 1 .. k - 1 : w[n].type = "offer"
    /\ \/ Len(w) = k
       \/ waits /\ Len(w) = k + 1 /\ w[k + 1] = Signal("offer", p)

WiresFit ==
  /\ WireToPolite(toPolite, polite.pending, impolite.pending)
  /\ IF impolite.sig = "local" /\ ~SettledByImpolite
     THEN ReturnedToImpolite =>
            Answered(toImpolite, impolite.pending, polite.pending,
                     polite.sig = "local")
     ELSE Fresh(toImpolite, polite.pending, polite.sig = "local")

\* An answer waits for the cap behind older ones that will never be sent.
CapsAreOld ==
  /\ SentToImpolite \/ TakenByImpolite \/ AppliedByImpolite
       \/ ReturnedToPolite \/ SettledByPolite =>
       \A n \in DOMAIN impolite.capping : impolite.capping[n] # polite.pending
  /\ impolite.sig = "local" =>
       \A n \in DOMAIN impolite.capping : impolite.capping[n] # impolite.pending
  /\ \A n \in DOMAIN impolite.capping :
       n < Len(impolite.capping) => impolite.capping[n] # impolite.agreed
  /\ impolite.sig = "local" /\ polite.sig = "local" =>
       impolite.pending # polite.pending

(* Nobody waits in vain *)

BothThere == polite.pc # "closed" /\ impolite.pc # "closed"

ImpoliteProceeds ==
  BothThere /\ impolite.sig = "local" => InProgressI

PoliteProceeds ==
  /\ BothThere /\ polite.sig = "local" =>
       \/ InProgressP
       \/ impolite.sig = "local" \/ impolite.making \/ impolite.capping # <<>>
       \/ impolite.pc = "waiting" \/ impolite.need # "none"
  /\ (ReturnedToImpolite \/ SettledByImpolite) /\ polite.sig = "local" =>
       SentToImpolite

Agree ==
  BothThere =>
    \/ polite.agreed = impolite.agreed
    \/ CappedByPolite \/ ReturnedToImpolite \/ SettledByImpolite
    \/ impolite.capping # <<>> \/ ReturnedToPolite \/ SettledByPolite

(* All of it together. *)
Coordinated ==
  /\ PeersFit /\ OnePlace /\ OneExchange /\ OwnersWait /\ WiresFit
  /\ CapsAreOld /\ ImpoliteProceeds /\ PoliteProceeds /\ Agree

\* The inductive invariant: as long as no signal was lost and nothing raced.
NInv == NegotiationTypes /\ (~lost /\ ~raced => Coordinated)

-----------------------------------------------------------------------------
(* Chains *)

(* What an operation is appended to keeps what it did. *)
LEMMA AppendChain ==
  ASSUME NEW c \in Seq(Operation), NEW e \in Operation
  PROVE  LET d == Append(c, e)
         IN /\ d \in Seq(Operation) /\ d # <<>>
            /\ c = <<>> => Only(d, e.do)
            /\ \A a : Only(c, a) => Both(d, a, e.do)
            /\ \A a : Does(d, a) <=> Does(c, a) \/ a = e.do
            /\ \A K, id : About(d, K, id) <=>
                           About(c, K, id) /\ (e.do \in K => e.id = id)
<1> DEFINE d == Append(c, e)
<1>1. /\ d \in Seq(Operation) /\ Len(d) = Len(c) + 1 /\ d[Len(d)] = e
      /\ \A n \in 1 .. Len(c) : d[n] = c[n]
  OBVIOUS
<1>2. DOMAIN d = 1 .. Len(c) + 1 /\ DOMAIN c = 1 .. Len(c) /\ Len(c) \in Nat
  BY <1>1
<1> HIDE DEF d
<1>3. c = <<>> => Only(d, e.do)
  BY <1>1, <1>2 DEF Only
<1>4. \A a : Only(c, a) => Both(d, a, e.do)
  BY <1>1, <1>2 DEF Only, Both
<1>5. \A a : Does(d, a) <=> Does(c, a) \/ a = e.do
  BY <1>1, <1>2 DEF Does
<1>6. \A K, id : About(d, K, id) <=>
                 About(c, K, id) /\ (e.do \in K => e.id = id)
  BY <1>1, <1>2 DEF About
<1>7. d # <<>>
  BY <1>1, EmptySeq
<1> QED
  BY <1>1, <1>3, <1>4, <1>5, <1>6, <1>7 DEF d

(* What is left of a chain when its first operation ends. *)
LEMMA TailChain ==
  ASSUME NEW c \in Seq(Operation), c # <<>>
  PROVE  /\ Head(c) \in Operation /\ Tail(c) \in Seq(Operation)
         /\ Does(c, Head(c).do)
         /\ \A a : Does(Tail(c), a) => Does(c, a)
         /\ \A a : Only(c, a) => Tail(c) = <<>> /\ Head(c).do = a
         /\ \A a, b : Both(c, a, b) => Only(Tail(c), b) /\ Head(c).do = a
         /\ \A K, id : About(c, K, id) =>
              About(Tail(c), K, id) /\ (Head(c).do \in K => Head(c).id = id)
<1> DEFINE rest == Tail(c)
<1>1. /\ rest \in Seq(Operation) /\ Len(rest) = Len(c) - 1 /\ Len(c) \in Nat \ {0}
      /\ \A n \in 1 .. Len(rest) : rest[n] = c[n + 1]
      /\ Head(c) = c[1] /\ c[1] \in Operation
  OBVIOUS
<1>2. DOMAIN rest = 1 .. Len(c) - 1 /\ DOMAIN c = 1 .. Len(c)
  BY <1>1
<1>3. Len(rest) = 0 => rest = <<>>
  BY <1>1, EmptySeq
<1> HIDE DEF rest
<1>4. Does(c, Head(c).do)
  BY <1>1, <1>2 DEF Does
<1>5. \A a : Does(rest, a) => Does(c, a)
  BY <1>1, <1>2 DEF Does
<1>6. \A a : Only(c, a) => rest = <<>> /\ Head(c).do = a
  BY <1>1, <1>2, <1>3 DEF Only
<1>7. \A a, b : Both(c, a, b) => Only(rest, b) /\ Head(c).do = a
  BY <1>1, <1>2 DEF Only, Both
<1>8. \A K, id : About(c, K, id) =>
         About(rest, K, id) /\ (Head(c).do \in K => Head(c).id = id)
  <2> SUFFICES ASSUME NEW K, NEW id, About(c, K, id)
               PROVE  About(rest, K, id) /\ (Head(c).do \in K => Head(c).id = id)
    OBVIOUS
  <2>1. \A n \in 1 .. Len(c) : c[n].do \in K => c[n].id = id
    BY <1>2 DEF About
  <2>2. \A n \in 1 .. Len(c) - 1 : n + 1 \in 1 .. Len(c) /\ rest[n] = c[n + 1]
    BY <1>1
  <2>3. About(rest, K, id)
    BY <2>1, <2>2, <1>2 DEF About
  <2> QED
    BY <1>1, <2>1, <2>3
<1> QED
  BY <1>1, <1>4, <1>5, <1>6, <1>7, <1>8 DEF rest

(* A short chain does what its operations are. *)
LEMMA ShortChain ==
  ASSUME NEW c \in Seq(Operation)
  PROVE  /\ c = <<>> => \A a : ~Does(c, a)
         /\ \A a : Only(c, a) => \A o : Does(c, o) <=> o = a
         /\ \A a, b : Both(c, a, b) => \A o : Does(c, o) <=> o \in {a, b}
         /\ \A K, id : (\A a \in K : ~Does(c, a)) => About(c, K, id)
<1>1. DOMAIN c = 1 .. Len(c) /\ Len(c) \in Nat
  OBVIOUS
<1>2. c = <<>> => \A a : ~Does(c, a)
  BY DEF Does
<1>3. \A a : Only(c, a) => \A o : Does(c, o) <=> o = a
  BY <1>1 DEF Does, Only
<1>4. \A a, b : Both(c, a, b) => \A o : Does(c, o) <=> o \in {a, b}
  <2> SUFFICES ASSUME NEW a, NEW b, Both(c, a, b), NEW o
               PROVE  Does(c, o) <=> o \in {a, b}
    OBVIOUS
  <2>1. DOMAIN c = 1 .. 2 /\ c[1].do = a /\ c[2].do = b
    BY <1>1 DEF Both
  <2> QED
    BY <2>1 DEF Does
<1>5. \A K, id : (\A a \in K : ~Does(c, a)) => About(c, K, id)
  BY DEF Does, About
<1> QED
  BY <1>2, <1>3, <1>4, <1>5

(* The next operation of a handler follows the one that ends. *)
LEMMA NextOperation ==
  ASSUME NEW c \in Seq(Operation), c # <<>>, NEW e \in Operation
  PROVE  LET d == Append(Tail(c), e)
         IN /\ d \in Seq(Operation) /\ d # <<>>
            /\ \A a : Does(d, a) <=> Does(Tail(c), a) \/ a = e.do
            /\ \A K, id : About(c, K, id) /\ (e.do \in K => e.id = id) =>
                            About(d, K, id)
<1>1. /\ Tail(c) \in Seq(Operation)
      /\ \A K, id : About(c, K, id) => About(Tail(c), K, id)
  BY TailChain
<1> DEFINE rest == Tail(c)
           d == Append(rest, e)
<1>2. rest \in Seq(Operation)
  BY <1>1
<1> HIDE DEF rest
<1>3. /\ d \in Seq(Operation) /\ d # <<>>
      /\ \A a : Does(d, a) <=> Does(rest, a) \/ a = e.do
      /\ \A K, id : About(d, K, id) <=> About(rest, K, id) /\ (e.do \in K => e.id = id)
  BY <1>2, AppendChain
<1> HIDE DEF d
<1>4. \A K, id : About(c, K, id) => About(rest, K, id)
  BY <1>1 DEF rest
<1>5. \A K, id : About(c, K, id) /\ (e.do \in K => e.id = id) => About(d, K, id)
  BY <1>3, <1>4
<1> QED
  BY <1>3, <1>5 DEF d, rest

(* The polite peer's chain when an operation ends: what else is in it, and *)
(* what may then follow.                                                   *)
LEMMA PoliteTail ==
  ASSUME NEW c \in Seq(Operation), c # <<>>, PoliteChain(c)
  PROVE  /\ PoliteChain(Tail(c))
         /\ \A a : Does(Tail(c), a) <=> Does(c, a) /\ a # Head(c).do
         /\ Head(c).do = "mute" =>
              /\ PoliteChain(Append(Tail(c), Op("create", 0)))
              /\ \A a : Does(c, a) => a \in {"mute", "remote"}
         /\ Head(c).do = "create" =>
              /\ \A id \in Nat : PoliteChain(Append(Tail(c), Op("set", id)))
              /\ \A a : Does(c, a) => a \in {"create", "reply", "rollback"}
         /\ Head(c).do = "rollback" =>
              /\ ~Does(c, "set") => \A id \in Nat :
                   PoliteChain(Append(Tail(c), Op("remote", id)))
              /\ \A a : Does(c, a) => a \in {"rollback", "set"}
         /\ Head(c).do = "remote" =>
              /\ PoliteChain(Append(Tail(c), Op("reply", 0)))
              /\ \A a : Does(c, a) => a \in {"remote", "create"}
         /\ Head(c).do \in {"set", "offer", "answer"} =>
              \A a : Does(c, a) => a \in {Head(c).do, "rollback"}
         /\ Head(c).do = "reply" => \A a : Does(c, a) => a \in {"reply", "set"}
<1> DEFINE rest == Tail(c)
           h == Head(c).do
<1>1. \/ rest = <<>> /\ Only(c, h)
      \/ Only(rest, "remote") /\ Both(c, h, "remote") /\ h = "mute"
      \/ Only(rest, "create") /\ Both(c, h, "create") /\ h = "remote"
      \/ Only(rest, "reply") /\ Both(c, h, "reply") /\ h = "create"
      \/ Only(rest, "set") /\ Both(c, h, "set") /\ h \in {"reply", "rollback"}
      \/ /\ Only(rest, "rollback") /\ Both(c, h, "rollback")
         /\ h \in {"create", "set", "offer", "answer"}
  BY TailChain DEF PoliteChain
<1>2. rest \in Seq(Operation)
  BY TailChain
<1> HIDE DEF rest, h
<1>3. PoliteChain(rest)
  BY <1>1 DEF PoliteChain
<1>4. \A a : Does(rest, a) <=> Does(c, a) /\ a # h
  BY <1>1, <1>2, ShortChain
<1> DEFINE Following == {"create", "set", "remote", "reply"}
<1>5. ASSUME NEW o \in Following, NEW id \in Nat
      PROVE  /\ rest = <<>> => Only(Append(rest, Op(o, id)), o)
             /\ \A a : Only(rest, a) => Both(Append(rest, Op(o, id)), a, o)
  <2>1. Op(o, id) \in Operation /\ Op(o, id).do = o
    BY DEF Op, Operation
  <2> QED
    BY <1>2, <2>1, AppendChain
<1>6. h = "mute" => PoliteChain(Append(rest, Op("create", 0)))
  <2> DEFINE d == Append(rest, Op("create", 0))
  <2>1. (rest = <<>> => Only(d, "create"))
          /\ (Only(rest, "remote") => Both(d, "remote", "create"))
    BY <1>5
  <2> QED
    BY <1>1, <2>1 DEF PoliteChain
<1>7. \A id \in Nat : h = "create" => PoliteChain(Append(rest, Op("set", id)))
  <2> TAKE id \in Nat
  <2> DEFINE d == Append(rest, Op("set", id))
  <2>1. /\ rest = <<>> => Only(d, "set")
        /\ Only(rest, "reply") => Both(d, "reply", "set")
        /\ Only(rest, "rollback") => Both(d, "rollback", "set")
    BY <1>5
  <2> QED
    BY <1>1, <2>1 DEF PoliteChain
<1>8. \A id \in Nat : h = "rollback" /\ ~Does(c, "set") =>
        PoliteChain(Append(rest, Op("remote", id)))
  <2>1. h = "rollback" /\ ~Does(c, "set") => rest = <<>>
    BY <1>1, ShortChain
  <2>2. \A id \in Nat : rest = <<>> => Only(Append(rest, Op("remote", id)), "remote")
    BY <1>5
  <2> QED
    BY <2>1, <2>2 DEF PoliteChain
<1>9. h = "remote" => PoliteChain(Append(rest, Op("reply", 0)))
  <2> DEFINE d == Append(rest, Op("reply", 0))
  <2>1. (rest = <<>> => Only(d, "reply"))
          /\ (Only(rest, "create") => Both(d, "create", "reply"))
    BY <1>5
  <2> QED
    BY <1>1, <2>1 DEF PoliteChain
<1>10. /\ h = "mute" => \A a : Does(c, a) => a \in {"mute", "remote"}
       /\ h = "create" =>
            \A a : Does(c, a) => a \in {"create", "reply", "rollback"}
       /\ h = "rollback" => \A a : Does(c, a) => a \in {"rollback", "set"}
       /\ h = "remote" => \A a : Does(c, a) => a \in {"remote", "create"}
       /\ h \in {"set", "offer", "answer"} =>
            \A a : Does(c, a) => a \in {h, "rollback"}
       /\ h = "reply" => \A a : Does(c, a) => a \in {"reply", "set"}
  BY <1>1, <1>2, ShortChain
<1> QED
  BY <1>3, <1>4, <1>6, <1>7, <1>8, <1>9, <1>10 DEF rest, h

(* The same for the impolite peer. *)
LEMMA ImpoliteTail ==
  ASSUME NEW c \in Seq(Operation), c # <<>>, ImpoliteChain(c)
  PROVE  /\ ImpoliteChain(Tail(c))
         /\ \A a : Does(Tail(c), a) <=> Does(c, a) /\ a # Head(c).do
         /\ Head(c).do \in {"mute", "offer", "remote", "reply", "answer"}
         /\ Head(c).do = "mute" => \A a : Does(c, a) => a \in {"mute", "remote"}
         /\ Head(c).do # "mute" => \A a : Does(c, a) => a = Head(c).do
         /\ Head(c).do # "mute" => Tail(c) = <<>>
         /\ Head(c).do = "remote" =>
              ImpoliteChain(Append(Tail(c), Op("reply", 0)))
<1> DEFINE rest == Tail(c)
           h == Head(c).do
<1>1. \/ /\ rest = <<>> /\ Only(c, h)
         /\ h \in {"mute", "offer", "remote", "reply", "answer"}
      \/ Only(rest, "remote") /\ Both(c, h, "remote") /\ h = "mute"
  BY TailChain DEF ImpoliteChain
<1>2. rest \in Seq(Operation) /\ Op("reply", 0) \in Operation
  BY TailChain DEF Operation, Op
<1> HIDE DEF rest, h
<1>3. ImpoliteChain(rest)
  BY <1>1 DEF ImpoliteChain
<1>4. \A a : Does(rest, a) <=> Does(c, a) /\ a # h
  BY <1>1, <1>2, ShortChain
<1>5. rest = <<>> => Only(Append(rest, Op("reply", 0)), "reply")
  BY <1>2, AppendChain DEF Op
<1>6. h = "remote" => ImpoliteChain(Append(rest, Op("reply", 0)))
  BY <1>1, <1>5 DEF ImpoliteChain
<1>7. /\ h = "mute" => \A a : Does(c, a) => a \in {"mute", "remote"}
      /\ h # "mute" => \A a : Does(c, a) => a = h
  BY <1>1, ShortChain
<1> QED
  BY <1>1, <1>3, <1>4, <1>6, <1>7 DEF rest, h

-----------------------------------------------------------------------------
(* Types *)

(* Sending keeps the types of the wires. *)
LEMMA SendTyped ==
  ASSUME NegotiationTypes, NEW p \in Peer, NEW type \in {"offer", "answer"},
         NEW id \in Nat, Send(p, type, id)
  PROVE  /\ wire' \in [Peer -> Seq([type : {"offer", "answer"}, id : Nat])]
         /\ lost' \in BOOLEAN
<1>1. [type |-> type, id |-> id] \in [type : {"offer", "answer"}, id : Nat]
  OBVIOUS
<1>2. Other(p) \in Peer
  BY DEF Other, Peer
<1> QED
  BY <1>1, <1>2 DEF Send, NegotiationTypes

(* Removing an operation and queueing another one keep the types. *)
LEMMA QueueTyped ==
  /\ \A x \in Negotiator, o \in Operation :
       [x EXCEPT !.chain = Append(@, o)] \in Negotiator
  /\ \A x \in Negotiator : \A do, id :
       /\ Op(do, id) \in Operation => Queue(x, do, id) \in Negotiator
       /\ Op(do, id) = [do |-> do, id |-> id]
  /\ \A p \in Peer : NegotiationTypes /\ peer[p].chain # <<>> =>
       /\ Rest(p) \in Negotiator
       /\ Head(peer[p].chain) \in Operation /\ Head(peer[p].chain).id \in Nat
  /\ \A id \in Nat :
       /\ Op("mute", id) \in Operation /\ Op("create", id) \in Operation
       /\ Op("set", id) \in Operation /\ Op("offer", id) \in Operation
       /\ Op("remote", id) \in Operation /\ Op("reply", id) \in Operation
       /\ Op("rollback", id) \in Operation /\ Op("answer", id) \in Operation
<1>1. \A x \in Negotiator, o \in Operation :
        [x EXCEPT !.chain = Append(@, o)] \in Negotiator
  <2> TAKE x \in Negotiator, o \in Operation
  <2>1. x.chain \in Seq(Operation)
    BY DEF Negotiator
  <2>2. Append(x.chain, o) \in Seq(Operation)
    BY <2>1
  <2> QED
    BY <2>2 DEF Negotiator
<1>2. \A p \in Peer : NegotiationTypes /\ peer[p].chain # <<>> =>
        /\ Rest(p) \in Negotiator
        /\ Head(peer[p].chain) \in Operation /\ Head(peer[p].chain).id \in Nat
  <2> SUFFICES ASSUME NEW p \in Peer, NegotiationTypes, peer[p].chain # <<>>
               PROVE  /\ Rest(p) \in Negotiator
                      /\ Head(peer[p].chain) \in Operation
                      /\ Head(peer[p].chain).id \in Nat
    OBVIOUS
  <2>1. peer[p] \in Negotiator /\ peer[p].chain \in Seq(Operation)
    BY DEF NegotiationTypes, Negotiator
  <2>2. /\ Tail(peer[p].chain) \in Seq(Operation)
        /\ Head(peer[p].chain) \in Operation
    BY <2>1, TailChain
  <2>3. Rest(p) \in Negotiator
    BY <2>1, <2>2 DEF Rest, Negotiator
  <2>4. Head(peer[p].chain).id \in Nat
    BY <2>2 DEF Operation
  <2> QED
    BY <2>2, <2>3, <2>4
<1>3. \A id \in Nat :
       /\ Op("mute", id) \in Operation /\ Op("create", id) \in Operation
       /\ Op("set", id) \in Operation /\ Op("offer", id) \in Operation
       /\ Op("remote", id) \in Operation /\ Op("reply", id) \in Operation
       /\ Op("rollback", id) \in Operation /\ Op("answer", id) \in Operation
  BY DEF Op, Operation
<1>4. \A x \in Negotiator : \A do, id :
       /\ Op(do, id) \in Operation => Queue(x, do, id) \in Negotiator
       /\ Op(do, id) = [do |-> do, id |-> id]
  BY <1>1 DEF Queue, Op
<1> QED
  BY <1>1, <1>2, <1>3, <1>4

(* Every action keeps the types. *)
LEMMA ActionsTyped ==
  ASSUME NegotiationTypes, NEW p \in Peer,
         \/ PrepareRound(p) \/ Open(p) \/ EndRound(p)
         \/ NegotiationNeeded(p) \/ Ended(p)
         \/ ReceiveStray(p) \/ ReceiveOffer(p) \/ ReceiveAnswer(p)
         \/ Checking(p) \/ Connected(p) \/ Disconnected(p) \/ Failed(p)
         \/ RestartTimerFires(p) \/ FailTimerFires(p)
         \/ Drop(p) \/ Restore(p) \/ GiveUp(p)
  PROVE  NegotiationTypes'
<1> USE NegotiationAssumption
<1>0. /\ peer[p] \in Negotiator /\ peer \in [Peer -> Negotiator]
      /\ wire[p] \in Seq([type : {"offer", "answer"}, id : Nat])
      /\ \A x \in Negotiator : x.agreed \in Nat /\ x.pending \in Nat
      /\ <<>> \in Seq(Operation) /\ 0 \in Nat
      /\ offers \in Nat /\ blips \in Nat /\ drops \in Nat
  BY DEF NegotiationTypes, Negotiator
<1>1. CASE PrepareRound(p)
  <2>1. Queue([peer[p] EXCEPT !.pc = "live", !.need = "tracks"], "mute", 0)
          \in Negotiator
    <3>1. [peer[p] EXCEPT !.pc = "live", !.need = "tracks"] \in Negotiator
      BY <1>0 DEF Negotiator
    <3> QED
      BY <3>1, <1>0, QueueTyped
  <2> QED
    BY <1>0, <1>1, <2>1 DEF PrepareRound, NegotiationTypes
<1>2. CASE Open(p)
  <2>1. [peer[p] EXCEPT !.muted = FALSE] \in Negotiator
    BY <1>0 DEF Negotiator
  <2> QED
    BY <1>0, <1>2, <2>1 DEF Open, NegotiationTypes
<1>3. CASE EndRound(p)
  <2>1. [peer[p] EXCEPT !.pc = "closed", !.chain = <<>>, !.restarting = FALSE,
           !.restartTimer = FALSE, !.failTimer = FALSE] \in Negotiator
    BY <1>0 DEF Negotiator
  <2> QED
    BY <1>0, <1>3, <2>1 DEF EndRound, NegotiationTypes
<1>4. CASE NegotiationNeeded(p)
  <2>1. [peer[p] EXCEPT !.making = TRUE] \in Negotiator
    BY <1>0 DEF Negotiator
  <2>2. Queue([peer[p] EXCEPT !.making = TRUE], "offer", 0) \in Negotiator
    BY <1>0, <2>1, QueueTyped
  <2> QED
    BY <1>0, <1>4, <2>2 DEF NegotiationNeeded, NegotiationTypes
<1>5. CASE Ended(p)
  <2>0. ASSUME peer[p].chain # <<>>
        PROVE  /\ Rest(p) \in Negotiator
               /\ Head(peer[p].chain) \in Operation
               /\ Head(peer[p].chain).id \in Nat
    BY <2>0, QueueTyped
  <2>1. ASSUME MakeOffer(p), peer[p].chain # <<>> PROVE NegotiationTypes'
    <3>1. [Rest(p) EXCEPT !.sig = "local", !.pending = offers + 1,
             !.making = FALSE] \in Negotiator
      <4>1. Rest(p) \in Negotiator /\ offers + 1 \in Nat
        BY <1>0, <2>0, <2>1
      <4> QED
        BY <4>1 DEF Negotiator
    <3>2. offers + 1 \in Nat
      BY <1>0
    <3>3. /\ wire' \in [Peer -> Seq([type : {"offer", "answer"}, id : Nat])]
          /\ lost' \in BOOLEAN
      BY <2>1, <3>2, SendTyped DEF MakeOffer
    <3>4. peer' \in [Peer -> Negotiator]
      BY <1>0, <2>1, <3>1 DEF MakeOffer
    <3>5. restarts' \subseteq Nat /\ offers' \in Nat
      BY <2>1, <3>2 DEF MakeOffer, NegotiationTypes
    <3> QED
      BY <2>1, <3>3, <3>4, <3>5 DEF MakeOffer, NegotiationTypes
  <2>2. CASE MuteEnds(p)
    <3>1. peer[p].chain # <<>>
      BY <2>2 DEF MuteEnds, Ends
    <3>2. [Rest(p) EXCEPT !.making = TRUE] \in Negotiator
      BY <2>0, <3>1 DEF Negotiator
    <3>3. /\ Queue([Rest(p) EXCEPT !.making = TRUE], "create", 0) \in Negotiator
          /\ Rest(p) \in Negotiator
      BY <2>0, <3>1, <3>2, <1>0, QueueTyped
    <3> QED
      BY <1>0, <2>2, <3>3 DEF MuteEnds, NegotiationTypes
  <2>3. CASE OfferEnds(p)
    BY <2>1, <2>3 DEF OfferEnds, Ends
  <2>4. CASE CreateEnds(p)
    <3>1. Queue(Rest(p), "set", peer[p].agreed) \in Negotiator
      BY <2>0, <2>4, <1>0, QueueTyped DEF CreateEnds, Ends
    <3> QED
      BY <1>0, <2>4, <3>1 DEF CreateEnds, NegotiationTypes
  <2>5. CASE SetEnds(p)
    <3>1. peer[p].chain # <<>>
      BY <2>5 DEF SetEnds, Ends
    <3>2. [Rest(p) EXCEPT !.making = FALSE] \in Negotiator
      BY <2>0, <3>1 DEF Negotiator
    <3> QED
      BY <1>0, <2>1, <2>5, <3>1, <3>2 DEF SetEnds, NegotiationTypes
  <2>6. CASE RollbackEnds(p)
    <3>1. peer[p].chain # <<>>
      BY <2>6 DEF RollbackEnds, Ends
    <3>2. /\ [Rest(p) EXCEPT !.broken = TRUE] \in Negotiator
          /\ [Rest(p) EXCEPT !.sig = "stable", !.pending = 0] \in Negotiator
      BY <2>0, <3>1 DEF Negotiator
    <3>3. Queue([Rest(p) EXCEPT !.sig = "stable", !.pending = 0], "remote",
                Head(peer[p].chain).id) \in Negotiator
      BY <2>0, <3>1, <3>2, QueueTyped
    <3>4. peer' \in [Peer -> Negotiator]
      BY <1>0, <2>6, <3>2, <3>3 DEF RollbackEnds
    <3>5. raced' \in BOOLEAN
      BY <2>6 DEF RollbackEnds, NegotiationTypes
    <3> QED
      BY <2>6, <3>4, <3>5 DEF RollbackEnds, NegotiationTypes
  <2>7. CASE RemoteEnds(p)
    <3>1. peer[p].chain # <<>>
      BY <2>7 DEF RemoteEnds, Ends
    <3>2. [Rest(p) EXCEPT !.sig = "remote", !.pending = Head(peer[p].chain).id]
            \in Negotiator
      BY <2>0, <3>1 DEF Negotiator
    <3>3. Queue([Rest(p) EXCEPT !.sig = "remote",
                   !.pending = Head(peer[p].chain).id], "reply", 0) \in Negotiator
      BY <1>0, <3>2, QueueTyped
    <3> QED
      BY <1>0, <2>7, <3>3 DEF RemoteEnds, NegotiationTypes
  <2>8. CASE ReplyEnds(p)
    <3> DEFINE id == peer[p].pending
               done == Complete(Rest(p), id)
    <3>1. id \in Nat /\ peer[p].chain # <<>>
      BY <1>0, <2>8 DEF ReplyEnds, Ends
    <3>2. done \in Negotiator /\ done.capping \in Seq(Nat)
      BY <2>0, <3>1 DEF Complete, Negotiator
    <3>3. [done EXCEPT !.capping = Append(@, id)] \in Negotiator
      <4>1. Append(done.capping, id) \in Seq(Nat)
        BY <3>1, <3>2
      <4> QED
        BY <3>2, <4>1 DEF Negotiator
    <3>4. \/ peer' = [peer EXCEPT ![p] = done]
          \/ peer' = [peer EXCEPT ![p] = [done EXCEPT !.capping = Append(@, id)]]
      BY <2>8 DEF ReplyEnds
    <3> HIDE DEF done
    <3>5. peer' \in [Peer -> Negotiator]
      BY <1>0, <3>2, <3>3, <3>4
    <3>6. /\ wire' \in [Peer -> Seq([type : {"offer", "answer"}, id : Nat])]
          /\ lost' \in BOOLEAN
      <4>1. Send(p, "answer", id) \/ UNCHANGED <<wire, lost>>
        BY <2>8 DEF ReplyEnds
      <4> QED
        BY <3>1, <4>1, SendTyped DEF NegotiationTypes
    <3> QED
      BY <2>8, <3>5, <3>6 DEF ReplyEnds, NegotiationTypes
  <2>9. CASE AnswerEnds(p)
    <3>1. peer[p].chain # <<>>
      BY <2>9 DEF AnswerEnds, Ends
    <3>2. /\ Complete(Rest(p), Head(peer[p].chain).id) \in Negotiator
          /\ [Rest(p) EXCEPT !.broken = TRUE] \in Negotiator
      BY <2>0, <3>1 DEF Complete, Negotiator
    <3> QED
      BY <1>0, <2>9, <3>2 DEF AnswerEnds, NegotiationTypes
  <2>10. CASE CapEnds(p)
    <3> DEFINE capped == [peer[p] EXCEPT !.capping = Tail(@)]
               description == IF peer[p].sig = "local" THEN peer[p].pending
                              ELSE peer[p].agreed
    <3>1. peer[p].capping \in Seq(Nat) /\ peer[p].capping # <<>>
      BY <1>0, <2>10 DEF CapEnds, Negotiator
    <3>2. Tail(peer[p].capping) \in Seq(Nat)
      BY <3>1
    <3>3. capped \in Negotiator /\ [capped EXCEPT !.broken = TRUE] \in Negotiator
      BY <1>0, <3>2 DEF Negotiator
    <3>4. description \in Nat
      BY <1>0
    <3>5. /\ \/ peer' = [peer EXCEPT ![p] = capped]
             \/ peer' = [peer EXCEPT ![p] = [capped EXCEPT !.broken = TRUE]]
          /\ Send(p, "answer", description) \/ UNCHANGED <<wire, lost>>
          /\ raced' = (raced \/ ~Live(p) \/ description # Head(peer[p].capping))
      BY <2>10 DEF CapEnds
    <3> HIDE DEF capped, description
    <3>6. peer' \in [Peer -> Negotiator]
      BY <1>0, <3>3, <3>5
    <3>7. /\ wire' \in [Peer -> Seq([type : {"offer", "answer"}, id : Nat])]
          /\ lost' \in BOOLEAN
      BY <3>4, <3>5, SendTyped DEF NegotiationTypes
    <3>8. raced' \in BOOLEAN
      BY <3>5 DEF NegotiationTypes
    <3> QED
      BY <2>10, <3>6, <3>7, <3>8 DEF CapEnds, NegotiationTypes
  <2> QED
    BY <1>5, <2>2, <2>3, <2>4, <2>5, <2>6, <2>7, <2>8, <2>9, <2>10 DEF Ended
<1>6. CASE ReceiveStray(p)
  <2>1. Tail(wire[p]) \in Seq([type : {"offer", "answer"}, id : Nat])
    BY <1>0, <1>6 DEF ReceiveStray
  <2>2. lost' \in BOOLEAN
    BY <1>6 DEF ReceiveStray, NegotiationTypes
  <2>3. wire' \in [Peer -> Seq([type : {"offer", "answer"}, id : Nat])]
    BY <1>6, <2>1 DEF ReceiveStray, NegotiationTypes
  <2> QED
    BY <1>6, <2>2, <2>3 DEF ReceiveStray, NegotiationTypes
<1>7. CASE ReceiveOffer(p)
  <2>0. wire[p] # <<>>
    BY <1>7 DEF ReceiveOffer
  <2>1. /\ Tail(wire[p]) \in Seq([type : {"offer", "answer"}, id : Nat])
        /\ Head(wire[p]) \in [type : {"offer", "answer"}, id : Nat]
        /\ Head(wire[p]).id \in Nat
    <3>1. /\ Tail(wire[p]) \in Seq([type : {"offer", "answer"}, id : Nat])
          /\ Head(wire[p]) \in [type : {"offer", "answer"}, id : Nat]
      BY <1>0, <2>0, HeadTailProperties
    <3> QED
      BY <3>1
  <2>2. wire' \in [Peer -> Seq([type : {"offer", "answer"}, id : Nat])]
    BY <1>7, <2>1 DEF ReceiveOffer, NegotiationTypes
  <2>3. Queue(peer[p], IF Collision(peer[p]) THEN "rollback" ELSE "remote",
              Head(wire[p]).id) \in Negotiator
    BY <1>0, <2>1, QueueTyped
  <2>4. peer' \in [Peer -> Negotiator]
    BY <1>0, <1>7, <2>3 DEF ReceiveOffer
  <2>5. raced' \in BOOLEAN
    BY <1>7 DEF ReceiveOffer, NegotiationTypes
  <2> QED
    BY <1>7, <2>2, <2>4, <2>5 DEF ReceiveOffer, NegotiationTypes
<1>8. CASE ReceiveAnswer(p)
  <2>0. wire[p] # <<>>
    BY <1>8 DEF ReceiveAnswer
  <2>1. /\ Tail(wire[p]) \in Seq([type : {"offer", "answer"}, id : Nat])
        /\ Head(wire[p]) \in [type : {"offer", "answer"}, id : Nat]
        /\ Head(wire[p]).id \in Nat
    <3>1. /\ Tail(wire[p]) \in Seq([type : {"offer", "answer"}, id : Nat])
          /\ Head(wire[p]) \in [type : {"offer", "answer"}, id : Nat]
      BY <1>0, <2>0, HeadTailProperties
    <3> QED
      BY <3>1
  <2>2. wire' \in [Peer -> Seq([type : {"offer", "answer"}, id : Nat])]
    BY <1>8, <2>1 DEF ReceiveAnswer, NegotiationTypes
  <2>3. Queue(peer[p], "answer", Head(wire[p]).id) \in Negotiator
    BY <1>0, <2>1, QueueTyped
  <2>4. peer' \in [Peer -> Negotiator]
    BY <1>0, <1>8, <2>3 DEF ReceiveAnswer
  <2> QED
    BY <1>8, <2>2, <2>4 DEF ReceiveAnswer, NegotiationTypes
<1>9. CASE Checking(p)
  BY <1>0, <1>9 DEF Checking, Becomes, Negotiator, NegotiationTypes
<1>10. CASE Connected(p)
  BY <1>0, <1>10
     DEF Connected, ClearRecovery, Becomes, Negotiator, NegotiationTypes
<1>11. CASE Disconnected(p)
  <2> DEFINE x == [peer[p] EXCEPT !.conn = "disconnected",
                     !.restartTimer = @ \/ ~peer[p].restarting]
  <2>1. x \in Negotiator
    BY <1>0 DEF Negotiator
  <2>4. peer' = [peer EXCEPT ![p] = x]
    BY <1>11 DEF Disconnected
  <2> HIDE DEF x
  <2>2. peer' \in [Peer -> Negotiator]
    BY <1>0, <2>1, <2>4
  <2>3. blips' \in Nat
    BY <1>0, <1>11 DEF Disconnected
  <2> QED
    BY <1>11, <2>2, <2>3 DEF Disconnected, NegotiationTypes
<1>12. CASE Failed(p)
  <2> DEFINE y == [peer[p] EXCEPT !.conn = "failed", !.base = peer[p].agreed,
                                  !.failTimer = TRUE]
             x == MaybeRestartIce(y)
  <2>0. y \in Negotiator
    BY <1>0 DEF Negotiator, NegotiationTypes
  <2>1. x \in Negotiator
    <3> HIDE DEF y
    <3>1. [y EXCEPT !.restarting = TRUE, !.need = "ice"] \in Negotiator
      BY <2>0 DEF Negotiator
    <3> QED
      BY <2>0, <3>1 DEF MaybeRestartIce
  <2>4. peer' = [peer EXCEPT ![p] = x]
    BY <1>12 DEF Failed
  <2> HIDE DEF x
  <2>2. peer' \in [Peer -> Negotiator]
    BY <1>0, <2>1, <2>4
  <2>3. blips' \in Nat
    BY <1>0, <1>12 DEF Failed
  <2> QED
    BY <1>12, <2>2, <2>3 DEF Failed, NegotiationTypes
<1>13. CASE RestartTimerFires(p)
  BY <1>0, <1>13
     DEF RestartTimerFires, MaybeRestartIce, Becomes, Negotiator, NegotiationTypes
<1>14. CASE FailTimerFires(p)
  BY <1>0, <1>14 DEF FailTimerFires, Becomes, Negotiator, NegotiationTypes
<1>15. CASE Drop(p)
  BY <1>15 DEF Drop, NegotiationTypes
<1>16. CASE Restore(p)
  BY <1>0, <1>16
     DEF Restore, ClearRecovery, MaybeRestartIce, Negotiator, NegotiationTypes
<1>17. CASE GiveUp(p)
  BY <1>17 DEF GiveUp, NegotiationTypes
<1> QED
  BY <1>1, <1>2, <1>3, <1>4, <1>5, <1>6, <1>7, <1>8, <1>9, <1>10, <1>11, <1>12,
     <1>13, <1>14, <1>15, <1>16, <1>17

-----------------------------------------------------------------------------
(* Wires *)

(* A signal that is sent comes after the ones on their way. *)
LEMMA AppendWire ==
  ASSUME NEW w \in Seq([type : {"offer", "answer"}, id : Nat]),
         NEW m \in [type : {"offer", "answer"}, id : Nat]
  PROVE  LET v == Append(w, m)
         IN /\ EndsWith(v, m)
            /\ \A s : EndsWith(v, s) => s = m
            /\ CarriesOffer(v) <=> CarriesOffer(w) \/ m.type = "offer"
            /\ CarriesAnswer(v) <=> CarriesAnswer(w) \/ m.type = "answer"
            /\ \A i, p, b : ~CarriesAnswer(w) /\ m = Signal("answer", i) =>
                 Answered(v, i, p, b)
            /\ \A i, p, q : Answered(w, i, q, FALSE) /\ m = Signal("offer", p) =>
                 Answered(v, i, p, TRUE)
<1> DEFINE S == [type : {"offer", "answer"}, id : Nat]
           v == Append(w, m)
<1>1. /\ v \in Seq(S) /\ Len(v) = Len(w) + 1 /\ v[Len(v)] = m
      /\ \A n \in 1 .. Len(w) : v[n] = w[n] /\ w[n] \in S
      /\ Len(w) \in Nat
  <2>1. w \in Seq(S) /\ m \in S
    OBVIOUS
  <2> HIDE DEF S
  <2> QED
    BY <2>1, AppendProperties
<1>2. DOMAIN v = 1 .. Len(w) + 1 /\ DOMAIN w = 1 .. Len(w) /\ v # <<>>
  BY <1>1, EmptySeq
<1>3. \A n \in 1 .. Len(w) : w[n].type \in {"offer", "answer"}
  BY <1>1
<1> HIDE DEF v
<1>4. EndsWith(v, m) /\ \A s : EndsWith(v, s) => s = m
  BY <1>1, <1>2 DEF EndsWith
<1>5. CarriesOffer(v) <=> CarriesOffer(w) \/ m.type = "offer"
  BY <1>1, <1>2 DEF CarriesOffer
<1>6. CarriesAnswer(v) <=> CarriesAnswer(w) \/ m.type = "answer"
  BY <1>1, <1>2 DEF CarriesAnswer
<1>7. ASSUME NEW i, NEW p, NEW b, ~CarriesAnswer(w), m = Signal("answer", i)
      PROVE  Answered(v, i, p, b)
  <2>1. \A n \in 1 .. Len(w) : v[n].type = "offer"
    BY <1>1, <1>2, <1>3, <1>7 DEF CarriesAnswer
  <2>2. Len(v) \in DOMAIN v /\ v[Len(v)] = Signal("answer", i)
           /\ Len(v) - 1 = Len(w)
    BY <1>1, <1>2, <1>7
  <2> QED
    BY <2>1, <2>2 DEF Answered
<1>8. ASSUME NEW i, NEW p, NEW q, Answered(w, i, q, FALSE), m = Signal("offer", p)
      PROVE  Answered(v, i, p, TRUE)
  <2>1. /\ Len(w) \in DOMAIN w /\ w[Len(w)] = Signal("answer", i)
        /\ \A n \in 1 .. Len(w) - 1 : w[n].type = "offer"
    BY <1>8 DEF Answered
  <2>2. /\ Len(w) \in DOMAIN v /\ v[Len(w)] = Signal("answer", i)
        /\ \A n \in 1 .. Len(w) - 1 : v[n].type = "offer"
        /\ Len(v) = Len(w) + 1 /\ v[Len(w) + 1] = Signal("offer", p)
    BY <1>1, <1>2, <1>8, <2>1
  <2> QED
    BY <2>2 DEF Answered
<1> QED
  BY <1>4, <1>5, <1>6, <1>7, <1>8 DEF v

(* What is still on its way when the first signal has arrived. *)
LEMMA TailWire ==
  ASSUME NEW w \in Seq([type : {"offer", "answer"}, id : Nat]), w # <<>>
  PROVE  LET v == Tail(w)
         IN /\ Head(w) \in [type : {"offer", "answer"}, id : Nat]
            /\ CarriesOffer(w) <=> CarriesOffer(v) \/ Head(w).type = "offer"
            /\ CarriesAnswer(w) <=> CarriesAnswer(v) \/ Head(w).type = "answer"
            /\ \A s : EndsWith(v, s) => EndsWith(w, s)
            /\ \A s : EndsWith(w, s) => EndsWith(v, s) \/ (v = <<>> /\ Head(w) = s)
            /\ \A i, p, b : Answered(w, i, p, b) =>
                 /\ Head(w).type = "offer" => Answered(v, i, p, b)
                 /\ Head(w).type = "answer" =>
                      Head(w) = Signal("answer", i) /\ Fresh(v, p, b)
<1> DEFINE S == [type : {"offer", "answer"}, id : Nat]
           v == Tail(w)
<1>1. /\ v \in Seq(S) /\ Len(v) = Len(w) - 1 /\ Len(w) \in Nat \ {0}
      /\ \A n \in 1 .. Len(v) : v[n] = w[n + 1]
      /\ Head(w) = w[1] /\ Head(w) \in S
  <2>1. w \in Seq(S)
    OBVIOUS
  <2> HIDE DEF S
  <2> QED
    BY <2>1, HeadTailProperties
<1>2. DOMAIN v = 1 .. Len(w) - 1 /\ DOMAIN w = 1 .. Len(w)
  BY <1>1
<1>3. Len(v) = 0 <=> v = <<>>
  BY <1>1, EmptySeq
<1> HIDE DEF v
<1>4. CarriesOffer(w) <=> CarriesOffer(v) \/ Head(w).type = "offer"
  <2>1. CarriesOffer(w) => CarriesOffer(v) \/ Head(w).type = "offer"
    <3> SUFFICES ASSUME NEW n \in DOMAIN w, w[n].type = "offer", n # 1
                 PROVE  CarriesOffer(v)
      BY <1>1 DEF CarriesOffer
    <3>1. n - 1 \in DOMAIN v /\ v[n - 1] = w[n]
      BY <1>1, <1>2
    <3> QED
      BY <3>1 DEF CarriesOffer
  <2>2. CarriesOffer(v) => CarriesOffer(w)
    <3> SUFFICES ASSUME NEW n \in DOMAIN v, v[n].type = "offer"
                 PROVE  CarriesOffer(w)
      BY DEF CarriesOffer
    <3>1. n + 1 \in DOMAIN w /\ w[n + 1] = v[n]
      BY <1>1, <1>2
    <3> QED
      BY <3>1 DEF CarriesOffer
  <2>3. Head(w).type = "offer" => CarriesOffer(w)
    BY <1>1, <1>2 DEF CarriesOffer
  <2> QED
    BY <2>1, <2>2, <2>3
<1>5. CarriesAnswer(w) <=> CarriesAnswer(v) \/ Head(w).type = "answer"
  <2>1. CarriesAnswer(w) => CarriesAnswer(v) \/ Head(w).type = "answer"
    <3> SUFFICES ASSUME NEW n \in DOMAIN w, w[n].type = "answer", n # 1
                 PROVE  CarriesAnswer(v)
      BY <1>1 DEF CarriesAnswer
    <3>1. n - 1 \in DOMAIN v /\ v[n - 1] = w[n]
      BY <1>1, <1>2
    <3> QED
      BY <3>1 DEF CarriesAnswer
  <2>2. CarriesAnswer(v) => CarriesAnswer(w)
    <3> SUFFICES ASSUME NEW n \in DOMAIN v, v[n].type = "answer"
                 PROVE  CarriesAnswer(w)
      BY DEF CarriesAnswer
    <3>1. n + 1 \in DOMAIN w /\ w[n + 1] = v[n]
      BY <1>1, <1>2
    <3> QED
      BY <3>1 DEF CarriesAnswer
  <2>3. Head(w).type = "answer" => CarriesAnswer(w)
    BY <1>1, <1>2 DEF CarriesAnswer
  <2> QED
    BY <2>1, <2>2, <2>3
<1>6. \A s : EndsWith(v, s) => EndsWith(w, s)
  BY <1>1, <1>2, <1>3 DEF EndsWith
<1>7. \A s : EndsWith(w, s) => EndsWith(v, s) \/ (v = <<>> /\ Head(w) = s)
  BY <1>1, <1>2, <1>3 DEF EndsWith
<1>8. ASSUME NEW i, NEW p, NEW b, Answered(w, i, p, b), Head(w).type = "offer"
      PROVE  Answered(v, i, p, b)
  <2>1. PICK k \in DOMAIN w :
          /\ w[k] = Signal("answer", i)
          /\ \A n \in 1 .. k - 1 : w[n].type = "offer"
          /\ \/ Len(w) = k
             \/ b /\ Len(w) = k + 1 /\ w[k + 1] = Signal("offer", p)
    BY <1>8 DEF Answered
  <2>2. k # 1
    BY <1>1, <1>8, <2>1 DEF Signal
  <2>3. k - 1 \in DOMAIN v /\ v[k - 1] = Signal("answer", i)
    BY <1>1, <1>2, <2>1, <2>2
  <2>4. \A n \in 1 .. (k - 1) - 1 : v[n].type = "offer"
    <3> TAKE n \in 1 .. (k - 1) - 1
    <3>1. k \in 1 .. Len(w) /\ Len(v) = Len(w) - 1 /\ Len(w) \in Nat
      BY <1>1, <1>2
    <3>2. n + 1 \in 1 .. k - 1 /\ n \in 1 .. Len(v)
      BY <3>1
    <3> QED
      BY <1>1, <2>1, <3>2
  <2>5. \/ Len(v) = k - 1
        \/ b /\ Len(v) = (k - 1) + 1 /\ v[(k - 1) + 1] = Signal("offer", p)
    BY <1>1, <1>2, <2>1, <2>2
  <2> QED
    BY <2>3, <2>4, <2>5 DEF Answered
<1>9. ASSUME NEW i, NEW p, NEW b, Answered(w, i, p, b), Head(w).type = "answer"
      PROVE  Head(w) = Signal("answer", i) /\ Fresh(v, p, b)
  <2>1. PICK k \in DOMAIN w :
          /\ w[k] = Signal("answer", i)
          /\ \A n \in 1 .. k - 1 : w[n].type = "offer"
          /\ \/ Len(w) = k
             \/ b /\ Len(w) = k + 1 /\ w[k + 1] = Signal("offer", p)
    BY <1>9 DEF Answered
  <2>2. k = 1
    BY <1>1, <1>2, <1>9, <2>1
  <2>3. \/ v = <<>>
        \/ b /\ Len(v) = 1 /\ v[1] = Signal("offer", p)
    BY <1>1, <1>2, <1>3, <2>1, <2>2
  <2>4. Len(v) = 1 => v = <<v[1]>>
    BY <1>1
  <2> QED
    BY <1>1, <2>1, <2>2, <2>3, <2>4 DEF Fresh
<1> QED
  BY <1>1, <1>4, <1>5, <1>6, <1>7, <1>8, <1>9 DEF v

(* A short wire carries what its signals are. *)
LEMMA ShortWire ==
  ASSUME NEW p \in Nat, NEW i \in Nat
  PROVE  /\ ~CarriesOffer(<<>>) /\ ~CarriesAnswer(<<>>)
         /\ \A m : ~EndsWith(<<>>, m)
         /\ \A w, b : Fresh(w, p, b) =>
              /\ ~CarriesAnswer(w)
              /\ w = <<>> \/ (b /\ EndsWith(w, Signal("offer", p))
                               /\ Head(w) = Signal("offer", p) /\ Tail(w) = <<>>)
         /\ \A w : WireToPolite(w, p, i) /\ w # <<>> =>
              \/ /\ Head(w) = Signal("answer", p)
                 /\ WireToPolite(Tail(w), p, i) /\ ~CarriesAnswer(Tail(w))
                 /\ CarriesAnswer(w)
                 /\ CarriesOffer(w) <=> CarriesOffer(Tail(w))
              \/ /\ Head(w) = Signal("offer", i) /\ Tail(w) = <<>>
                 /\ ~CarriesAnswer(w) /\ CarriesOffer(w)
         /\ \A w : WireToPolite(w, p, i) /\ ~CarriesOffer(w) =>
              /\ \A o : WireToPolite(w, p, o)
              /\ \A o : WireToPolite(Append(w, Signal("offer", o)), p, o)
         /\ \A w : WireToPolite(w, p, i) /\ ~CarriesAnswer(w) =>
              \A o : WireToPolite(w, o, i)
         /\ \A w : WireToPolite(w, p, i) /\ ~CarriesAnswer(w) /\ ~CarriesOffer(w) =>
              /\ w = <<>>
              /\ \A o : WireToPolite(Append(w, Signal("answer", o)), o, i)
<1> DEFINE O == Signal("offer", i)
           A == Signal("answer", p)
<1>1. O.type = "offer" /\ A.type = "answer"
  BY DEF Signal
<1>2. /\ ~CarriesOffer(<<>>) /\ ~CarriesAnswer(<<>>)
      /\ CarriesOffer(<<O>>) /\ ~CarriesAnswer(<<O>>)
      /\ ~CarriesOffer(<<A>>) /\ CarriesAnswer(<<A>>)
      /\ CarriesOffer(<<A, O>>) /\ CarriesAnswer(<<A, O>>)
  BY <1>1 DEF CarriesOffer, CarriesAnswer
<1>3. /\ \A m : Head(<<m>>) = m /\ Tail(<<m>>) = <<>> /\ <<m>> # <<>>
                /\ Append(<<>>, m) = <<m>> /\ EndsWith(<<m>>, m)
                /\ ~EndsWith(<<>>, m)
      /\ \A m, o : Head(<<m, o>>) = m /\ Tail(<<m, o>>) = <<o>>
                   /\ Append(<<m>>, o) = <<m, o>>
  <2>1. \A m : Head(<<m>>) = m /\ Tail(<<m>>) = <<>> /\ <<m>> # <<>>
    OBVIOUS
  <2>2. \A m : Append(<<>>, m) = <<m>>
    OBVIOUS
  <2>3. \A m : EndsWith(<<m>>, m) /\ ~EndsWith(<<>>, m)
    BY DEF EndsWith
  <2>4. \A m, o : Head(<<m, o>>) = m /\ Tail(<<m, o>>) = <<o>>
    OBVIOUS
  <2>5. \A m, o : Append(<<m>>, o) = <<m, o>>
    <3> TAKE m, o
    <3> DEFINE S == {m, o}
               s == Append(<<m>>, o)
               rest == <<m, o>>
    <3>1. /\ s \in Seq(S) /\ Len(s) = 2 /\ s[1] = m /\ s[2] = o
      <4>1. <<m>> \in Seq(S) /\ o \in S /\ Len(<<m>>) = 1 /\ <<m>>[1] = m
        OBVIOUS
      <4> QED
        BY <4>1, AppendProperties
    <3>2. rest \in Seq(S) /\ Len(rest) = 2 /\ rest[1] = m /\ rest[2] = o
      OBVIOUS
    <3> HIDE DEF s, rest, S
    <3>3. \A n \in 1 .. Len(s) : s[n] = rest[n]
      BY <3>1, <3>2
    <3>4. s = rest
      BY <3>1, <3>2, <3>3, SeqEqual
    <3> QED
      BY <3>4 DEF s, rest
  <2> QED
    BY <2>1, <2>2, <2>3, <2>4, <2>5
<1>4. \A w, b : Fresh(w, p, b) =>
        /\ ~CarriesAnswer(w)
        /\ w = <<>> \/ (b /\ EndsWith(w, Signal("offer", p))
                         /\ Head(w) = Signal("offer", p) /\ Tail(w) = <<>>)
  <2>1. ~CarriesAnswer(<<Signal("offer", p)>>)
    BY DEF CarriesAnswer, Signal
  <2> QED
    BY <1>2, <1>3, <2>1 DEF Fresh
<1> HIDE DEF O, A
<1>5. \A w : WireToPolite(w, p, i) <=>
               w = <<>> \/ w = <<O>> \/ w = <<A>> \/ w = <<A, O>>
  BY DEF WireToPolite, O, A
<1>6. ASSUME NEW w, WireToPolite(w, p, i), w # <<>>
      PROVE  \/ /\ Head(w) = A
                /\ WireToPolite(Tail(w), p, i) /\ ~CarriesAnswer(Tail(w))
                /\ CarriesAnswer(w)
                /\ CarriesOffer(w) <=> CarriesOffer(Tail(w))
             \/ /\ Head(w) = O /\ Tail(w) = <<>>
                /\ ~CarriesAnswer(w) /\ CarriesOffer(w)
  BY <1>2, <1>3, <1>5, <1>6
<1>7. ASSUME NEW w, WireToPolite(w, p, i), ~CarriesOffer(w)
      PROVE  /\ \A o : WireToPolite(w, p, o)
             /\ \A o : WireToPolite(Append(w, Signal("offer", o)), p, o)
  <2>1. w = <<>> \/ w = <<A>>
    BY <1>2, <1>5, <1>7
  <2> QED
    BY <1>3, <2>1 DEF WireToPolite, A
<1>8. ASSUME NEW w, WireToPolite(w, p, i), ~CarriesAnswer(w)
      PROVE  \A o : WireToPolite(w, o, i)
  <2>1. w = <<>> \/ w = <<O>>
    BY <1>2, <1>5, <1>8
  <2> QED
    BY <2>1 DEF WireToPolite, O
<1>9. ASSUME NEW w, WireToPolite(w, p, i), ~CarriesAnswer(w), ~CarriesOffer(w)
      PROVE  /\ w = <<>>
             /\ \A o : WireToPolite(Append(w, Signal("answer", o)), o, i)
  <2>1. w = <<>>
    BY <1>2, <1>5, <1>9
  <2> QED
    BY <1>3, <2>1 DEF WireToPolite
<1> QED
  BY <1>2, <1>3, <1>4, <1>6, <1>7, <1>8, <1>9 DEF O, A

-----------------------------------------------------------------------------
(* The invariant is preserved, one action at a time *)

\* The fields that the invariant is about.
Unmoved(x, y) ==
  /\ y.pc = x.pc /\ y.sig = x.sig /\ y.chain = x.chain /\ y.making = x.making
  /\ y.pending = x.pending /\ y.agreed = x.agreed /\ y.capping = x.capping
  /\ y.broken = x.broken
  /\ x.need # "none" => y.need # "none"

(* What the types say of the two peers and the wires. *)
LEMMA Typed ==
  ASSUME NegotiationTypes
  PROVE  /\ polite.chain \in Seq(Operation) /\ impolite.chain \in Seq(Operation)
         /\ toPolite \in Seq([type : {"offer", "answer"}, id : Nat])
         /\ toImpolite \in Seq([type : {"offer", "answer"}, id : Nat])
         /\ polite.pending \in Nat /\ polite.agreed \in Nat
         /\ impolite.pending \in Nat /\ impolite.agreed \in Nat
         /\ polite.capping \in Seq(Nat) /\ impolite.capping \in Seq(Nat)
         /\ polite.sig \in {"stable", "local", "remote"}
         /\ impolite.sig \in {"stable", "local", "remote"}
         /\ polite.pc \in {"waiting", "live", "closed"}
         /\ impolite.pc \in {"waiting", "live", "closed"}
         /\ polite.making \in BOOLEAN /\ impolite.making \in BOOLEAN
         /\ offers \in Nat
BY DEF NegotiationTypes, Negotiator, Peer, polite, impolite, toPolite, toImpolite

(* Nothing that matters changes. *)
LEMMA UnmovedKeeps ==
  ASSUME Coordinated, Unmoved(polite, polite'), Unmoved(impolite, impolite'),
         UNCHANGED <<wire, offers>>
  PROVE  Coordinated'
<1>1. toPolite' = toPolite /\ toImpolite' = toImpolite /\ offers' = offers
  BY DEF toPolite, toImpolite
<1> USE <1>1 DEF Unmoved
<1>2. PeersFit'
  BY DEF Coordinated, PeersFit, StateFits, Numbered
<1>3. /\ SentToPolite' <=> SentToPolite
      /\ TakenByPolite' <=> TakenByPolite
      /\ AppliedByPolite' <=> AppliedByPolite
      /\ CappedByPolite' <=> CappedByPolite
      /\ ReturnedToImpolite' <=> ReturnedToImpolite
      /\ SettledByImpolite' <=> SettledByImpolite
  BY DEF SentToPolite, TakenByPolite, AppliedByPolite, CappedByPolite,
         ReturnedToImpolite, SettledByImpolite
<1>4. /\ SentToImpolite' <=> SentToImpolite
      /\ TakenByImpolite' <=> TakenByImpolite
      /\ AppliedByImpolite' <=> AppliedByImpolite
      /\ CappedByImpolite' <=> CappedByImpolite
      /\ ReturnedToPolite' <=> ReturnedToPolite
      /\ SettledByPolite' <=> SettledByPolite
  BY <1>3 DEF SentToImpolite, TakenByImpolite, AppliedByImpolite,
     CappedByImpolite, ReturnedToPolite, SettledByPolite
<1>5. OnePlace' /\ OneExchange'
  BY <1>3, <1>4 DEF Coordinated, OnePlace, OneExchange
<1>6. OwnersWait'
  BY <1>3, <1>4 DEF Coordinated, OwnersWait, InProgressI, InProgressP
<1>7. WiresFit'
  BY <1>3, <1>4 DEF Coordinated, WiresFit
<1>8. CapsAreOld'
  BY <1>3, <1>4 DEF Coordinated, CapsAreOld
<1>9. ImpoliteProceeds' /\ PoliteProceeds' /\ Agree'
  BY <1>3, <1>4 DEF Coordinated, ImpoliteProceeds, PoliteProceeds, Agree,
     InProgressI, InProgressP, BothThere
<1> QED
  BY <1>2, <1>5, <1>6, <1>7, <1>8, <1>9 DEF Coordinated

(* setRemoteDescription(offer) of the polite peer. *)
LEMMA PoliteRemoteEnds ==
  ASSUME NegotiationTypes, Coordinated, RemoteEnds("polite")
  PROVE  Coordinated'
<1>1. /\ polite.pc = "live" /\ polite.chain # <<>>
      /\ Head(polite.chain).do = "remote"
      /\ polite'.pc = "live" /\ polite'.sig = "remote"
      /\ polite'.chain = Append(Tail(polite.chain), Op("reply", 0))
      /\ polite'.making = polite.making /\ polite'.agreed = polite.agreed
      /\ polite'.need = polite.need /\ polite'.capping = polite.capping
      /\ polite'.pending = Head(polite.chain).id
      /\ polite'.broken = polite.broken
      /\ impolite' = impolite
      /\ toPolite' = toPolite /\ toImpolite' = toImpolite /\ offers' = offers
  BY DEF RemoteEnds, Ends, Live, Rest, Queue, NegotiationTypes, Negotiator, Peer,
         polite, impolite, toPolite, toImpolite
<1>2. /\ PoliteChain(polite.chain) /\ polite.chain \in Seq(Operation)
      /\ About(polite.chain, {"rollback", "remote"}, impolite.pending)
      /\ Op("reply", 0) \in Operation /\ Op("reply", 0).do = "reply"
  BY Typed DEF Coordinated, PeersFit, OwnersWait, Op, Operation
<1>3. /\ Does(polite.chain, "remote")
      /\ Head(polite.chain).id = impolite.pending
      /\ \A a : Does(polite.chain, a) => a \in {"remote", "create"}
      /\ \A a : Does(polite'.chain, a) <=>
                  (Does(polite.chain, a) /\ a # "remote") \/ a = "reply"
      /\ PoliteChain(polite'.chain) /\ polite'.chain \in Seq(Operation)
  BY <1>1, <1>2, TailChain, PoliteTail, NextOperation
<1>4. \A id : /\ About(polite'.chain, {"rollback", "remote"}, id)
              /\ About(polite'.chain, {"answer"}, id)
  BY <1>3, ShortChain
<1>5. TakenByPolite /\ impolite.sig = "local" /\ polite.sig = "stable"
      /\ impolite.pending \in Nat \ {0} /\ impolite.pending <= offers
  <2>1. TakenByPolite
    BY <1>3 DEF TakenByPolite
  <2>2. impolite.sig = "local"
    BY <2>1 DEF Coordinated, OwnersWait, InProgressI
  <2>3. polite.sig = "stable"
    <3>1. ~Does(polite.chain, "reply")
      BY <1>3
    <3> QED
      BY <1>1, <1>3, <3>1, Typed DEF Coordinated, PeersFit, StateFits
  <2>4. impolite.pending \in Nat \ {0} /\ impolite.pending <= offers
    BY <2>2, Typed DEF Coordinated, PeersFit, StateFits, Numbered
  <2> QED
    BY <2>1, <2>2, <2>3, <2>4
<1>6. PeersFit'
  <2>1. StateFits(polite')
    BY <1>1, <1>3, <1>4, <1>5 DEF Coordinated, PeersFit, StateFits
  <2>2. Numbered(polite)'
    BY <1>1, <1>3, <1>5 DEF Coordinated, PeersFit, Numbered
  <2> QED
    BY <1>1, <1>3, <2>1, <2>2 DEF Coordinated, PeersFit, Numbered
<1>7. /\ SentToPolite' <=> SentToPolite
      /\ ~TakenByPolite'
      /\ AppliedByPolite'
      /\ CappedByPolite' <=> CappedByPolite
      /\ ReturnedToImpolite' <=> ReturnedToImpolite
      /\ SettledByImpolite' <=> SettledByImpolite
  BY <1>1, <1>3 DEF SentToPolite, TakenByPolite, AppliedByPolite,
     CappedByPolite, ReturnedToImpolite, SettledByImpolite
<1>8. /\ ~SentToPolite /\ ~CappedByPolite /\ ~ReturnedToImpolite
      /\ ~SettledByImpolite
      /\ ~TakenByImpolite /\ ~AppliedByImpolite
      /\ ~CappedByImpolite /\ ~ReturnedToPolite /\ ~SettledByPolite
  BY <1>5 DEF Coordinated, OnePlace, OwnersWait, InProgressP
<1>9. /\ ~SentToImpolite' /\ ~TakenByImpolite'
      /\ ~AppliedByImpolite' /\ ~CappedByImpolite'
      /\ ~ReturnedToPolite' /\ ~SettledByPolite'
  BY <1>1, <1>3, <1>5, <1>7, <1>8
     DEF SentToImpolite, TakenByImpolite, AppliedByImpolite,
         CappedByImpolite, ReturnedToPolite, SettledByPolite
<1>10. OnePlace' /\ OneExchange'
  BY <1>7, <1>8, <1>9 DEF OnePlace, OneExchange
<1>11. OwnersWait'
  <2>1. About(impolite.chain, {"remote"}, polite'.pending)
    BY <1>8, Typed, ShortChain DEF TakenByImpolite
  <2> QED
    BY <1>1, <1>3, <1>4, <1>5, <1>7, <1>8, <1>9, <2>1
       DEF OwnersWait, InProgressI, InProgressP
<1>12. WiresFit'
  <2>1. WireToPolite(toPolite, polite'.pending, impolite.pending)
    BY <1>1, <1>8, Typed, ShortWire DEF Coordinated, WiresFit, ReturnedToPolite
  <2> QED
    BY <1>1, <1>5, <1>7, <1>8, <2>1 DEF WiresFit
<1>13. CapsAreOld'
  BY <1>1, <1>9 DEF Coordinated, CapsAreOld
<1>14. ImpoliteProceeds' /\ PoliteProceeds'
  BY <1>1, <1>7 DEF ImpoliteProceeds, PoliteProceeds, InProgressI
<1>15. Agree'
  BY <1>1, <1>7, <1>8, <1>9 DEF Coordinated, Agree, BothThere
<1> QED
  BY <1>6, <1>10, <1>11, <1>12, <1>13, <1>14, <1>15 DEF Coordinated

\* A step that only moves one peer, and no offer or answer.
OthersStay == wire' = wire /\ offers' = offers

(* A step of the polite peer after which everything is where it was. *)
LEMMA PoliteStays ==
  ASSUME NegotiationTypes, Coordinated, PeersFit', BothThere' = BothThere,
         OthersStay, impolite' = impolite,
         polite'.sig = polite.sig, polite'.pending = polite.pending,
         polite'.agreed = polite.agreed, polite'.capping = polite.capping,
         Does(polite'.chain, "rollback") <=> Does(polite.chain, "rollback"),
         Does(polite'.chain, "remote") <=> Does(polite.chain, "remote"),
         Does(polite'.chain, "answer") <=> Does(polite.chain, "answer"),
         About(polite'.chain, {"rollback", "remote"}, impolite.pending)
  PROVE  Coordinated'
<1>1. toPolite' = toPolite /\ toImpolite' = toImpolite
  BY DEF OthersStay, toPolite, toImpolite
<1>2. /\ SentToPolite' <=> SentToPolite
      /\ TakenByPolite' <=> TakenByPolite
      /\ AppliedByPolite' <=> AppliedByPolite
      /\ CappedByPolite' <=> CappedByPolite
      /\ ReturnedToImpolite' <=> ReturnedToImpolite
      /\ SettledByImpolite' <=> SettledByImpolite
  BY <1>1 DEF SentToPolite, TakenByPolite, AppliedByPolite, CappedByPolite,
     ReturnedToImpolite, SettledByImpolite
<1>3. /\ SentToImpolite' <=> SentToImpolite
      /\ TakenByImpolite' <=> TakenByImpolite
      /\ AppliedByImpolite' <=> AppliedByImpolite
      /\ CappedByImpolite' <=> CappedByImpolite
      /\ ReturnedToPolite' <=> ReturnedToPolite
      /\ SettledByPolite' <=> SettledByPolite
  BY <1>1, <1>2 DEF SentToImpolite, TakenByImpolite, AppliedByImpolite,
     CappedByImpolite, ReturnedToPolite, SettledByPolite
<1>4. OnePlace' /\ OneExchange'
  BY <1>2, <1>3 DEF Coordinated, OnePlace, OneExchange
<1>5. OwnersWait'
  BY <1>2, <1>3 DEF Coordinated, OwnersWait, InProgressI, InProgressP
<1>6. WiresFit'
  BY <1>1, <1>2, <1>3 DEF Coordinated, WiresFit
<1>7. CapsAreOld'
  BY <1>2, <1>3 DEF Coordinated, CapsAreOld
<1>8. ImpoliteProceeds' /\ PoliteProceeds' /\ Agree'
  BY <1>2, <1>3 DEF Coordinated, ImpoliteProceeds, PoliteProceeds, Agree,
     InProgressI, InProgressP
<1> QED
  BY <1>4, <1>5, <1>6, <1>7, <1>8 DEF Coordinated

(* A step of the impolite peer after which everything is where it was. *)
LEMMA ImpoliteStays ==
  ASSUME NegotiationTypes, Coordinated, PeersFit', BothThere' = BothThere,
         OthersStay, polite' = polite,
         impolite'.sig = impolite.sig, impolite'.pending = impolite.pending,
         impolite'.agreed = impolite.agreed, impolite'.capping = impolite.capping,
         Does(impolite'.chain, "remote") <=> Does(impolite.chain, "remote"),
         Does(impolite'.chain, "answer") <=> Does(impolite.chain, "answer"),
         About(impolite'.chain, {"remote"}, polite.pending),
         \/ impolite.making \/ impolite.pc = "waiting" \/ impolite.need # "none"
           => \/ impolite'.making \/ impolite'.pc = "waiting"
              \/ impolite'.need # "none"
  PROVE  Coordinated'
<1>1. toPolite' = toPolite /\ toImpolite' = toImpolite
  BY DEF OthersStay, toPolite, toImpolite
<1>2. /\ SentToPolite' <=> SentToPolite
      /\ TakenByPolite' <=> TakenByPolite
      /\ AppliedByPolite' <=> AppliedByPolite
      /\ CappedByPolite' <=> CappedByPolite
      /\ ReturnedToImpolite' <=> ReturnedToImpolite
      /\ SettledByImpolite' <=> SettledByImpolite
  BY <1>1 DEF SentToPolite, TakenByPolite, AppliedByPolite, CappedByPolite,
     ReturnedToImpolite, SettledByImpolite
<1>3. /\ SentToImpolite' <=> SentToImpolite
      /\ TakenByImpolite' <=> TakenByImpolite
      /\ AppliedByImpolite' <=> AppliedByImpolite
      /\ CappedByImpolite' <=> CappedByImpolite
      /\ ReturnedToPolite' <=> ReturnedToPolite
      /\ SettledByPolite' <=> SettledByPolite
  BY <1>1, <1>2 DEF SentToImpolite, TakenByImpolite, AppliedByImpolite,
     CappedByImpolite, ReturnedToPolite, SettledByPolite
<1>4. OnePlace' /\ OneExchange'
  BY <1>2, <1>3 DEF Coordinated, OnePlace, OneExchange
<1>5. OwnersWait'
  BY <1>2, <1>3 DEF Coordinated, OwnersWait, InProgressI, InProgressP
<1>6. WiresFit'
  BY <1>1, <1>2, <1>3 DEF Coordinated, WiresFit
<1>7. CapsAreOld'
  BY <1>2, <1>3 DEF Coordinated, CapsAreOld
<1>8. ImpoliteProceeds' /\ PoliteProceeds' /\ Agree'
  BY <1>2, <1>3 DEF Coordinated, ImpoliteProceeds, PoliteProceeds, Agree,
     InProgressI, InProgressP
<1> QED
  BY <1>4, <1>5, <1>6, <1>7, <1>8 DEF Coordinated

(* A round is prepared. *)
LEMMA PolitePrepares ==
  ASSUME NegotiationTypes, Coordinated, PrepareRound("polite")
  PROVE  Coordinated'
<1>1. /\ polite.pc = "waiting" /\ polite.chain \in Seq(Operation)
      /\ polite'.pc = "live" /\ polite'.need = "tracks"
      /\ polite'.chain = Append(polite.chain, Op("mute", 0))
      /\ polite'.sig = polite.sig /\ polite'.making = polite.making
      /\ polite'.pending = polite.pending /\ polite'.agreed = polite.agreed
      /\ polite'.capping = polite.capping /\ polite'.broken = polite.broken
      /\ impolite' = impolite /\ OthersStay
  BY DEF PrepareRound, Queue, NegotiationTypes, Negotiator, Peer, polite, impolite,
         OthersStay
<1>2. StateFits(polite) /\ polite.chain = <<>> /\ polite.sig = "stable"
        /\ ~polite.making
  BY <1>1 DEF Coordinated, PeersFit, StateFits
<1>3. /\ \A a : ~Does(polite.chain, a)
      /\ polite'.chain \in Seq(Operation) /\ Only(polite'.chain, "mute")
      /\ \A a : Does(polite'.chain, a) <=> a = "mute"
  <2>1. Op("mute", 0) \in Operation /\ Op("mute", 0).do = "mute"
    BY DEF Op, Operation
  <2>2. polite'.chain \in Seq(Operation) /\ Only(polite'.chain, "mute")
    BY <1>1, <1>2, <2>1, AppendChain
  <2> QED
    BY <1>1, <1>2, <2>2, ShortChain
<1>4. \A id : /\ About(polite'.chain, {"rollback", "remote"}, id)
              /\ About(polite'.chain, {"answer"}, id)
  BY <1>3, ShortChain
<1>5. PeersFit'
  <2>1. StateFits(polite')
    BY <1>1, <1>2, <1>3, <1>4 DEF StateFits
  <2>2. PoliteChain(polite'.chain)
    BY <1>3 DEF PoliteChain
  <2> QED
    BY <1>1, <2>1, <2>2 DEF Coordinated, PeersFit, Numbered, OthersStay
<1>6. BothThere' = BothThere
  BY <1>1 DEF BothThere
<1> QED
  BY <1>1, <1>3, <1>4, <1>5, <1>6, PoliteStays

(* The same for the impolite peer, which makes up for an offer it missed. *)
LEMMA ImpolitePrepares ==
  ASSUME NegotiationTypes, Coordinated, PrepareRound("impolite")
  PROVE  Coordinated'
<1>1. /\ impolite.pc = "waiting" /\ impolite.chain \in Seq(Operation)
      /\ impolite'.pc = "live" /\ impolite'.need = "tracks"
      /\ impolite'.chain = Append(impolite.chain, Op("mute", 0))
      /\ impolite'.sig = impolite.sig /\ impolite'.making = impolite.making
      /\ impolite'.pending = impolite.pending /\ impolite'.agreed = impolite.agreed
      /\ impolite'.capping = impolite.capping /\ impolite'.broken = impolite.broken
      /\ polite' = polite /\ OthersStay
  BY DEF PrepareRound, Queue, NegotiationTypes, Negotiator, Peer, polite, impolite,
         OthersStay
<1>2. StateFits(impolite) /\ impolite.chain = <<>> /\ impolite.sig = "stable"
        /\ ~impolite.making
  BY <1>1 DEF Coordinated, PeersFit, StateFits
<1>3. /\ \A a : ~Does(impolite.chain, a)
      /\ impolite'.chain \in Seq(Operation) /\ Only(impolite'.chain, "mute")
      /\ \A a : Does(impolite'.chain, a) <=> a = "mute"
  <2>1. Op("mute", 0) \in Operation /\ Op("mute", 0).do = "mute"
    BY DEF Op, Operation
  <2>2. impolite'.chain \in Seq(Operation) /\ Only(impolite'.chain, "mute")
    BY <1>1, <1>2, <2>1, AppendChain
  <2> QED
    BY <1>1, <1>2, <2>2, ShortChain
<1>4. \A id : /\ About(impolite'.chain, {"remote"}, id)
              /\ About(impolite'.chain, {"answer"}, id)
  BY <1>3, ShortChain
<1>5. PeersFit'
  <2>1. StateFits(impolite')
    BY <1>1, <1>2, <1>3, <1>4 DEF StateFits
  <2>2. ImpoliteChain(impolite'.chain)
    BY <1>3 DEF ImpoliteChain
  <2> QED
    BY <1>1, <2>1, <2>2 DEF Coordinated, PeersFit, Numbered, OthersStay
<1>6. BothThere' = BothThere
  BY <1>1 DEF BothThere
<1> QED
  BY <1>1, <1>3, <1>4, <1>5, <1>6, ImpoliteStays

(* The round ends: what the peer was doing is gone. *)
LEMMA PoliteEndsRound ==
  ASSUME NegotiationTypes, Coordinated, EndRound("polite")
  PROVE  Coordinated'
<1>1. /\ polite'.pc = "closed" /\ polite'.chain = <<>>
      /\ polite'.sig = polite.sig /\ polite'.making = polite.making
      /\ polite'.pending = polite.pending /\ polite'.agreed = polite.agreed
      /\ polite'.capping = polite.capping /\ polite'.broken = polite.broken
      /\ impolite' = impolite /\ OthersStay
      /\ toPolite' = toPolite /\ toImpolite' = toImpolite
  BY DEF EndRound, NegotiationTypes, Negotiator, Peer, polite, impolite, OthersStay,
         toPolite, toImpolite
<1>2. /\ \A a : ~Does(polite'.chain, a)
      /\ \A K, id : About(polite'.chain, K, id)
  BY <1>1 DEF Does, About
<1>3. PeersFit'
  <2>1. StateFits(polite')
    BY <1>1, <1>2 DEF Coordinated, PeersFit, StateFits
  <2>2. PoliteChain(polite'.chain)
    BY <1>1 DEF PoliteChain
  <2> QED
    BY <1>1, <2>1, <2>2 DEF Coordinated, PeersFit, Numbered, OthersStay
<1>4. /\ SentToPolite' <=> SentToPolite
      /\ ~TakenByPolite'
      /\ AppliedByPolite' <=> AppliedByPolite
      /\ CappedByPolite' <=> CappedByPolite
      /\ ReturnedToImpolite' <=> ReturnedToImpolite
      /\ SettledByImpolite' <=> SettledByImpolite
  BY <1>1, <1>2 DEF SentToPolite, TakenByPolite, AppliedByPolite,
     CappedByPolite, ReturnedToImpolite, SettledByImpolite
<1>5. /\ SentToImpolite' <=> SentToImpolite
      /\ TakenByImpolite' <=> TakenByImpolite
      /\ AppliedByImpolite' <=> AppliedByImpolite
      /\ CappedByImpolite' <=> CappedByImpolite
      /\ ReturnedToPolite' <=> ReturnedToPolite
      /\ ~SettledByPolite'
  BY <1>1, <1>2, <1>4 DEF SentToImpolite, TakenByImpolite, AppliedByImpolite,
     CappedByImpolite, ReturnedToPolite, SettledByPolite
<1>6. OnePlace' /\ OneExchange'
  BY <1>4, <1>5 DEF Coordinated, OnePlace, OneExchange
<1>7. OwnersWait'
  BY <1>1, <1>2, <1>4, <1>5
     DEF Coordinated, OwnersWait, InProgressI, InProgressP
<1>8. WiresFit'
  BY <1>1, <1>4 DEF Coordinated, WiresFit
<1>9. CapsAreOld'
  BY <1>1, <1>5 DEF Coordinated, CapsAreOld
<1>10. ImpoliteProceeds' /\ PoliteProceeds' /\ Agree'
  BY <1>1, <1>4, <1>5 DEF Coordinated, ImpoliteProceeds, PoliteProceeds, Agree,
     BothThere
<1> QED
  BY <1>3, <1>6, <1>7, <1>8, <1>9, <1>10 DEF Coordinated

(* The same for the impolite peer. *)
LEMMA ImpoliteEndsRound ==
  ASSUME NegotiationTypes, Coordinated, EndRound("impolite")
  PROVE  Coordinated'
<1>1. /\ impolite'.pc = "closed" /\ impolite'.chain = <<>>
      /\ impolite'.sig = impolite.sig /\ impolite'.making = impolite.making
      /\ impolite'.pending = impolite.pending /\ impolite'.agreed = impolite.agreed
      /\ impolite'.capping = impolite.capping /\ impolite'.broken = impolite.broken
      /\ polite' = polite /\ OthersStay
      /\ toPolite' = toPolite /\ toImpolite' = toImpolite
  BY DEF EndRound, NegotiationTypes, Negotiator, Peer, polite, impolite, OthersStay,
         toPolite, toImpolite
<1>2. /\ \A a : ~Does(impolite'.chain, a)
      /\ \A K, id : About(impolite'.chain, K, id)
  BY <1>1 DEF Does, About
<1>3. PeersFit'
  <2>1. StateFits(impolite')
    BY <1>1, <1>2 DEF Coordinated, PeersFit, StateFits
  <2>2. ImpoliteChain(impolite'.chain)
    BY <1>1 DEF ImpoliteChain
  <2> QED
    BY <1>1, <2>1, <2>2 DEF Coordinated, PeersFit, Numbered, OthersStay
<1>4. /\ SentToPolite' <=> SentToPolite
      /\ TakenByPolite' <=> TakenByPolite
      /\ AppliedByPolite' <=> AppliedByPolite
      /\ CappedByPolite' <=> CappedByPolite
      /\ ReturnedToImpolite' <=> ReturnedToImpolite
      /\ ~SettledByImpolite'
  BY <1>1, <1>2 DEF SentToPolite, TakenByPolite, AppliedByPolite,
     CappedByPolite, ReturnedToImpolite, SettledByImpolite
<1>5. /\ SentToImpolite' => SentToImpolite
      /\ SentToImpolite /\ ReturnedToImpolite' => SentToImpolite'
      /\ ~TakenByImpolite'
      /\ AppliedByImpolite' <=> AppliedByImpolite
      /\ CappedByImpolite' <=> CappedByImpolite
      /\ ReturnedToPolite' <=> ReturnedToPolite
      /\ SettledByPolite' <=> SettledByPolite
  BY <1>1, <1>2, <1>4 DEF SentToImpolite, TakenByImpolite, AppliedByImpolite,
     CappedByImpolite, ReturnedToPolite, SettledByPolite
<1>6. OnePlace' /\ OneExchange'
  BY <1>4, <1>5 DEF Coordinated, OnePlace, OneExchange
<1>7. OwnersWait'
  BY <1>1, <1>2, <1>4, <1>5
     DEF Coordinated, OwnersWait, InProgressI, InProgressP
<1>8. WiresFit'
  <2>1. SettledByImpolite => ~ReturnedToImpolite
    BY DEF Coordinated, OnePlace
  <2> QED
    BY <1>1, <1>4, <2>1 DEF Coordinated, WiresFit
<1>9. CapsAreOld'
  BY <1>1, <1>5 DEF Coordinated, CapsAreOld
<1>10. ImpoliteProceeds' /\ PoliteProceeds' /\ Agree'
  BY <1>1, <1>4, <1>5 DEF Coordinated, ImpoliteProceeds, PoliteProceeds, Agree,
     BothThere
<1> QED
  BY <1>3, <1>6, <1>7, <1>8, <1>9, <1>10 DEF Coordinated

(* The browser's event starts an offer. *)
LEMMA PoliteNeeds ==
  ASSUME NegotiationTypes, Coordinated, NegotiationNeeded("polite")
  PROVE  Coordinated'
<1>1. /\ polite.pc = "live" /\ polite.chain = <<>> /\ polite.sig = "stable"
      /\ polite'.chain = Append(polite.chain, Op("offer", 0)) /\ polite'.making
      /\ polite'.pc = polite.pc /\ polite'.sig = polite.sig
      /\ polite'.need = polite.need
      /\ polite'.pending = polite.pending /\ polite'.agreed = polite.agreed
      /\ polite'.capping = polite.capping /\ polite'.broken = polite.broken
      /\ impolite' = impolite /\ OthersStay
  BY DEF NegotiationNeeded, Live, Queue, NegotiationTypes, Negotiator, Peer, polite,
         impolite, OthersStay
<1>2. /\ \A a : ~Does(polite.chain, a)
      /\ polite'.chain \in Seq(Operation) /\ Only(polite'.chain, "offer")
      /\ \A a : Does(polite'.chain, a) <=> a = "offer"
  <2>1. Op("offer", 0) \in Operation /\ Op("offer", 0).do = "offer"
          /\ polite.chain \in Seq(Operation)
    BY Typed DEF Op, Operation
  <2>2. polite'.chain \in Seq(Operation) /\ Only(polite'.chain, "offer")
    BY <1>1, <2>1, AppendChain
  <2> QED
    BY <1>1, <2>1, <2>2, ShortChain
<1>3. \A id : /\ About(polite'.chain, {"rollback", "remote"}, id)
              /\ About(polite'.chain, {"answer"}, id)
  BY <1>2, ShortChain
<1>4. PeersFit'
  <2>1. StateFits(polite')
    BY <1>1, <1>2, <1>3 DEF Coordinated, PeersFit, StateFits
  <2>2. PoliteChain(polite'.chain)
    BY <1>2 DEF PoliteChain
  <2> QED
    BY <1>1, <2>1, <2>2 DEF Coordinated, PeersFit, Numbered, OthersStay
<1>5. BothThere' = BothThere
  BY <1>1 DEF BothThere
<1> QED
  BY <1>1, <1>2, <1>3, <1>4, <1>5, PoliteStays

(* The same for the impolite peer: it makes an offer of its own. *)
LEMMA ImpoliteNeeds ==
  ASSUME NegotiationTypes, Coordinated, NegotiationNeeded("impolite")
  PROVE  Coordinated'
<1>1. /\ impolite.pc = "live" /\ impolite.chain = <<>> /\ impolite.sig = "stable"
      /\ impolite'.chain = Append(impolite.chain, Op("offer", 0))
      /\ impolite'.making
      /\ impolite'.pc = impolite.pc /\ impolite'.sig = impolite.sig
      /\ impolite'.need = impolite.need
      /\ impolite'.pending = impolite.pending /\ impolite'.agreed = impolite.agreed
      /\ impolite'.capping = impolite.capping /\ impolite'.broken = impolite.broken
      /\ polite' = polite /\ OthersStay
  BY DEF NegotiationNeeded, Live, Queue, NegotiationTypes, Negotiator, Peer, polite,
         impolite, OthersStay
<1>2. /\ \A a : ~Does(impolite.chain, a)
      /\ impolite'.chain \in Seq(Operation) /\ Only(impolite'.chain, "offer")
      /\ \A a : Does(impolite'.chain, a) <=> a = "offer"
  <2>1. Op("offer", 0) \in Operation /\ Op("offer", 0).do = "offer"
          /\ impolite.chain \in Seq(Operation)
    BY Typed DEF Op, Operation
  <2>2. impolite'.chain \in Seq(Operation) /\ Only(impolite'.chain, "offer")
    BY <1>1, <2>1, AppendChain
  <2> QED
    BY <1>1, <2>1, <2>2, ShortChain
<1>3. \A id : /\ About(impolite'.chain, {"remote"}, id)
              /\ About(impolite'.chain, {"answer"}, id)
  BY <1>2, ShortChain
<1>4. PeersFit'
  <2>1. StateFits(impolite')
    BY <1>1, <1>2, <1>3 DEF Coordinated, PeersFit, StateFits
  <2>2. ImpoliteChain(impolite'.chain)
    BY <1>2 DEF ImpoliteChain
  <2> QED
    BY <1>1, <2>1, <2>2 DEF Coordinated, PeersFit, Numbered, OthersStay
<1>5. BothThere' = BothThere
  BY <1>1 DEF BothThere
<1> QED
  BY <1>1, <1>2, <1>3, <1>4, <1>5, ImpoliteStays

(* preconnect has muted the senders. *)
LEMMA PoliteMuteEnds ==
  ASSUME NegotiationTypes, Coordinated, MuteEnds("polite")
  PROVE  Coordinated'
<1>1. /\ polite.pc = "live" /\ polite.chain # <<>>
      /\ Head(polite.chain).do = "mute"
      /\ polite'.chain = Append(Tail(polite.chain), Op("create", 0))
      /\ polite'.making
      /\ polite'.pc = polite.pc /\ polite'.sig = polite.sig
      /\ polite'.need = polite.need
      /\ polite'.pending = polite.pending /\ polite'.agreed = polite.agreed
      /\ polite'.capping = polite.capping /\ polite'.broken = polite.broken
      /\ impolite' = impolite /\ OthersStay
  BY DEF MuteEnds, Ends, Rest, Live, Queue, NegotiationTypes, Negotiator, Peer,
         Offerer, polite, impolite, OthersStay
<1>2. /\ PoliteChain(polite.chain) /\ polite.chain \in Seq(Operation)
      /\ About(polite.chain, {"rollback", "remote"}, impolite.pending)
      /\ Op("create", 0) \in Operation /\ Op("create", 0).do = "create"
  BY Typed DEF Coordinated, PeersFit, OwnersWait, Op, Operation
<1>3. /\ Does(polite.chain, "mute")
      /\ \A a : Does(polite.chain, a) => a \in {"mute", "remote"}
      /\ \A a : Does(polite'.chain, a) <=>
                  (Does(polite.chain, a) /\ a # "mute") \/ a = "create"
      /\ PoliteChain(polite'.chain) /\ polite'.chain \in Seq(Operation)
      /\ About(polite'.chain, {"rollback", "remote"}, impolite.pending)
  <2>1. /\ polite'.chain \in Seq(Operation)
        /\ \A a : Does(polite'.chain, a) <=>
                    Does(Tail(polite.chain), a) \/ a = "create"
        /\ About(polite'.chain, {"rollback", "remote"}, impolite.pending)
    BY <1>1, <1>2, NextOperation
  <2>2. Does(polite.chain, "mute")
    BY <1>1, <1>2, TailChain
  <2> QED
    BY <1>1, <1>2, <2>1, <2>2, PoliteTail
<1>4. \A id : About(polite'.chain, {"answer"}, id)
  BY <1>3, ShortChain
<1>5. polite.sig = "stable"
  <2>1. ~Does(polite.chain, "reply")
    BY <1>3
  <2> QED
    BY <1>1, <1>3, <2>1, Typed DEF Coordinated, PeersFit, StateFits
<1>6. PeersFit'
  <2>1. StateFits(polite')
    BY <1>1, <1>3, <1>4, <1>5 DEF Coordinated, PeersFit, StateFits
  <2> QED
    BY <1>1, <1>3, <2>1 DEF Coordinated, PeersFit, Numbered, OthersStay
<1>7. BothThere' <=> BothThere
  BY <1>1 DEF BothThere
<1> QED
  BY <1>1, <1>3, <1>6, <1>7, PoliteStays

(* The same for the impolite peer, which sends no manual offer. *)
LEMMA ImpoliteMuteEnds ==
  ASSUME NegotiationTypes, Coordinated, MuteEnds("impolite")
  PROVE  Coordinated'
<1>1. /\ impolite.pc = "live" /\ impolite.chain # <<>>
      /\ Head(impolite.chain).do = "mute"
      /\ impolite'.chain = Tail(impolite.chain)
      /\ impolite'.making = impolite.making
      /\ impolite'.pc = impolite.pc /\ impolite'.sig = impolite.sig
      /\ impolite'.need = impolite.need
      /\ impolite'.pending = impolite.pending /\ impolite'.agreed = impolite.agreed
      /\ impolite'.capping = impolite.capping /\ impolite'.broken = impolite.broken
      /\ polite' = polite /\ OthersStay
  BY DEF MuteEnds, Ends, Rest, Live, Queue, NegotiationTypes, Negotiator, Peer,
         Offerer, polite, impolite, OthersStay
<1>2. /\ ImpoliteChain(impolite.chain) /\ impolite.chain \in Seq(Operation)
      /\ About(impolite.chain, {"remote"}, polite.pending)
  BY Typed DEF Coordinated, PeersFit, OwnersWait
<1>3. /\ \A a : Does(impolite.chain, a) => a \in {"mute", "remote"}
      /\ \A a : Does(impolite'.chain, a) <=> Does(impolite.chain, a) /\ a # "mute"
      /\ ImpoliteChain(impolite'.chain) /\ impolite'.chain \in Seq(Operation)
      /\ About(impolite'.chain, {"remote"}, polite.pending)
  BY <1>1, <1>2, TailChain, ImpoliteTail
<1>4. \A id : About(impolite'.chain, {"answer"}, id)
  BY <1>3, ShortChain
<1>5. PeersFit'
  <2>1. StateFits(impolite')
    BY <1>1, <1>3, <1>4 DEF Coordinated, PeersFit, StateFits
  <2> QED
    BY <1>1, <1>3, <2>1 DEF Coordinated, PeersFit, Numbered, OthersStay
<1>6. BothThere' <=> BothThere
  BY <1>1 DEF BothThere
<1> QED
  BY <1>1, <1>3, <1>5, <1>6, ImpoliteStays

(* createOffer of the manual offer. *)
LEMMA PoliteCreateEnds ==
  ASSUME NegotiationTypes, Coordinated, CreateEnds("polite")
  PROVE  Coordinated'
<1>1. /\ polite.pc = "live" /\ polite.chain # <<>>
      /\ Head(polite.chain).do = "create"
      /\ polite'.chain = Append(Tail(polite.chain), Op("set", polite.agreed))
      /\ polite'.making = polite.making
      /\ polite'.pc = polite.pc /\ polite'.sig = polite.sig
      /\ polite'.need = polite.need
      /\ polite'.pending = polite.pending /\ polite'.agreed = polite.agreed
      /\ polite'.capping = polite.capping /\ polite'.broken = polite.broken
      /\ impolite' = impolite /\ OthersStay
  BY DEF CreateEnds, Ends, Rest, Live, Queue, NegotiationTypes, Negotiator, Peer,
         polite, impolite, OthersStay
<1>2. /\ PoliteChain(polite.chain) /\ polite.chain \in Seq(Operation)
      /\ About(polite.chain, {"rollback", "remote"}, impolite.pending)
      /\ polite.agreed \in Nat
      /\ Op("set", polite.agreed) \in Operation
      /\ Op("set", polite.agreed).do = "set"
  BY Typed DEF Coordinated, PeersFit, OwnersWait, Op, Operation
<1>3. /\ Does(polite.chain, "create")
      /\ \A a : Does(polite.chain, a) => a \in {"create", "reply", "rollback"}
      /\ \A a : Does(polite'.chain, a) <=>
                  (Does(polite.chain, a) /\ a # "create") \/ a = "set"
      /\ PoliteChain(polite'.chain) /\ polite'.chain \in Seq(Operation)
      /\ About(polite'.chain, {"rollback", "remote"}, impolite.pending)
  <2>1. /\ polite'.chain \in Seq(Operation)
        /\ \A a : Does(polite'.chain, a) <=>
                    Does(Tail(polite.chain), a) \/ a = "set"
        /\ About(polite'.chain, {"rollback", "remote"}, impolite.pending)
    BY <1>1, <1>2, NextOperation
  <2>2. Does(polite.chain, "create")
    BY <1>1, <1>2, TailChain
  <2> QED
    BY <1>1, <1>2, <2>1, <2>2, PoliteTail
<1>4. \A id : About(polite'.chain, {"answer"}, id)
  BY <1>3, ShortChain
<1>5. PeersFit'
  <2>1. StateFits(polite')
    BY <1>1, <1>3, <1>4 DEF Coordinated, PeersFit, StateFits
  <2> QED
    BY <1>1, <1>3, <2>1 DEF Coordinated, PeersFit, Numbered, OthersStay
<1>6. BothThere' <=> BothThere
  BY <1>1 DEF BothThere
<1> QED
  BY <1>1, <1>3, <1>5, <1>6, PoliteStays

(* The manual offer is refused. *)
LEMMA PoliteSetRefused ==
  ASSUME NegotiationTypes, Coordinated, Ends("polite", "set"),
         peer' = [peer EXCEPT !["polite"] = [Rest("polite") EXCEPT !.making = FALSE]],
         UNCHANGED <<wire, offers>>
  PROVE  Coordinated'
<1>1. /\ polite.pc = "live" /\ polite.chain # <<>>
      /\ Head(polite.chain).do = "set"
      /\ polite'.chain = Tail(polite.chain)
      /\ ~polite'.making
      /\ polite'.pc = polite.pc /\ polite'.sig = polite.sig
      /\ polite'.need = polite.need
      /\ polite'.pending = polite.pending /\ polite'.agreed = polite.agreed
      /\ polite'.capping = polite.capping /\ polite'.broken = polite.broken
      /\ impolite' = impolite /\ OthersStay
  BY DEF Ends, Rest, Live, NegotiationTypes, Negotiator, Peer, polite, impolite,
         OthersStay
<1>2. /\ PoliteChain(polite.chain) /\ polite.chain \in Seq(Operation)
      /\ About(polite.chain, {"rollback", "remote"}, impolite.pending)
  BY Typed DEF Coordinated, PeersFit, OwnersWait
<1>3. /\ Does(polite.chain, "set")
      /\ \A a : Does(polite.chain, a) => a \in {"set", "rollback"}
      /\ \A a : Does(polite'.chain, a) <=> Does(polite.chain, a) /\ a # "set"
      /\ PoliteChain(polite'.chain) /\ polite'.chain \in Seq(Operation)
      /\ About(polite'.chain, {"rollback", "remote"}, impolite.pending)
  BY <1>1, <1>2, TailChain, PoliteTail
<1>4. \A id : About(polite'.chain, {"answer"}, id)
  BY <1>3, ShortChain
<1>5. PeersFit'
  <2>1. StateFits(polite')
    BY <1>1, <1>3, <1>4 DEF Coordinated, PeersFit, StateFits
  <2> QED
    BY <1>1, <1>3, <2>1 DEF Coordinated, PeersFit, Numbered, OthersStay
<1>6. BothThere' <=> BothThere
  BY <1>1 DEF BothThere
<1> QED
  BY <1>1, <1>3, <1>5, <1>6, PoliteStays

(* Operations that are never in the impolite peer's chain. *)
LEMMA ImpoliteNeverDoes ==
  ASSUME NegotiationTypes, Coordinated
  PROVE  /\ ~Ends("impolite", "create") /\ ~Ends("impolite", "set")
         /\ ~Ends("impolite", "rollback")
<1>1. ImpoliteChain(impolite.chain) /\ impolite.chain \in Seq(Operation)
  BY Typed DEF Coordinated, PeersFit
<1> QED
  BY <1>1, ImpoliteTail DEF Ends, impolite

(* What the impolite peer has not reached: nothing under way but its offer. *)
LEMMA OwnOfferOnly ==
  ASSUME NegotiationTypes, Coordinated
  PROVE  /\ impolite.sig # "local" =>
              /\ ~SentToPolite /\ ~TakenByPolite /\ ~AppliedByPolite
              /\ ~CappedByPolite /\ ~ReturnedToImpolite /\ ~SettledByImpolite
         /\ polite.sig # "local" =>
              /\ ~SentToImpolite /\ ~TakenByImpolite /\ ~AppliedByImpolite
              /\ ~CappedByImpolite /\ ~ReturnedToPolite /\ ~SettledByPolite
         /\ impolite.sig = "local" =>
              ~TakenByImpolite /\ ~AppliedByImpolite /\ ~CappedByImpolite
         /\ impolite.sig # "stable" => impolite.pending \in 1 .. offers
         /\ polite.sig # "stable" => polite.pending \in 1 .. offers
         /\ impolite.pending \in 0 .. offers /\ polite.pending \in 0 .. offers
<1>1. /\ impolite.sig # "local" =>
           /\ ~SentToPolite /\ ~TakenByPolite /\ ~AppliedByPolite
           /\ ~CappedByPolite /\ ~ReturnedToImpolite /\ ~SettledByImpolite
      /\ polite.sig # "local" =>
           /\ ~SentToImpolite /\ ~TakenByImpolite /\ ~AppliedByImpolite
           /\ ~CappedByImpolite /\ ~ReturnedToPolite /\ ~SettledByPolite
  BY DEF Coordinated, OwnersWait, InProgressI, InProgressP
<1>2. StateFits(impolite) /\ StateFits(polite)
        /\ Numbered(impolite) /\ Numbered(polite)
  BY DEF Coordinated, PeersFit
<1>3. impolite.sig = "local" =>
        ~TakenByImpolite /\ ~AppliedByImpolite /\ ~CappedByImpolite
  BY <1>2 DEF StateFits, TakenByImpolite, AppliedByImpolite, CappedByImpolite
<1>4. /\ impolite.sig # "stable" => impolite.pending \in 1 .. offers
      /\ polite.sig # "stable" => polite.pending \in 1 .. offers
      /\ impolite.pending \in 0 .. offers /\ polite.pending \in 0 .. offers
  <2>1. /\ impolite.pending = 0 <=> impolite.sig = "stable"
        /\ polite.pending = 0 <=> polite.sig = "stable"
    BY <1>2 DEF StateFits
  <2>2. impolite.pending <= offers /\ polite.pending <= offers
    BY <1>2 DEF Numbered
  <2>3. impolite.pending \in Nat /\ polite.pending \in Nat /\ offers \in Nat
    BY Typed
  <2> QED
    BY <2>1, <2>2, <2>3
<1> QED
  BY <1>1, <1>3, <1>4

(* An offer is set and sent. *)
LEMMA PoliteMakesOffer ==
  ASSUME NegotiationTypes, Coordinated, MakeOffer("polite"), ~lost',
         Ends("polite", "offer") \/ Ends("polite", "set")
  PROVE  Coordinated'
<1> DEFINE new == offers + 1
<1>1. /\ polite.pc = "live" /\ polite.chain # <<>>
      /\ Head(polite.chain).do \in {"offer", "set"}
      /\ polite'.chain = Tail(polite.chain)
      /\ polite'.sig = "local" /\ polite'.pending = new /\ ~polite'.making
      /\ polite'.pc = polite.pc /\ polite'.need = polite.need
      /\ polite'.agreed = polite.agreed
      /\ polite'.capping = polite.capping /\ polite'.broken = polite.broken
      /\ impolite' = impolite /\ offers' = new
  BY DEF MakeOffer, Ends, Rest, Live, NegotiationTypes, Negotiator, Peer, polite,
         impolite
<1>2. /\ toPolite' = toPolite
      /\ toImpolite' = Append(toImpolite, Signal("offer", new))
  BY DEF MakeOffer, Send, Other, NegotiationTypes, Peer, toPolite, toImpolite,
         Signal
<1>3. /\ PoliteChain(polite.chain) /\ polite.chain \in Seq(Operation)
      /\ About(polite.chain, {"rollback", "remote"}, impolite.pending)
      /\ offers \in Nat
  BY Typed DEF Coordinated, PeersFit, OwnersWait
<1>4. /\ Does(polite.chain, "offer") \/ Does(polite.chain, "set")
      /\ \A a : Does(polite.chain, a) => a \in {"offer", "set", "rollback"}
      /\ Does(polite'.chain, "rollback") <=> Does(polite.chain, "rollback")
      /\ \A a : Does(polite'.chain, a) => a = "rollback"
      /\ PoliteChain(polite'.chain) /\ polite'.chain \in Seq(Operation)
      /\ About(polite'.chain, {"rollback", "remote"}, impolite.pending)
  BY <1>1, <1>3, TailChain, PoliteTail
<1>5. \A id : About(polite'.chain, {"answer"}, id)
  BY <1>4, ShortChain
<1>6. polite.sig = "stable"
  <2>1. ~Does(polite.chain, "reply")
    BY <1>4
  <2> QED
    BY <1>1, <1>4, <2>1, Typed DEF Coordinated, PeersFit, StateFits
<1>7. PeersFit'
  <2>1. StateFits(polite')
    BY <1>1, <1>3, <1>4, <1>5 DEF Coordinated, PeersFit, StateFits
  <2>2. Numbered(polite)' /\ Numbered(impolite)'
    BY <1>1, <1>3, Typed DEF Coordinated, PeersFit, Numbered
  <2> QED
    BY <1>1, <1>4, <2>1, <2>2 DEF Coordinated, PeersFit
<1>8. /\ ~SentToImpolite /\ ~TakenByImpolite /\ ~AppliedByImpolite
      /\ ~CappedByImpolite /\ ~ReturnedToPolite /\ ~SettledByPolite
      /\ impolite.pending \in 0 .. offers
  BY <1>6, OwnOfferOnly
<1>9. /\ Signal("offer", new) \in [type : {"offer", "answer"}, id : Nat]
      /\ Signal("offer", new).type = "offer"
      /\ toImpolite \in Seq([type : {"offer", "answer"}, id : Nat])
  BY <1>3, Typed DEF Signal
<1>10. /\ CarriesAnswer(toImpolite') <=> CarriesAnswer(toImpolite)
       /\ EndsWith(toImpolite', Signal("offer", new))
  <2> DEFINE m == Signal("offer", new)
  <2>1. /\ m \in [type : {"offer", "answer"}, id : Nat] /\ m.type = "offer"
        /\ m = Signal("offer", new) /\ toImpolite' = Append(toImpolite, m)
    BY <1>2, <1>9
  <2> HIDE DEF m
  <2>2. /\ EndsWith(Append(toImpolite, m), m)
        /\ CarriesAnswer(Append(toImpolite, m)) <=>
              CarriesAnswer(toImpolite) \/ m.type = "answer"
    BY <1>9, <2>1, AppendWire
  <2> QED
    BY <2>1, <2>2
<1>11. /\ SentToPolite' <=> SentToPolite
       /\ TakenByPolite' <=> TakenByPolite
       /\ ~AppliedByPolite /\ ~AppliedByPolite'
       /\ CappedByPolite' <=> CappedByPolite
       /\ ReturnedToImpolite' <=> ReturnedToImpolite
       /\ SettledByImpolite' <=> SettledByImpolite
  BY <1>1, <1>2, <1>4, <1>6, <1>10 DEF SentToPolite, TakenByPolite,
     AppliedByPolite, CappedByPolite, ReturnedToImpolite, SettledByImpolite
<1>12. /\ SentToImpolite' <=>
            (impolite.sig = "local" => ReturnedToImpolite \/ SettledByImpolite)
       /\ ~TakenByImpolite' /\ ~AppliedByImpolite'
       /\ ~CappedByImpolite' /\ ~ReturnedToPolite' /\ ~SettledByPolite'
  BY <1>1, <1>2, <1>4, <1>8, <1>10, <1>11
     DEF SentToImpolite, TakenByImpolite, AppliedByImpolite,
         CappedByImpolite, ReturnedToPolite, SettledByPolite
<1>13. OnePlace' /\ OneExchange'
  BY <1>11, <1>12 DEF Coordinated, OnePlace, OneExchange
<1>14. OwnersWait'
  <2>1. About(impolite.chain, {"remote"}, new)
    BY <1>8, Typed, ShortChain DEF TakenByImpolite
  <2> QED
    BY <1>1, <1>4, <1>11, <1>12, <2>1
       DEF Coordinated, OwnersWait, InProgressI, InProgressP
<1>15. WiresFit'
  <2>1. WireToPolite(toPolite, new, impolite.pending)
    BY <1>8, Typed, ShortWire DEF Coordinated, WiresFit, ReturnedToPolite
  <2>2. CASE impolite.sig = "local" /\ ~SettledByImpolite
    <3>1. ASSUME ReturnedToImpolite
          PROVE  Answered(toImpolite', impolite.pending, new, TRUE)
      <4>1. Answered(toImpolite, impolite.pending, polite.pending, FALSE)
        BY <1>6, <2>2, <3>1 DEF Coordinated, WiresFit
      <4> DEFINE m == Signal("offer", new)
      <4>2. m \in [type : {"offer", "answer"}, id : Nat]
        BY <1>9
      <4>3. m = Signal("offer", new) /\ toImpolite' = Append(toImpolite, m)
        BY <1>2
      <4> HIDE DEF m
      <4>4. Answered(Append(toImpolite, m), impolite.pending, new, TRUE)
        BY <1>9, <4>1, <4>2, <4>3, AppendWire
      <4> QED
        BY <4>3, <4>4
    <3> QED
      BY <1>1, <1>2, <1>11, <2>1, <2>2, <3>1 DEF WiresFit
  <2>3. CASE ~(impolite.sig = "local" /\ ~SettledByImpolite)
    <3>1. Fresh(toImpolite, polite.pending, FALSE)
      BY <1>6, <2>3 DEF Coordinated, WiresFit
    <3>2. toImpolite' = <<Signal("offer", new)>>
      BY <1>2, <3>1 DEF Fresh
    <3>3. Fresh(toImpolite', new, TRUE)
      BY <3>2 DEF Fresh
    <3> QED
      BY <1>1, <1>2, <1>11, <2>1, <2>3, <3>3 DEF WiresFit
  <2> QED
    BY <2>2, <2>3
<1>16. CapsAreOld'
  <2>1. \A n \in DOMAIN impolite.capping : impolite.capping[n] # new
    BY <1>3 DEF Coordinated, PeersFit, Numbered
  <2>2. impolite.pending # new
    BY <1>3, <1>8
  <2> QED
    BY <1>1, <1>12, <2>1, <2>2 DEF Coordinated, CapsAreOld
<1>17. ImpoliteProceeds'
  BY <1>1, <1>11 DEF Coordinated, ImpoliteProceeds, InProgressI, BothThere
<1>18. PoliteProceeds'
  BY <1>1, <1>11, <1>12 DEF PoliteProceeds, InProgressP
<1>19. Agree'
  BY <1>1, <1>8, <1>11, <1>12 DEF Coordinated, Agree, BothThere
<1> QED
  BY <1>7, <1>13, <1>14, <1>15, <1>16, <1>17, <1>18, <1>19 DEF Coordinated

(* The same for the impolite peer, whose offer the other one will accept. *)
LEMMA ImpoliteMakesOffer ==
  ASSUME NegotiationTypes, Coordinated, MakeOffer("impolite"), ~lost',
         Ends("impolite", "offer")
  PROVE  Coordinated'
<1> DEFINE new == offers + 1
<1>1. /\ impolite.pc = "live" /\ impolite.chain # <<>>
      /\ Head(impolite.chain).do = "offer"
      /\ impolite'.chain = Tail(impolite.chain)
      /\ impolite'.sig = "local" /\ impolite'.pending = new /\ ~impolite'.making
      /\ impolite'.pc = impolite.pc /\ impolite'.need = impolite.need
      /\ impolite'.agreed = impolite.agreed
      /\ impolite'.capping = impolite.capping /\ impolite'.broken = impolite.broken
      /\ polite' = polite /\ offers' = new
  BY DEF MakeOffer, Ends, Rest, Live, NegotiationTypes, Negotiator, Peer, polite,
         impolite
<1>2. /\ toImpolite' = toImpolite
      /\ toPolite' = Append(toPolite, Signal("offer", new))
  BY DEF MakeOffer, Send, Other, NegotiationTypes, Peer, toPolite, toImpolite,
         Signal
<1>3. /\ ImpoliteChain(impolite.chain) /\ impolite.chain \in Seq(Operation)
      /\ offers \in Nat
  BY Typed DEF Coordinated, PeersFit
<1>4. /\ Does(impolite.chain, "offer")
      /\ \A a : Does(impolite.chain, a) => a = "offer"
      /\ impolite'.chain = <<>> /\ impolite'.chain \in Seq(Operation)
      /\ \A a : ~Does(impolite'.chain, a)
  <2>1. Does(impolite.chain, "offer") /\ impolite'.chain \in Seq(Operation)
    BY <1>1, <1>3, TailChain
  <2>2. impolite'.chain = <<>> /\ \A a : Does(impolite.chain, a) => a = "offer"
    BY <1>1, <1>3, ImpoliteTail
  <2> QED
    BY <2>1, <2>2, ShortChain
<1>5. \A K, id : About(impolite'.chain, K, id)
  BY <1>4, ShortChain
<1>6. impolite.sig = "stable"
  <2>1. ~Does(impolite.chain, "reply")
    BY <1>4
  <2> QED
    BY <1>1, <1>4, <2>1, Typed DEF Coordinated, PeersFit, StateFits
<1>7. PeersFit'
  <2>1. StateFits(impolite')
    BY <1>1, <1>3, <1>4, <1>5 DEF Coordinated, PeersFit, StateFits
  <2>2. Numbered(polite)' /\ Numbered(impolite)'
    BY <1>1, <1>3, Typed DEF Coordinated, PeersFit, Numbered
  <2>3. ImpoliteChain(impolite'.chain)
    BY <1>4 DEF ImpoliteChain
  <2> QED
    BY <1>1, <2>1, <2>2, <2>3 DEF Coordinated, PeersFit
<1>8. /\ ~SentToPolite /\ ~TakenByPolite /\ ~AppliedByPolite
      /\ ~CappedByPolite /\ ~ReturnedToImpolite /\ ~SettledByImpolite
      /\ polite.pending \in 0 .. offers
  BY <1>6, OwnOfferOnly
<1>9. /\ Signal("offer", new) \in [type : {"offer", "answer"}, id : Nat]
      /\ Signal("offer", new).type = "offer"
      /\ toPolite \in Seq([type : {"offer", "answer"}, id : Nat])
  BY <1>3, Typed DEF Signal
<1>10. /\ CarriesAnswer(toPolite') <=> CarriesAnswer(toPolite)
       /\ CarriesOffer(toPolite')
  BY <1>2, <1>9, AppendWire
<1>11. /\ SentToPolite' /\ ~TakenByPolite' /\ ~AppliedByPolite'
       /\ ~CappedByPolite' /\ ~ReturnedToImpolite' /\ ~SettledByImpolite'
  BY <1>1, <1>2, <1>4, <1>8, <1>10 DEF SentToPolite, TakenByPolite,
     AppliedByPolite, CappedByPolite, ReturnedToImpolite, SettledByImpolite
<1>12. /\ ~SentToImpolite' /\ ~TakenByImpolite' /\ ~AppliedByImpolite'
       /\ ~CappedByImpolite'
       /\ ReturnedToPolite' <=> ReturnedToPolite
       /\ SettledByPolite' <=> SettledByPolite
  BY <1>1, <1>2, <1>4, <1>10, <1>11
     DEF SentToImpolite, TakenByImpolite, AppliedByImpolite,
         CappedByImpolite, ReturnedToPolite, SettledByPolite
<1>13. OnePlace' /\ OneExchange'
  BY <1>11, <1>12 DEF Coordinated, OnePlace, OneExchange
<1>14. OwnersWait'
  <2>0. \A a \in {"rollback", "remote"} : ~Does(polite.chain, a)
    BY <1>8 DEF TakenByPolite
  <2>1. About(polite.chain, {"rollback", "remote"}, new)
    BY <2>0 DEF Does, About
  <2> QED
    BY <1>1, <1>5, <1>11, <1>12, <2>1
       DEF Coordinated, OwnersWait, InProgressI, InProgressP
<1>15. WiresFit'
  <2>1. WireToPolite(toPolite', polite.pending, new)
    BY <1>2, <1>8, Typed, ShortWire DEF Coordinated, WiresFit, SentToPolite
  <2> QED
    BY <1>1, <1>11, <2>1 DEF WiresFit
<1>16. CapsAreOld'
  <2>1. \A n \in DOMAIN impolite.capping : impolite.capping[n] # new
    BY <1>3 DEF Coordinated, PeersFit, Numbered
  <2>2. polite.pending # new
    BY <1>3, <1>8
  <2> QED
    BY <1>1, <1>12, <2>1, <2>2 DEF Coordinated, CapsAreOld
<1>17. ImpoliteProceeds' /\ PoliteProceeds'
  BY <1>1, <1>11 DEF ImpoliteProceeds, PoliteProceeds, InProgressI
<1>18. Agree'
  BY <1>1, <1>8, <1>12 DEF Coordinated, Agree, BothThere
<1> QED
  BY <1>7, <1>13, <1>14, <1>15, <1>16, <1>17, <1>18 DEF Coordinated

(* The polite peer gives up its own offer for the one that came. *)
LEMMA PoliteRollbackEnds ==
  ASSUME NegotiationTypes, Coordinated, RollbackEnds("polite"), ~raced'
  PROVE  Coordinated'
<1>0. polite.sig # "stable"
  BY DEF RollbackEnds, polite
<1>1. /\ polite.pc = "live" /\ polite.chain # <<>>
      /\ Head(polite.chain).do = "rollback"
      /\ polite'.chain = Append(Tail(polite.chain),
                                Op("remote", Head(polite.chain).id))
      /\ polite'.sig = "stable" /\ polite'.pending = 0
      /\ polite'.pc = polite.pc /\ polite'.making = polite.making
      /\ polite'.need = polite.need /\ polite'.agreed = polite.agreed
      /\ polite'.capping = polite.capping /\ polite'.broken = polite.broken
      /\ impolite' = impolite /\ offers' = offers
      /\ toPolite' = toPolite /\ toImpolite' = toImpolite
  BY <1>0 DEF RollbackEnds, Ends, Rest, Live, Queue, NegotiationTypes, Negotiator,
     Peer, polite, impolite, toPolite, toImpolite
<1>2. /\ PoliteChain(polite.chain) /\ polite.chain \in Seq(Operation)
      /\ About(polite.chain, {"rollback", "remote"}, impolite.pending)
      /\ impolite.pending \in Nat
      /\ Op("remote", impolite.pending) \in Operation
      /\ Op("remote", impolite.pending) = [do |-> "remote", id |-> impolite.pending]
  BY Typed DEF Coordinated, PeersFit, OwnersWait, Op, Operation
<1>3. /\ Head(polite.chain).id = impolite.pending
      /\ Does(polite.chain, "rollback")
      /\ \A a : Does(polite.chain, a) => a \in {"rollback", "set"}
  BY <1>1, <1>2, TailChain, PoliteTail
<1>4. polite.sig = "local" /\ ~Does(polite.chain, "set")
  <2>1. ~Does(polite.chain, "reply")
    BY <1>3
  <2> QED
    BY <1>0, <1>1, <2>1, Typed DEF Coordinated, PeersFit, StateFits
<1>5. /\ PoliteChain(polite'.chain) /\ polite'.chain \in Seq(Operation)
      /\ \A a : Does(polite'.chain, a) <=> a = "remote"
      /\ About(polite'.chain, {"rollback", "remote"}, impolite.pending)
  <2>1. /\ polite'.chain \in Seq(Operation)
        /\ \A a : Does(polite'.chain, a) <=>
                    Does(Tail(polite.chain), a) \/ a = "remote"
        /\ About(polite'.chain, {"rollback", "remote"}, impolite.pending)
    BY <1>1, <1>2, <1>3, NextOperation
  <2>2. /\ \A a : Does(Tail(polite.chain), a) <=>
                    Does(polite.chain, a) /\ a # "rollback"
        /\ PoliteChain(polite'.chain)
    BY <1>1, <1>2, <1>3, <1>4, PoliteTail
  <2> QED
    BY <1>3, <1>4, <2>1, <2>2
<1>6. \A id : About(polite'.chain, {"answer"}, id)
  BY <1>5, ShortChain
<1>7. TakenByPolite /\ impolite.sig = "local" /\ ~SettledByPolite
  BY <1>3, OwnOfferOnly DEF TakenByPolite, SettledByPolite
<1>8. PeersFit'
  <2>1. StateFits(polite')
    BY <1>1, <1>3, <1>4, <1>5, <1>6 DEF Coordinated, PeersFit, StateFits
  <2> QED
    BY <1>1, <1>5, <2>1, Typed DEF Coordinated, PeersFit, Numbered
<1>9. /\ ~SentToPolite /\ ~AppliedByPolite /\ ~CappedByPolite
      /\ ~ReturnedToImpolite /\ ~SettledByImpolite
      /\ ~TakenByImpolite /\ ~AppliedByImpolite /\ ~CappedByImpolite
      /\ ~ReturnedToPolite
  BY <1>7, OwnOfferOnly DEF Coordinated, OnePlace, OneExchange
<1>10. /\ ~SentToPolite' /\ TakenByPolite' /\ ~AppliedByPolite'
       /\ ~CappedByPolite' /\ ~ReturnedToImpolite' /\ ~SettledByImpolite'
  BY <1>1, <1>5, <1>9 DEF SentToPolite, TakenByPolite,
     AppliedByPolite, CappedByPolite, ReturnedToImpolite, SettledByImpolite
<1>11. /\ ~SentToImpolite' /\ ~TakenByImpolite' /\ ~AppliedByImpolite'
       /\ ~CappedByImpolite' /\ ~ReturnedToPolite' /\ ~SettledByPolite'
  BY <1>1, <1>5, <1>7, <1>9, <1>10
     DEF SentToImpolite, TakenByImpolite, AppliedByImpolite,
         CappedByImpolite, ReturnedToPolite, SettledByPolite
<1>12. OnePlace' /\ OneExchange'
  BY <1>10, <1>11 DEF OnePlace, OneExchange
<1>13. OwnersWait'
  <2>1. About(impolite.chain, {"remote"}, 0)
    BY <1>9, Typed, ShortChain DEF TakenByImpolite
  <2> QED
    BY <1>1, <1>5, <1>7, <1>10, <1>11, <2>1
       DEF OwnersWait, InProgressI, InProgressP
<1>14. WiresFit'
  <2>1. WireToPolite(toPolite, 0, impolite.pending)
    BY <1>9, Typed, ShortWire DEF Coordinated, WiresFit, ReturnedToPolite
  <2> QED
    BY <1>1, <1>7, <1>10, <2>1 DEF WiresFit
<1>15. CapsAreOld'
  BY <1>1, <1>11 DEF Coordinated, CapsAreOld
<1>16. ImpoliteProceeds' /\ PoliteProceeds'
  BY <1>1, <1>10 DEF ImpoliteProceeds, PoliteProceeds, InProgressI
<1>17. Agree'
  BY <1>1, <1>7, <1>9, <1>10 DEF Coordinated, Agree, BothThere
<1> QED
  BY <1>8, <1>12, <1>13, <1>14, <1>15, <1>16, <1>17 DEF Coordinated

(* setRemoteDescription(offer) of the impolite peer. *)
LEMMA ImpoliteRemoteEnds ==
  ASSUME NegotiationTypes, Coordinated, RemoteEnds("impolite")
  PROVE  Coordinated'
<1>1. /\ impolite.pc = "live" /\ impolite.chain # <<>>
      /\ Head(impolite.chain).do = "remote"
      /\ impolite'.pc = "live" /\ impolite'.sig = "remote"
      /\ impolite'.chain = Append(Tail(impolite.chain), Op("reply", 0))
      /\ impolite'.making = impolite.making /\ impolite'.agreed = impolite.agreed
      /\ impolite'.need = impolite.need /\ impolite'.capping = impolite.capping
      /\ impolite'.pending = Head(impolite.chain).id
      /\ impolite'.broken = impolite.broken
      /\ polite' = polite
      /\ toPolite' = toPolite /\ toImpolite' = toImpolite /\ offers' = offers
  BY DEF RemoteEnds, Ends, Live, Rest, Queue, NegotiationTypes, Negotiator, Peer,
         polite, impolite, toPolite, toImpolite
<1>2. /\ ImpoliteChain(impolite.chain) /\ impolite.chain \in Seq(Operation)
      /\ About(impolite.chain, {"remote"}, polite.pending)
      /\ Op("reply", 0) \in Operation /\ Op("reply", 0).do = "reply"
  BY Typed DEF Coordinated, PeersFit, OwnersWait, Op, Operation
<1>3. /\ Does(impolite.chain, "remote")
      /\ Head(impolite.chain).id = polite.pending
      /\ \A a : Does(impolite.chain, a) => a = "remote"
      /\ \A a : Does(impolite'.chain, a) <=> a = "reply"
      /\ ImpoliteChain(impolite'.chain) /\ impolite'.chain \in Seq(Operation)
  <2>1. /\ impolite'.chain \in Seq(Operation)
        /\ \A a : Does(impolite'.chain, a) <=>
                    Does(Tail(impolite.chain), a) \/ a = "reply"
    BY <1>1, <1>2, NextOperation
  <2>2. /\ Does(impolite.chain, "remote")
        /\ Head(impolite.chain).id = polite.pending
    BY <1>1, <1>2, TailChain
  <2>3. /\ \A a : Does(impolite.chain, a) => a = "remote"
        /\ \A a : Does(Tail(impolite.chain), a) <=>
                    Does(impolite.chain, a) /\ a # "remote"
        /\ ImpoliteChain(impolite'.chain)
    BY <1>1, <1>2, ImpoliteTail
  <2> QED
    BY <2>1, <2>2, <2>3
<1>4. \A id : /\ About(impolite'.chain, {"remote"}, id)
              /\ About(impolite'.chain, {"answer"}, id)
  BY <1>3 DEF Does, About
<1>5. TakenByImpolite /\ polite.sig = "local" /\ impolite.sig = "stable"
      /\ polite.pending \in 1 .. offers
  <2>1. TakenByImpolite
    BY <1>3 DEF TakenByImpolite
  <2>2. polite.sig = "local"
    BY <2>1 DEF Coordinated, OwnersWait, InProgressP
  <2>3. impolite.sig = "stable"
    <3>1. ~Does(impolite.chain, "reply")
      BY <1>3
    <3> QED
      BY <1>1, <1>3, <3>1, Typed DEF Coordinated, PeersFit, StateFits
  <2> QED
    BY <2>1, <2>2, <2>3, OwnOfferOnly
<1>6. PeersFit'
  <2>1. StateFits(impolite')
    BY <1>1, <1>3, <1>4, <1>5 DEF Coordinated, PeersFit, StateFits
  <2>2. Numbered(impolite)'
    BY <1>1, <1>3, <1>5 DEF Coordinated, PeersFit, Numbered
  <2> QED
    BY <1>1, <1>3, <2>1, <2>2 DEF Coordinated, PeersFit, Numbered
<1>7. /\ ~SentToPolite /\ ~TakenByPolite /\ ~AppliedByPolite
      /\ ~CappedByPolite /\ ~ReturnedToImpolite /\ ~SettledByImpolite
      /\ ~SentToImpolite /\ ~CappedByImpolite /\ ~ReturnedToPolite
      /\ ~SettledByPolite
  BY <1>5, OwnOfferOnly DEF Coordinated, OnePlace
<1>8. /\ ~SentToPolite' /\ ~TakenByPolite' /\ ~AppliedByPolite'
      /\ ~CappedByPolite' /\ ~ReturnedToImpolite' /\ ~SettledByImpolite'
  BY <1>1, <1>3, <1>7 DEF SentToPolite, TakenByPolite, AppliedByPolite,
     CappedByPolite, ReturnedToImpolite, SettledByImpolite
<1>9. /\ ~SentToImpolite' /\ ~TakenByImpolite' /\ AppliedByImpolite'
      /\ ~CappedByImpolite' /\ ~ReturnedToPolite' /\ ~SettledByPolite'
  BY <1>1, <1>3, <1>5, <1>7
     DEF SentToImpolite, TakenByImpolite, AppliedByImpolite,
         CappedByImpolite, ReturnedToPolite, SettledByPolite
<1>10. OnePlace' /\ OneExchange'
  BY <1>8, <1>9 DEF OnePlace, OneExchange
<1>11. OwnersWait'
  <2>1. About(polite.chain, {"rollback", "remote"}, impolite'.pending)
    BY <1>7 DEF TakenByPolite, Does, About
  <2> QED
    BY <1>1, <1>3, <1>4, <1>5, <1>8, <1>9, <2>1
       DEF OwnersWait, InProgressI, InProgressP
<1>12. WiresFit'
  <2>1. WireToPolite(toPolite, polite.pending, impolite'.pending)
    BY <1>7, Typed, ShortWire DEF Coordinated, WiresFit, SentToPolite
  <2> QED
    BY <1>1, <1>5, <1>8, <2>1 DEF Coordinated, WiresFit
<1>13. CapsAreOld'
  BY <1>1, <1>5 DEF Coordinated, CapsAreOld
<1>14. ImpoliteProceeds' /\ PoliteProceeds'
  BY <1>1, <1>8, <1>9 DEF ImpoliteProceeds, PoliteProceeds, InProgressP
<1>15. Agree'
  BY <1>1, <1>7, <1>8, <1>9 DEF Coordinated, Agree, BothThere
<1> QED
  BY <1>6, <1>10, <1>11, <1>12, <1>13, <1>14, <1>15 DEF Coordinated

(* What the end of setLocalDescription() does to the one that answers. *)
LEMMA ReplyFields ==
  ASSUME NegotiationTypes, NEW p \in Peer, ReplyEnds(p), ~lost'
  PROVE  LET id == peer[p].pending
         IN /\ peer[p].pc = "live" /\ peer[p].chain # <<>>
            /\ Head(peer[p].chain).do = "reply" /\ peer[p].sig = "remote"
            /\ offers' = offers
            /\ \E x : /\ peer' = [peer EXCEPT ![p] = x]
                     /\ x.chain = Tail(peer[p].chain) /\ x.sig = "stable"
                     /\ x.pending = 0 /\ x.agreed = id
                     /\ x.pc = peer[p].pc /\ x.making = peer[p].making
                     /\ x.broken = peer[p].broken
                     /\ \/ /\ x.capping = peer[p].capping
                           /\ wire' = [wire EXCEPT ![Other(p)] =
                                         Append(@, Signal("answer", id))]
                        \/ /\ x.capping = Append(peer[p].capping, id)
                           /\ wire' = wire
<1> DEFINE id == peer[p].pending
           done == Complete(Rest(p), id)
<1>1. /\ Ends(p, "reply") /\ peer[p].sig = "remote" /\ offers' = offers
      /\ IF peer[p].muted
         THEN peer' = [peer EXCEPT ![p] = done] /\ Send(p, "answer", id)
         ELSE /\ peer' = [peer EXCEPT ![p] =
                            [done EXCEPT !.capping = Append(@, id)]]
              /\ UNCHANGED <<wire, lost>>
  BY DEF ReplyEnds
<1>2. peer[p] \in Negotiator
  BY DEF NegotiationTypes
<1>3. /\ done.chain = Tail(peer[p].chain) /\ done.sig = "stable"
      /\ done.pending = 0 /\ done.agreed = id
      /\ done.pc = peer[p].pc /\ done.making = peer[p].making
      /\ done.broken = peer[p].broken /\ done.capping = peer[p].capping
      /\ LET x == [done EXCEPT !.capping = Append(@, id)]
         IN /\ x.chain = done.chain /\ x.sig = done.sig
            /\ x.pending = done.pending /\ x.agreed = done.agreed
            /\ x.pc = done.pc /\ x.making = done.making
            /\ x.broken = done.broken
            /\ x.capping = Append(done.capping, id)
  BY <1>2 DEF Complete, Rest, Negotiator
<1> HIDE DEF done
<1>4. CASE peer[p].muted
  <2>1. wire' = [wire EXCEPT ![Other(p)] = Append(@, Signal("answer", id))]
    BY <1>1, <1>4 DEF Send, Signal
  <2>2. peer' = [peer EXCEPT ![p] = done]
    BY <1>1, <1>4
  <2> QED
    BY <1>1, <1>3, <2>1, <2>2 DEF Ends, Live
<1>5. CASE ~peer[p].muted
  <2>1. wire' = wire /\ peer' = [peer EXCEPT ![p] =
                                  [done EXCEPT !.capping = Append(@, id)]]
    BY <1>1, <1>5
  <2> QED
    BY <1>1, <1>3, <2>1 DEF Ends, Live
<1> QED
  BY <1>4, <1>5

(* The polite peer has answered: the answer is sent, or waits for the cap. *)
LEMMA PoliteReplyEnds ==
  ASSUME NegotiationTypes, Coordinated, ReplyEnds("polite"), ~lost'
  PROVE  Coordinated'
<1>1. /\ polite.pc = "live" /\ polite.chain # <<>> /\ polite.sig = "remote"
      /\ Head(polite.chain).do = "reply"
      /\ polite'.chain = Tail(polite.chain)
      /\ polite'.sig = "stable" /\ polite'.pending = 0
      /\ polite'.agreed = polite.pending
      /\ polite'.pc = polite.pc /\ polite'.making = polite.making
      /\ polite'.broken = polite.broken
      /\ impolite' = impolite /\ offers' = offers /\ toPolite' = toPolite
      /\ \/ /\ polite'.capping = polite.capping
            /\ toImpolite' = Append(toImpolite, Signal("answer", polite.pending))
         \/ /\ polite'.capping = Append(polite.capping, polite.pending)
            /\ toImpolite' = toImpolite
  <2>1. "polite" \in Peer /\ Other("polite") = "impolite" /\ "impolite" \in Peer
    BY DEF Peer, Other
  <2>2. PICK x :
          /\ peer' = [peer EXCEPT !["polite"] = x]
          /\ x.chain = Tail(polite.chain) /\ x.sig = "stable"
          /\ x.pending = 0 /\ x.agreed = polite.pending
          /\ x.pc = polite.pc /\ x.making = polite.making /\ x.broken = polite.broken
          /\ \/ /\ x.capping = polite.capping
                /\ wire' = [wire EXCEPT !["impolite"] =
                              Append(@, Signal("answer", polite.pending))]
             \/ /\ x.capping = Append(polite.capping, polite.pending)
                /\ wire' = wire
    BY <2>1, ReplyFields DEF polite
  <2>3. /\ polite.pc = "live" /\ polite.chain # <<>> /\ polite.sig = "remote"
        /\ Head(polite.chain).do = "reply" /\ offers' = offers
    BY <2>1, ReplyFields DEF polite
  <2>4. polite' = x /\ impolite' = impolite
    BY <2>1, <2>2 DEF NegotiationTypes, polite, impolite
  <2>5. /\ toPolite' = toPolite
        /\ \/ /\ x.capping = polite.capping
              /\ toImpolite' = Append(toImpolite, Signal("answer", polite.pending))
           \/ /\ x.capping = Append(polite.capping, polite.pending)
              /\ toImpolite' = toImpolite
    BY <2>1, <2>2 DEF NegotiationTypes, toPolite, toImpolite
  <2> QED
    BY <2>2, <2>3, <2>4, <2>5
<1>3. /\ PoliteChain(polite.chain) /\ polite.chain \in Seq(Operation)
      /\ About(polite.chain, {"rollback", "remote"}, impolite.pending)
  BY Typed DEF Coordinated, PeersFit, OwnersWait
<1>4. /\ \A a : Does(polite.chain, a) => a \in {"reply", "set"}
      /\ \A a : Does(polite'.chain, a) <=> Does(polite.chain, a) /\ a # "reply"
      /\ PoliteChain(polite'.chain) /\ polite'.chain \in Seq(Operation)
  BY <1>1, <1>3, TailChain, PoliteTail
<1>5. \A id : /\ About(polite'.chain, {"rollback", "remote"}, id)
              /\ About(polite'.chain, {"answer"}, id)
  BY <1>4 DEF Does, About
<1>6. /\ AppliedByPolite /\ impolite.sig = "local"
      /\ polite.pending = impolite.pending /\ polite.pending \in 1 .. offers
      /\ ~SentToPolite /\ ~TakenByPolite /\ ~CappedByPolite
      /\ ~ReturnedToImpolite /\ ~SettledByImpolite
      /\ ~TakenByImpolite /\ ~AppliedByImpolite
      /\ ~CappedByImpolite /\ ~ReturnedToPolite /\ ~SettledByPolite
  <2>1. AppliedByPolite
    BY <1>1 DEF AppliedByPolite
  <2>2. impolite.sig = "local" /\ polite.pending = impolite.pending
    BY <2>1 DEF Coordinated, OwnersWait, InProgressI
  <2>3. /\ ~SentToPolite /\ ~TakenByPolite /\ ~CappedByPolite
        /\ ~ReturnedToImpolite /\ ~SettledByImpolite
    BY <2>1 DEF Coordinated, OnePlace
  <2> QED
    BY <1>1, <2>1, <2>2, <2>3, OwnOfferOnly
<1>7. polite.capping = <<>>
  BY <1>6 DEF CappedByPolite
<1>8. PeersFit'
  <2>1. StateFits(polite')
    BY <1>1, <1>4, <1>5, <1>6 DEF Coordinated, PeersFit, StateFits
  <2>2. polite'.capping = <<>> \/ polite'.capping = <<polite.pending>>
    BY <1>1, <1>7
  <2>3. Numbered(polite)'
    BY <1>1, <1>6, <2>2, Typed DEF Numbered
  <2> QED
    BY <1>1, <1>4, <2>1, <2>3 DEF Coordinated, PeersFit, Numbered
<1>9. /\ Signal("answer", polite.pending) \in [type : {"offer", "answer"}, id : Nat]
      /\ Signal("answer", polite.pending).type = "answer"
      /\ Signal("answer", polite.pending) # Signal("offer", 0)
      /\ toImpolite \in Seq([type : {"offer", "answer"}, id : Nat])
  BY Typed DEF Signal
<1>10. \/ /\ polite'.capping = <<>> /\ CarriesAnswer(toImpolite')
          /\ ~EndsWith(toImpolite', Signal("offer", 0))
          /\ Answered(toImpolite', polite.pending, 0, FALSE)
       \/ /\ polite'.capping = <<polite.pending>> /\ ~CarriesAnswer(toImpolite')
  <2>1. ~CarriesAnswer(toImpolite)
    BY <1>6 DEF ReturnedToImpolite
  <2>2. CASE toImpolite' = toImpolite /\ polite'.capping = Append(<<>>, polite.pending)
    BY <2>1, <2>2
  <2>3. CASE /\ polite'.capping = <<>>
             /\ toImpolite' = Append(toImpolite, Signal("answer", polite.pending))
    <3> DEFINE m == Signal("answer", polite.pending)
               w == Append(toImpolite, m)
    <3>1. m = Signal("answer", polite.pending) /\ m # Signal("offer", 0)
          /\ m.type = "answer" /\ m \in [type : {"offer", "answer"}, id : Nat]
      BY <1>9
    <3> HIDE DEF m
    <3>2. /\ CarriesAnswer(w) /\ Answered(w, polite.pending, 0, FALSE)
          /\ \A s : EndsWith(w, s) => s = m
      BY <1>9, <2>1, <3>1, AppendWire
    <3>3. toImpolite' = w
      BY <2>3, <3>1
    <3> QED
      BY <2>3, <3>1, <3>2, <3>3
  <2> QED
    BY <1>1, <1>7, <2>2, <2>3
<1>11. /\ ~SentToPolite' /\ ~TakenByPolite' /\ ~AppliedByPolite'
       /\ ~SettledByImpolite'
       /\ CappedByPolite' <=> ~ReturnedToImpolite'
       /\ CappedByPolite' => polite'.capping = <<polite.pending>>
  <2>1. /\ ~SentToPolite' /\ ~TakenByPolite' /\ ~AppliedByPolite'
        /\ ~SettledByImpolite'
    BY <1>1, <1>4, <1>6
       DEF SentToPolite, TakenByPolite, AppliedByPolite, SettledByImpolite
  <2>2. <<polite.pending>> # <<>>
    OBVIOUS
  <2>3. CappedByPolite' <=> polite'.capping # <<>>
    BY DEF CappedByPolite
  <2>4. ReturnedToImpolite' <=> CarriesAnswer(toImpolite')
    BY DEF ReturnedToImpolite
  <2> QED
    BY <1>10, <2>1, <2>2, <2>3, <2>4
<1>12. /\ ~SentToImpolite' /\ ~TakenByImpolite' /\ ~AppliedByImpolite'
       /\ ~CappedByImpolite' /\ ~ReturnedToPolite' /\ ~SettledByPolite'
  BY <1>1, <1>4, <1>6, <1>10, <1>11
     DEF SentToImpolite, TakenByImpolite, AppliedByImpolite, ReturnedToImpolite,
         CappedByImpolite, ReturnedToPolite, SettledByPolite
<1>13. OnePlace' /\ OneExchange'
  BY <1>11, <1>12 DEF OnePlace, OneExchange
<1>14. OwnersWait'
  <2>1. About(impolite.chain, {"remote"}, 0)
    BY <1>6 DEF TakenByImpolite, Does, About
  <2> QED
    BY <1>1, <1>5, <1>6, <1>11, <1>12, <2>1
       DEF OwnersWait, InProgressI, InProgressP
<1>15. WiresFit'
  <2>1. WireToPolite(toPolite, 0, impolite.pending)
    BY <1>6, Typed, ShortWire DEF Coordinated, WiresFit, ReturnedToPolite
  <2>2. ReturnedToImpolite' => Answered(toImpolite', impolite.pending, 0, FALSE)
    BY <1>6, <1>10 DEF ReturnedToImpolite
  <2> QED
    BY <1>1, <1>6, <1>11, <2>1, <2>2 DEF WiresFit
<1>16. CapsAreOld'
  BY <1>1, <1>12 DEF Coordinated, CapsAreOld
<1>17. ImpoliteProceeds' /\ PoliteProceeds' /\ Agree'
  BY <1>1, <1>11 DEF ImpoliteProceeds, PoliteProceeds, Agree, InProgressI
<1> QED
  BY <1>8, <1>13, <1>14, <1>15, <1>16, <1>17 DEF Coordinated

(* The same for the impolite peer, which may have answers waiting. *)
LEMMA ImpoliteReplyEnds ==
  ASSUME NegotiationTypes, Coordinated, ReplyEnds("impolite"), ~lost'
  PROVE  Coordinated'
<1>1. /\ impolite.pc = "live" /\ impolite.chain # <<>> /\ impolite.sig = "remote"
      /\ Head(impolite.chain).do = "reply"
      /\ impolite'.chain = Tail(impolite.chain)
      /\ impolite'.sig = "stable" /\ impolite'.pending = 0
      /\ impolite'.agreed = impolite.pending
      /\ impolite'.pc = impolite.pc /\ impolite'.making = impolite.making
      /\ impolite'.broken = impolite.broken
      /\ polite' = polite /\ offers' = offers /\ toImpolite' = toImpolite
      /\ \/ /\ impolite'.capping = impolite.capping
            /\ toPolite' = Append(toPolite, Signal("answer", impolite.pending))
         \/ /\ impolite'.capping = Append(impolite.capping, impolite.pending)
            /\ toPolite' = toPolite
  <2>1. "impolite" \in Peer /\ Other("impolite") = "polite" /\ "polite" \in Peer
    BY DEF Peer, Other
  <2>2. PICK x :
          /\ peer' = [peer EXCEPT !["impolite"] = x]
          /\ x.chain = Tail(impolite.chain) /\ x.sig = "stable"
          /\ x.pending = 0 /\ x.agreed = impolite.pending
          /\ x.pc = impolite.pc /\ x.making = impolite.making
          /\ x.broken = impolite.broken
          /\ \/ /\ x.capping = impolite.capping
                /\ wire' = [wire EXCEPT !["polite"] =
                              Append(@, Signal("answer", impolite.pending))]
             \/ /\ x.capping = Append(impolite.capping, impolite.pending)
                /\ wire' = wire
    BY <2>1, ReplyFields DEF impolite
  <2>3. /\ impolite.pc = "live" /\ impolite.chain # <<>> /\ impolite.sig = "remote"
        /\ Head(impolite.chain).do = "reply" /\ offers' = offers
    BY <2>1, ReplyFields DEF impolite
  <2>4. impolite' = x /\ polite' = polite
    BY <2>1, <2>2 DEF NegotiationTypes, polite, impolite
  <2>5. /\ toImpolite' = toImpolite
        /\ \/ /\ x.capping = impolite.capping
              /\ toPolite' = Append(toPolite, Signal("answer", impolite.pending))
           \/ /\ x.capping = Append(impolite.capping, impolite.pending)
              /\ toPolite' = toPolite
    BY <2>1, <2>2 DEF NegotiationTypes, toPolite, toImpolite
  <2> QED
    BY <2>2, <2>3, <2>4, <2>5
<1>3. /\ ImpoliteChain(impolite.chain) /\ impolite.chain \in Seq(Operation)
  BY Typed DEF Coordinated, PeersFit
<1>4. /\ \A a : Does(impolite.chain, a) => a = "reply"
      /\ impolite'.chain = <<>>
      /\ \A a : ~Does(impolite'.chain, a)
  <2>1. /\ \A a : Does(impolite.chain, a) => a = "reply"
        /\ impolite'.chain = <<>>
    BY <1>1, <1>3, ImpoliteTail
  <2> QED
    BY <2>1 DEF Does
<1>5. \A K, id : About(impolite'.chain, K, id)
  BY <1>4 DEF About
<1>6. /\ AppliedByImpolite /\ polite.sig = "local"
      /\ polite.pending = impolite.pending /\ polite.pending \in 1 .. offers
      /\ ~SentToImpolite /\ ~TakenByImpolite /\ ~CappedByImpolite
      /\ ~ReturnedToPolite /\ ~SettledByPolite
      /\ ~SentToPolite /\ ~TakenByPolite /\ ~AppliedByPolite
      /\ ~CappedByPolite /\ ~ReturnedToImpolite /\ ~SettledByImpolite
  <2>1. AppliedByImpolite
    BY <1>1 DEF AppliedByImpolite
  <2>2. polite.sig = "local" /\ polite.pending = impolite.pending
    BY <2>1 DEF Coordinated, OwnersWait, InProgressP
  <2>3. /\ ~SentToImpolite /\ ~TakenByImpolite /\ ~CappedByImpolite
        /\ ~ReturnedToPolite /\ ~SettledByPolite
    BY <2>1 DEF Coordinated, OnePlace
  <2> QED
    BY <1>1, <2>1, <2>2, <2>3, OwnOfferOnly
<1> DEFINE old == impolite.capping
           p == polite.pending
<1>7. /\ old \in Seq(Nat)
      /\ \A n \in DOMAIN old : old[n] # p /\ old[n] \in 1 .. offers
  BY <1>6, Typed DEF Coordinated, CapsAreOld, PeersFit, Numbered
<1>8. \/ /\ impolite'.capping = old /\ CarriesAnswer(toPolite')
         /\ ~CarriesOffer(toPolite') /\ WireToPolite(toPolite', p, 0)
      \/ /\ impolite'.capping = Append(old, p) /\ ~CarriesAnswer(toPolite')
         /\ ~CarriesOffer(toPolite') /\ WireToPolite(toPolite', p, 0)
  <2>1. /\ ~CarriesAnswer(toPolite) /\ ~CarriesOffer(toPolite)
        /\ WireToPolite(toPolite, p, impolite.pending)
    BY <1>6 DEF ReturnedToPolite, SentToPolite, Coordinated, WiresFit
  <2>2. toPolite = <<>>
    BY <2>1, Typed, ShortWire
  <2>3. WireToPolite(<<>>, p, 0) /\ WireToPolite(<<Signal("answer", p)>>, p, 0)
    BY DEF WireToPolite
  <2>4. CarriesAnswer(<<Signal("answer", p)>>) /\ ~CarriesOffer(<<Signal("answer", p)>>)
    BY DEF CarriesAnswer, CarriesOffer, Signal
  <2>5. Append(<<>>, Signal("answer", p)) = <<Signal("answer", p)>>
    OBVIOUS
  <2> QED
    BY <1>1, <1>6, <2>1, <2>2, <2>3, <2>4, <2>5
<1>9. /\ DOMAIN Append(old, p) = 1 .. Len(old) + 1 /\ Len(Append(old, p)) = Len(old) + 1
      /\ \A n \in 1 .. Len(old) : Append(old, p)[n] = old[n] /\ n \in DOMAIN old
      /\ Append(old, p)[Len(old) + 1] = p /\ Append(old, p) # <<>>
      /\ Len(old) \in Nat
  <2>1. p \in Nat
    BY Typed
  <2> HIDE DEF old, p
  <2> QED
    BY <1>7, <2>1, AppendProperties
<1>10. PeersFit'
  <2>1. StateFits(impolite')
    BY <1>1, <1>4, <1>5, <1>6 DEF Coordinated, PeersFit, StateFits
  <2>2. \A n \in DOMAIN impolite'.capping : impolite'.capping[n] \in 1 .. offers
    <3>1. \A n \in DOMAIN Append(old, p) : Append(old, p)[n] \in 1 .. offers
      <4> TAKE n \in DOMAIN Append(old, p)
      <4>1. n \in 1 .. Len(old) \/ n = Len(old) + 1
        BY <1>9
      <4> QED
        BY <1>6, <1>7, <1>9, <4>1
    <3> QED
      BY <1>7, <1>8, <3>1
  <2>3. Numbered(impolite)'
    BY <1>1, <1>6, <2>2, Typed DEF Numbered
  <2>4. ImpoliteChain(impolite'.chain)
    BY <1>4 DEF ImpoliteChain
  <2> QED
    BY <1>1, <2>1, <2>3, <2>4 DEF Coordinated, PeersFit, Numbered
<1>11. /\ ~SentToPolite' /\ ~TakenByPolite' /\ ~AppliedByPolite'
       /\ ~CappedByPolite' /\ ~ReturnedToImpolite' /\ ~SettledByImpolite'
  BY <1>1, <1>4, <1>6, <1>8 DEF SentToPolite, TakenByPolite, AppliedByPolite,
     CappedByPolite, ReturnedToImpolite, SettledByImpolite
<1>12. CappedByImpolite' <=> impolite'.capping = Append(old, p)
  <2>1. impolite'.sig # "local" /\ impolite'.agreed = p
    BY <1>1, <1>6
  <2>2. impolite'.capping = old => ~CappedByImpolite'
    BY <1>7, <2>1 DEF CappedByImpolite
  <2>3. Len(old) + 1 \in DOMAIN Append(old, p)
    BY <1>9
  <2>4. impolite'.capping = Append(old, p) => CappedByImpolite'
    BY <1>9, <2>1, <2>3 DEF CappedByImpolite
  <2> QED
    BY <1>8, <2>2, <2>4
<1>13. /\ ~SentToImpolite' /\ ~TakenByImpolite' /\ ~AppliedByImpolite'
       /\ ~SettledByPolite'
       /\ CappedByImpolite' <=> ~ReturnedToPolite'
  <2>1. old # Append(old, p)
    BY <1>9
  <2>2. CappedByImpolite' <=> ~ReturnedToPolite'
    BY <1>8, <1>12, <2>1 DEF ReturnedToPolite
  <2> QED
    BY <1>1, <1>4, <1>6, <2>2
       DEF SentToImpolite, TakenByImpolite, AppliedByImpolite, SettledByPolite
<1>14. OnePlace' /\ OneExchange'
  BY <1>11, <1>13 DEF OnePlace, OneExchange
<1>15. OwnersWait'
  <2>1. About(polite.chain, {"rollback", "remote"}, 0)
    BY <1>6 DEF TakenByPolite, Does, About
  <2> QED
    BY <1>1, <1>5, <1>6, <1>11, <1>13, <2>1
       DEF OwnersWait, InProgressI, InProgressP
<1>16. WiresFit'
  BY <1>1, <1>8 DEF Coordinated, WiresFit
<1>17. CapsAreOld'
  <2>1. CASE impolite'.capping = old
    BY <1>1, <1>6, <1>7, <2>1 DEF CapsAreOld
  <2>2. CASE impolite'.capping = Append(old, p)
    <3>1. \A n \in DOMAIN impolite'.capping :
            n < Len(impolite'.capping) => impolite'.capping[n] # impolite'.agreed
      <4> SUFFICES ASSUME NEW n \in DOMAIN Append(old, p), n < Len(Append(old, p))
                   PROVE  Append(old, p)[n] # p
        BY <1>1, <1>6, <2>2
      <4>1. n \in 1 .. Len(old)
        BY <1>9
      <4> QED
        BY <1>7, <1>9, <4>1
    <3> QED
      BY <1>1, <1>12, <1>13, <2>2, <3>1 DEF CapsAreOld
  <2> QED
    BY <1>8, <2>1, <2>2
<1>18. ImpoliteProceeds' /\ PoliteProceeds'
  BY <1>1, <1>11, <1>13 DEF ImpoliteProceeds, PoliteProceeds, InProgressP
<1>19. Agree'
  <2>1. impolite'.capping # <<>> \/ ReturnedToPolite'
    BY <1>9, <1>12, <1>13
  <2> QED
    BY <2>1 DEF Agree
<1> QED
  BY <1>10, <1>14, <1>15, <1>16, <1>17, <1>18, <1>19 DEF Coordinated

(* The answer to the offer of the polite peer is applied. *)
LEMMA PoliteAnswerEnds ==
  ASSUME NegotiationTypes, Coordinated, AnswerEnds("polite")
  PROVE  Coordinated'
<1>1. /\ polite.pc = "live" /\ polite.chain # <<>>
      /\ Head(polite.chain).do = "answer"
  BY DEF AnswerEnds, Ends, Live, polite
<1>2. /\ PoliteChain(polite.chain) /\ polite.chain \in Seq(Operation)
      /\ About(polite.chain, {"rollback", "remote"}, impolite.pending)
      /\ About(polite.chain, {"answer"}, polite.pending)
  BY Typed DEF Coordinated, PeersFit, StateFits, OwnersWait
<1>3. /\ Does(polite.chain, "answer") /\ Head(polite.chain).id = polite.pending
      /\ About(Tail(polite.chain), {"rollback", "remote"}, impolite.pending)
      /\ Tail(polite.chain) \in Seq(Operation)
  BY <1>1, <1>2, TailChain
<1>4. /\ SettledByPolite /\ polite.sig = "local"
      /\ polite.pending \in 1 .. offers /\ impolite.agreed = polite.pending
      /\ ~AppliedByPolite /\ ~CappedByPolite
      /\ ~ReturnedToImpolite /\ ~SettledByImpolite
      /\ ~SentToImpolite /\ ~TakenByImpolite /\ ~AppliedByImpolite
      /\ ~CappedByImpolite /\ ~ReturnedToPolite
  <2>1. SettledByPolite
    BY <1>3 DEF SettledByPolite
  <2>2. polite.sig = "local" /\ impolite.agreed = polite.pending
    BY <2>1 DEF Coordinated, OwnersWait, InProgressP
  <2> QED
    BY <2>1, <2>2, OwnOfferOnly DEF Coordinated, OnePlace, OneExchange
<1>5. /\ polite'.chain = Tail(polite.chain)
      /\ polite'.sig = "stable" /\ polite'.pending = 0
      /\ polite'.agreed = polite.pending
      /\ polite'.pc = polite.pc /\ polite'.making = polite.making
      /\ polite'.capping = polite.capping /\ polite'.broken = polite.broken
      /\ impolite' = impolite /\ offers' = offers
      /\ toPolite' = toPolite /\ toImpolite' = toImpolite
  <2>1. peer' = [peer EXCEPT !["polite"] = Complete(Rest("polite"), polite.pending)]
    BY <1>3, <1>4 DEF AnswerEnds, polite
  <2>2. UNCHANGED <<wire, offers>>
    BY DEF AnswerEnds
  <2> QED
    BY <2>1, <2>2 DEF Complete, Rest, NegotiationTypes, Negotiator, Peer, polite,
       impolite, toPolite, toImpolite
<1>6. /\ \A a : Does(polite.chain, a) => a \in {"answer", "rollback"}
      /\ \A a : Does(polite'.chain, a) <=> Does(polite.chain, a) /\ a # "answer"
      /\ PoliteChain(polite'.chain)
  BY <1>1, <1>2, <1>5, PoliteTail
<1>7. \A id : About(polite'.chain, {"answer"}, id)
  BY <1>6 DEF Does, About
<1>8. PeersFit'
  <2>1. StateFits(polite')
    BY <1>1, <1>4, <1>5, <1>6, <1>7 DEF Coordinated, PeersFit, StateFits
  <2>2. Numbered(polite)'
    BY <1>4, <1>5, Typed DEF Coordinated, PeersFit, Numbered
  <2> QED
    BY <1>5, <1>6, <2>1, <2>2 DEF Coordinated, PeersFit, Numbered
<1>9. /\ SentToPolite' <=> SentToPolite
      /\ TakenByPolite' <=> TakenByPolite
      /\ ~AppliedByPolite' /\ ~CappedByPolite'
      /\ ~ReturnedToImpolite' /\ ~SettledByImpolite'
  BY <1>4, <1>5, <1>6 DEF SentToPolite, TakenByPolite, AppliedByPolite,
     CappedByPolite, ReturnedToImpolite, SettledByImpolite
<1>10. impolite.sig # "local" => toImpolite = <<>>
  <2>1. impolite.sig # "local" => Fresh(toImpolite, polite.pending, TRUE)
    BY <1>4 DEF Coordinated, WiresFit
  <2>2. impolite.sig # "local" => ~EndsWith(toImpolite, Signal("offer", polite.pending))
    BY <1>4 DEF SentToImpolite
  <2> QED
    BY <2>1, <2>2, Typed, ShortWire
<1>11. /\ ~SentToImpolite' /\ ~TakenByImpolite' /\ ~AppliedByImpolite'
       /\ ~CappedByImpolite' /\ ~ReturnedToPolite' /\ ~SettledByPolite'
  <2>1. ~SentToImpolite'
    <3>1. impolite.sig # "local" => ~EndsWith(toImpolite, Signal("offer", 0))
      BY <1>10, Typed, ShortWire
    <3> QED
      BY <1>5, <1>9, <3>1 DEF SentToImpolite
  <2> QED
    BY <1>4, <1>5, <1>6, <2>1 DEF TakenByImpolite, AppliedByImpolite,
       CappedByImpolite, ReturnedToPolite, SettledByPolite
<1>12. OnePlace' /\ OneExchange'
  BY <1>4, <1>9, <1>11 DEF Coordinated, OnePlace, OneExchange
<1>13. OwnersWait'
  <2>1. About(impolite.chain, {"remote"}, 0)
    BY <1>4 DEF TakenByImpolite, Does, About
  <2> QED
    BY <1>3, <1>5, <1>9, <1>11, <2>1
       DEF Coordinated, OwnersWait, InProgressI, InProgressP
<1>14. WiresFit'
  <2>1. WireToPolite(toPolite, 0, impolite.pending)
    BY <1>4, Typed, ShortWire DEF Coordinated, WiresFit, ReturnedToPolite
  <2>2. impolite.sig # "local" => Fresh(toImpolite, 0, FALSE)
    BY <1>10 DEF Fresh
  <2> QED
    BY <1>5, <1>9, <2>1, <2>2 DEF WiresFit
<1>15. CapsAreOld'
  BY <1>5, <1>11 DEF Coordinated, CapsAreOld
<1>16. ImpoliteProceeds' /\ PoliteProceeds'
  BY <1>4, <1>5, <1>9
     DEF Coordinated, ImpoliteProceeds, PoliteProceeds, InProgressI, BothThere
<1>17. Agree'
  BY <1>4, <1>5 DEF Agree
<1> QED
  BY <1>8, <1>12, <1>13, <1>14, <1>15, <1>16, <1>17 DEF Coordinated

(* The answer to the offer of the impolite peer is applied. *)
LEMMA ImpoliteAnswerEnds ==
  ASSUME NegotiationTypes, Coordinated, AnswerEnds("impolite")
  PROVE  Coordinated'
<1>1. /\ impolite.pc = "live" /\ impolite.chain # <<>>
      /\ Head(impolite.chain).do = "answer"
  BY DEF AnswerEnds, Ends, Live, impolite
<1>2. /\ ImpoliteChain(impolite.chain) /\ impolite.chain \in Seq(Operation)
      /\ About(impolite.chain, {"answer"}, impolite.pending)
  BY Typed DEF Coordinated, PeersFit, StateFits
<1>3. Does(impolite.chain, "answer") /\ Head(impolite.chain).id = impolite.pending
  BY <1>1, <1>2, TailChain
<1>4. /\ SettledByImpolite /\ impolite.sig = "local"
      /\ impolite.pending \in 1 .. offers /\ polite.agreed = impolite.pending
      /\ ~SentToPolite /\ ~TakenByPolite /\ ~AppliedByPolite /\ ~CappedByPolite
      /\ ~ReturnedToImpolite
      /\ ~TakenByImpolite /\ ~AppliedByImpolite /\ ~CappedByImpolite
      /\ ~ReturnedToPolite /\ ~SettledByPolite
  <2>1. SettledByImpolite
    BY <1>3 DEF SettledByImpolite
  <2>2. impolite.sig = "local" /\ polite.agreed = impolite.pending
    BY <2>1 DEF Coordinated, OwnersWait, InProgressI
  <2> QED
    BY <2>1, <2>2, OwnOfferOnly DEF Coordinated, OnePlace, OneExchange
<1>5. /\ impolite'.chain = Tail(impolite.chain)
      /\ impolite'.sig = "stable" /\ impolite'.pending = 0
      /\ impolite'.agreed = impolite.pending
      /\ impolite'.pc = impolite.pc /\ impolite'.making = impolite.making
      /\ impolite'.capping = impolite.capping /\ impolite'.broken = impolite.broken
      /\ polite' = polite /\ offers' = offers
      /\ toPolite' = toPolite /\ toImpolite' = toImpolite
  <2>1. peer' = [peer EXCEPT !["impolite"] =
                   Complete(Rest("impolite"), impolite.pending)]
    BY <1>3, <1>4 DEF AnswerEnds, impolite
  <2>2. UNCHANGED <<wire, offers>>
    BY DEF AnswerEnds
  <2> QED
    BY <2>1, <2>2 DEF Complete, Rest, NegotiationTypes, Negotiator, Peer, polite,
       impolite, toPolite, toImpolite
<1>6. /\ \A a : Does(impolite.chain, a) => a = "answer"
      /\ impolite'.chain = <<>>
      /\ \A a : ~Does(impolite'.chain, a)
      /\ \A K, id : About(impolite'.chain, K, id)
  <2>1. /\ \A a : Does(impolite.chain, a) => a = "answer"
        /\ impolite'.chain = <<>>
    BY <1>1, <1>2, <1>5, ImpoliteTail
  <2> QED
    BY <2>1 DEF Does, About
<1>7. PeersFit'
  <2>1. StateFits(impolite')
    BY <1>1, <1>4, <1>5, <1>6 DEF Coordinated, PeersFit, StateFits
  <2>2. Numbered(impolite)'
    BY <1>4, <1>5, Typed DEF Coordinated, PeersFit, Numbered
  <2>3. ImpoliteChain(impolite'.chain)
    BY <1>6 DEF ImpoliteChain
  <2> QED
    BY <1>5, <2>1, <2>2, <2>3 DEF Coordinated, PeersFit, Numbered
<1>8. /\ ~SentToPolite' /\ ~TakenByPolite' /\ ~AppliedByPolite'
      /\ ~CappedByPolite' /\ ~ReturnedToImpolite' /\ ~SettledByImpolite'
  BY <1>4, <1>5, <1>6 DEF SentToPolite, TakenByPolite, AppliedByPolite,
     CappedByPolite, ReturnedToImpolite, SettledByImpolite
<1>9. \A n \in DOMAIN impolite.capping : impolite.capping[n] # impolite.pending
  BY <1>4 DEF Coordinated, CapsAreOld
<1>10. /\ SentToImpolite' <=> SentToImpolite
       /\ ~TakenByImpolite' /\ ~AppliedByImpolite'
       /\ ~CappedByImpolite' /\ ~ReturnedToPolite' /\ ~SettledByPolite'
  BY <1>4, <1>5, <1>6, <1>9
     DEF SentToImpolite, TakenByImpolite, AppliedByImpolite,
         CappedByImpolite, ReturnedToPolite, SettledByPolite
<1>11. OnePlace' /\ OneExchange'
  BY <1>8, <1>10 DEF OnePlace, OneExchange
<1>12. OwnersWait'
  <2>1. About(polite.chain, {"rollback", "remote"}, 0)
    BY <1>4 DEF TakenByPolite, Does, About
  <2> QED
    BY <1>5, <1>6, <1>8, <1>10, <2>1
       DEF Coordinated, OwnersWait, InProgressI, InProgressP
<1>13. WiresFit'
  <2>1. WireToPolite(toPolite, polite.pending, 0)
    BY <1>4, Typed, ShortWire DEF Coordinated, WiresFit, SentToPolite
  <2>2. Fresh(toImpolite, polite.pending, polite.sig = "local")
    BY <1>4 DEF Coordinated, WiresFit
  <2> QED
    BY <1>5, <2>1, <2>2 DEF WiresFit
<1>14. CapsAreOld'
  BY <1>5, <1>9, <1>10 DEF Coordinated, CapsAreOld
<1>15. ImpoliteProceeds' /\ PoliteProceeds'
  BY <1>4, <1>5, <1>8, <1>10
     DEF Coordinated, ImpoliteProceeds, PoliteProceeds, InProgressP, BothThere
<1>16. Agree'
  BY <1>4, <1>5 DEF Agree
<1> QED
  BY <1>7, <1>11, <1>12, <1>13, <1>14, <1>15, <1>16 DEF Coordinated

(* What the end of setParameters does to the one that answers. *)
LEMMA CapFields ==
  ASSUME NegotiationTypes, NEW p \in Peer, CapEnds(p), ~lost', ~raced'
  PROVE  /\ peer[p].pc = "live" /\ peer[p].capping # <<>>
         /\ Head(peer[p].capping) =
              IF peer[p].sig = "local" THEN peer[p].pending ELSE peer[p].agreed
         /\ peer' = [peer EXCEPT ![p] = [peer[p] EXCEPT !.capping = Tail(@)]]
         /\ wire' = [wire EXCEPT ![Other(p)] =
                       Append(@, Signal("answer", Head(peer[p].capping)))]
         /\ offers' = offers
BY DEF CapEnds, Live, Send, Signal

(* The answer of the polite peer, whose bitrate is capped now, is sent. *)
LEMMA PoliteCapEnds ==
  ASSUME NegotiationTypes, Coordinated, CapEnds("polite"), ~lost', ~raced'
  PROVE  Coordinated'
<1>0. /\ "polite" \in Peer /\ "impolite" \in Peer /\ Other("polite") = "impolite"
  BY DEF Peer, Other
<1>1. /\ polite.pc = "live" /\ polite.capping # <<>>
      /\ Head(polite.capping) =
           IF polite.sig = "local" THEN polite.pending ELSE polite.agreed
      /\ polite' = [polite EXCEPT !.capping = Tail(@)]
      /\ impolite' = impolite /\ offers' = offers /\ toPolite' = toPolite
      /\ toImpolite' = Append(toImpolite, Signal("answer", Head(polite.capping)))
  <2>1. /\ polite.pc = "live" /\ polite.capping # <<>>
        /\ Head(polite.capping) =
             IF polite.sig = "local" THEN polite.pending ELSE polite.agreed
        /\ peer' = [peer EXCEPT !["polite"] = [polite EXCEPT !.capping = Tail(@)]]
        /\ wire' = [wire EXCEPT !["impolite"] =
                      Append(@, Signal("answer", Head(polite.capping)))]
        /\ offers' = offers
    BY <1>0, CapFields DEF polite
  <2>2. peer \in [Peer -> Negotiator] /\ DOMAIN wire = Peer
    BY DEF NegotiationTypes
  <2>3. polite' = [polite EXCEPT !.capping = Tail(@)] /\ impolite' = impolite
    BY <1>0, <2>1, <2>2 DEF polite, impolite
  <2>4. /\ toPolite' = toPolite
        /\ toImpolite' = Append(toImpolite, Signal("answer", Head(polite.capping)))
    BY <1>0, <2>1, <2>2 DEF toPolite, toImpolite
  <2> QED
    BY <2>1, <2>3, <2>4
<1>2. /\ polite'.chain = polite.chain /\ polite'.sig = polite.sig
      /\ polite'.pending = polite.pending /\ polite'.agreed = polite.agreed
      /\ polite'.pc = polite.pc /\ polite'.making = polite.making
      /\ polite'.need = polite.need /\ polite'.broken = polite.broken
      /\ polite'.capping = Tail(polite.capping)
  BY <1>0, <1>1 DEF NegotiationTypes, Negotiator, polite
<1>3. /\ CappedByPolite /\ impolite.sig = "local"
      /\ polite.capping = <<impolite.pending>> /\ polite.agreed = impolite.pending
      /\ ~SentToPolite /\ ~TakenByPolite /\ ~AppliedByPolite
      /\ ~ReturnedToImpolite /\ ~SettledByImpolite
  <2>1. CappedByPolite
    BY <1>1 DEF CappedByPolite
  <2> QED
    BY <2>1 DEF Coordinated, OwnersWait, OnePlace, InProgressI
<1>4. /\ Head(polite.capping) = impolite.pending /\ Tail(polite.capping) = <<>>
      /\ impolite.pending \in Nat
  BY <1>3, Typed
<1>5. polite.sig # "local"
  BY <1>1, <1>3, <1>4 DEF Coordinated, CapsAreOld
<1>6. /\ ~SentToImpolite /\ ~TakenByImpolite /\ ~AppliedByImpolite
      /\ ~CappedByImpolite /\ ~ReturnedToPolite /\ ~SettledByPolite
  BY <1>5, OwnOfferOnly
<1> DEFINE m == Signal("answer", impolite.pending)
           w == Append(toImpolite, m)
<1>7. /\ m = Signal("answer", impolite.pending) /\ m.type = "answer"
      /\ m \in [type : {"offer", "answer"}, id : Nat]
      /\ \A o : m # Signal("offer", o)
      /\ toImpolite' = w
  BY <1>1, <1>4 DEF Signal
<1> HIDE DEF m
<1>8. /\ CarriesAnswer(w) /\ \A s : EndsWith(w, s) => s = m
      /\ \A b : Answered(w, impolite.pending, polite.pending, b)
  BY <1>3, <1>7, Typed, AppendWire DEF ReturnedToImpolite
<1> HIDE DEF w
<1>9. PeersFit'
  <2>1. StateFits(polite')
    BY <1>1, <1>2 DEF Coordinated, PeersFit, StateFits
  <2> QED
    BY <1>1, <1>2, <1>4, <2>1 DEF Coordinated, PeersFit, Numbered
<1>10. /\ ~SentToPolite' /\ ~TakenByPolite' /\ ~AppliedByPolite'
       /\ ~CappedByPolite' /\ ReturnedToImpolite' /\ ~SettledByImpolite'
  BY <1>1, <1>2, <1>3, <1>4, <1>7, <1>8 DEF SentToPolite, TakenByPolite,
     AppliedByPolite, CappedByPolite, ReturnedToImpolite, SettledByImpolite
<1>11. /\ ~SentToImpolite' /\ ~TakenByImpolite' /\ ~AppliedByImpolite'
       /\ ~CappedByImpolite' /\ ~ReturnedToPolite' /\ ~SettledByPolite'
  BY <1>1, <1>2, <1>6, <1>7, <1>8
     DEF SentToImpolite, TakenByImpolite, AppliedByImpolite,
         CappedByImpolite, ReturnedToPolite, SettledByPolite
<1>12. OnePlace' /\ OneExchange'
  BY <1>10, <1>11 DEF OnePlace, OneExchange
<1>13. OwnersWait'
  BY <1>1, <1>2, <1>3, <1>10, <1>11
     DEF Coordinated, OwnersWait, InProgressI, InProgressP
<1>14. WiresFit'
  BY <1>1, <1>2, <1>3, <1>7, <1>8, <1>10 DEF Coordinated, WiresFit
<1>15. CapsAreOld'
  BY <1>1, <1>2, <1>11 DEF Coordinated, CapsAreOld
<1>16. ImpoliteProceeds' /\ PoliteProceeds' /\ Agree'
  BY <1>2, <1>5, <1>10 DEF ImpoliteProceeds, PoliteProceeds, Agree, InProgressI
<1> QED
  BY <1>9, <1>12, <1>13, <1>14, <1>15, <1>16 DEF Coordinated

(* The same for the impolite peer: no older answer waits any more. *)
LEMMA ImpoliteCapEnds ==
  ASSUME NegotiationTypes, Coordinated, CapEnds("impolite"), ~lost', ~raced'
  PROVE  Coordinated'
<1>0. /\ "polite" \in Peer /\ "impolite" \in Peer /\ Other("impolite") = "polite"
  BY DEF Peer, Other
<1>1. /\ impolite.pc = "live" /\ impolite.capping # <<>>
      /\ Head(impolite.capping) =
           IF impolite.sig = "local" THEN impolite.pending ELSE impolite.agreed
      /\ impolite' = [impolite EXCEPT !.capping = Tail(@)]
      /\ polite' = polite /\ offers' = offers /\ toImpolite' = toImpolite
      /\ toPolite' = Append(toPolite, Signal("answer", Head(impolite.capping)))
  <2>1. /\ impolite.pc = "live" /\ impolite.capping # <<>>
        /\ Head(impolite.capping) =
             IF impolite.sig = "local" THEN impolite.pending ELSE impolite.agreed
        /\ peer' = [peer EXCEPT !["impolite"] = [impolite EXCEPT !.capping = Tail(@)]]
        /\ wire' = [wire EXCEPT !["polite"] =
                      Append(@, Signal("answer", Head(impolite.capping)))]
        /\ offers' = offers
    BY <1>0, CapFields DEF impolite
  <2>2. peer \in [Peer -> Negotiator] /\ DOMAIN wire = Peer
    BY DEF NegotiationTypes
  <2>3. impolite' = [impolite EXCEPT !.capping = Tail(@)] /\ polite' = polite
    BY <1>0, <2>1, <2>2 DEF polite, impolite
  <2>4. /\ toImpolite' = toImpolite
        /\ toPolite' = Append(toPolite, Signal("answer", Head(impolite.capping)))
    BY <1>0, <2>1, <2>2 DEF toPolite, toImpolite
  <2> QED
    BY <2>1, <2>3, <2>4
<1>2. /\ impolite'.chain = impolite.chain /\ impolite'.sig = impolite.sig
      /\ impolite'.pending = impolite.pending /\ impolite'.agreed = impolite.agreed
      /\ impolite'.pc = impolite.pc /\ impolite'.making = impolite.making
      /\ impolite'.need = impolite.need /\ impolite'.broken = impolite.broken
      /\ impolite'.capping = Tail(impolite.capping)
  BY <1>0, <1>1 DEF NegotiationTypes, Negotiator, impolite
<1>3. /\ Head(impolite.capping) = impolite.capping[1]
      /\ DOMAIN impolite.capping = 1 .. Len(impolite.capping)
      /\ Len(impolite.capping) \in Nat \ {0}
      /\ Len(impolite.capping) = 1 => Tail(impolite.capping) = <<>>
  <2> DEFINE c == impolite.capping
  <2>1. c \in Seq(Nat) /\ c # <<>>
    BY <1>1, Typed
  <2> HIDE DEF c
  <2>2. /\ Head(c) = c[1] /\ DOMAIN c = 1 .. Len(c) /\ Len(c) \in Nat \ {0}
        /\ Tail(c) \in Seq(Nat) /\ Len(Tail(c)) = Len(c) - 1
    BY <2>1
  <2>3. Len(c) = 1 => Tail(c) = <<>>
    <3>1. \A rest \in Seq(Nat) : Len(rest) = 0 => rest = <<>>
      BY EmptySeq
    <3> DEFINE rest == Tail(c)
    <3>2. rest \in Seq(Nat) /\ Len(rest) = Len(c) - 1 /\ Len(c) \in Nat
      BY <2>2
    <3> HIDE DEF rest
    <3>3. Len(c) = 1 => Len(rest) = 0
      BY <3>2
    <3>4. Len(c) = 1 => rest = <<>>
      BY <3>1, <3>2, <3>3
    <3> QED
      BY <3>4 DEF rest
  <2> QED
    BY <2>2, <2>3 DEF c
<1>4. impolite.sig # "local" /\ impolite.capping[1] = impolite.agreed
  BY <1>1, <1>3 DEF Coordinated, CapsAreOld
<1>5. impolite'.capping = <<>>
  BY <1>2, <1>3, <1>4 DEF Coordinated, CapsAreOld
<1>6. /\ CappedByImpolite /\ polite.sig = "local"
      /\ impolite.agreed = polite.pending
      /\ ~SentToImpolite /\ ~TakenByImpolite /\ ~AppliedByImpolite
      /\ ~ReturnedToPolite /\ ~SettledByPolite
      /\ ~SentToPolite /\ ~TakenByPolite /\ ~AppliedByPolite /\ ~CappedByPolite
      /\ ~ReturnedToImpolite /\ ~SettledByImpolite
  <2>1. CappedByImpolite
    BY <1>3, <1>4 DEF CappedByImpolite
  <2> QED
    BY <1>4, <2>1, OwnOfferOnly DEF Coordinated, OwnersWait, OnePlace, InProgressP
<1>7. toPolite' = <<Signal("answer", polite.pending)>>
  <2>1. toPolite = <<>>
    BY <1>6, Typed, ShortWire DEF Coordinated, WiresFit, ReturnedToPolite,
       SentToPolite
  <2> QED
    BY <1>1, <1>3, <1>4, <1>6, <2>1
<1>8. /\ CarriesAnswer(toPolite') /\ ~CarriesOffer(toPolite')
      /\ WireToPolite(toPolite', polite.pending, impolite.pending)
  BY <1>7 DEF CarriesAnswer, CarriesOffer, WireToPolite, Signal
<1>9. PeersFit'
  <2>1. StateFits(impolite')
    BY <1>1, <1>2 DEF Coordinated, PeersFit, StateFits
  <2> QED
    BY <1>1, <1>2, <1>5, <2>1 DEF Coordinated, PeersFit, Numbered
<1>10. /\ ~SentToPolite' /\ ~TakenByPolite' /\ ~AppliedByPolite'
       /\ ~CappedByPolite' /\ ~ReturnedToImpolite' /\ ~SettledByImpolite'
  BY <1>1, <1>2, <1>6, <1>8 DEF SentToPolite, TakenByPolite, AppliedByPolite,
     CappedByPolite, ReturnedToImpolite, SettledByImpolite
<1>11. /\ ~SentToImpolite' /\ ~TakenByImpolite' /\ ~AppliedByImpolite'
       /\ ~CappedByImpolite' /\ ReturnedToPolite' /\ ~SettledByPolite'
  BY <1>1, <1>2, <1>5, <1>6, <1>8, <1>10
     DEF SentToImpolite, TakenByImpolite, AppliedByImpolite, ReturnedToImpolite,
         CappedByImpolite, ReturnedToPolite, SettledByPolite
<1>12. OnePlace' /\ OneExchange'
  BY <1>10, <1>11 DEF OnePlace, OneExchange
<1>13. OwnersWait'
  BY <1>1, <1>2, <1>6, <1>10, <1>11
     DEF Coordinated, OwnersWait, InProgressI, InProgressP
<1>14. WiresFit'
  BY <1>1, <1>2, <1>4, <1>8 DEF Coordinated, WiresFit
<1>15. CapsAreOld'
  <2>1. DOMAIN impolite'.capping = {}
    BY <1>5
  <2> QED
    BY <1>2, <1>4, <2>1 DEF CapsAreOld
<1>16. ImpoliteProceeds' /\ PoliteProceeds' /\ Agree'
  BY <1>2, <1>4, <1>10, <1>11
     DEF ImpoliteProceeds, PoliteProceeds, Agree, InProgressP
<1> QED
  BY <1>9, <1>12, <1>13, <1>14, <1>15, <1>16 DEF Coordinated

(* A signal that nobody takes up: lost, but for an offer that the impolite *)
(* peer will make up for.                                                  *)
LEMMA StrayArrives ==
  ASSUME NegotiationTypes, Coordinated, NEW p \in Peer, ReceiveStray(p), ~lost'
  PROVE  Coordinated'
<1>1. p = "impolite" /\ "polite" \in Peer /\ "impolite" \in Peer
  BY DEF ReceiveStray, Peer
<1>2. /\ impolite.pc = "waiting" /\ toImpolite # <<>>
      /\ polite' = polite /\ impolite' = impolite /\ offers' = offers
      /\ toPolite' = toPolite /\ toImpolite' = Tail(toImpolite)
  BY <1>1 DEF ReceiveStray, NegotiationTypes, polite, impolite, toPolite, toImpolite
<1>3. impolite.sig # "local"
  BY <1>2 DEF Coordinated, PeersFit, StateFits
<1>4. /\ EndsWith(toImpolite, Signal("offer", polite.pending))
      /\ toImpolite' = <<>> /\ ~CarriesAnswer(toImpolite) /\ ~CarriesAnswer(toImpolite')
      /\ \A s : ~EndsWith(toImpolite', s)
  <2>1. Fresh(toImpolite, polite.pending, polite.sig = "local")
    BY <1>3 DEF Coordinated, WiresFit
  <2>2. /\ EndsWith(toImpolite, Signal("offer", polite.pending))
        /\ toImpolite' = <<>> /\ ~CarriesAnswer(toImpolite)
    BY <1>2, <2>1, Typed, ShortWire
  <2>3. ~CarriesAnswer(<<>>) /\ \A s : ~EndsWith(<<>>, s)
    BY Typed, ShortWire
  <2> QED
    BY <2>2, <2>3
<1>5. SentToImpolite
  BY <1>3, <1>4 DEF SentToImpolite
<1>6. PeersFit'
  BY <1>2 DEF Coordinated, PeersFit, Numbered
<1>7. /\ SentToPolite' <=> SentToPolite
      /\ TakenByPolite' <=> TakenByPolite
      /\ AppliedByPolite' <=> AppliedByPolite
      /\ CappedByPolite' <=> CappedByPolite
      /\ ReturnedToImpolite' <=> ReturnedToImpolite
      /\ SettledByImpolite' <=> SettledByImpolite
  BY <1>2, <1>4 DEF SentToPolite, TakenByPolite, AppliedByPolite, CappedByPolite,
     ReturnedToImpolite, SettledByImpolite
<1>8. /\ ~SentToImpolite'
      /\ TakenByImpolite' <=> TakenByImpolite
      /\ AppliedByImpolite' <=> AppliedByImpolite
      /\ CappedByImpolite' <=> CappedByImpolite
      /\ ReturnedToPolite' <=> ReturnedToPolite
      /\ SettledByPolite' <=> SettledByPolite
  BY <1>2, <1>4 DEF SentToImpolite, TakenByImpolite, AppliedByImpolite,
     CappedByImpolite, ReturnedToPolite, SettledByPolite
<1>9. OnePlace' /\ OneExchange'
  BY <1>7, <1>8 DEF Coordinated, OnePlace, OneExchange
<1>10. OwnersWait'
  BY <1>2, <1>7, <1>8 DEF Coordinated, OwnersWait, InProgressI, InProgressP
<1>11. WiresFit'
  <2>1. Fresh(toImpolite', polite.pending, polite.sig = "local")
    BY <1>4 DEF Fresh
  <2> QED
    BY <1>2, <1>3, <2>1 DEF Coordinated, WiresFit
<1>12. CapsAreOld'
  BY <1>2, <1>7, <1>8 DEF Coordinated, CapsAreOld
<1>13. ImpoliteProceeds' /\ PoliteProceeds'
  <2>1. ~ReturnedToImpolite' /\ ~SettledByImpolite'
    BY <1>3, <1>7, OwnOfferOnly
  <2> QED
    BY <1>2, <1>3, <2>1 DEF ImpoliteProceeds, PoliteProceeds
<1>14. Agree'
  BY <1>2, <1>7, <1>8 DEF Coordinated, Agree, BothThere
<1> QED
  BY <1>6, <1>9, <1>10, <1>11, <1>12, <1>13, <1>14 DEF Coordinated

(* An offer arrives at the polite peer, which always takes it. *)
LEMMA PoliteReceivesOffer ==
  ASSUME NegotiationTypes, Coordinated, ReceiveOffer("polite")
  PROVE  Coordinated'
<1> DEFINE do == IF Collision(polite) THEN "rollback" ELSE "remote"
<1>0. /\ polite.pc = "live" /\ toPolite # <<>> /\ Head(toPolite).type = "offer"
      /\ "polite" \in Peer /\ "impolite" \in Peer
  BY DEF ReceiveOffer, Live, Peer, polite, toPolite
<1>1. /\ Head(toPolite) = Signal("offer", impolite.pending) /\ Tail(toPolite) = <<>>
      /\ ~CarriesAnswer(toPolite) /\ CarriesOffer(toPolite)
      /\ Head(toPolite).id = impolite.pending /\ impolite.pending \in Nat
  <2>1. WireToPolite(toPolite, polite.pending, impolite.pending)
    BY DEF Coordinated, WiresFit
  <2>2. Signal("answer", polite.pending).type = "answer"
          /\ Signal("offer", impolite.pending).id = impolite.pending
    BY DEF Signal
  <2> QED
    BY <1>0, <2>1, <2>2, Typed, ShortWire
<1>2. /\ peer' = [peer EXCEPT !["polite"] = Queue(polite, do, impolite.pending)]
      /\ wire' = [wire EXCEPT !["polite"] = <<>>] /\ offers' = offers
  BY <1>1 DEF ReceiveOffer, Ignores, polite, toPolite
<1> HIDE DEF do
<1>3. /\ polite'.chain = Append(polite.chain, Op(do, impolite.pending))
      /\ polite'.pc = polite.pc /\ polite'.sig = polite.sig
      /\ polite'.need = polite.need /\ polite'.making = polite.making
      /\ polite'.pending = polite.pending /\ polite'.agreed = polite.agreed
      /\ polite'.capping = polite.capping /\ polite'.broken = polite.broken
      /\ impolite' = impolite /\ offers' = offers
      /\ toPolite' = <<>> /\ toImpolite' = toImpolite
  BY <1>0, <1>2 DEF Queue, NegotiationTypes, Negotiator, polite, impolite,
     toPolite, toImpolite
<1>4. /\ SentToPolite /\ impolite.sig = "local"
      /\ ~TakenByPolite /\ ~AppliedByPolite /\ ~CappedByPolite
      /\ ~ReturnedToImpolite /\ ~SettledByImpolite /\ ~ReturnedToPolite
  <2>1. SentToPolite /\ ~ReturnedToPolite
    BY <1>1 DEF SentToPolite, ReturnedToPolite
  <2> QED
    BY <2>1 DEF Coordinated, OnePlace, OwnersWait, InProgressI
<1>5. /\ do \in {"rollback", "remote"}
      /\ do = "rollback" <=> polite.making \/ polite.sig # "stable"
      /\ Op(do, impolite.pending) \in Operation
      /\ Op(do, impolite.pending) = [do |-> do, id |-> impolite.pending]
  BY <1>1 DEF do, Collision, Op, Operation
<1>6. /\ PoliteChain(polite.chain) /\ polite.chain \in Seq(Operation)
      /\ About(polite.chain, {"rollback", "remote"}, impolite.pending)
      /\ StateFits(polite)
  BY Typed DEF Coordinated, PeersFit, OwnersWait
<1>7. /\ polite'.chain \in Seq(Operation)
      /\ polite.chain = <<>> => Only(polite'.chain, do)
      /\ \A a : Only(polite.chain, a) => Both(polite'.chain, a, do)
      /\ \A a : Does(polite'.chain, a) <=> Does(polite.chain, a) \/ a = do
      /\ \A K, id : About(polite'.chain, K, id) <=>
           About(polite.chain, K, id) /\ (do \in K => impolite.pending = id)
  BY <1>3, <1>5, <1>6, AppendChain
<1>8. /\ ~Does(polite.chain, "rollback") /\ ~Does(polite.chain, "remote")
      /\ ~Does(polite.chain, "reply")
      /\ Does(polite.chain, "mute") => polite.sig = "stable" /\ ~polite.making
      /\ \A a \in {"create", "set", "offer"} : Does(polite.chain, a) => polite.making
      /\ Does(polite.chain, "answer") => polite.sig = "local"
  <2>1. \A a : Only(polite.chain, a) => \A o : Does(polite.chain, o) <=> o = a
    BY <1>6, ShortChain
  <2>2. ~Does(polite.chain, "rollback") /\ ~Does(polite.chain, "remote")
          /\ ~Does(polite.chain, "reply")
    BY <1>0, <1>4, <1>6 DEF TakenByPolite, AppliedByPolite, StateFits
  <2>3. Does(polite.chain, "mute") => Only(polite.chain, "mute")
    <3>1. \A a, b : Both(polite.chain, a, b) =>
            \A o : Does(polite.chain, o) <=> o \in {a, b}
      BY <1>6, ShortChain
    <3>2. polite.chain = <<>> => ~Does(polite.chain, "mute")
      BY DEF Does
    <3> QED
      BY <1>6, <2>1, <2>2, <3>1, <3>2 DEF PoliteChain
  <2>4. Does(polite.chain, "mute") => ~polite.making
    BY <1>0, <1>6, <2>1, <2>3 DEF StateFits
  <2> QED
    BY <1>0, <1>4, <1>6, <2>2, <2>4, Typed DEF StateFits, AppliedByPolite
<1>9. PoliteChain(polite'.chain)
  <2>1. \A a : Only(polite.chain, a) => Does(polite.chain, a)
    BY <1>6, ShortChain
  <2>2. \A a, b : Both(polite.chain, a, b) =>
          Does(polite.chain, a) /\ Does(polite.chain, b)
    BY <1>6, ShortChain
  <2>3. \/ polite.chain = <<>>
        \/ Only(polite.chain, "mute") /\ do = "remote"
        \/ Only(polite.chain, "create") /\ do = "rollback"
        \/ Only(polite.chain, "set") /\ do = "rollback"
        \/ Only(polite.chain, "offer") /\ do = "rollback"
        \/ Only(polite.chain, "answer") /\ do = "rollback"
    BY <1>5, <1>6, <1>8, <2>1, <2>2 DEF PoliteChain
  <2> QED
    BY <1>5, <1>7, <2>3 DEF PoliteChain
<1>10. PeersFit'
  <2>1. /\ About(polite'.chain, {"answer"}, polite'.pending)
        /\ Does(polite'.chain, "reply") <=> Does(polite.chain, "reply")
        /\ \A a \in {"offer", "create", "set", "mute", "answer"} :
             Does(polite'.chain, a) <=> Does(polite.chain, a)
    BY <1>3, <1>5, <1>6, <1>7 DEF StateFits
  <2>2. StateFits(polite')
    BY <1>0, <1>3, <1>5, <1>6, <1>7, <1>8, <2>1 DEF StateFits
  <2> QED
    BY <1>3, <1>9, <2>2 DEF Coordinated, PeersFit, Numbered
<1>11. /\ ~CarriesAnswer(toPolite') /\ ~CarriesOffer(toPolite')
       /\ WireToPolite(toPolite', polite.pending, impolite.pending)
  BY <1>3 DEF CarriesAnswer, CarriesOffer, WireToPolite
<1>12. /\ ~SentToPolite' /\ TakenByPolite' /\ ~AppliedByPolite'
       /\ ~CappedByPolite' /\ ~ReturnedToImpolite' /\ ~SettledByImpolite'
  BY <1>3, <1>4, <1>5, <1>7, <1>11 DEF SentToPolite, TakenByPolite,
     AppliedByPolite, CappedByPolite, ReturnedToImpolite, SettledByImpolite
<1>13. /\ SentToImpolite' <=> SentToImpolite
       /\ TakenByImpolite' <=> TakenByImpolite
       /\ AppliedByImpolite' <=> AppliedByImpolite
       /\ CappedByImpolite' <=> CappedByImpolite
       /\ ~ReturnedToPolite'
       /\ SettledByPolite' <=> SettledByPolite
  BY <1>3, <1>4, <1>5, <1>7, <1>11, <1>12
     DEF SentToImpolite, TakenByImpolite, AppliedByImpolite,
         CappedByImpolite, ReturnedToPolite, SettledByPolite
<1>14. OnePlace' /\ OneExchange'
  BY <1>4, <1>12, <1>13 DEF Coordinated, OnePlace, OneExchange
<1>15. OwnersWait'
  BY <1>3, <1>4, <1>6, <1>7, <1>12, <1>13
     DEF Coordinated, OwnersWait, InProgressI, InProgressP
<1>16. WiresFit'
  BY <1>3, <1>4, <1>11, <1>12 DEF Coordinated, WiresFit
<1>17. CapsAreOld'
  BY <1>3, <1>13 DEF Coordinated, CapsAreOld
<1>18. ImpoliteProceeds' /\ PoliteProceeds'
  BY <1>3, <1>4, <1>12, <1>13
     DEF Coordinated, ImpoliteProceeds, PoliteProceeds, InProgressI, BothThere
<1>19. Agree'
  BY <1>3, <1>4, <1>12, <1>13 DEF Coordinated, Agree, BothThere
<1> QED
  BY <1>10, <1>14, <1>15, <1>16, <1>17, <1>18, <1>19 DEF Coordinated

(* An offer arrives at the impolite peer, which ignores it because of its  *)
(* own one.                                                                *)
LEMMA ImpoliteIgnores ==
  ASSUME NegotiationTypes, Coordinated, ReceiveOffer("impolite"),
         Ignores("impolite"), ~raced'
  PROVE  Coordinated'
<1>1. /\ impolite.pc = "live" /\ toImpolite # <<>> /\ Head(toImpolite).type = "offer"
      /\ impolite.making \/ impolite.sig # "stable"
      /\ polite' = polite /\ impolite' = impolite /\ offers' = offers
      /\ toPolite' = toPolite /\ toImpolite' = Tail(toImpolite)
  BY DEF ReceiveOffer, Ignores, Collision, Live, Peer, NegotiationTypes, polite,
         impolite, toPolite, toImpolite
<1>2. ~SettledByImpolite
  BY DEF ReceiveOffer, Answering, SettledByImpolite, Does, impolite
<1>3. /\ CarriesAnswer(toImpolite') <=> CarriesAnswer(toImpolite)
      /\ \A s : EndsWith(toImpolite', s) => EndsWith(toImpolite, s)
      /\ \A s : EndsWith(toImpolite, s) => EndsWith(toImpolite', s) \/ toImpolite' = <<>>
      /\ \A i, p, b : Answered(toImpolite, i, p, b) => Answered(toImpolite', i, p, b)
  BY <1>1, Typed, TailWire
<1>4. PeersFit'
  BY <1>1 DEF Coordinated, PeersFit, Numbered
<1>5. /\ SentToPolite' <=> SentToPolite
      /\ TakenByPolite' <=> TakenByPolite
      /\ AppliedByPolite' <=> AppliedByPolite
      /\ CappedByPolite' <=> CappedByPolite
      /\ ReturnedToImpolite' <=> ReturnedToImpolite
      /\ SettledByImpolite' <=> SettledByImpolite
  BY <1>1, <1>3 DEF SentToPolite, TakenByPolite, AppliedByPolite, CappedByPolite,
     ReturnedToImpolite, SettledByImpolite
<1>6. /\ TakenByImpolite' <=> TakenByImpolite
      /\ AppliedByImpolite' <=> AppliedByImpolite
      /\ CappedByImpolite' <=> CappedByImpolite
      /\ ReturnedToPolite' <=> ReturnedToPolite
      /\ SettledByPolite' <=> SettledByPolite
      /\ SentToImpolite' => SentToImpolite
  BY <1>1, <1>3, <1>5 DEF SentToImpolite, TakenByImpolite, AppliedByImpolite,
     CappedByImpolite, ReturnedToPolite, SettledByPolite
<1>7. impolite.sig = "local" => (SentToImpolite => SentToImpolite')
  <2>1. ReturnedToImpolite => toImpolite' # <<>>
    BY <1>5, Typed, ShortWire DEF ReturnedToImpolite
  <2> QED
    BY <1>1, <1>2, <1>3, <1>5, <2>1 DEF SentToImpolite
<1>8. impolite.sig # "local" =>
        impolite.making /\ toImpolite' = <<>> /\ ~ReturnedToImpolite
  <2> SUFFICES ASSUME impolite.sig # "local"
               PROVE  impolite.making /\ toImpolite' = <<>> /\ ~ReturnedToImpolite
    OBVIOUS
  <2>1. Fresh(toImpolite, polite.pending, polite.sig = "local")
    BY DEF Coordinated, WiresFit
  <2>2. /\ EndsWith(toImpolite, Signal("offer", polite.pending))
        /\ toImpolite' = <<>> /\ ~CarriesAnswer(toImpolite)
    BY <1>1, <2>1, Typed, ShortWire
  <2>3. SentToImpolite
    BY <2>2 DEF SentToImpolite
  <2>4. impolite.sig # "remote"
    BY <2>3 DEF Coordinated, OnePlace, AppliedByImpolite
  <2> QED
    BY <1>1, <2>2, <2>4, Typed DEF ReturnedToImpolite
<1>9. OnePlace' /\ OneExchange'
  BY <1>5, <1>6 DEF Coordinated, OnePlace, OneExchange
<1>10. OwnersWait'
  BY <1>1, <1>5, <1>6 DEF Coordinated, OwnersWait, InProgressI, InProgressP
<1>11. WiresFit'
  <2>1. CASE impolite.sig = "local"
    BY <1>1, <1>2, <1>3, <1>5, <2>1 DEF Coordinated, WiresFit
  <2>2. CASE impolite.sig # "local"
    <3>1. Fresh(toImpolite', polite.pending, polite.sig = "local")
      BY <1>8, <2>2 DEF Fresh
    <3> QED
      BY <1>1, <2>2, <3>1 DEF Coordinated, WiresFit
  <2> QED
    BY <2>1, <2>2
<1>12. CapsAreOld'
  BY <1>1, <1>6 DEF Coordinated, CapsAreOld
<1>13. ImpoliteProceeds'
  BY <1>1, <1>5 DEF Coordinated, ImpoliteProceeds, InProgressI, BothThere
<1>14. PoliteProceeds'
  BY <1>1, <1>2, <1>5, <1>7, <1>8
     DEF Coordinated, PoliteProceeds, BothThere
<1>15. Agree'
  BY <1>1, <1>5, <1>6 DEF Coordinated, Agree, BothThere
<1> QED
  BY <1>4, <1>9, <1>10, <1>11, <1>12, <1>13, <1>14, <1>15 DEF Coordinated

(* The impolite peer takes an offer that does not collide with its own. *)
LEMMA ImpoliteTakes ==
  ASSUME NegotiationTypes, Coordinated, ReceiveOffer("impolite"),
         ~Ignores("impolite")
  PROVE  Coordinated'
<1>0. /\ impolite.pc = "live" /\ toImpolite # <<>>
      /\ ~impolite.making /\ impolite.sig = "stable"
      /\ "polite" \in Peer /\ "impolite" \in Peer
  BY DEF ReceiveOffer, Ignores, Collision, Live, Peer, impolite, toImpolite
<1>1. /\ Head(toImpolite) = Signal("offer", polite.pending)
      /\ Head(toImpolite).id = polite.pending /\ polite.pending \in Nat
      /\ Tail(toImpolite) = <<>> /\ ~CarriesAnswer(toImpolite)
      /\ EndsWith(toImpolite, Signal("offer", polite.pending))
  <2>1. Fresh(toImpolite, polite.pending, polite.sig = "local")
    BY <1>0 DEF Coordinated, WiresFit
  <2>2. Signal("offer", polite.pending).id = polite.pending
    BY DEF Signal
  <2> QED
    BY <1>0, <2>1, <2>2, Typed, ShortWire
<1>2. /\ peer' = [peer EXCEPT !["impolite"] = Queue(impolite, "remote", polite.pending)]
      /\ wire' = [wire EXCEPT !["impolite"] = <<>>] /\ offers' = offers
  BY <1>0, <1>1 DEF ReceiveOffer, Collision, impolite, toImpolite
<1>3. /\ impolite'.chain = Append(impolite.chain, Op("remote", polite.pending))
      /\ impolite'.pc = impolite.pc /\ impolite'.sig = impolite.sig
      /\ impolite'.need = impolite.need /\ impolite'.making = impolite.making
      /\ impolite'.pending = impolite.pending /\ impolite'.agreed = impolite.agreed
      /\ impolite'.capping = impolite.capping /\ impolite'.broken = impolite.broken
      /\ polite' = polite /\ toPolite' = toPolite /\ toImpolite' = <<>>
  BY <1>0, <1>2 DEF Queue, NegotiationTypes, Negotiator, polite, impolite,
     toPolite, toImpolite
<1>4. SentToImpolite /\ polite.sig = "local" /\ polite.pending \in 1 .. offers
      /\ ~TakenByImpolite /\ ~AppliedByImpolite /\ ~CappedByImpolite
      /\ ~ReturnedToPolite /\ ~SettledByPolite
      /\ ~SentToPolite /\ ~TakenByPolite /\ ~AppliedByPolite
      /\ ~CappedByPolite /\ ~ReturnedToImpolite /\ ~SettledByImpolite
  <2>1. SentToImpolite
    BY <1>0, <1>1 DEF SentToImpolite
  <2>2. polite.sig = "local"
    BY <2>1 DEF Coordinated, OwnersWait, InProgressP
  <2>3. /\ ~TakenByImpolite /\ ~AppliedByImpolite /\ ~CappedByImpolite
        /\ ~ReturnedToPolite /\ ~SettledByPolite
    BY <2>1 DEF Coordinated, OnePlace
  <2> QED
    BY <1>0, <2>1, <2>2, <2>3, OwnOfferOnly
<1>5. /\ Op("remote", polite.pending) \in Operation
      /\ Op("remote", polite.pending) = [do |-> "remote", id |-> polite.pending]
      /\ impolite.chain \in Seq(Operation)
      /\ ImpoliteChain(impolite.chain) /\ StateFits(impolite)
      /\ About(impolite.chain, {"remote"}, polite.pending)
  BY <1>1, Typed DEF Op, Operation, Coordinated, PeersFit, OwnersWait
<1>6. /\ impolite'.chain \in Seq(Operation)
      /\ impolite.chain = <<>> => Only(impolite'.chain, "remote")
      /\ \A a : Only(impolite.chain, a) => Both(impolite'.chain, a, "remote")
      /\ \A a : Does(impolite'.chain, a) <=> Does(impolite.chain, a) \/ a = "remote"
      /\ \A K, id : About(impolite'.chain, K, id) <=>
           About(impolite.chain, K, id) /\ ("remote" \in K => polite.pending = id)
  BY <1>3, <1>5, AppendChain
<1>7. ImpoliteChain(impolite'.chain)
  <2>1. /\ ~Does(impolite.chain, "offer") /\ ~Does(impolite.chain, "remote")
        /\ ~Does(impolite.chain, "reply") /\ ~Does(impolite.chain, "answer")
    BY <1>0, <1>4, <1>5
       DEF StateFits, TakenByImpolite, SettledByImpolite
  <2>2. \A a : Only(impolite.chain, a) => Does(impolite.chain, a)
    BY <1>5, ShortChain
  <2>3. \A a, b : Both(impolite.chain, a, b) => Does(impolite.chain, b)
    BY <1>5, ShortChain
  <2>4. impolite.chain = <<>> \/ Only(impolite.chain, "mute")
    BY <1>5, <2>1, <2>2, <2>3 DEF ImpoliteChain
  <2> QED
    BY <1>6, <2>4 DEF ImpoliteChain
<1>8. PeersFit'
  <2>1. StateFits(impolite')
    BY <1>0, <1>3, <1>5, <1>6 DEF StateFits
  <2> QED
    BY <1>2, <1>3, <1>7, <2>1 DEF Coordinated, PeersFit, Numbered
<1>9. ~CarriesAnswer(toImpolite') /\ \A s : ~EndsWith(toImpolite', s)
  BY <1>3, Typed, ShortWire
<1>10. /\ ~SentToPolite' /\ ~TakenByPolite' /\ ~AppliedByPolite'
       /\ ~CappedByPolite' /\ ~ReturnedToImpolite' /\ ~SettledByImpolite'
  BY <1>3, <1>4, <1>6, <1>9 DEF SentToPolite, TakenByPolite,
     AppliedByPolite, CappedByPolite, ReturnedToImpolite, SettledByImpolite
<1>11. /\ ~SentToImpolite' /\ TakenByImpolite' /\ ~AppliedByImpolite'
       /\ ~CappedByImpolite' /\ ~ReturnedToPolite' /\ ~SettledByPolite'
  BY <1>3, <1>4, <1>6, <1>9
     DEF SentToImpolite, TakenByImpolite, AppliedByImpolite,
         CappedByImpolite, ReturnedToPolite, SettledByPolite
<1>12. OnePlace' /\ OneExchange'
  BY <1>10, <1>11 DEF OnePlace, OneExchange
<1>13. OwnersWait'
  BY <1>3, <1>4, <1>5, <1>6, <1>10, <1>11
     DEF Coordinated, OwnersWait, InProgressI, InProgressP
<1>14. WiresFit'
  <2>1. Fresh(toImpolite', polite.pending, polite.sig = "local")
    BY <1>3 DEF Fresh
  <2> QED
    BY <1>0, <1>3, <2>1 DEF Coordinated, WiresFit
<1>15. CapsAreOld'
  BY <1>0, <1>3, <1>4 DEF Coordinated, CapsAreOld
<1>16. ImpoliteProceeds' /\ PoliteProceeds'
  BY <1>0, <1>3, <1>10, <1>11 DEF ImpoliteProceeds, PoliteProceeds, InProgressP
<1>17. Agree'
  BY <1>3, <1>4, <1>10, <1>11 DEF Coordinated, Agree, BothThere
<1> QED
  BY <1>8, <1>12, <1>13, <1>14, <1>15, <1>16, <1>17 DEF Coordinated

(* The answer to the offer of the polite peer arrives. *)
LEMMA PoliteReceivesAnswer ==
  ASSUME NegotiationTypes, Coordinated, ReceiveAnswer("polite")
  PROVE  Coordinated'
<1>0. /\ polite.pc = "live" /\ toPolite # <<>> /\ Head(toPolite).type = "answer"
      /\ "polite" \in Peer /\ "impolite" \in Peer
  BY DEF ReceiveAnswer, Live, Peer, polite, toPolite
<1>1. /\ Head(toPolite) = Signal("answer", polite.pending)
      /\ Head(toPolite).id = polite.pending /\ polite.pending \in Nat
      /\ WireToPolite(Tail(toPolite), polite.pending, impolite.pending)
      /\ ~CarriesAnswer(Tail(toPolite)) /\ CarriesAnswer(toPolite)
      /\ CarriesOffer(toPolite) <=> CarriesOffer(Tail(toPolite))
  <2>1. WireToPolite(toPolite, polite.pending, impolite.pending)
    BY DEF Coordinated, WiresFit
  <2>2. Signal("offer", impolite.pending).type = "offer"
          /\ Signal("answer", polite.pending).id = polite.pending
    BY DEF Signal
  <2> QED
    BY <1>0, <2>1, <2>2, Typed, ShortWire
<1>2. /\ peer' = [peer EXCEPT !["polite"] = Queue(polite, "answer", polite.pending)]
      /\ wire' = [wire EXCEPT !["polite"] = Tail(toPolite)] /\ offers' = offers
  BY <1>1 DEF ReceiveAnswer, polite, toPolite
<1>3. /\ polite'.chain = Append(polite.chain, Op("answer", polite.pending))
      /\ polite'.pc = polite.pc /\ polite'.sig = polite.sig
      /\ polite'.need = polite.need /\ polite'.making = polite.making
      /\ polite'.pending = polite.pending /\ polite'.agreed = polite.agreed
      /\ polite'.capping = polite.capping /\ polite'.broken = polite.broken
      /\ impolite' = impolite
      /\ toPolite' = Tail(toPolite) /\ toImpolite' = toImpolite
  BY <1>0, <1>2 DEF Queue, NegotiationTypes, Negotiator, polite, impolite,
     toPolite, toImpolite
<1>4. /\ ReturnedToPolite /\ polite.sig = "local"
      /\ ~TakenByPolite /\ ~AppliedByPolite /\ ~CappedByPolite
      /\ ~ReturnedToImpolite /\ ~SettledByImpolite
      /\ ~SentToImpolite /\ ~TakenByImpolite /\ ~AppliedByImpolite
      /\ ~CappedByImpolite /\ ~SettledByPolite
  <2>1. ReturnedToPolite
    BY <1>1 DEF ReturnedToPolite
  <2>2. polite.sig = "local"
    BY <2>1 DEF Coordinated, OwnersWait, InProgressP
  <2> QED
    BY <2>1, <2>2 DEF Coordinated, OnePlace, OneExchange
<1>5. /\ Op("answer", polite.pending) \in Operation
      /\ Op("answer", polite.pending) = [do |-> "answer", id |-> polite.pending]
      /\ polite.chain \in Seq(Operation)
      /\ PoliteChain(polite.chain) /\ StateFits(polite)
      /\ About(polite.chain, {"rollback", "remote"}, impolite.pending)
  BY <1>1, Typed DEF Op, Operation, Coordinated, PeersFit, OwnersWait
<1>6. /\ polite'.chain \in Seq(Operation)
      /\ polite.chain = <<>> => Only(polite'.chain, "answer")
      /\ \A a : Does(polite'.chain, a) <=> Does(polite.chain, a) \/ a = "answer"
      /\ \A K, id : About(polite'.chain, K, id) <=>
           About(polite.chain, K, id) /\ ("answer" \in K => polite.pending = id)
  BY <1>3, <1>5, AppendChain
<1>7. PoliteChain(polite'.chain)
  <2>1. \A a \in {"rollback", "remote", "reply", "answer", "mute", "create",
                  "set", "offer"} : ~Does(polite.chain, a)
    BY <1>0, <1>4, <1>5 DEF StateFits, TakenByPolite, SettledByPolite
  <2>2. \A a : Only(polite.chain, a) => Does(polite.chain, a)
    BY <1>5, ShortChain
  <2>3. \A a, b : Both(polite.chain, a, b) => Does(polite.chain, b)
    BY <1>5, ShortChain
  <2>4. polite.chain = <<>>
    BY <1>5, <2>1, <2>2, <2>3 DEF PoliteChain
  <2> QED
    BY <1>6, <2>4 DEF PoliteChain
<1>8. PeersFit'
  <2>1. StateFits(polite')
    BY <1>0, <1>3, <1>4, <1>5, <1>6 DEF StateFits
  <2> QED
    BY <1>2, <1>3, <1>7, <2>1 DEF Coordinated, PeersFit, Numbered
<1>9. /\ SentToPolite' <=> SentToPolite
      /\ ~TakenByPolite' /\ ~AppliedByPolite'
      /\ ~CappedByPolite' /\ ~ReturnedToImpolite' /\ ~SettledByImpolite'
  BY <1>1, <1>3, <1>4, <1>6 DEF SentToPolite, TakenByPolite,
     AppliedByPolite, CappedByPolite, ReturnedToImpolite, SettledByImpolite
<1>10. /\ ~SentToImpolite' /\ ~TakenByImpolite' /\ ~AppliedByImpolite'
       /\ ~CappedByImpolite' /\ ~ReturnedToPolite' /\ SettledByPolite'
  BY <1>1, <1>3, <1>4, <1>6, <1>9
     DEF SentToImpolite, TakenByImpolite, AppliedByImpolite,
         CappedByImpolite, ReturnedToPolite, SettledByPolite
<1>11. OnePlace' /\ OneExchange'
  BY <1>9, <1>10 DEF Coordinated, OnePlace, OneExchange
<1>12. OwnersWait'
  BY <1>3, <1>4, <1>5, <1>6, <1>9, <1>10
     DEF Coordinated, OwnersWait, InProgressI, InProgressP
<1>13. WiresFit'
  BY <1>1, <1>3, <1>4, <1>9 DEF Coordinated, WiresFit
<1>14. CapsAreOld'
  BY <1>3, <1>4 DEF Coordinated, CapsAreOld
<1>15. ImpoliteProceeds'
  BY <1>3, <1>4, <1>9 DEF Coordinated, ImpoliteProceeds, InProgressI, BothThere
<1>16. PoliteProceeds' /\ Agree'
  BY <1>9, <1>10 DEF PoliteProceeds, Agree, InProgressP
<1> QED
  BY <1>8, <1>11, <1>12, <1>13, <1>14, <1>15, <1>16 DEF Coordinated

(* The answer to the offer of the impolite peer arrives. *)
LEMMA ImpoliteReceivesAnswer ==
  ASSUME NegotiationTypes, Coordinated, ReceiveAnswer("impolite")
  PROVE  Coordinated'
<1>0. /\ impolite.pc = "live" /\ toImpolite # <<>>
      /\ Head(toImpolite).type = "answer"
      /\ "polite" \in Peer /\ "impolite" \in Peer
  BY DEF ReceiveAnswer, Live, Peer, impolite, toImpolite
<1>1. CarriesAnswer(toImpolite)
  BY <1>0, Typed, TailWire
<1>2. /\ ReturnedToImpolite /\ impolite.sig = "local"
      /\ polite.agreed = impolite.pending
      /\ ~SentToPolite /\ ~TakenByPolite /\ ~AppliedByPolite
      /\ ~CappedByPolite /\ ~SettledByImpolite
      /\ ~ReturnedToPolite /\ ~SettledByPolite
      /\ ~TakenByImpolite /\ ~AppliedByImpolite /\ ~CappedByImpolite
  <2>1. ReturnedToImpolite
    BY <1>1 DEF ReturnedToImpolite
  <2>2. impolite.sig = "local" /\ polite.agreed = impolite.pending
    BY <2>1 DEF Coordinated, OwnersWait, InProgressI
  <2>3. /\ ~SentToPolite /\ ~TakenByPolite /\ ~AppliedByPolite
        /\ ~CappedByPolite /\ ~SettledByImpolite
        /\ ~ReturnedToPolite /\ ~SettledByPolite
    BY <2>1 DEF Coordinated, OnePlace, OneExchange
  <2> QED
    BY <2>1, <2>2, <2>3, OwnOfferOnly
<1>3. /\ Head(toImpolite) = Signal("answer", impolite.pending)
      /\ Fresh(Tail(toImpolite), polite.pending, polite.sig = "local")
      /\ \A s : EndsWith(Tail(toImpolite), s) => EndsWith(toImpolite, s)
      /\ \A s : EndsWith(toImpolite, s) =>
           EndsWith(Tail(toImpolite), s) \/ Head(toImpolite) = s
  <2>1. Answered(toImpolite, impolite.pending, polite.pending, polite.sig = "local")
    BY <1>2 DEF Coordinated, WiresFit
  <2> QED
    BY <1>0, <2>1, Typed, TailWire
<1>4. /\ Head(toImpolite).id = impolite.pending /\ impolite.pending \in Nat
      /\ \A o : Head(toImpolite) # Signal("offer", o)
      /\ ~CarriesAnswer(Tail(toImpolite))
  <2>1. ~CarriesAnswer(Tail(toImpolite))
    BY <1>3, Typed, ShortWire
  <2> QED
    BY <1>3, <2>1, Typed DEF Signal
<1>5. /\ peer' = [peer EXCEPT !["impolite"] =
                    Queue(impolite, "answer", impolite.pending)]
      /\ wire' = [wire EXCEPT !["impolite"] = Tail(toImpolite)]
      /\ offers' = offers
  BY <1>4 DEF ReceiveAnswer, impolite, toImpolite
<1>6. /\ impolite'.chain = Append(impolite.chain, Op("answer", impolite.pending))
      /\ impolite'.pc = impolite.pc /\ impolite'.sig = impolite.sig
      /\ impolite'.need = impolite.need /\ impolite'.making = impolite.making
      /\ impolite'.pending = impolite.pending /\ impolite'.agreed = impolite.agreed
      /\ impolite'.capping = impolite.capping /\ impolite'.broken = impolite.broken
      /\ polite' = polite
      /\ toPolite' = toPolite /\ toImpolite' = Tail(toImpolite)
  BY <1>0, <1>5 DEF Queue, NegotiationTypes, Negotiator, polite, impolite,
     toPolite, toImpolite
<1>7. /\ Op("answer", impolite.pending) \in Operation
      /\ Op("answer", impolite.pending) = [do |-> "answer", id |-> impolite.pending]
      /\ impolite.chain \in Seq(Operation)
      /\ ImpoliteChain(impolite.chain) /\ StateFits(impolite)
      /\ About(impolite.chain, {"remote"}, polite.pending)
  BY <1>4, Typed DEF Op, Operation, Coordinated, PeersFit, OwnersWait
<1>8. /\ impolite'.chain \in Seq(Operation)
      /\ impolite.chain = <<>> => Only(impolite'.chain, "answer")
      /\ \A a : Does(impolite'.chain, a) <=> Does(impolite.chain, a) \/ a = "answer"
      /\ \A K, id : About(impolite'.chain, K, id) <=>
           About(impolite.chain, K, id) /\ ("answer" \in K => impolite.pending = id)
  BY <1>6, <1>7, AppendChain
<1>9. ImpoliteChain(impolite'.chain)
  <2>1. \A a \in {"remote", "reply", "answer", "mute", "offer"} :
          ~Does(impolite.chain, a)
    BY <1>0, <1>2, <1>7 DEF StateFits, TakenByImpolite, SettledByImpolite
  <2>2. \A a : Only(impolite.chain, a) => Does(impolite.chain, a)
    BY <1>7, ShortChain
  <2>3. \A a, b : Both(impolite.chain, a, b) => Does(impolite.chain, b)
    BY <1>7, ShortChain
  <2>4. impolite.chain = <<>>
    BY <1>7, <2>1, <2>2, <2>3 DEF ImpoliteChain
  <2> QED
    BY <1>8, <2>4 DEF ImpoliteChain
<1>10. PeersFit'
  <2>1. StateFits(impolite')
    BY <1>0, <1>2, <1>6, <1>7, <1>8 DEF StateFits
  <2> QED
    BY <1>5, <1>6, <1>9, <2>1 DEF Coordinated, PeersFit, Numbered
<1>11. /\ ~SentToPolite' /\ ~TakenByPolite' /\ ~AppliedByPolite'
       /\ ~CappedByPolite' /\ ~ReturnedToImpolite' /\ SettledByImpolite'
  BY <1>2, <1>4, <1>6, <1>8 DEF SentToPolite, TakenByPolite,
     AppliedByPolite, CappedByPolite, ReturnedToImpolite, SettledByImpolite
<1>12. /\ SentToImpolite' <=> SentToImpolite
       /\ ~TakenByImpolite' /\ ~AppliedByImpolite' /\ ~CappedByImpolite'
       /\ ~ReturnedToPolite' /\ ~SettledByPolite'
  BY <1>2, <1>3, <1>4, <1>6, <1>8, <1>11
     DEF SentToImpolite, TakenByImpolite, AppliedByImpolite,
         CappedByImpolite, ReturnedToPolite, SettledByPolite
<1>13. OnePlace' /\ OneExchange'
  BY <1>11, <1>12 DEF OnePlace, OneExchange
<1>14. OwnersWait'
  <2>1. InProgressP' => polite.sig = "local"
    BY <1>12 DEF Coordinated, OwnersWait, InProgressP
  <2>2. About(impolite'.chain, {"remote"}, polite.pending)
    BY <1>7, <1>8
  <2> QED
    BY <1>2, <1>6, <1>11, <1>12, <2>1, <2>2 DEF Coordinated, OwnersWait
<1>15. WiresFit'
  BY <1>2, <1>3, <1>6, <1>11 DEF Coordinated, WiresFit
<1>16. CapsAreOld'
  BY <1>6, <1>12 DEF Coordinated, CapsAreOld
<1>17. ImpoliteProceeds' /\ Agree'
  BY <1>11 DEF ImpoliteProceeds, Agree, InProgressI
<1>18. PoliteProceeds'
  BY <1>2, <1>6, <1>11, <1>12 DEF Coordinated, PoliteProceeds, InProgressP
<1> QED
  BY <1>10, <1>13, <1>14, <1>15, <1>16, <1>17, <1>18 DEF Coordinated

(* A step that changes nothing that matters of one of the peers. *)
LEMMA PeerUnmoved ==
  ASSUME NegotiationTypes, Coordinated, NEW p \in Peer, NEW x,
         Unmoved(peer[p], x), peer' = [peer EXCEPT ![p] = x],
         UNCHANGED <<wire, offers>>
  PROVE  Coordinated'
<1>1. \A q \in Peer : Unmoved(peer[q], peer'[q])
  BY DEF Unmoved, NegotiationTypes
<1>2. Unmoved(polite, polite') /\ Unmoved(impolite, impolite')
  BY <1>1 DEF Peer, polite, impolite
<1> QED
  BY <1>2, UnmovedKeeps

(* What happens to the media path and the signalling sockets does not      *)
(* touch the exchange, unless a signal is lost.                            *)
LEMMA MediaKeeps ==
  ASSUME NegotiationTypes, Coordinated, NEW p \in Peer, ~lost',
         \/ Open(p) \/ Checking(p) \/ Connected(p) \/ Disconnected(p)
         \/ Failed(p) \/ RestartTimerFires(p) \/ FailTimerFires(p)
         \/ Drop(p) \/ Restore(p) \/ GiveUp(p)
  PROVE  Coordinated'
<1>0. peer[p] \in Negotiator /\ peer = [peer EXCEPT ![p] = peer[p]]
  BY DEF NegotiationTypes
<1>1. ASSUME NEW x, Becomes(p, x), Unmoved(peer[p], x) PROVE Coordinated'
  BY <1>1, PeerUnmoved DEF Becomes
<1>2. \A x \in Negotiator :
        /\ Unmoved(x, MaybeRestartIce(x))
        /\ Unmoved(x, ClearRecovery(x))
  <2> TAKE x \in Negotiator
  <2>1. Unmoved(x, [x EXCEPT !.restarting = TRUE, !.need = "ice"]) /\ Unmoved(x, x)
    BY DEF Unmoved, Negotiator
  <2>2. Unmoved(x, ClearRecovery(x))
    BY DEF Unmoved, ClearRecovery, Negotiator
  <2>3. Unmoved(x, MaybeRestartIce(x))
    BY <2>1 DEF MaybeRestartIce
  <2> QED
    BY <2>2, <2>3
<1>3. \A x, y, z : Unmoved(x, y) /\ Unmoved(y, z) => Unmoved(x, z)
  BY DEF Unmoved
<1>4. CASE Open(p)
  <2>1. Unmoved(peer[p], [peer[p] EXCEPT !.muted = FALSE])
    BY <1>0 DEF Unmoved, Negotiator
  <2> QED
    BY <1>4, <2>1, PeerUnmoved DEF Open
<1>5. CASE Checking(p)
  <2>1. Unmoved(peer[p], [peer[p] EXCEPT !.conn = "checking"])
    BY <1>0 DEF Unmoved, Negotiator
  <2> QED
    BY <1>1, <1>5, <2>1 DEF Checking
<1>6. CASE Connected(p)
  <2>1. Unmoved(peer[p], [ClearRecovery(peer[p]) EXCEPT !.conn = "connected"])
    BY <1>0 DEF Unmoved, Negotiator, ClearRecovery
  <2> QED
    BY <1>1, <1>6, <2>1 DEF Connected
<1>7. CASE Disconnected(p)
  <2> DEFINE x == [peer[p] EXCEPT !.conn = "disconnected",
                     !.restartTimer = peer[p].restartTimer \/ ~peer[p].restarting]
  <2>1. Unmoved(peer[p], x)
    BY <1>0 DEF Unmoved, Negotiator
  <2>2. peer' = [peer EXCEPT ![p] = x] /\ UNCHANGED <<wire, offers>>
    BY <1>7 DEF Disconnected
  <2> QED
    BY <2>1, <2>2, PeerUnmoved
<1>8. CASE Failed(p)
  <2> DEFINE x == [peer[p] EXCEPT !.conn = "failed", !.base = peer[p].agreed,
                                  !.failTimer = TRUE]
  <2>1. Unmoved(peer[p], x) /\ x \in Negotiator
    BY <1>0 DEF Unmoved, Negotiator
  <2>2. /\ peer' = [peer EXCEPT ![p] = MaybeRestartIce(x)]
        /\ UNCHANGED <<wire, offers>>
    BY <1>8 DEF Failed
  <2> HIDE DEF x
  <2>3. Unmoved(peer[p], MaybeRestartIce(x))
    BY <1>2, <1>3, <2>1
  <2> QED
    BY <2>2, <2>3, PeerUnmoved
<1>9. CASE RestartTimerFires(p)
  <2> DEFINE x == [peer[p] EXCEPT !.restartTimer = FALSE]
  <2>1. Unmoved(peer[p], x) /\ x \in Negotiator
    BY <1>0 DEF Unmoved, Negotiator
  <2>2. Becomes(p, MaybeRestartIce(x))
    BY <1>9 DEF RestartTimerFires
  <2> HIDE DEF x
  <2>3. Unmoved(peer[p], MaybeRestartIce(x))
    BY <1>2, <1>3, <2>1
  <2> QED
    BY <1>1, <2>2, <2>3
<1>10. CASE FailTimerFires(p)
  <2> DEFINE x == [peer[p] EXCEPT !.failTimer = FALSE,
                     !.told = @ \/ peer[p].conn \in {"failed", "disconnected"}]
  <2>1. Unmoved(peer[p], x) /\ Unmoved(peer[p], peer[p])
    BY <1>0 DEF Unmoved, Negotiator
  <2>2. Becomes(p, peer[p]) \/ Becomes(p, x)
    BY <1>10 DEF FailTimerFires
  <2> QED
    BY <1>1, <2>1, <2>2
<1>11. CASE Drop(p)
  <2>1. wire[p] = <<>> /\ wire' = [wire EXCEPT ![p] = <<>>]
          /\ UNCHANGED <<peer, offers>>
    BY <1>11 DEF Drop
  <2>2. wire' = wire
    BY <2>1 DEF NegotiationTypes
  <2>3. Unmoved(peer[p], peer[p])
    BY DEF Unmoved
  <2> QED
    BY <1>0, <2>1, <2>2, <2>3, PeerUnmoved
<1>12. CASE Restore(p)
  <2> DEFINE x == [peer[p] EXCEPT !.restarting = FALSE]
  <2>1. Unmoved(peer[p], x) /\ x \in Negotiator /\ Unmoved(peer[p], peer[p])
    BY <1>0 DEF Unmoved, Negotiator
  <2>2. /\ UNCHANGED <<wire, offers>>
        /\ \/ peer' = peer
           \/ peer' = [peer EXCEPT ![p] = ClearRecovery(peer[p])]
           \/ peer' = [peer EXCEPT ![p] = MaybeRestartIce(x)]
    BY <1>12 DEF Restore
  <2> HIDE DEF x
  <2>3. Unmoved(peer[p], ClearRecovery(peer[p]))
          /\ Unmoved(peer[p], MaybeRestartIce(x))
    BY <1>0, <1>2, <1>3, <2>1
  <2> QED
    BY <1>0, <2>1, <2>2, <2>3, PeerUnmoved
<1>13. CASE GiveUp(p)
  <2>1. UNCHANGED <<peer, wire, offers>> /\ Unmoved(peer[p], peer[p])
    BY <1>13 DEF GiveUp, Unmoved
  <2> QED
    BY <1>0, <2>1, PeerUnmoved
<1> QED
  BY <1>4, <1>5, <1>6, <1>7, <1>8, <1>9, <1>10, <1>11, <1>12, <1>13

(* The end of an operation keeps the two peers coordinated. *)
LEMMA EndedKeeps ==
  ASSUME NegotiationTypes, Coordinated, NEW p \in Peer, Ended(p), ~lost', ~raced'
  PROVE  Coordinated'
<1>1. CASE p = "polite"
  <2>1. CASE OfferEnds("polite")
    BY <2>1, PoliteMakesOffer DEF OfferEnds
  <2>2. CASE SetEnds("polite")
    <3>1. Ends("polite", "set")
      BY <2>2 DEF SetEnds
    <3>2. CASE MakeOffer("polite")
      BY <3>1, <3>2, PoliteMakesOffer
    <3>3. CASE ~MakeOffer("polite")
      <4>1. /\ peer' = [peer EXCEPT !["polite"] =
                          [Rest("polite") EXCEPT !.making = FALSE]]
            /\ UNCHANGED <<wire, socket, offers, restarts, blips, drops, lost,
                           raced>>
        BY <2>2, <3>3 DEF SetEnds
      <4> QED
        BY <3>1, <4>1, PoliteSetRefused
    <3> QED
      BY <3>2, <3>3
  <2> QED
    BY <1>1, <2>1, <2>2, PoliteMuteEnds, PoliteCreateEnds, PoliteRollbackEnds,
       PoliteRemoteEnds, PoliteReplyEnds, PoliteAnswerEnds, PoliteCapEnds DEF Ended
<1>2. CASE p = "impolite"
  <2>1. CASE OfferEnds("impolite")
    BY <2>1, ImpoliteMakesOffer DEF OfferEnds
  <2>2. /\ ~CreateEnds("impolite") /\ ~SetEnds("impolite")
        /\ ~RollbackEnds("impolite")
    BY ImpoliteNeverDoes DEF CreateEnds, SetEnds, RollbackEnds
  <2> QED
    BY <1>2, <2>1, <2>2, ImpoliteMuteEnds, ImpoliteRemoteEnds, ImpoliteReplyEnds,
       ImpoliteAnswerEnds, ImpoliteCapEnds DEF Ended
<1> QED
  BY <1>1, <1>2 DEF Peer

(* And so does every other step. *)
LEMMA StepKeeps ==
  ASSUME NegotiationTypes, Coordinated, NegotiationNext, ~lost', ~raced'
  PROVE  Coordinated'
<1>1. PICK p \in Peer :
        \/ PrepareRound(p) \/ Open(p) \/ EndRound(p)
        \/ NegotiationNeeded(p) \/ Ended(p)
        \/ ReceiveStray(p) \/ ReceiveOffer(p) \/ ReceiveAnswer(p)
        \/ Checking(p) \/ Connected(p) \/ Disconnected(p) \/ Failed(p)
        \/ RestartTimerFires(p) \/ FailTimerFires(p)
        \/ Drop(p) \/ Restore(p) \/ GiveUp(p)
  BY DEF NegotiationNext
<1>2. CASE Ended(p)
  BY <1>2, EndedKeeps
<1>3. CASE ReceiveStray(p)
  BY <1>3, StrayArrives
<1>4. CASE p = "polite" /\ (PrepareRound(p) \/ EndRound(p) \/ NegotiationNeeded(p)
                              \/ ReceiveOffer(p) \/ ReceiveAnswer(p))
  BY <1>4, PolitePrepares, PoliteEndsRound, PoliteNeeds, PoliteReceivesOffer,
     PoliteReceivesAnswer
<1>5. CASE p = "impolite" /\ (PrepareRound(p) \/ EndRound(p) \/ NegotiationNeeded(p)
                              \/ ReceiveOffer(p) \/ ReceiveAnswer(p))
  <2>1. ReceiveOffer("impolite") => Coordinated'
    BY ImpoliteIgnores, ImpoliteTakes
  <2> QED
    BY <1>5, <2>1, ImpolitePrepares, ImpoliteEndsRound, ImpoliteNeeds,
       ImpoliteReceivesAnswer
<1> QED
  BY <1>1, <1>2, <1>3, <1>4, <1>5, MediaKeeps DEF Peer

(* Nothing has happened yet. *)
LEMMA NegotiationBegins ==
  NegotiationInit => NInv
<1> SUFFICES ASSUME NegotiationInit PROVE NInv
  OBVIOUS
<1>1. /\ polite = NewPeer /\ impolite = NewPeer
      /\ toPolite = <<>> /\ toImpolite = <<>> /\ offers = 0
  BY DEF NegotiationInit, Peer, polite, impolite, toPolite, toImpolite
<1>2. NegotiationTypes
  <2>1. NewPeer \in Negotiator
    BY DEF NewPeer, Negotiator
  <2> QED
    <3>1. peer \in [Peer -> Negotiator]
      BY <2>1 DEF NegotiationInit
    <3>2. wire \in [Peer -> Seq([type : {"offer", "answer"}, id : Nat])]
      BY DEF NegotiationInit
    <3>3. socket \in [Peer -> {"up", "down", "gone"}]
      BY DEF NegotiationInit
    <3>4. {offers, blips, drops} \subseteq Nat /\ restarts \subseteq Nat
      BY DEF NegotiationInit
    <3>5. {lost, raced} \subseteq BOOLEAN
      BY DEF NegotiationInit
    <3> QED
      BY <3>1, <3>2, <3>3, <3>4, <3>5 DEF NegotiationTypes
<1>3. /\ \A a : ~Does(<<>>, a)
      /\ \A K, id : About(<<>>, K, id)
      /\ ~CarriesOffer(<<>>) /\ ~CarriesAnswer(<<>>)
      /\ \A s : ~EndsWith(<<>>, s)
  BY DEF Does, About, CarriesOffer, CarriesAnswer, EndsWith
<1>4. /\ NewPeer.pc = "waiting" /\ NewPeer.sig = "stable" /\ NewPeer.chain = <<>>
      /\ NewPeer.making = FALSE /\ NewPeer.pending = 0 /\ NewPeer.agreed = 0
      /\ NewPeer.capping = <<>> /\ NewPeer.broken = FALSE
  BY DEF NewPeer
<1>5. PeersFit
  <2>1. StateFits(NewPeer) /\ Numbered(NewPeer)
    BY <1>1, <1>3, <1>4 DEF StateFits, Numbered
  <2>2. PoliteChain(<<>>) /\ ImpoliteChain(<<>>)
    BY DEF PoliteChain, ImpoliteChain
  <2> QED
    BY <1>1, <1>4, <2>1, <2>2 DEF PeersFit
<1>6. /\ ~SentToPolite /\ ~TakenByPolite /\ ~AppliedByPolite
      /\ ~CappedByPolite /\ ~ReturnedToImpolite /\ ~SettledByImpolite
  BY <1>1, <1>3, <1>4 DEF SentToPolite, TakenByPolite, AppliedByPolite,
     CappedByPolite, ReturnedToImpolite, SettledByImpolite
<1>7. /\ ~SentToImpolite /\ ~TakenByImpolite /\ ~AppliedByImpolite
      /\ ~CappedByImpolite /\ ~ReturnedToPolite /\ ~SettledByPolite
  BY <1>1, <1>3, <1>4 DEF SentToImpolite, TakenByImpolite, AppliedByImpolite,
     CappedByImpolite, ReturnedToPolite, SettledByPolite
<1>8. OnePlace /\ OneExchange
  BY <1>6, <1>7 DEF OnePlace, OneExchange
<1>9. OwnersWait
  BY <1>1, <1>3, <1>4, <1>6, <1>7 DEF OwnersWait, InProgressI, InProgressP
<1>10. WiresFit
  BY <1>1, <1>4 DEF WiresFit, WireToPolite, Fresh
<1>11. CapsAreOld
  BY <1>1, <1>4 DEF CapsAreOld
<1>12. ImpoliteProceeds /\ PoliteProceeds /\ Agree
  BY <1>1, <1>4 DEF ImpoliteProceeds, PoliteProceeds, Agree
<1> QED
  BY <1>2, <1>5, <1>8, <1>9, <1>10, <1>11, <1>12 DEF NInv, Coordinated

(* lost and raced are never taken back. *)
LEMMA HistoryStays ==
  ASSUME NegotiationTypes, NegotiationNext
  PROVE  (lost => lost') /\ (raced => raced')
<1>1. PICK p \in Peer :
        \/ PrepareRound(p) \/ Open(p) \/ EndRound(p)
        \/ NegotiationNeeded(p) \/ Ended(p)
        \/ ReceiveStray(p) \/ ReceiveOffer(p) \/ ReceiveAnswer(p)
        \/ Checking(p) \/ Connected(p) \/ Disconnected(p) \/ Failed(p)
        \/ RestartTimerFires(p) \/ FailTimerFires(p)
        \/ Drop(p) \/ Restore(p) \/ GiveUp(p)
  BY DEF NegotiationNext
<1>2. CASE Ended(p)
  <2>1. ASSUME MakeOffer(p) PROVE (lost => lost') /\ (raced => raced')
    <3>1. raced' = raced /\ lost' = (lost \/ ~Reaches(p))
      BY <2>1 DEF MakeOffer, Send
    <3> QED
      BY <3>1
  <2>2. CASE MuteEnds(p) \/ OfferEnds(p) \/ CreateEnds(p) \/ SetEnds(p)
    BY <2>1, <2>2 DEF MuteEnds, OfferEnds, CreateEnds, SetEnds
  <2>3. CASE RemoteEnds(p) \/ AnswerEnds(p)
    BY <2>3 DEF RemoteEnds, AnswerEnds
  <2>6. CASE RollbackEnds(p)
    <3>1. lost' = lost /\ raced' = (raced \/ peer[p].sig = "stable")
      BY <2>6 DEF RollbackEnds
    <3> QED
      BY <3>1
  <2>4. CASE ReplyEnds(p)
    BY <2>4 DEF ReplyEnds, Send
  <2>5. CASE CapEnds(p)
    BY <2>5 DEF CapEnds, Send
  <2> QED
    BY <1>2, <2>2, <2>3, <2>4, <2>5, <2>6 DEF Ended
<1>3. CASE PrepareRound(p) \/ Open(p) \/ EndRound(p) \/ NegotiationNeeded(p)
  BY <1>3 DEF PrepareRound, Open, EndRound, NegotiationNeeded
<1>4. CASE ReceiveStray(p) \/ ReceiveOffer(p) \/ ReceiveAnswer(p)
  <2>1. CASE ReceiveStray(p)
    <3>1. /\ raced' = raced
          /\ lost' = (lost \/ ~(p = "impolite" /\ peer[p].pc = "waiting"
                                   /\ Head(wire[p]).type = "offer"))
      BY <2>1 DEF ReceiveStray
    <3> QED
      BY <3>1
  <2>2. CASE ReceiveOffer(p)
    <3>1. lost' = lost /\ raced' = (raced \/ (Ignores(p) /\ Answering(p)))
      BY <2>2 DEF ReceiveOffer
    <3> QED
      BY <3>1
  <2> QED
    BY <1>4, <2>1, <2>2 DEF ReceiveAnswer
<1>5. CASE Checking(p) \/ Connected(p) \/ Disconnected(p) \/ Failed(p)
  BY <1>5 DEF Checking, Connected, Disconnected, Failed, Becomes
<1>6. CASE RestartTimerFires(p) \/ FailTimerFires(p)
  BY <1>6 DEF RestartTimerFires, FailTimerFires, Becomes
<1>7. CASE Drop(p) \/ Restore(p) \/ GiveUp(p)
  <2>1. CASE Drop(p)
    <3>1. raced' = raced /\ lost' = (lost \/ wire[p] # <<>>)
      BY <2>1 DEF Drop
    <3> QED
      BY <3>1
  <2> QED
    BY <1>7, <2>1 DEF Restore, GiveUp
<1> QED
  BY <1>1, <1>2, <1>3, <1>4, <1>5, <1>6, <1>7

-----------------------------------------------------------------------------
(* PerfectNegotiation: the theorems *)

(* The two negotiators stay coordinated whatever collides. *)
THEOREM NegotiationInvariant == NegotiationSpec => []NInv
<1>1. NegotiationInit => NInv
  BY NegotiationBegins
<1>2. NInv /\ [NegotiationNext]_negotiationVars => NInv'
  <2> SUFFICES ASSUME NInv, [NegotiationNext]_negotiationVars PROVE NInv'
    OBVIOUS
  <2>1. CASE NegotiationNext
    <3>1. NegotiationTypes'
      BY <2>1, ActionsTyped DEF NInv, NegotiationNext
    <3>2. ~lost' /\ ~raced' => Coordinated
      BY <2>1, HistoryStays DEF NInv
    <3>3. ~lost' /\ ~raced' => Coordinated'
      BY <2>1, <3>2, StepKeeps DEF NInv
    <3> QED
      BY <3>1, <3>3 DEF NInv
  <2>2. CASE UNCHANGED negotiationVars
    <3>1. NegotiationTypes'
      BY <2>2 DEF NInv, negotiationVars, NegotiationTypes
    <3>2. Unmoved(polite, polite') /\ Unmoved(impolite, impolite')
      BY <2>2 DEF Unmoved, negotiationVars, polite, impolite
    <3>3. UNCHANGED <<wire, offers, lost, raced>>
      BY <2>2 DEF negotiationVars
    <3>4. Coordinated => Coordinated'
      BY <3>2, <3>3, UnmovedKeeps
    <3> QED
      BY <3>1, <3>3, <3>4 DEF NInv
  <2> QED
    BY <2>1, <2>2
<1> QED
  BY <1>1, <1>2, PTL DEF NegotiationSpec

(* The types of the negotiators, the wires and the history. *)
THEOREM NegotiationTypeInvariant == NegotiationSpec => []NegotiationTypes
<1>1. NInv => NegotiationTypes
  BY DEF NInv
<1> QED
  BY <1>1, NegotiationInvariant, PTL

(* Whatever offers collide, both sides end up in the same exchange. *)
THEOREM NegotiationGlare == NegotiationSpec => []GlareResolves
<1>1. NInv => GlareResolves
  <2> SUFFICES ASSUME NInv, Quiet, ~lost, ~raced
               PROVE  /\ \A p \in Peer : peer[p].sig = "stable"
                      /\ polite.agreed = impolite.agreed
                      /\ polite.agreed # 0
    BY DEF GlareResolves, polite, impolite
  <2>1. Coordinated /\ NegotiationTypes
    BY DEF NInv
  <2>2. /\ polite.pc = "live" /\ impolite.pc = "live"
        /\ toPolite = <<>> /\ toImpolite = <<>>
        /\ polite.chain = <<>> /\ impolite.chain = <<>>
        /\ polite.capping = <<>> /\ impolite.capping = <<>>
        /\ polite.need = "none" \/ polite.sig # "stable"
        /\ impolite.need = "none" \/ impolite.sig # "stable"
    BY DEF Quiet, Live, Peer, polite, impolite, toPolite, toImpolite
  <2>3. /\ \A a : ~Does(<<>>, a)
        /\ ~CarriesOffer(<<>>) /\ ~CarriesAnswer(<<>>)
        /\ \A s : ~EndsWith(<<>>, s)
    BY DEF Does, CarriesOffer, CarriesAnswer, EndsWith
  <2>4. /\ polite.sig # "remote" /\ impolite.sig # "remote"
        /\ ~impolite.making
        /\ polite.agreed = 0 => polite.need # "none"
    BY <2>1, <2>2, <2>3 DEF Coordinated, PeersFit, StateFits
  <2>5. ~InProgressI
    BY <2>2, <2>3, <2>4 DEF InProgressI, SentToPolite, TakenByPolite,
       AppliedByPolite, CappedByPolite, ReturnedToImpolite, SettledByImpolite
  <2>6. ~InProgressP
    BY <2>2, <2>3, <2>4 DEF InProgressP, SentToImpolite, TakenByImpolite,
       AppliedByImpolite, CappedByImpolite, ReturnedToPolite, SettledByPolite
  <2>7. BothThere
    BY <2>2 DEF BothThere
  <2>8. impolite.sig = "stable"
    BY <2>1, <2>4, <2>5, <2>7, Typed DEF Coordinated, ImpoliteProceeds
  <2>9. polite.sig = "stable"
    BY <2>1, <2>2, <2>4, <2>6, <2>7, <2>8, Typed DEF Coordinated, PoliteProceeds
  <2>10. polite.agreed = impolite.agreed
    BY <2>1, <2>2, <2>5, <2>6, <2>7
       DEF Coordinated, Agree, InProgressI, InProgressP
  <2>11. \A p \in Peer : peer[p].sig = "stable"
    BY <2>8, <2>9 DEF Peer, polite, impolite
  <2> QED
    BY <2>2, <2>4, <2>9, <2>10, <2>11
<1> QED
  BY <1>1, NegotiationInvariant, PTL

(* RENEGOTIATION_FAILED is raised only after a loss or a race. *)
THEOREM NegotiationNoFalseFailure == NegotiationSpec => []NoFalseFailure
<1>1. NInv => NoFalseFailure
  BY DEF NInv, NoFalseFailure, Coordinated, PeersFit, Peer, polite, impolite
<1> QED
  BY <1>1, NegotiationInvariant, PTL

=============================================================================
