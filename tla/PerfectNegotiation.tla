------------------------- MODULE PerfectNegotiation -------------------------
(***************************************************************************)
(* The two PerfectNegotiators of a call (perfect_negotiator.js) and what   *)
(* the call room makes them do: both prepare a round, one of them also     *)
(* sends a manual offer, both answer the browser's negotiationneeded; a    *)
(* lost connection is restarted, and given up after a while.               *)
(*                                                                         *)
(* External: the RTCPeerConnection.  Its operations wait in a chain and    *)
(* are carried out one after the other; what a handler does after an await *)
(* happens in the same step in which the operation it waits for ends.      *)
(* Only setParameters, which caps the bitrate of an unmuted sender, is not *)
(* in the chain.  Operations of a closed connection never end.  ICE        *)
(* candidates change nothing that is modelled here.                        *)
(*                                                                         *)
(* Signals travel by the socket of either side and the relay, in order.    *)
(* Message handlers are not serialised: a signal is taken up while earlier *)
(* ones still wait for their operations.                                   *)
(***************************************************************************)
EXTENDS Naturals, Sequences

CONSTANTS
  MaxOffers,  \* bound on the offers made
  MaxBlips,   \* bound on interruptions of the media path
  MaxDrops    \* bound on losses of a signalling socket

ASSUME NegotiationAssumption == {MaxOffers, MaxBlips, MaxDrops} \subseteq Nat

\* isPolite = myId < partnerId.  Pairs are stored in canonical order and
\* participant_a is the offerer: the polite peer.
Peer == {"polite", "impolite"}
Other(p) == IF p = "polite" THEN "impolite" ELSE "polite"
Offerer == "polite"

VARIABLES
  peer,      \* peer[p]: the PerfectNegotiator of p and its RTCPeerConnection
  wire,      \* wire[p]: signals on their way to p
  socket,    \* socket[p]: "up", "down" (signalling degraded), "gone"
  offers,    \* offers made so far; they are numbered
  restarts,  \* the offers that restart ICE
  blips, drops,
  lost,      \* history: a signal was lost, apart from offers of the polite
             \* peer that reached the other before its round was prepared
  raced      \* history: one of the races at an await (see the properties)

negotiationVars ==
  <<peer, wire, socket, offers, restarts, blips, drops, lost, raced>>

\* An operation of the connection; id is the offer it is about.
Operation ==
  [do : {"mute", "create", "set", "offer", "remote", "reply", "rollback",
         "answer"},
   id : Nat]

Negotiator ==
  [pc : {"waiting", "live", "closed"},
   sig : {"stable", "local", "remote"},  \* signalingState
   chain : Seq(Operation),               \* operations that have not ended
   making : BOOLEAN,                     \* isMakingOffer
   need : {"none", "tracks", "ice"},     \* why negotiation is needed
   pending : Nat, agreed : Nat,          \* the offer in progress, the last
                                         \* one that was answered
   muted : BOOLEAN,
   capping : Seq(Nat),                   \* answers that wait for the cap
   conn : {"new", "checking", "connected", "disconnected", "failed"},
   base : Nat,                           \* agreed when conn failed
   restarting : BOOLEAN,                 \* _iceRestartInFlight
   restartTimer : BOOLEAN, failTimer : BOOLEAN,
   broken : BOOLEAN,                     \* RENEGOTIATION_FAILED was raised
   told : BOOLEAN]                       \* ICE_CONNECTION_FAILED was raised

NewPeer ==
  [pc |-> "waiting", sig |-> "stable", chain |-> <<>>, making |-> FALSE,
   need |-> "none", pending |-> 0, agreed |-> 0, muted |-> TRUE,
   capping |-> <<>>, conn |-> "new", base |-> 0, restarting |-> FALSE,
   restartTimer |-> FALSE, failTimer |-> FALSE, broken |-> FALSE,
   told |-> FALSE]

NegotiationTypes ==
  /\ peer \in [Peer -> Negotiator]
  /\ wire \in [Peer -> Seq([type : {"offer", "answer"}, id : Nat])]
  /\ socket \in [Peer -> {"up", "down", "gone"}]
  /\ {offers, blips, drops} \subseteq Nat
  /\ restarts \subseteq Nat
  /\ {lost, raced} \subseteq BOOLEAN

NegotiationInit ==
  /\ peer = [p \in Peer |-> NewPeer]
  /\ wire = [p \in Peer |-> <<>>]
  /\ socket = [p \in Peer |-> "up"]
  /\ offers = 0 /\ restarts = {} /\ blips = 0 /\ drops = 0
  /\ lost = FALSE /\ raced = FALSE

Live(p) == peer[p].pc = "live"
Op(do, id) == [do |-> do, id |-> id]
Queue(x, do, id) == [x EXCEPT !.chain = Append(@, Op(do, id))]

\* sendSignal drops the message when the own socket is not open, the relay
\* when the partner's is not.
Reaches(p) == socket[p] = "up" /\ socket[Other(p)] = "up"

Send(p, type, id) ==
  /\ wire' = IF Reaches(p)
             THEN [wire EXCEPT ![Other(p)] =
                     Append(@, [type |-> type, id |-> id])]
             ELSE wire
  /\ lost' = (lost \/ ~Reaches(p))

\* External: signalling is stable again.  A request for an ICE restart is
\* satisfied only by an exchange that restarts.
Complete(x, id) ==
  [x EXCEPT !.sig = "stable", !.pending = 0, !.agreed = id,
            !.need = IF x.need = "ice" /\ id \notin restarts THEN "ice" ELSE "none"]

-----------------------------------------------------------------------------
(* The round *)

\* prepareRound (or the first acquireLocalMedia and preconnect): a new peer
\* connection, its tracks, and the muting of its senders, which is queued.
PrepareRound(p) ==
  /\ peer[p].pc = "waiting"
  /\ peer' = [peer EXCEPT ![p] =
       Queue([@ EXCEPT !.pc = "live", !.need = "tracks"], "mute", 0)]
  /\ UNCHANGED <<wire, socket, offers, restarts, blips, drops, lost, raced>>

\* open: the senders get their tracks.
Open(p) ==
  /\ Live(p) /\ peer[p].muted
  /\ peer' = [peer EXCEPT ![p].muted = FALSE]
  /\ UNCHANGED <<wire, socket, offers, restarts, blips, drops, lost, raced>>

\* endRound with _teardownPeerConnection.
EndRound(p) ==
  /\ Live(p)
  /\ peer' = [peer EXCEPT ![p] =
       [@ EXCEPT !.pc = "closed", !.chain = <<>>, !.restarting = FALSE,
                 !.restartTimer = FALSE, !.failTimer = FALSE]]
  /\ UNCHANGED <<wire, socket, offers, restarts, blips, drops, lost, raced>>

-----------------------------------------------------------------------------
(* Offers *)

\* onnegotiationneeded: the browser raises it in a stable connection that has
\* nothing queued.
NegotiationNeeded(p) ==
  /\ Live(p) /\ offers < MaxOffers
  /\ peer[p].need # "none" /\ peer[p].sig = "stable" /\ peer[p].chain = <<>>
  /\ peer' = [peer EXCEPT ![p] = Queue([@ EXCEPT !.making = TRUE], "offer", 0)]
  /\ UNCHANGED <<wire, socket, offers, restarts, blips, drops, lost, raced>>

\* The peer after the first operation of its chain has left it.
Rest(p) == [peer[p] EXCEPT !.chain = Tail(@)]

Ends(p, do) == Live(p) /\ peer[p].chain # <<>> /\ Head(peer[p].chain).do = do

\* setLocalDescription of a new offer, which is then sent.
MakeOffer(p) ==
  /\ peer' = [peer EXCEPT ![p] =
       [Rest(p) EXCEPT !.sig = "local", !.pending = offers + 1,
                       !.making = FALSE]]
  /\ offers' = offers + 1
  /\ restarts' = IF peer[p].need = "ice" THEN restarts \cup {offers + 1}
                 ELSE restarts
  /\ Send(p, "offer", offers + 1)
  /\ UNCHANGED <<socket, blips, drops, raced>>

OfferEnds(p) == Ends(p, "offer") /\ MakeOffer(p)

\* preconnect has muted the senders; the offerer goes on to createManualOffer.
MuteEnds(p) ==
  /\ Ends(p, "mute")
  /\ peer' = [peer EXCEPT ![p] =
       IF p = Offerer
       THEN Queue([Rest(p) EXCEPT !.making = TRUE], "create", 0) ELSE Rest(p)]
  /\ UNCHANGED <<wire, socket, offers, restarts, blips, drops, lost, raced>>

CreateEnds(p) ==
  /\ Ends(p, "create")
  /\ peer' = [peer EXCEPT ![p] = Queue(Rest(p), "set", peer[p].agreed)]
  /\ UNCHANGED <<wire, socket, offers, restarts, blips, drops, lost, raced>>

\* setLocalDescription(offer) is refused while an offer of the partner is
\* being answered, and after an answer the offer is not the last one created;
\* the exception is logged.
SetEnds(p) ==
  /\ Ends(p, "set")
  /\ IF peer[p].sig = "remote" \/ peer[p].agreed # Head(peer[p].chain).id
     THEN /\ peer' = [peer EXCEPT ![p] = [Rest(p) EXCEPT !.making = FALSE]]
          /\ UNCHANGED <<wire, socket, offers, restarts, blips, drops, lost,
                         raced>>
     ELSE MakeOffer(p)

-----------------------------------------------------------------------------
(* handleSignalingMessage *)

\* Plausible bug: an offer that is still being made does not count.
CollisionStateOnly(x) == x.sig # "stable"

\* offerCollision
Collision(x) == x.making \/ x.sig # "stable"

\* Plausible bug: both peers stand on their own offer.
IgnoresBoth(p) == Collision(peer[p])

\* ignoreOffer
Ignores(p) == p = "impolite" /\ Collision(peer[p])

Answering(p) == \E n \in DOMAIN peer[p].chain : peer[p].chain[n].do = "answer"

\* A signal for a room that is not prepared, or for a closed connection.
ReceiveStray(p) ==
  /\ wire[p] # <<>> /\ ~Live(p)
  /\ wire' = [wire EXCEPT ![p] = Tail(@)]
  /\ lost' = (lost \/ ~(p = "impolite" /\ peer[p].pc = "waiting"
                          /\ Head(wire[p]).type = "offer"))
  /\ UNCHANGED <<peer, socket, offers, restarts, blips, drops, raced>>

\* _handleRemoteOffer up to its first await, or an offer that is ignored.
ReceiveOffer(p) ==
  LET m == Head(wire[p])
  IN  /\ Live(p) /\ wire[p] # <<>> /\ m.type = "offer"
      /\ wire' = [wire EXCEPT ![p] = Tail(@)]
      /\ peer' = IF Ignores(p) THEN peer
                 ELSE [peer EXCEPT ![p] =
                         Queue(@, IF Collision(@) THEN "rollback" ELSE "remote",
                               m.id)]
      /\ raced' = (raced \/ (Ignores(p) /\ Answering(p)))
      /\ UNCHANGED <<socket, offers, restarts, blips, drops, lost>>

\* _handleRemoteAnswer
ReceiveAnswer(p) ==
  LET m == Head(wire[p])
  IN  /\ Live(p) /\ wire[p] # <<>> /\ m.type = "answer"
      /\ wire' = [wire EXCEPT ![p] = Tail(@)]
      /\ peer' = [peer EXCEPT ![p] = Queue(@, "answer", m.id)]
      /\ UNCHANGED <<socket, offers, restarts, blips, drops, lost, raced>>

\* setLocalDescription(rollback) throws in a stable connection: the offer has
\* been created but not set.
RollbackEnds(p) ==
  LET id == Head(peer[p].chain).id
  IN  /\ Ends(p, "rollback")
      /\ peer' = [peer EXCEPT ![p] =
           IF peer[p].sig = "stable" THEN [Rest(p) EXCEPT !.broken = TRUE]
           ELSE Queue([Rest(p) EXCEPT !.sig = "stable", !.pending = 0],
                      "remote", id)]
      /\ raced' = (raced \/ peer[p].sig = "stable")
      /\ UNCHANGED <<wire, socket, offers, restarts, blips, drops, lost>>

\* setRemoteDescription(offer); an own offer is rolled back by the browser.
RemoteEnds(p) ==
  /\ Ends(p, "remote")
  /\ peer' = [peer EXCEPT ![p] =
       Queue([Rest(p) EXCEPT !.sig = "remote",
                             !.pending = Head(peer[p].chain).id], "reply", 0)]
  /\ UNCHANGED <<wire, socket, offers, restarts, blips, drops, lost, raced>>

\* setLocalDescription() makes the answer; a muted sender has no bitrate to
\* cap, so that the answer is sent at once.
ReplyEnds(p) ==
  /\ Ends(p, "reply")
  /\ LET id == peer[p].pending
         done == Complete(Rest(p), id)
     IN  /\ peer[p].sig = "remote"
         /\ IF peer[p].muted
            THEN peer' = [peer EXCEPT ![p] = done] /\ Send(p, "answer", id)
            ELSE /\ peer' = [peer EXCEPT ![p] =
                               [done EXCEPT !.capping = Append(@, id)]]
                 /\ UNCHANGED <<wire, lost>>
  /\ UNCHANGED <<socket, offers, restarts, blips, drops, raced>>

\* The cap is set: pc.localDescription is sent, whatever it is by now, or the
\* connection is gone and reading it throws.
CapEnds(p) ==
  LET capped == [peer[p] EXCEPT !.capping = Tail(@)]
      description == IF peer[p].sig = "local" THEN peer[p].pending
                     ELSE peer[p].agreed
  IN  /\ peer[p].capping # <<>>
      /\ IF Live(p)
         THEN peer' = [peer EXCEPT ![p] = capped] /\ Send(p, "answer", description)
         ELSE /\ peer' = [peer EXCEPT ![p] = [capped EXCEPT !.broken = TRUE]]
              /\ UNCHANGED <<wire, lost>>
      /\ raced' = (raced \/ ~Live(p) \/ description # Head(peer[p].capping))
      /\ UNCHANGED <<socket, offers, restarts, blips, drops>>

\* setRemoteDescription(answer) throws unless an own offer is waiting for it.
\* External: an answer made of an offer is no answer to anything.
AnswerEnds(p) ==
  LET id == Head(peer[p].chain).id
  IN  /\ Ends(p, "answer")
      /\ peer' = [peer EXCEPT ![p] =
           IF peer[p].sig = "local" /\ peer[p].pending = id
           THEN Complete(Rest(p), id)
           ELSE [Rest(p) EXCEPT !.broken = TRUE]]
      /\ UNCHANGED <<wire, socket, offers, restarts, blips, drops, lost, raced>>

-----------------------------------------------------------------------------
(* The media path: _onPeerConnectionState *)

\* restartIce asks for a negotiation; not while one is in flight.
MaybeRestartIce(x) ==
  IF x.restarting \/ x.conn = "connected" THEN x
  ELSE [x EXCEPT !.restarting = TRUE, !.need = "ice"]

ClearRecovery(x) ==
  [x EXCEPT !.restartTimer = FALSE, !.failTimer = FALSE, !.restarting = FALSE]

\* The state of one peer becomes x; nothing else changes.
Becomes(p, x) ==
  /\ peer' = [peer EXCEPT ![p] = x]
  /\ UNCHANGED <<wire, socket, offers, restarts, blips, drops, lost, raced>>

\* External: after a failure only a new exchange makes ICE try again.
Checking(p) ==
  /\ Live(p) /\ peer[p].conn = "failed" /\ peer[p].agreed # peer[p].base
  /\ Becomes(p, [peer[p] EXCEPT !.conn = "checking"])

\* "connected"
Connected(p) ==
  /\ Live(p) /\ peer[p].conn \in {"new", "checking", "disconnected"}
  /\ peer[p].agreed # 0 /\ peer[p].agreed = peer[Other(p)].agreed
  /\ Becomes(p, [ClearRecovery(peer[p]) EXCEPT !.conn = "connected"])

\* "disconnected": _scheduleIceRestart
Disconnected(p) ==
  /\ Live(p) /\ peer[p].conn = "connected"
  /\ blips < MaxBlips
  /\ blips' = blips + 1
  /\ peer' = [peer EXCEPT ![p] =
       [@ EXCEPT !.conn = "disconnected",
                 !.restartTimer = peer[p].restartTimer \/ ~peer[p].restarting]]
  /\ UNCHANGED <<wire, socket, offers, restarts, drops, lost, raced>>

\* "failed", whatever came before: _maybeRestartIce and
\* _schedulePermanentFailure.  External: nothing can fail before the first
\* exchange, and a path fails for the first time at most MaxBlips times.
Failed(p) ==
  LET first == peer[p].conn \in {"new", "connected"}
  IN  /\ Live(p) /\ peer[p].conn # "failed" /\ peer[p].agreed # 0
      /\ first => blips < MaxBlips
      /\ blips' = IF first THEN blips + 1 ELSE blips
      /\ peer' = [peer EXCEPT ![p] =
           MaybeRestartIce([@ EXCEPT !.conn = "failed", !.base = peer[p].agreed,
                                     !.failTimer = TRUE])]
      /\ UNCHANGED <<wire, socket, offers, restarts, drops, lost, raced>>

RestartTimerFires(p) ==
  /\ Live(p) /\ peer[p].restartTimer
  /\ Becomes(p, MaybeRestartIce([peer[p] EXCEPT !.restartTimer = FALSE]))

\* Plausible bug: a failure that is put off is forgotten.
FailTimerFiresOnce(p) ==
  /\ Live(p) /\ peer[p].failTimer
  /\ Becomes(p, [peer[p] EXCEPT !.failTimer = FALSE,
       !.told = @ \/ (socket[p] # "down"
                        /\ peer[p].conn \in {"failed", "disconnected"})])

\* The timer of _schedulePermanentFailure: put off while signalling is
\* degraded, nothing if the path has recovered.
FailTimerFires(p) ==
  /\ Live(p) /\ peer[p].failTimer
  /\ Becomes(p, IF socket[p] = "down" THEN peer[p]
                ELSE [peer[p] EXCEPT !.failTimer = FALSE,
                        !.told = @ \/ peer[p].conn \in {"failed", "disconnected"}])

-----------------------------------------------------------------------------
(* The signalling socket *)

\* The socket is lost with the signals on their way to this peer.
Drop(p) ==
  /\ socket[p] = "up" /\ drops < MaxDrops
  /\ drops' = drops + 1
  /\ socket' = [socket EXCEPT ![p] = "down"]
  /\ lost' = (lost \/ wire[p] # <<>>)
  /\ wire' = [wire EXCEPT ![p] = <<>>]
  /\ UNCHANGED <<peer, offers, restarts, blips, raced>>

\* recoverAfterSignalingRestore
Restore(p) ==
  /\ socket[p] = "down"
  /\ socket' = [socket EXCEPT ![p] = "up"]
  /\ peer' = IF ~Live(p) THEN peer
             ELSE [peer EXCEPT ![p] =
                     IF @.conn = "connected" THEN ClearRecovery(@)
                     ELSE MaybeRestartIce([@ EXCEPT !.restarting = FALSE])]
  /\ UNCHANGED <<wire, offers, restarts, blips, drops, lost, raced>>

\* The reconnect window is exhausted.
GiveUp(p) ==
  /\ socket[p] = "down"
  /\ socket' = [socket EXCEPT ![p] = "gone"]
  /\ UNCHANGED <<peer, wire, offers, restarts, blips, drops, lost, raced>>

-----------------------------------------------------------------------------

\* An operation of the connection, or the cap, ends.
Ended(p) ==
  \/ MuteEnds(p) \/ OfferEnds(p) \/ CreateEnds(p) \/ SetEnds(p)
  \/ RollbackEnds(p) \/ RemoteEnds(p) \/ ReplyEnds(p) \/ AnswerEnds(p)
  \/ CapEnds(p)

NegotiationNext ==
  \E p \in Peer :
    \/ PrepareRound(p) \/ Open(p) \/ EndRound(p)
    \/ NegotiationNeeded(p) \/ Ended(p)
    \/ ReceiveStray(p) \/ ReceiveOffer(p) \/ ReceiveAnswer(p)
    \/ Checking(p) \/ Connected(p) \/ Disconnected(p) \/ Failed(p)
    \/ RestartTimerFires(p) \/ FailTimerFires(p)
    \/ Drop(p) \/ Restore(p) \/ GiveUp(p)

\* Timers fire, ICE comes to a result, and reconnecting ends one way or the
\* other.  Nothing else is promised.
Fairness ==
  \A p \in Peer :
    /\ WF_negotiationVars(FailTimerFires(p))
    /\ WF_negotiationVars(peer[p].conn = "checking" /\ (Connected(p) \/ Failed(p)))
    /\ WF_negotiationVars(Restore(p) \/ GiveUp(p))

NegotiationSpec ==
  NegotiationInit /\ [][NegotiationNext]_negotiationVars /\ Fairness

-----------------------------------------------------------------------------
(* Properties *)

\* Nothing is on its way and nobody has anything left to do.
Quiet ==
  \A p \in Peer :
    /\ Live(p) /\ socket[p] = "up"
    /\ wire[p] = <<>> /\ peer[p].chain = <<>> /\ peer[p].capping = <<>>
    /\ peer[p].need = "none" \/ peer[p].sig # "stable"

(***************************************************************************)
(* "Deterministic W3C Perfect Negotiation with rollback": whatever offers  *)
(* collide, when and however often, the two sides end up in the same       *)
(* exchange and none of them keeps waiting for an answer.  Not covered are *)
(* signals that got lost, and the races at an await: an offer taken up     *)
(* between createOffer and setLocalDescription or before a pending answer  *)
(* is applied, and a description read after the cap.                       *)
(***************************************************************************)
GlareResolves ==
  Quiet /\ ~lost /\ ~raced =>
    /\ \A p \in Peer : peer[p].sig = "stable"
    /\ peer["polite"].agreed = peer["impolite"].agreed
    /\ peer["polite"].agreed # 0

(***************************************************************************)
(* RENEGOTIATION_FAILED, which the participant is shown, is raised only in *)
(* these cases: an answer always finds the offer it belongs to.            *)
(***************************************************************************)
NoFalseFailure ==
  ~lost /\ ~raced => \A p \in Peer : ~peer[p].broken

(***************************************************************************)
(* A media path that has failed comes back or is reported                  *)
(* (_schedulePermanentFailure), also when signalling is lost meanwhile and *)
(* the report is put off, whatever becomes of the ICE restart.             *)
(***************************************************************************)
LossIsSettled ==
  \A p \in Peer :
    (Live(p) /\ peer[p].conn = "failed")
    ~> (peer[p].conn = "connected" \/ peer[p].told \/ ~Live(p))

=============================================================================
