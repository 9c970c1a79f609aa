--------------------------- MODULE MediaTransport ---------------------------
(***************************************************************************)
(* The contract of apps/protocol/media_transport.py: what a caller of the  *)
(* abstract class MediaTransport may rely on, as its reference             *)
(* implementation FakeMediaTransport shows it.  Every operation is allowed *)
(* in every state; each one says which call the transport is in, whether   *)
(* it is open and whether local media is sent.  Nothing else changes them. *)
(***************************************************************************)
EXTENDS Naturals

CONSTANTS
  Room,      \* room ids
  Partner,   \* partner ids
  None       \* Python's None

VARIABLES
  state,     \* MediaTransportState
  room,      \* current_room_id
  partner,   \* current_partner_id
  muted,     \* audio_muted, video_muted (always equal)
  ops        \* operations so far: the length of call_history

vars == <<state, room, partner, muted, ops>>

Init ==
  /\ state = "idle"
  /\ room = None
  /\ partner = None
  /\ muted = TRUE
  /\ ops = 0

preconnect(r, p) ==
  /\ state' = "preconnected"
  /\ room' = r
  /\ partner' = p
  /\ muted' = TRUE
  /\ ops' = ops + 1

open ==
  /\ state' = "open"
  /\ muted' = FALSE
  /\ ops' = ops + 1
  /\ UNCHANGED <<room, partner>>

switch_partner(r, p) ==
  /\ state' = "open"
  /\ room' = r
  /\ partner' = p
  /\ muted' = FALSE
  /\ ops' = ops + 1

leave ==
  /\ state' = "closed"
  /\ room' = None
  /\ partner' = None
  /\ muted' = TRUE
  /\ ops' = ops + 1

Next ==
  \/ \E r \in Room, p \in Partner : preconnect(r, p) \/ switch_partner(r, p)
  \/ open
  \/ leave

Spec == Init /\ [][Next]_vars

=============================================================================
