---------------------------- MODULE LeaderLease ----------------------------
(***************************************************************************)
(* The database-backed leader lease of apps/events/leadership.py.          *)
(*                                                                         *)
(* One LeaderLease row (one lease_name) is shared by a set of application  *)
(* nodes.  Every call first reads the node's own clock (timezone.now())    *)
(* and then runs its SQL statements one by one, so the `now` a statement   *)
(* compares with may be old when the statement executes.  A statement that *)
(* writes the row is the last one of its transaction, so statement and     *)
(* commit are one step; a crash before the commit is a crash before the    *)
(* step.                                                                   *)
(*                                                                         *)
(* Node clocks run at the same rate but may differ: node n reads           *)
(* clock + offset[n], with 0 <= offset[n] <= MaxOffset.                    *)
(***************************************************************************)
EXTENDS Integers

CONSTANTS
  Node,        \* leader_id of every competing process
  NoOne,       \* leader of a row that has not been inserted yet
  TTL,         \* ttl_seconds
  MaxOffset,   \* largest difference between two node clocks
  MaxClock,    \* bound on the time a behaviour lasts
  MaxVersion   \* bound on the number of (re)acquisitions

ASSUME LeaseAssumption ==
  /\ NoOne \notin Node
  /\ TTL \in Nat \ {0}
  /\ MaxOffset \in Nat
  /\ MaxClock \in Nat
  /\ MaxVersion \in Nat

VARIABLES
  clock,   \* true time; the epoch is 0 and lies in the past
  offset,  \* offset[n]: how far node n's clock is ahead
  lease,   \* the LeaderLease row; version 0 means it does not exist
  pc,      \* pc[n]: the statement node n executes next
  now,     \* now[n]: the instant read at the start of n's current call
  until    \* until[n]: expires_at of the lease as of the last call that told
           \* n it is the holder, 0 once a call told it otherwise

vars == <<clock, offset, lease, pc, now, until>>

EPOCH == 0
Steps == {"idle", "update", "get", "insert", "renew", "check"}
Exists == lease.version > 0

TypeOK ==
  /\ clock \in Nat \ {0}
  /\ offset \in [Node -> 0..MaxOffset]
  /\ lease \in [leader : Node \cup {NoOne}, expires_at : Nat, version : Nat]
  /\ pc \in [Node -> Steps]
  /\ now \in [Node -> Nat]
  /\ until \in [Node -> Nat]

Init ==
  /\ clock = 1
  /\ offset \in [Node -> 0..MaxOffset]
  /\ lease = [leader |-> NoOne, expires_at |-> EPOCH, version |-> 0]
  /\ pc = [n \in Node |-> "idle"]
  /\ now = [n \in Node |-> 0]
  /\ until = [n \in Node |-> 0]

-----------------------------------------------------------------------------

\* A call starts by reading the local clock.
Call(n, step) ==
  /\ pc[n] = "idle"
  /\ pc' = [pc EXCEPT ![n] = step]
  /\ now' = [now EXCEPT ![n] = clock + offset[n]]
  /\ UNCHANGED <<clock, offset, lease, until>>

Goto(n, step) == pc' = [pc EXCEPT ![n] = step]

\* The call returns True: n is told it holds the lease that ends at e.
ReturnTrue(n, e) ==
  /\ Goto(n, "idle")
  /\ until' = [until EXCEPT ![n] = e]

ReturnFalse(n) ==
  /\ Goto(n, "idle")
  /\ until' = [until EXCEPT ![n] = 0]

AcquireCall(n) == Call(n, "update")

\* Plausible bug: the takeover forgets version = F("version") + 1.
AcquireUpdateSameVersion(n) ==
  /\ pc[n] = "update"
  /\ \/ /\ Exists
        /\ lease.expires_at < now[n]
        /\ lease' = [lease EXCEPT !.leader = n, !.expires_at = now[n] + TTL]
        /\ ReturnTrue(n, now[n] + TTL)
     \/ /\ ~(Exists /\ lease.expires_at < now[n])
        /\ Goto(n, "get")
        /\ UNCHANGED <<lease, until>>
  /\ UNCHANGED <<clock, offset, now>>

\* Step 1 of acquire_lease: UPDATE ... WHERE expires_at < now.
AcquireUpdate(n) ==
  /\ pc[n] = "update"
  /\ \/ /\ Exists
        /\ lease.expires_at < now[n]
        /\ lease.version < MaxVersion
        /\ lease' = [leader |-> n, expires_at |-> now[n] + TTL,
                     version |-> lease.version + 1]
        /\ ReturnTrue(n, now[n] + TTL)
     \/ /\ ~(Exists /\ lease.expires_at < now[n])
        /\ Goto(n, "get")
        /\ UNCHANGED <<lease, until>>
  /\ UNCHANGED <<clock, offset, now>>

\* Step 2: the caller may already hold the live lease.
AcquireGet(n) ==
  /\ pc[n] = "get"
  /\ \/ /\ Exists
        /\ lease.leader = n
        /\ lease.expires_at >= now[n]
        /\ ReturnTrue(n, lease.expires_at)
     \/ /\ Exists
        /\ ~(lease.leader = n /\ lease.expires_at >= now[n])
        /\ ReturnFalse(n)
     \/ /\ ~Exists
        /\ Goto(n, "insert")
        /\ UNCHANGED until
  /\ UNCHANGED <<clock, offset, lease, now>>

\* Step 3: INSERT; the unique constraint on lease_name lets one caller win.
AcquireInsert(n) ==
  /\ pc[n] = "insert"
  /\ \/ /\ ~Exists
        /\ lease' = [leader |-> n, expires_at |-> now[n] + TTL, version |-> 1]
        /\ ReturnTrue(n, now[n] + TTL)
     \/ /\ Exists
        /\ ReturnFalse(n)
        /\ UNCHANGED lease
  /\ UNCHANGED <<clock, offset, now>>

RenewCall(n) == Call(n, "renew")

\* Plausible bug: renew_lease does not filter on leader_id.
RenewUpdateAnyone(n) ==
  /\ pc[n] = "renew"
  /\ \/ /\ lease.expires_at >= now[n]
        /\ lease' = [lease EXCEPT !.expires_at = now[n] + TTL]
        /\ ReturnTrue(n, now[n] + TTL)
     \/ /\ lease.expires_at < now[n]
        /\ ReturnFalse(n)
        /\ UNCHANGED lease
  /\ UNCHANGED <<clock, offset, now>>

\* Plausible bug: renew_lease answers True without saving the new expiry.
RenewUpdateNotSaved(n) ==
  /\ pc[n] = "renew"
  /\ IF lease.leader = n /\ lease.expires_at >= now[n]
     THEN ReturnTrue(n, now[n] + TTL)
     ELSE ReturnFalse(n)
  /\ UNCHANGED <<clock, offset, lease, now>>

\* renew_lease: UPDATE ... WHERE leader_id = me AND expires_at >= now.
RenewUpdate(n) ==
  /\ pc[n] = "renew"
  /\ \/ /\ lease.leader = n
        /\ lease.expires_at >= now[n]
        /\ lease' = [lease EXCEPT !.expires_at = now[n] + TTL]
        /\ ReturnTrue(n, now[n] + TTL)
     \/ /\ ~(lease.leader = n /\ lease.expires_at >= now[n])
        /\ ReturnFalse(n)
        /\ UNCHANGED lease
  /\ UNCHANGED <<clock, offset, now>>

\* release_lease: one UPDATE, whatever the expiry; the caller stops leading.
Release(n) ==
  /\ pc[n] = "idle"
  /\ lease' = IF lease.leader = n THEN [lease EXCEPT !.expires_at = EPOCH]
                                  ELSE lease
  /\ until' = [until EXCEPT ![n] = 0]
  /\ UNCHANGED <<clock, offset, pc, now>>

IsLeaderCall(n) == Call(n, "check")

\* is_leader by way of get_current_leader: expires_at > now, mine or not.
IsLeaderGet(n) ==
  /\ pc[n] = "check"
  /\ IF Exists /\ lease.expires_at > now[n] /\ lease.leader = n
     THEN ReturnTrue(n, lease.expires_at)
     ELSE ReturnFalse(n)
  /\ UNCHANGED <<clock, offset, lease, now>>

\* The process dies between two statements and restarts knowing nothing.
Crash(n) ==
  /\ pc' = [pc EXCEPT ![n] = "idle"]
  /\ until' = [until EXCEPT ![n] = 0]
  /\ UNCHANGED <<clock, offset, lease, now>>

Tick ==
  /\ clock < MaxClock
  /\ clock' = clock + 1
  /\ UNCHANGED <<offset, lease, pc, now, until>>

Next ==
  \/ Tick
  \/ \E n \in Node :
       \/ AcquireCall(n) \/ AcquireUpdate(n) \/ AcquireGet(n)
       \/ AcquireInsert(n)
       \/ RenewCall(n) \/ RenewUpdate(n)
       \/ IsLeaderCall(n) \/ IsLeaderGet(n)
       \/ Release(n) \/ Crash(n)

Spec == Init /\ [][Next]_vars

-----------------------------------------------------------------------------
(* Properties *)

(***************************************************************************)
(* No split-brain beyond the clock difference (leadership.py, "Acquisition *)
(* protocol (no split-brain)"): of two nodes that were told they hold the  *)
(* lease, at most one has a lease that reaches MaxOffset past the true     *)
(* time.  With synchronised clocks this is mutual exclusion; otherwise it  *)
(* is the guard band a leader has to keep before acting.                   *)
(***************************************************************************)
NoSplitBrain ==
  \A n, m \in Node :
    n # m => ~ /\ until[n] >= clock + MaxOffset
               /\ until[m] >= clock + MaxOffset

(***************************************************************************)
(* A node that was told it holds the lease, and does not know better yet,  *)
(* either still owns the row and knows no later an expiry than the row's,  *)
(* or has lost a lease that had run out on the new leader's clock.         *)
(***************************************************************************)
KnownExpiryIsSafe ==
  \A n \in Node :
    until[n] > 0 => \/ lease.leader = n /\ until[n] <= lease.expires_at
                    \/ lease.leader # n /\ until[n] < clock + MaxOffset

(***************************************************************************)
(* The row changes hands only after the previous lease expired on the      *)
(* taker's clock, and every such takeover is visible to audit tools as a   *)
(* version increment (models.py, LeaderLease docstring).                   *)
(***************************************************************************)
TakeoverOnlyAfterExpiry ==
  [][lease'.leader # lease.leader =>
       /\ lease.expires_at < clock + MaxOffset
       /\ lease'.version = lease.version + 1]_vars

=============================================================================
