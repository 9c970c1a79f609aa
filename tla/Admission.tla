------------------------------ MODULE Admission ------------------------------
(***************************************************************************)
(* How somebody gets into an event: registration with an email address     *)
(* (apps/registration/views.py), the confirmation link, the personal join  *)
(* link and the session it opens (apps/events/auth.py, views.py), and the  *)
(* WebSocket that session may open (apps/events/consumers.py).             *)
(*                                                                         *)
(* Requests run concurrently, each in its own process.  Outside            *)
(* authenticate_join_token nothing is a transaction: every query, cache    *)
(* call and mail is a step of its own.  The registrations modelled are for *)
(* one event and one email address, so that they compete.                  *)
(***************************************************************************)
EXTENDS Integers, FiniteSets

CONSTANTS
  Visitor,    \* registration requests; a Participant row is named after the
              \* request that created it
  Names,      \* display names
  Click,      \* requests of a confirmation link
  Browser,    \* browsers that follow the personal link of a participant
  Nobody,
  EventEnd,   \* event_end by the timetable at the start
  MaxClock,   \* bound on time
  MaxExtends, \* bound on extensions of the timetable
  MaxLinks,   \* bound on issue_join_token
  MaxJoins,   \* bound on requests of a join link
  MaxFaults   \* bound on failing mails, cache and channel layer calls

ASSUME AdmissionAssumption ==
  /\ Nobody \notin Visitor \cup Browser
  /\ {EventEnd, MaxClock, MaxExtends, MaxLinks, MaxJoins, MaxFaults} \subseteq Nat

VARIABLES
  clock,
  end,      \* when the event ends by its timetable
  name,     \* name[v]: the display_name v asks for
  reg,      \* reg[v]: progress of register_view, or its answer
  rows,     \* rows[v]: the Participant row, if rows[v].stored
  mail,     \* mail[v]: the confirmation token: "none", "stored" (not mailed),
            \* "mailed", "used"
  click,    \* click[c]: progress of verify_email_view
  copy,     \* copy[c]: the row as verify_email_view loaded it
  links,    \* join tokens issued so far
  handed,   \* handed[v]: the last token issued for the row, 0 if none
  join,     \* join[b]: progress of join_participant
  sessions, \* sessions opened so far; they are numbered
  session,  \* session[b]: the session of browser b and whose it is
  current,  \* current[v]: cache participant:session:<v>, 0 if empty
  socket,   \* socket[b]: "none", "accepted", "member" (after client.hello)
  scope,    \* scope[b]: the session the socket of b was opened with
  extends, joins, faults,
  rushed,   \* history: two registrations overlapped
  lapsed,   \* history: rows whose link was written over by a confirmation, or
            \* whose event was extended after the link was issued
  slipped,  \* history: sockets that said hello with a session that had been
            \* replaced since they were accepted
  moved     \* history: rows whose recorded session is gone, because its browser
            \* has followed the link of another participant since

rowVars == <<rows, handed, links>>
regVars == <<name, reg, mail, rushed>>
clickVars == <<click, copy>>
joinVars == <<join, sessions, session, current, joins, moved>>
sockVars == <<socket, scope, slipped>>
vars == <<clock, end, name, reg, rows, mail, click, copy, links, handed, join,
          sessions, session, current, socket, scope, extends, joins, faults,
          rushed, lapsed, slipped, moved>>

\* The columns of a Participant that are written after its creation.
NoRow == [stored |-> FALSE, digest |-> 0, expires |-> 0, joined |-> FALSE]

NoSession == [key |-> 0, row |-> Nobody]

Init ==
  /\ clock = 0 /\ end = EventEnd
  /\ name \in [Visitor -> Names]
  /\ reg = [v \in Visitor |-> "new"]
  /\ rows = [v \in Visitor |-> NoRow]
  /\ mail = [v \in Visitor |-> "none"]
  /\ click = [c \in Click |-> "new"]
  /\ copy = [c \in Click |-> [row |-> Nobody, data |-> NoRow]]
  /\ links = 0 /\ handed = [v \in Visitor |-> 0]
  /\ join = [b \in Browser |-> "idle"]
  /\ sessions = 0 /\ session = [b \in Browser |-> NoSession]
  /\ current = [v \in Visitor |-> 0]
  /\ socket = [b \in Browser |-> "none"]
  /\ scope = [b \in Browser |-> NoSession]
  /\ extends = 0 /\ joins = 0 /\ faults = 0
  /\ rushed = FALSE /\ lapsed = {} /\ slipped = {} /\ moved = {}

Stored == {v \in Visitor : rows[v].stored}

Fault == faults < MaxFaults /\ faults' = faults + 1

-----------------------------------------------------------------------------
(* register_view *)

\* Plausible bug: the email is not looked up.
RegisterCheckNothing(v) ==
  /\ reg[v] = "new"
  /\ reg' = [reg EXCEPT ![v] = "create"]
  /\ rushed' = (rushed \/ \E w \in Visitor : reg[w] = "create")
  /\ UNCHANGED <<clock, end, name, rowVars, mail, clickVars, joinVars, sockVars,
                 extends, faults, lapsed>>

\* validate_registration_data refuses the form, or query.exists() finds the
\* email; otherwise the request goes on to the insert.
RegisterCheck(v) ==
  /\ reg[v] = "new"
  /\ reg' = [reg EXCEPT ![v] = IF Stored # {} THEN "duplicate_email" ELSE "create"]
  /\ rushed' = (rushed \/ \E w \in Visitor : reg[w] = "create")
  /\ UNCHANGED <<clock, end, name, rowVars, mail, clickVars, joinVars, sockVars,
                 extends, faults, lapsed>>

RegisterRefused(v) ==
  /\ reg[v] = "new"
  /\ reg' = [reg EXCEPT ![v] = "invalid"]
  /\ UNCHANGED <<clock, end, name, rowVars, mail, rushed, clickVars, joinVars,
                 sockVars, extends, faults, lapsed>>

\* Participant.objects.create: (event, display_name) is unique in the
\* database, the email is not.  When the tags cannot be set the row stays.
RegisterCreate(v) ==
  LET clash == \E w \in Stored : name[w] = name[v]
  IN  /\ reg[v] = "create"
      /\ rows' = IF clash THEN rows ELSE [rows EXCEPT ![v].stored = TRUE]
      /\ \/ /\ reg' = [reg EXCEPT ![v] = IF clash THEN "server_error" ELSE "token"]
            /\ UNCHANGED faults
         \/ /\ ~clash /\ Fault
            /\ reg' = [reg EXCEPT ![v] = "server_error"]
      /\ UNCHANGED <<clock, end, name, links, handed, mail, rushed, clickVars,
                     joinVars, sockVars, extends, lapsed>>

\* EmailVerificationToken.create_for
RegisterToken(v) ==
  /\ reg[v] = "token"
  /\ reg' = [reg EXCEPT ![v] = "mail"]
  /\ mail' = [mail EXCEPT ![v] = "stored"]
  /\ UNCHANGED <<clock, end, name, rowVars, rushed, clickVars, joinVars, sockVars,
                 extends, faults, lapsed>>

\* EmailService.send_verification_email; when it fails the row and the token
\* stay behind, and the visitor is told that the registration failed.
RegisterMail(v) ==
  /\ reg[v] = "mail"
  /\ \/ /\ reg' = [reg EXCEPT ![v] = "registered"]
        /\ mail' = [mail EXCEPT ![v] = "mailed"]
        /\ UNCHANGED faults
     \/ /\ Fault
        /\ reg' = [reg EXCEPT ![v] = "server_error"]
        /\ UNCHANGED mail
  /\ UNCHANGED <<clock, end, name, rowVars, rushed, clickVars, joinVars, sockVars,
                 extends, lapsed>>

-----------------------------------------------------------------------------
(* verify_email_view *)

\* The token is looked up and is neither expired nor used, or the link is
\* answered with 410.
VerifyToken(c, v) ==
  /\ click[c] = "new"
  /\ mail[v] \in {"mailed", "used"}
  /\ \E expired \in BOOLEAN :
       click' = [click EXCEPT ![c] =
                   IF expired \/ mail[v] = "used" THEN "gone" ELSE "mark"]
  /\ copy' = [copy EXCEPT ![c].row = v]
  /\ UNCHANGED <<clock, end, rowVars, regVars, joinVars, sockVars, extends,
                 faults, lapsed>>

\* mark_used
VerifyMark(c) ==
  /\ click[c] = "mark"
  /\ click' = [click EXCEPT ![c] = "load"]
  /\ mail' = [mail EXCEPT ![copy[c].row] = "used"]
  /\ UNCHANGED <<clock, end, name, rowVars, reg, rushed, copy, joinVars, sockVars,
                 extends, faults, lapsed>>

\* token_obj.participant reads the whole row,
VerifyLoad(c) ==
  /\ click[c] = "load"
  /\ click' = [click EXCEPT ![c] = "save"]
  /\ copy' = [copy EXCEPT ![c].data = rows[copy[c].row]]
  /\ UNCHANGED <<clock, end, rowVars, regVars, joinVars, sockVars, extends,
                 faults, lapsed>>

\* and participant.save() writes all of it back, with joined_at set.
VerifySave(c) ==
  LET v == copy[c].row
  IN  /\ click[c] = "save"
      /\ click' = [click EXCEPT ![c] = "confirmed"]
      /\ rows' = [rows EXCEPT ![v] = [copy[c].data EXCEPT !.joined = TRUE]]
      /\ lapsed' = IF copy[c].data.digest # rows[v].digest
                   THEN lapsed \cup {v} ELSE lapsed
      /\ UNCHANGED <<clock, end, links, handed, regVars, copy, joinVars,
                     sockVars, extends, faults>>

-----------------------------------------------------------------------------
(* The personal link *)

\* Plausible bug: the link expires before the last round is over.
issue_join_token_early(v) ==
  /\ v \in Stored /\ links < MaxLinks
  /\ links' = links + 1
  /\ handed' = [handed EXCEPT ![v] = links + 1]
  /\ rows' = [rows EXCEPT ![v].digest = links + 1, ![v].expires = end - 1]
  /\ lapsed' = lapsed \ {v}
  /\ UNCHANGED <<clock, end, regVars, clickVars, joinVars, sockVars, extends,
                 faults>>

\* issue_join_token: rotates the token, which expires at event_end.
issue_join_token(v) ==
  /\ v \in Stored /\ links < MaxLinks
  /\ links' = links + 1
  /\ handed' = [handed EXCEPT ![v] = links + 1]
  /\ rows' = [rows EXCEPT ![v].digest = links + 1, ![v].expires = end]
  /\ lapsed' = lapsed \ {v}
  /\ UNCHANGED <<clock, end, regVars, clickVars, joinVars, sockVars, extends,
                 faults>>

\* authenticate_join_token would accept the last link handed out.
Accepted(v) ==
  /\ rows[v].digest = handed[v] /\ handed[v] # 0
  /\ ~(rows[v].expires # 0 /\ rows[v].expires <= clock)

\* An operator extends a round: the event ends later.
Extend ==
  /\ extends < MaxExtends
  /\ extends' = extends + 1
  /\ end' = end + 1
  /\ lapsed' = lapsed \cup {v \in Visitor : handed[v] # 0}
  /\ UNCHANGED <<clock, rowVars, regVars, clickVars, joinVars, sockVars, faults>>

Tick ==
  /\ clock < MaxClock
  /\ clock' = clock + 1
  /\ UNCHANGED <<end, rowVars, regVars, clickVars, joinVars, sockVars, extends,
                 faults, lapsed>>

-----------------------------------------------------------------------------
(* join_participant *)

\* authenticate_join_token, then establish_participant_session up to
\* session.save(): the new session is the browser's own and takes the place of
\* the one it had (cycle_key).  A link that is not accepted changes nothing.
JoinAuthenticate(b, v) ==
  /\ join[b] = "idle" /\ joins < MaxJoins
  /\ Accepted(v)
  /\ joins' = joins + 1
  /\ join' = [join EXCEPT ![b] = "remember"]
  /\ rows' = [rows EXCEPT ![v].joined = TRUE]
  /\ sessions' = sessions + 1
  /\ session' = [session EXCEPT ![b] = [key |-> sessions + 1, row |-> v]]
  /\ moved' = moved \cup {w \in Visitor \ {v} :
                            session[b] = [key |-> current[w], row |-> w]}
  /\ UNCHANGED <<clock, end, links, handed, regVars, clickVars, current,
                 sockVars, extends, faults, lapsed>>

\* remember_participant_session: a failing cache is logged, nothing more.
JoinRemember(b) ==
  /\ join[b] = "remember"
  /\ join' = [join EXCEPT ![b] = "invalidate"]
  /\ \/ /\ current' = [current EXCEPT ![session[b].row] = session[b].key]
        /\ moved' = moved \ {session[b].row}
        /\ UNCHANGED faults
     \/ Fault /\ UNCHANGED <<current, moved>>
  /\ UNCHANGED <<clock, end, rowVars, regVars, clickVars, sessions, session,
                 joins, sockVars, extends, lapsed>>

Members(v) == {b \in Browser : socket[b] = "member" /\ scope[b].row = v}

Close(bs) ==
  /\ socket' = [b \in Browser |-> IF b \in bs THEN "none" ELSE socket[b]]
  /\ slipped' = slipped \ bs

\* Plausible bug: the sockets of the older session are left alone.
JoinInvalidateNothing(b) ==
  /\ join[b] = "invalidate"
  /\ join' = [join EXCEPT ![b] = "idle"]
  /\ UNCHANGED <<clock, end, rowVars, regVars, clickVars, sessions, session,
                 current, joins, moved, sockVars, extends, faults, lapsed>>

\* invalidate_participant_sockets: session.replaced to the group.
JoinInvalidate(b) ==
  /\ join[b] = "invalidate"
  /\ join' = [join EXCEPT ![b] = "idle"]
  /\ \/ Close(Members(session[b].row)) /\ UNCHANGED faults
     \/ Fault /\ UNCHANGED <<socket, slipped>>
  /\ UNCHANGED <<clock, end, rowVars, regVars, clickVars, sessions, session,
                 current, joins, moved, scope, extends, lapsed>>

-----------------------------------------------------------------------------
(* The socket *)

\* session_matches_participant: no entry in the cache matches everything,
\* and so does a cache that cannot be read.
Matches(x) == current[x.row] \in {0, x.key}

\* connect with resolve_participant_from_scope; a socket that is refused is
\* closed at once.
Connect(b) ==
  /\ socket[b] = "none" /\ session[b] # NoSession
  /\ \/ Matches(session[b]) /\ UNCHANGED faults
     \/ ~Matches(session[b]) /\ Fault
  /\ socket' = [socket EXCEPT ![b] = "accepted"]
  /\ scope' = [scope EXCEPT ![b] = session[b]]
  /\ UNCHANGED <<clock, end, rowVars, regVars, clickVars, joinVars, slipped,
                 extends, lapsed>>

\* client.hello: join the group and replace the previous owner of the
\* connection (ConnectionPresence has the steps).  The session is not
\* looked at again.
Hello(b) ==
  LET others == Members(scope[b].row) \ {b}
  IN  /\ socket[b] = "accepted"
      /\ socket' = [x \in Browser |-> IF x = b THEN "member"
                                      ELSE IF x \in others THEN "none"
                                      ELSE socket[x]]
      /\ slipped' = (slipped \ others) \cup (IF Matches(scope[b]) THEN {} ELSE {b})
      /\ UNCHANGED <<clock, end, rowVars, regVars, clickVars, joinVars, scope,
                     extends, faults, lapsed>>

Disconnect(b) ==
  /\ socket[b] # "none"
  /\ Close({b})
  /\ UNCHANGED <<clock, end, rowVars, regVars, clickVars, joinVars, scope,
                 extends, faults, lapsed>>

-----------------------------------------------------------------------------

Next ==
  \/ Tick \/ Extend
  \/ \E v \in Visitor :
       \/ RegisterCheck(v) \/ RegisterRefused(v) \/ RegisterCreate(v)
       \/ RegisterToken(v) \/ RegisterMail(v) \/ issue_join_token(v)
  \/ \E c \in Click :
       \/ VerifyMark(c) \/ VerifyLoad(c) \/ VerifySave(c)
       \/ \E v \in Visitor : VerifyToken(c, v)
  \/ \E b \in Browser :
       \/ JoinRemember(b) \/ JoinInvalidate(b)
       \/ Connect(b) \/ Hello(b) \/ Disconnect(b)
       \/ \E v \in Visitor : JoinAuthenticate(b, v)

Spec == Init /\ [][Next]_vars

-----------------------------------------------------------------------------
(* Properties *)

(***************************************************************************)
(* "This email is already registered for this event" (register_view): two  *)
(* Participant rows share an email address only if their requests          *)
(* overlapped between the query and the insert, and then they have         *)
(* different names; and once every request is answered, an address that    *)
(* is taken has been sent a confirmation link, unless a step failed.       *)
(***************************************************************************)
OneRowPerEmail ==
  /\ \A v, w \in Stored : v # w => rushed /\ name[v] # name[w]
  /\ (\A v \in Visitor : reg[v] \notin {"token", "mail"}) /\ faults = 0 =>
       \A v \in Stored : mail[v] \in {"mailed", "used"}

(***************************************************************************)
(* "Tokens are reusable until their server-side join_token_expires_at ...  *)
(* the event's calculated end" (participant-auth.md): the last link handed *)
(* out for a participant is accepted as long as the event lasts, however   *)
(* confirmations, joins and registrations interleave, except that an       *)
(* extension of the event does not reach links already issued, and that a  *)
(* confirmation that had read the row before the link was issued writes    *)
(* the old token back.                                                     *)
(***************************************************************************)
LinkKeepsWorking ==
  \A v \in Visitor :
    handed[v] # 0 /\ v \notin lapsed /\ clock < end => Accepted(v)

(***************************************************************************)
(* "only the latest personal-link session may use this identity"           *)
(* (remember_participant_session): once the joins are over, a socket in    *)
(* the participant's group belongs to the session that was recorded last,  *)
(* unless it was accepted before that join and said hello after it; and    *)
(* the recorded session is one that a browser holds, so that the           *)
(* participant is not locked out, unless that browser has followed the     *)
(* link of another participant since.                                      *)
(***************************************************************************)
LatestSessionOnly ==
  (\A b \in Browser : join[b] = "idle") /\ faults = 0 =>
    \A v \in Visitor :
      /\ \A b \in Members(v) : scope[b].key = current[v] \/ b \in slipped
      /\ current[v] # 0 /\ v \notin moved =>
           \E b \in Browser : session[b] = [key |-> current[v], row |-> v]

=============================================================================
