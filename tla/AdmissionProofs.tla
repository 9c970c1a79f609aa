--------------------------- MODULE AdmissionProofs ---------------------------
(***************************************************************************)
(* Proofs about Admission, for every number of registration requests,      *)
(* confirmation clicks, links, browsers and joins, in every interleaving:  *)
(* two rows share an address only after an overlap, the last link handed   *)
(* out works until the event is over, and one session speaks for a         *)
(* participant.                                                            *)
(***************************************************************************)
EXTENDS Admission, TLAPS

-----------------------------------------------------------------------------
(* The inductive invariant *)

Row == [stored : BOOLEAN, digest : Nat, expires : Nat, joined : BOOLEAN]

Session == [key : Nat, row : Visitor \cup {Nobody}]

TypeOK ==
  /\ clock \in Nat /\ end \in Nat /\ links \in Nat /\ sessions \in Nat
  /\ extends \in Nat /\ joins \in Nat /\ faults \in Nat
  /\ name \in [Visitor -> Names]
  /\ reg \in [Visitor -> {"new", "invalid", "duplicate_email", "create", "token",
                          "mail", "registered", "server_error"}]
  /\ rows \in [Visitor -> Row]
  /\ mail \in [Visitor -> {"none", "stored", "mailed", "used"}]
  /\ click \in [Click -> {"new", "gone", "mark", "load", "save", "confirmed"}]
  /\ copy \in [Click -> [row : Visitor \cup {Nobody}, data : Row]]
  /\ handed \in [Visitor -> Nat]
  /\ join \in [Browser -> {"idle", "remember", "invalidate"}]
  /\ session \in [Browser -> Session]
  /\ current \in [Visitor -> Nat]
  /\ socket \in [Browser -> {"none", "accepted", "member"}]
  /\ scope \in [Browser -> Session]
  /\ rushed \in BOOLEAN
  /\ lapsed \subseteq Visitor /\ slipped \subseteq Browser /\ moved \subseteq Visitor

\* A row is there exactly from the insert on, and each request that got past
\* the query either came alone or knows that it did not.
Registered ==
  /\ \A v \in Visitor :
       /\ rows[v].stored =>
            reg[v] \in {"token", "mail", "registered", "server_error"}
       /\ reg[v] \in {"token", "mail", "registered"} => rows[v].stored
       /\ mail[v] \in {"mailed", "used"} => reg[v] = "registered"
       /\ faults = 0 /\ rows[v].stored =>
            reg[v] \in {"token", "mail"} \/ mail[v] \in {"mailed", "used"}
  /\ \A v, w \in Visitor : v # w =>
       /\ (rows[v].stored \/ reg[v] = "create")
            /\ (rows[w].stored \/ reg[w] = "create") => rushed
       /\ rows[v].stored /\ rows[w].stored => name[v] # name[w]

\* A click works on the row of a token that was mailed.
Clicked ==
  \A c \in Click :
    /\ click[c] \in {"mark", "load", "save"} =>
         copy[c].row \in Visitor /\ mail[copy[c].row] \in {"mailed", "used"}
    /\ click[c] = "save" => copy[c].data.stored

\* The row has the last token handed out and its expiry; versions of a row
\* that have the same token, in the database and in the requests that have
\* read it, have the same expiry.
Linked ==
  /\ \A v \in Visitor :
       /\ rows[v].digest <= links
       /\ handed[v] # 0 /\ v \notin lapsed =>
            rows[v].digest = handed[v] /\ rows[v].expires = end
  /\ \A c \in Click :
       /\ copy[c].data.digest <= links
       /\ click[c] = "save" /\ copy[c].data.digest = rows[copy[c].row].digest =>
            copy[c].data.expires = rows[copy[c].row].expires
  /\ \A c, d \in Click :
       /\ click[c] = "save" /\ click[d] = "save" /\ copy[c].row = copy[d].row
       /\ copy[c].data.digest = copy[d].data.digest
       => copy[c].data.expires = copy[d].data.expires

\* A session is of a participant.
Owned(s) == s = NoSession \/ (s.row \in Visitor /\ s.key # 0)

\* Some browser is at one of these steps of a join for v.
Joining(v, steps) ==
  \E b \in Browser : join[b] \in steps /\ session[b].row = v

Owners ==
  \A b \in Browser :
    /\ Owned(session[b]) /\ Owned(scope[b])
    /\ join[b] # "idle" => session[b] # NoSession
    /\ socket[b] # "none" => scope[b] # NoSession

\* A participant whose session was never recorded is about to have one; a
\* member of the group that is not of the recorded session is about to be
\* closed; and the recorded session is held, or about to be replaced.
Latest ==
  /\ \A v \in Visitor :
       /\ current[v] = 0 /\ (\E b \in Browser : session[b].row = v \/ scope[b].row = v)
            => Joining(v, {"remember"})
       /\ current[v] # 0 /\ v \notin moved =>
            \/ \E b \in Browser : session[b] = [key |-> current[v], row |-> v]
            \/ Joining(v, {"remember"})
  /\ \A b \in Browser :
       /\ socket[b] = "member" /\ b \notin slipped
       /\ scope[b].key # current[scope[b].row]
       => Joining(scope[b].row, {"remember", "invalidate"})

IInv ==
  /\ TypeOK /\ Registered /\ Clicked /\ Linked /\ Owners
  /\ faults = 0 => Latest

-----------------------------------------------------------------------------
(* Types *)

(* A request of an owned session or of a mailed token has a participant.    *)
LEMMA Participants ==
  ASSUME TypeOK, Clicked, Owners
  PROVE  /\ \A c \in Click : click[c] \in {"mark", "load", "save"}
                               => copy[c].row \in Visitor
         /\ \A b \in Browser : join[b] # "idle" =>
                session[b].row \in Visitor /\ session[b].key # 0
         /\ \A b \in Browser : socket[b] # "none" =>
                scope[b].row \in Visitor /\ scope[b].key # 0
BY DEF Clicked, Owners, Owned

(* Setting joined_at leaves the other columns of a row.                     *)
LEMMA RowConfirmed ==
  ASSUME NEW r \in Row
  PROVE  LET u == [r EXCEPT !.joined = TRUE]
         IN  /\ u \in Row /\ u.stored = r.stored
             /\ u.digest = r.digest /\ u.expires = r.expires
BY DEF Row

(* What the writes of columns make of the table of all rows.                *)
LEMMA RowWrites ==
  ASSUME NEW table \in [Visitor -> Row], NEW v \in Visitor,
         NEW n \in Nat, NEW m \in Nat
  PROVE  LET st == [table EXCEPT ![v].stored = TRUE]
             jo == [table EXCEPT ![v].joined = TRUE]
             li == [table EXCEPT ![v].digest = n, ![v].expires = m]
         IN  /\ st \in [Visitor -> Row] /\ jo \in [Visitor -> Row]
             /\ li \in [Visitor -> Row]
             /\ \A w \in Visitor :
                  /\ st[w].stored = IF w = v THEN TRUE ELSE table[w].stored
                  /\ st[w].digest = table[w].digest
                  /\ st[w].expires = table[w].expires
                  /\ jo[w].stored = table[w].stored
                  /\ jo[w].digest = table[w].digest
                  /\ jo[w].expires = table[w].expires
                  /\ li[w].stored = table[w].stored
                  /\ li[w].digest = IF w = v THEN n ELSE table[w].digest
                  /\ li[w].expires = IF w = v THEN m ELSE table[w].expires
<1> DEFINE a == [table[v] EXCEPT !.stored = TRUE]
           b == [table[v] EXCEPT !.joined = TRUE]
           c == [[table[v] EXCEPT !.digest = n] EXCEPT !.expires = m]
<1>1. /\ [table EXCEPT ![v].stored = TRUE] = [table EXCEPT ![v] = a]
      /\ [table EXCEPT ![v].joined = TRUE] = [table EXCEPT ![v] = b]
      /\ [table EXCEPT ![v].digest = n, ![v].expires = m] =
           [table EXCEPT ![v] = c]
  OBVIOUS
<1>2. /\ a \in Row /\ b \in Row /\ c \in Row
      /\ a.stored = TRUE /\ a.digest = table[v].digest
      /\ a.expires = table[v].expires
      /\ b.stored = table[v].stored /\ b.digest = table[v].digest
      /\ b.expires = table[v].expires
      /\ c.stored = table[v].stored /\ c.digest = n /\ c.expires = m
  <2> DEFINE r == table[v]
  <2>1. r \in Row
    OBVIOUS
  <2> HIDE DEF r
  <2>2. /\ [r EXCEPT !.stored = TRUE] \in Row
        /\ [r EXCEPT !.stored = TRUE].stored = TRUE
        /\ [r EXCEPT !.stored = TRUE].digest = r.digest
        /\ [r EXCEPT !.stored = TRUE].expires = r.expires
    BY <2>1 DEF Row
  <2>3. /\ [r EXCEPT !.joined = TRUE] \in Row
        /\ [r EXCEPT !.joined = TRUE].stored = r.stored
        /\ [r EXCEPT !.joined = TRUE].digest = r.digest
        /\ [r EXCEPT !.joined = TRUE].expires = r.expires
    BY <2>1 DEF Row
  <2>4. /\ [[r EXCEPT !.digest = n] EXCEPT !.expires = m] \in Row
        /\ [[r EXCEPT !.digest = n] EXCEPT !.expires = m].stored = r.stored
        /\ [[r EXCEPT !.digest = n] EXCEPT !.expires = m].digest = n
        /\ [[r EXCEPT !.digest = n] EXCEPT !.expires = m].expires = m
    BY <2>1 DEF Row
  <2>5. QED
    BY <2>2, <2>3, <2>4 DEF r
<1> DEFINE st == [table EXCEPT ![v].stored = TRUE]
           jo == [table EXCEPT ![v].joined = TRUE]
           li == [table EXCEPT ![v].digest = n, ![v].expires = m]
<1> HIDE DEF a, b, c, st, jo, li
<1>3. ASSUME NEW r \in Row
      PROVE  /\ [table EXCEPT ![v] = r] \in [Visitor -> Row]
             /\ \A w \in Visitor : [table EXCEPT ![v] = r][w] =
                                     IF w = v THEN r ELSE table[w]
  OBVIOUS
<1>4. /\ st \in [Visitor -> Row] /\ jo \in [Visitor -> Row]
      /\ li \in [Visitor -> Row]
      /\ \A w \in Visitor : /\ st[w] = IF w = v THEN a ELSE table[w]
                            /\ jo[w] = IF w = v THEN b ELSE table[w]
                            /\ li[w] = IF w = v THEN c ELSE table[w]
  BY <1>1, <1>2, <1>3 DEF st, jo, li
<1>5. \A w \in Visitor :
        /\ st[w].stored = IF w = v THEN TRUE ELSE table[w].stored
        /\ st[w].digest = table[w].digest /\ st[w].expires = table[w].expires
        /\ jo[w].stored = table[w].stored
        /\ jo[w].digest = table[w].digest /\ jo[w].expires = table[w].expires
        /\ li[w].stored = table[w].stored
        /\ li[w].digest = IF w = v THEN n ELSE table[w].digest
        /\ li[w].expires = IF w = v THEN m ELSE table[w].expires
  BY <1>2, <1>4
<1>6. QED
  BY <1>4, <1>5 DEF st, jo, li

(* The steps of registration keep the types.                                *)
LEMMA RegisterTypes ==
  ASSUME TypeOK, NEW v \in Visitor,
         \/ RegisterCheck(v) \/ RegisterRefused(v) \/ RegisterCreate(v)
         \/ RegisterToken(v) \/ RegisterMail(v)
  PROVE  TypeOK'
<1> USE DEF TypeOK, Fault
<1>1. CASE RegisterCheck(v)
  BY <1>1 DEF RegisterCheck, rowVars, clickVars, joinVars, sockVars
<1>2. CASE RegisterRefused(v)
  BY <1>2 DEF RegisterRefused, rowVars, clickVars, joinVars, sockVars
<1>3. CASE RegisterCreate(v)
  <2>1. rows' \in [Visitor -> Row]
    <3>1. [rows EXCEPT ![v].stored = TRUE] \in [Visitor -> Row]
      BY RowWrites, 0 \in Nat
    <3>2. QED
      BY <1>3, <3>1 DEF RegisterCreate
  <2>2. reg' \in [Visitor -> {"new", "invalid", "duplicate_email", "create",
                              "token", "mail", "registered", "server_error"}]
    BY <1>3 DEF RegisterCreate
  <2>3. QED
    BY <1>3, <2>1, <2>2 DEF RegisterCreate, clickVars, joinVars, sockVars
<1>4. CASE RegisterToken(v)
  BY <1>4 DEF RegisterToken, rowVars, clickVars, joinVars, sockVars
<1>5. CASE RegisterMail(v)
  BY <1>5 DEF RegisterMail, rowVars, clickVars, joinVars, sockVars
<1>6. QED
  BY <1>1, <1>2, <1>3, <1>4, <1>5

(* So do the steps of the confirmation.                                     *)
LEMMA VerifyTypes ==
  ASSUME TypeOK, Clicked, Owners, NEW c \in Click,
         \/ \E v \in Visitor : VerifyToken(c, v)
         \/ VerifyMark(c) \/ VerifyLoad(c) \/ VerifySave(c)
  PROVE  TypeOK'
<1> USE DEF TypeOK, Fault
<1>1. CASE \E v \in Visitor : VerifyToken(c, v)
  <2>0. PICK v \in Visitor : VerifyToken(c, v)
    BY <1>1
  <2>1. copy' \in [Click -> [row : Visitor \cup {Nobody}, data : Row]]
    BY <2>0 DEF VerifyToken
  <2>2. click' \in [Click -> {"new", "gone", "mark", "load", "save", "confirmed"}]
    BY <2>0 DEF VerifyToken
  <2>3. QED
    BY <2>0, <2>1, <2>2 DEF VerifyToken, rowVars, regVars, joinVars, sockVars
<1>2. CASE VerifyMark(c)
  BY <1>2 DEF VerifyMark, rowVars, joinVars, sockVars
<1>3. CASE VerifyLoad(c)
  <2>1. copy[c].row \in Visitor /\ rows[copy[c].row] \in Row
    BY <1>3, Participants DEF VerifyLoad
  <2>2. copy' \in [Click -> [row : Visitor \cup {Nobody}, data : Row]]
    BY <1>3, <2>1 DEF VerifyLoad
  <2>3. QED
    BY <1>3, <2>2 DEF VerifyLoad, rowVars, regVars, joinVars, sockVars
<1>4. CASE VerifySave(c)
  <2>1. copy[c].row \in Visitor
        /\ [copy[c].data EXCEPT !.joined = TRUE] \in Row
    <3>1. copy[c].row \in Visitor
      BY <1>4, Participants DEF VerifySave
    <3>2. copy[c].data \in Row
      OBVIOUS
    <3>3. QED
      BY <3>1, <3>2, RowConfirmed
  <2>2. rows' \in [Visitor -> Row]
    BY <1>4, <2>1 DEF VerifySave
  <2>3. lapsed' \subseteq Visitor
    BY <1>4, <2>1 DEF VerifySave
  <2>4. QED
    BY <1>4, <2>2, <2>3 DEF VerifySave, regVars, joinVars, sockVars
<1>5. QED
  BY <1>1, <1>2, <1>3, <1>4

(* So do the clock, the operator and the links.                             *)
LEMMA LinkTypes ==
  ASSUME TypeOK,
         Tick \/ Extend \/ \E v \in Visitor : issue_join_token(v)
  PROVE  TypeOK'
<1> USE DEF TypeOK, Fault
<1>1. CASE Tick
  BY <1>1 DEF Tick, rowVars, regVars, clickVars, joinVars, sockVars
<1>2. CASE Extend
  BY <1>2 DEF Extend, rowVars, regVars, clickVars, joinVars, sockVars
<1>3. CASE \E v \in Visitor : issue_join_token(v)
  <2>0. PICK v \in Visitor : issue_join_token(v)
    BY <1>3
  <2>1. rows' \in [Visitor -> Row]
    <3>1. links + 1 \in Nat /\ end \in Nat
      OBVIOUS
    <3>2. [rows EXCEPT ![v].digest = links + 1, ![v].expires = end]
            \in [Visitor -> Row]
      BY <3>1, RowWrites
    <3>3. QED
      BY <2>0, <3>2 DEF issue_join_token
  <2>2. QED
    BY <2>0, <2>1 DEF issue_join_token, regVars, clickVars, joinVars, sockVars
<1>4. QED
  BY <1>1, <1>2, <1>3

(* So do the steps of joins and sockets.                                    *)
LEMMA SessionTypes ==
  ASSUME TypeOK, Clicked, Owners, NEW b \in Browser,
         \/ \E v \in Visitor : JoinAuthenticate(b, v)
         \/ JoinRemember(b) \/ JoinInvalidate(b)
         \/ Connect(b) \/ Hello(b) \/ Disconnect(b)
  PROVE  TypeOK'
<1> USE DEF TypeOK, Fault
<1>1. CASE \E v \in Visitor : JoinAuthenticate(b, v)
  <2>0. PICK v \in Visitor : JoinAuthenticate(b, v)
    BY <1>1
  <2>1. rows' \in [Visitor -> Row]
    <3>1. [rows EXCEPT ![v].joined = TRUE] \in [Visitor -> Row]
      BY RowWrites, 0 \in Nat
    <3>2. QED
      BY <2>0, <3>1 DEF JoinAuthenticate
  <2>2. session' \in [Browser -> Session]
    BY <2>0 DEF JoinAuthenticate, Session
  <2>3. moved' \subseteq Visitor
    BY <2>0 DEF JoinAuthenticate
  <2>4. QED
    BY <2>0, <2>1, <2>2, <2>3 DEF JoinAuthenticate, regVars, clickVars, sockVars
<1>2. CASE JoinRemember(b)
  <2>1. session[b].row \in Visitor /\ session[b].key \in Nat
    BY <1>2, Participants DEF JoinRemember, Session
  <2>2. current' \in [Visitor -> Nat] /\ moved' \subseteq Visitor
    BY <1>2, <2>1 DEF JoinRemember
  <2>3. QED
    BY <1>2, <2>2 DEF JoinRemember, rowVars, regVars, clickVars, sockVars
<1>3. CASE JoinInvalidate(b)
  BY <1>3 DEF JoinInvalidate, Close, rowVars, regVars, clickVars
<1>4. CASE Connect(b)
  BY <1>4 DEF Connect, rowVars, regVars, clickVars, joinVars
<1>5. CASE Hello(b)
  BY <1>5 DEF Hello, rowVars, regVars, clickVars, joinVars
<1>6. CASE Disconnect(b)
  BY <1>6 DEF Disconnect, Close, rowVars, regVars, clickVars, joinVars
<1>7. QED
  BY <1>1, <1>2, <1>3, <1>4, <1>5, <1>6

-----------------------------------------------------------------------------
(* Registration: Registered is inductive *)

(* Failures are counted.                                                    *)
LEMMA FaultCounts ==
  ASSUME TypeOK
  PROVE  Fault => faults' # 0
BY DEF TypeOK, Fault

(* A step that leaves the registrations and the existence of rows alone.    *)
LEMMA RegisteredFrame ==
  ASSUME Registered, UNCHANGED <<name, reg, mail, rushed>>,
         \A v \in Visitor : rows'[v].stored = rows[v].stored,
         faults' = 0 => faults = 0
  PROVE  Registered'
BY DEF Registered

(* register_view: who gets past the query while another request is between  *)
(* query and insert has overlapped with it, and who inserts after another   *)
(* has a name of its own.                                                   *)
LEMMA RegisterKeepsRegistered ==
  ASSUME TypeOK, Registered, NEW v \in Visitor,
         \/ RegisterCheck(v) \/ RegisterRefused(v) \/ RegisterCreate(v)
         \/ RegisterToken(v) \/ RegisterMail(v)
  PROVE  Registered'
<1>1. CASE RegisterCheck(v)
  <2>1. /\ reg[v] = "new" /\ UNCHANGED <<name, rows, mail, faults>>
        /\ reg' = [reg EXCEPT ![v] = IF Stored # {} THEN "duplicate_email"
                                     ELSE "create"]
        /\ rushed' = (rushed \/ \E w \in Visitor : reg[w] = "create")
    BY <1>1 DEF RegisterCheck, rowVars
  <2>2. \A w \in Visitor : w # v => reg'[w] = reg[w]
    BY <2>1 DEF TypeOK
  <2>3. /\ reg'[v] \in {"duplicate_email", "create"}
        /\ reg'[v] = "create" => \A w \in Visitor : ~rows[w].stored
    BY <2>1 DEF TypeOK, Stored
  <2>4. ~rows[v].stored /\ mail[v] \notin {"mailed", "used"}
    BY <2>1 DEF Registered
  <2>5. ASSUME NEW w \in Visitor
        PROVE  /\ rows'[w].stored =>
                    reg'[w] \in {"token", "mail", "registered", "server_error"}
               /\ reg'[w] \in {"token", "mail", "registered"} => rows'[w].stored
               /\ mail'[w] \in {"mailed", "used"} => reg'[w] = "registered"
               /\ faults' = 0 /\ rows'[w].stored =>
                    reg'[w] \in {"token", "mail"} \/ mail'[w] \in {"mailed", "used"}
    <3>1. CASE w = v
      BY <2>1, <2>3, <2>4, <3>1
    <3>2. CASE w # v
      BY <2>1, <2>2, <3>2 DEF Registered
    <3>3. QED
      BY <3>1, <3>2
  <2>6. ASSUME NEW x \in Visitor, NEW w \in Visitor, x # w,
               rows'[x].stored \/ reg'[x] = "create",
               rows'[w].stored \/ reg'[w] = "create"
        PROVE  rushed'
    <3>1. CASE x # v /\ w # v
      BY <2>1, <2>2, <2>6, <3>1 DEF Registered
    <3>2. CASE x = v
      <4>1. reg[w] = "create"
        BY <2>1, <2>2, <2>3, <2>4, <2>6, <3>2
      <4>2. QED
        BY <2>1, <4>1
    <3>3. CASE w = v
      <4>1. reg[x] = "create"
        BY <2>1, <2>2, <2>3, <2>4, <2>6, <3>3
      <4>2. QED
        BY <2>1, <4>1
    <3>4. QED
      BY <3>1, <3>2, <3>3
  <2>7. \A x, w \in Visitor : x # w /\ rows'[x].stored /\ rows'[w].stored
                                => name'[x] # name'[w]
    BY <2>1 DEF Registered
  <2>8. QED
    BY <2>5, <2>6, <2>7 DEF Registered
<1>2. CASE RegisterRefused(v)
  <2>1. /\ reg[v] = "new" /\ UNCHANGED <<name, rows, mail, faults, rushed>>
        /\ reg' = [reg EXCEPT ![v] = "invalid"]
    BY <1>2 DEF RegisterRefused, rowVars
  <2>2. /\ reg'[v] = "invalid" /\ \A w \in Visitor : w # v => reg'[w] = reg[w]
        /\ ~rows[v].stored /\ mail[v] \notin {"mailed", "used"}
    BY <2>1 DEF TypeOK, Registered
  <2>3. QED
    BY <2>1, <2>2 DEF Registered
<1>3. CASE RegisterCreate(v)
  <2> DEFINE clash == \E w \in Stored : name[w] = name[v]
  <2>1. /\ reg[v] = "create" /\ UNCHANGED <<name, mail, rushed>>
        /\ rows' = IF clash THEN rows ELSE [rows EXCEPT ![v].stored = TRUE]
        /\ \/ /\ reg' = [reg EXCEPT ![v] = IF clash THEN "server_error"
                                           ELSE "token"]
              /\ UNCHANGED faults
           \/ /\ ~clash /\ Fault
              /\ reg' = [reg EXCEPT ![v] = "server_error"]
    BY <1>3 DEF RegisterCreate
  <2>2. ~rows[v].stored /\ mail[v] \notin {"mailed", "used"}
    BY <2>1 DEF Registered
  <2>3. \A w \in Visitor : w # v => reg'[w] = reg[w]
    BY <2>1 DEF TypeOK
  <2>4. faults' = 0 => faults = 0 /\ reg'[v] = IF clash THEN "server_error"
                                               ELSE "token"
    BY <2>1, FaultCounts DEF TypeOK
  <2>5. CASE clash
    <3>1. rows' = rows /\ reg'[v] = "server_error"
      BY <2>1, <2>5 DEF TypeOK
    <3> HIDE DEF clash
    <3>2. QED
      BY <2>1, <2>2, <2>3, <2>4, <3>1 DEF Registered
  <2>6. CASE ~clash
    <3>1. /\ \A w \in Visitor : w # v => rows'[w] = rows[w]
          /\ rows'[v].stored
          /\ reg'[v] \in {"token", "server_error"}
      <4>1. rows' = [rows EXCEPT ![v].stored = TRUE]
        BY <2>1, <2>6
      <4>2. reg'[v] \in {"token", "server_error"}
        BY <2>1, <2>6 DEF TypeOK
      <4>3. rows'[v].stored
        BY <4>1, RowWrites, 0 \in Nat DEF TypeOK
      <4>4. QED
        BY <4>1, <4>2, <4>3 DEF TypeOK
    <3>2. \A w \in Visitor : w # v /\ rows[w].stored => name[w] # name[v]
      BY <2>6 DEF Stored
    <3>3. faults' = 0 => reg'[v] = "token"
      BY <2>4, <2>6
    <3> HIDE DEF clash
    <3>4. ASSUME NEW w \in Visitor
          PROVE  /\ rows'[w].stored =>
                      reg'[w] \in {"token", "mail", "registered", "server_error"}
                 /\ reg'[w] \in {"token", "mail", "registered"} => rows'[w].stored
                 /\ mail'[w] \in {"mailed", "used"} => reg'[w] = "registered"
                 /\ faults' = 0 /\ rows'[w].stored =>
                      reg'[w] \in {"token", "mail"}
                        \/ mail'[w] \in {"mailed", "used"}
      <4>1. CASE w = v
        BY <2>1, <2>2, <3>1, <3>3, <4>1
      <4>2. CASE w # v
        BY <2>1, <2>3, <2>4, <3>1, <4>2 DEF Registered
      <4>3. QED
        BY <4>1, <4>2
    <3>5. ASSUME NEW x \in Visitor, NEW w \in Visitor, x # w,
                 rows'[x].stored \/ reg'[x] = "create",
                 rows'[w].stored \/ reg'[w] = "create"
          PROVE  rushed'
      <4>1. /\ rows[x].stored \/ reg[x] = "create"
            /\ rows[w].stored \/ reg[w] = "create"
        BY <2>1, <2>3, <3>1, <3>5
      <4>2. QED
        BY <2>1, <3>5, <4>1 DEF Registered
    <3>6. ASSUME NEW x \in Visitor, NEW w \in Visitor, x # w,
                 rows'[x].stored, rows'[w].stored
          PROVE  name'[x] # name'[w]
      BY <2>1, <3>1, <3>2, <3>6 DEF Registered
    <3>7. QED
      BY <3>4, <3>5, <3>6 DEF Registered
  <2>7. QED
    BY <2>5, <2>6
<1>4. CASE RegisterToken(v)
  <2>1. /\ reg[v] = "token" /\ UNCHANGED <<name, rows, faults, rushed>>
        /\ reg' = [reg EXCEPT ![v] = "mail"]
        /\ mail' = [mail EXCEPT ![v] = "stored"]
    BY <1>4 DEF RegisterToken, rowVars
  <2>2. /\ reg'[v] = "mail" /\ mail'[v] = "stored"
        /\ \A w \in Visitor : w # v => reg'[w] = reg[w] /\ mail'[w] = mail[w]
        /\ rows[v].stored
    BY <2>1 DEF TypeOK, Registered
  <2>3. QED
    BY <2>1, <2>2 DEF Registered
<1>5. CASE RegisterMail(v)
  <2>1. /\ reg[v] = "mail" /\ UNCHANGED <<name, rows, rushed>>
        /\ \/ /\ reg' = [reg EXCEPT ![v] = "registered"]
              /\ mail' = [mail EXCEPT ![v] = "mailed"] /\ UNCHANGED faults
           \/ /\ Fault
              /\ reg' = [reg EXCEPT ![v] = "server_error"] /\ UNCHANGED mail
    BY <1>5 DEF RegisterMail, rowVars
  <2>2. /\ rows[v].stored /\ mail[v] \notin {"mailed", "used"}
        /\ \A w \in Visitor : w # v => reg'[w] = reg[w] /\ mail'[w] = mail[w]
        /\ \/ reg'[v] = "registered" /\ mail'[v] = "mailed" /\ faults' = faults
           \/ reg'[v] = "server_error" /\ mail'[v] = mail[v] /\ faults' # 0
    BY <2>1, FaultCounts DEF TypeOK, Registered
  <2>3. QED
    BY <2>1, <2>2 DEF Registered
<1>6. QED
  BY <1>1, <1>2, <1>3, <1>4, <1>5

(* The other steps: a click uses up a token, or writes a row back that was  *)
(* there before.                                                            *)
LEMMA VerifyKeepsRegistered ==
  ASSUME TypeOK, Registered, Clicked, NEW c \in Click,
         VerifyMark(c) \/ VerifySave(c)
  PROVE  Registered'
<1>1. CASE VerifyMark(c)
  <2> DEFINE v == copy[c].row
  <2>1. /\ click[c] = "mark" /\ mail' = [mail EXCEPT ![v] = "used"]
        /\ UNCHANGED <<name, rows, reg, rushed, faults>>
    BY <1>1 DEF VerifyMark, rowVars
  <2>2. v \in Visitor /\ mail[v] \in {"mailed", "used"}
    BY <2>1 DEF Clicked
  <2> HIDE DEF v
  <2>3. /\ mail'[v] = "used" /\ reg[v] = "registered"
        /\ \A w \in Visitor : w # v => mail'[w] = mail[w]
    BY <2>1, <2>2 DEF TypeOK, Registered
  <2>4. QED
    BY <2>1, <2>2, <2>3 DEF Registered
<1>2. CASE VerifySave(c)
  <2> DEFINE v == copy[c].row
             r == [copy[c].data EXCEPT !.joined = TRUE]
  <2>1. /\ click[c] = "save" /\ rows' = [rows EXCEPT ![v] = r]
        /\ UNCHANGED <<name, reg, mail, rushed, faults>>
    BY <1>2 DEF VerifySave, regVars
  <2>2. v \in Visitor /\ copy[c].data.stored /\ mail[v] \in {"mailed", "used"}
    BY <2>1 DEF Clicked
  <2>3. rows[v].stored
    BY <2>2 DEF Registered
  <2>4. r.stored
    <3>1. copy[c].data \in Row
      BY DEF TypeOK
    <3>2. QED
      BY <2>2, <3>1, RowConfirmed
  <2> HIDE DEF v, r
  <2>5. /\ rows'[v].stored /\ \A w \in Visitor : w # v => rows'[w] = rows[w]
    BY <2>1, <2>2, <2>4 DEF TypeOK
  <2>6. QED
    BY <2>1, <2>2, <2>3, <2>5 DEF Registered
<1>3. QED
  BY <1>1, <1>2

-----------------------------------------------------------------------------
(* Confirmation: Clicked is inductive *)

(* A step that leaves the clicks alone and takes no mail back.              *)
LEMMA ClickedFrame ==
  ASSUME Clicked, UNCHANGED <<click, copy>>,
         \A v \in Visitor : mail[v] \in {"mailed", "used"}
                              => mail'[v] \in {"mailed", "used"}
  PROVE  Clicked'
BY DEF Clicked

(* Registration takes no mail back: it deals with tokens not mailed yet.    *)
LEMMA RegisterKeepsClicked ==
  ASSUME TypeOK, Registered, Clicked, NEW v \in Visitor,
         RegisterToken(v) \/ RegisterMail(v)
  PROVE  Clicked'
<1>1. /\ mail[v] \notin {"mailed", "used"} /\ UNCHANGED <<click, copy>>
      /\ \A w \in Visitor : w # v => mail'[w] = mail[w]
  BY DEF RegisterToken, RegisterMail, clickVars, Registered, TypeOK
<1>2. QED
  BY <1>1, ClickedFrame

(* verify_email_view.                                                       *)
LEMMA VerifyKeepsClicked ==
  ASSUME TypeOK, Registered, Clicked, NEW c \in Click,
         \/ \E v \in Visitor : VerifyToken(c, v)
         \/ VerifyMark(c) \/ VerifyLoad(c) \/ VerifySave(c)
  PROVE  Clicked'
<1>1. CASE \E v \in Visitor : VerifyToken(c, v)
  <2>0. PICK v \in Visitor : VerifyToken(c, v)
    BY <1>1
  <2>1. /\ UNCHANGED mail /\ mail[v] \in {"mailed", "used"}
        /\ copy'[c].row = v /\ click'[c] # "save"
        /\ \A d \in Click : d # c => copy'[d] = copy[d] /\ click'[d] = click[d]
    BY <2>0 DEF VerifyToken, regVars, TypeOK
  <2>2. QED
    BY <2>1 DEF Clicked
<1>2. CASE VerifyMark(c)
  <2>1. /\ mail' = [mail EXCEPT ![copy[c].row] = "used"] /\ UNCHANGED copy
        /\ click[c] = "mark" /\ click' = [click EXCEPT ![c] = "load"]
    BY <1>2 DEF VerifyMark
  <2>2. \A w \in Visitor : mail[w] \in {"mailed", "used"}
                              => mail'[w] \in {"mailed", "used"}
    BY <2>1 DEF TypeOK
  <2>3. click'[c] = "load" /\ \A d \in Click : d # c => click'[d] = click[d]
    BY <2>1 DEF TypeOK
  <2>4. QED
    BY <2>1, <2>2, <2>3 DEF Clicked
<1>3. CASE VerifyLoad(c)
  <2>1. /\ copy' = [copy EXCEPT ![c].data = rows[copy[c].row]] /\ UNCHANGED mail
        /\ click[c] = "load" /\ click' = [click EXCEPT ![c] = "save"]
    BY <1>3 DEF VerifyLoad, regVars
  <2>2. /\ copy[c].row \in Visitor /\ mail[copy[c].row] \in {"mailed", "used"}
    BY <2>1 DEF Clicked
  <2>3. rows[copy[c].row].stored
    BY <2>2 DEF Registered
  <2>4. /\ copy'[c].data = rows[copy[c].row] /\ copy'[c].row = copy[c].row
        /\ click'[c] = "save"
        /\ \A d \in Click : d # c => copy'[d] = copy[d] /\ click'[d] = click[d]
    BY <2>1 DEF TypeOK
  <2>5. QED
    BY <2>1, <2>2, <2>3, <2>4 DEF Clicked
<1>4. CASE VerifySave(c)
  <2>1. /\ UNCHANGED <<mail, copy>> /\ click' = [click EXCEPT ![c] = "confirmed"]
    BY <1>4 DEF VerifySave, regVars
  <2>2. /\ click'[c] = "confirmed"
        /\ \A d \in Click : d # c => click'[d] = click[d]
    BY <2>1 DEF TypeOK
  <2>3. QED
    BY <2>1, <2>2 DEF Clicked
<1>5. QED
  BY <1>1, <1>2, <1>3, <1>4

-----------------------------------------------------------------------------
(* The personal link: Linked is inductive *)

(* A step that leaves tokens, expiries and the clicks alone.                *)
LEMMA LinkedFrame ==
  ASSUME Linked, Clicked, UNCHANGED <<links, handed, lapsed, end, click, copy>>,
         \A v \in Visitor : /\ rows'[v].digest = rows[v].digest
                            /\ rows'[v].expires = rows[v].expires
  PROVE  Linked'
<1>1. \A c \in Click : click[c] = "save" => copy[c].row \in Visitor
  BY DEF Clicked
<1>2. QED
  BY <1>1 DEF Linked

(* A new token is newer than every version of the row.                      *)
LEMMA IssueKeepsLinked ==
  ASSUME TypeOK, Linked, Clicked, NEW v \in Visitor, issue_join_token(v)
  PROVE  Linked'
<1>1. /\ links' = links + 1 /\ handed' = [handed EXCEPT ![v] = links + 1]
      /\ rows' = [rows EXCEPT ![v].digest = links + 1, ![v].expires = end]
      /\ lapsed' = lapsed \ {v} /\ UNCHANGED <<end, click, copy>>
  BY DEF issue_join_token, clickVars
<1>2. links \in Nat /\ links + 1 \in Nat /\ end \in Nat
  BY DEF TypeOK
<1>3. \A w \in Visitor :
        /\ rows'[w].digest = IF w = v THEN links + 1 ELSE rows[w].digest
        /\ rows'[w].expires = IF w = v THEN end ELSE rows[w].expires
        /\ handed'[w] = IF w = v THEN links + 1 ELSE handed[w]
  BY <1>1, <1>2, RowWrites DEF TypeOK
<1>4. ASSUME NEW w \in Visitor
      PROVE  /\ rows'[w].digest <= links'
             /\ handed'[w] # 0 /\ w \notin lapsed' =>
                  rows'[w].digest = handed'[w] /\ rows'[w].expires = end'
  <2>1. rows[w].digest \in Nat /\ rows[w].digest <= links
    BY DEF TypeOK, Row, Linked
  <2>2. links + 1 <= links + 1 /\ rows[w].digest <= links + 1
    BY <1>2, <2>1
  <2>3. CASE w = v
    <3>1. /\ rows'[w].digest = links + 1 /\ handed'[w] = links + 1
          /\ rows'[w].expires = end
      BY <1>3, <2>3
    <3>2. QED
      BY <1>1, <2>2, <3>1
  <2>4. CASE w # v
    <3>1. /\ rows'[w].digest = rows[w].digest /\ handed'[w] = handed[w]
          /\ rows'[w].expires = rows[w].expires
      BY <1>3, <2>4
    <3>2. w \notin lapsed' => w \notin lapsed
      BY <1>1, <2>4
    <3>3. handed[w] # 0 /\ w \notin lapsed =>
            rows[w].digest = handed[w] /\ rows[w].expires = end
      BY DEF Linked
    <3>4. QED
      BY <1>1, <2>2, <3>1, <3>2, <3>3
  <2>5. QED
    BY <2>3, <2>4
<1>5. ASSUME NEW c \in Click
      PROVE  /\ copy'[c].data.digest <= links'
             /\ click'[c] = "save"
                  /\ copy'[c].data.digest = rows'[copy'[c].row].digest =>
                  copy'[c].data.expires = rows'[copy'[c].row].expires
  <2>1. copy[c].data.digest \in Nat /\ copy[c].data.digest <= links
    BY DEF TypeOK, Row, Linked
  <2>2. copy[c].data.digest # links + 1 /\ copy[c].data.digest <= links + 1
    BY <1>2, <2>1
  <2>3. ASSUME click[c] = "save",
               copy[c].data.digest = rows'[copy[c].row].digest
        PROVE  copy[c].data.expires = rows'[copy[c].row].expires
    <3>1. copy[c].row \in Visitor
      BY <2>3 DEF Clicked
    <3>2. copy[c].row # v
      BY <1>3, <2>2, <2>3, <3>1
    <3>3. QED
      BY <1>3, <2>3, <3>1, <3>2 DEF Linked
  <2>4. QED
    BY <1>1, <2>2, <2>3
<1>6. QED
  BY <1>1, <1>4, <1>5 DEF Linked

(* An extension of the event lapses every link.                             *)
LEMMA ExtendKeepsLinked ==
  ASSUME TypeOK, Linked, Clicked, Extend
  PROVE  Linked'
<1>1. /\ lapsed' = lapsed \cup {v \in Visitor : handed[v] # 0}
      /\ UNCHANGED <<rows, handed, links, click, copy>>
  BY DEF Extend, rowVars, clickVars
<1>2. QED
  BY <1>1 DEF Linked

(* verify_email_view: a click that writes an old token back lapses the      *)
(* link; if the token is the current one, so is the expiry.                 *)
LEMMA VerifyKeepsLinked ==
  ASSUME TypeOK, Linked, Clicked, NEW c \in Click,
         \/ \E v \in Visitor : VerifyToken(c, v)
         \/ VerifyMark(c) \/ VerifyLoad(c) \/ VerifySave(c)
  PROVE  Linked'
<1>0. \A d \in Click : click[d] = "save" => copy[d].row \in Visitor
  BY DEF Clicked
<1>1. CASE \E v \in Visitor : VerifyToken(c, v)
  <2>0. PICK v \in Visitor : VerifyToken(c, v)
    BY <1>1
  <2>1. /\ UNCHANGED <<end, rows, handed, links, lapsed>>
        /\ copy'[c].data = copy[c].data /\ click'[c] # "save"
        /\ \A d \in Click : d # c => copy'[d] = copy[d] /\ click'[d] = click[d]
    BY <2>0 DEF VerifyToken, rowVars, TypeOK
  <2>2. QED
    BY <1>0, <2>1 DEF Linked
<1>2. CASE VerifyMark(c)
  <2>1. /\ UNCHANGED <<end, rows, handed, links, lapsed, copy>>
        /\ click'[c] # "save"
        /\ \A d \in Click : d # c => click'[d] = click[d]
    BY <1>2 DEF VerifyMark, rowVars, TypeOK
  <2>2. QED
    BY <1>0, <2>1 DEF Linked
<1>3. CASE VerifyLoad(c)
  <2> DEFINE w == copy[c].row
  <2>1. w \in Visitor
    BY <1>3 DEF VerifyLoad, Clicked
  <2>2. /\ UNCHANGED <<end, rows, handed, links, lapsed>>
        /\ copy'[c].data = rows[w] /\ copy'[c].row = w
        /\ \A d \in Click : d # c => copy'[d] = copy[d] /\ click'[d] = click[d]
    BY <1>3 DEF VerifyLoad, rowVars, TypeOK
  <2> HIDE DEF w
  <2>3. ASSUME NEW d \in Click
        PROVE  /\ copy'[d].data.digest <= links
               /\ click'[d] = "save"
                    /\ copy'[d].data.digest = rows[copy'[d].row].digest =>
                    copy'[d].data.expires = rows[copy'[d].row].expires
    BY <2>1, <2>2 DEF Linked
  <2>4. ASSUME NEW d \in Click, NEW e \in Click,
               click'[d] = "save", click'[e] = "save",
               copy'[d].row = copy'[e].row,
               copy'[d].data.digest = copy'[e].data.digest
        PROVE  copy'[d].data.expires = copy'[e].data.expires
    <3>1. CASE d = c
      BY <2>2, <2>3, <2>4, <3>1
    <3>2. CASE e = c
      BY <2>2, <2>3, <2>4, <3>2
    <3>3. CASE d # c /\ e # c
      BY <2>2, <2>4, <3>3 DEF Linked
    <3>4. QED
      BY <3>1, <3>2, <3>3
  <2>5. QED
    BY <2>2, <2>3, <2>4 DEF Linked
<1>4. CASE VerifySave(c)
  <2> DEFINE w == copy[c].row
             r == [copy[c].data EXCEPT !.joined = TRUE]
  <2>1. /\ click[c] = "save" /\ click' = [click EXCEPT ![c] = "confirmed"]
        /\ rows' = [rows EXCEPT ![w] = r]
        /\ lapsed' = IF copy[c].data.digest # rows[w].digest
                     THEN lapsed \cup {w} ELSE lapsed
        /\ UNCHANGED <<end, links, handed, copy>>
    BY <1>4 DEF VerifySave
  <2>2. w \in Visitor
    BY <1>0, <2>1
  <2>3. r.digest = copy[c].data.digest /\ r.expires = copy[c].data.expires
    BY RowConfirmed DEF TypeOK
  <2>4. click'[c] = "confirmed" /\ \A d \in Click : d # c => click'[d] = click[d]
    BY <2>1 DEF TypeOK
  <2> HIDE DEF w, r
  <2>5. rows'[w] = r /\ \A x \in Visitor : x # w => rows'[x] = rows[x]
    BY <2>1, <2>2 DEF TypeOK
  <2>6. ASSUME NEW x \in Visitor
        PROVE  /\ rows'[x].digest <= links
               /\ handed[x] # 0 /\ x \notin lapsed' =>
                    rows'[x].digest = handed[x] /\ rows'[x].expires = end
    <3>1. CASE x = w
      <4>1. copy[c].data.digest <= links
        BY DEF Linked
      <4>2. copy[c].data.digest = rows[w].digest
              => copy[c].data.expires = rows[w].expires
        BY <2>1 DEF Linked, w
      <4>3. QED
        BY <2>1, <2>2, <2>3, <2>5, <3>1, <4>1, <4>2 DEF Linked
    <3>2. CASE x # w
      BY <2>1, <2>5, <3>2 DEF Linked
    <3>3. QED
      BY <3>1, <3>2
  <2>7. ASSUME NEW d \in Click
        PROVE  /\ copy[d].data.digest <= links
               /\ click'[d] = "save"
                    /\ copy[d].data.digest = rows'[copy[d].row].digest =>
                    copy[d].data.expires = rows'[copy[d].row].expires
    <3>1. copy[d].data.digest <= links
      BY DEF Linked
    <3>2. ASSUME click'[d] = "save",
                 copy[d].data.digest = rows'[copy[d].row].digest
          PROVE  copy[d].data.expires = rows'[copy[d].row].expires
      <4>1. d # c /\ click[d] = "save" /\ copy[d].row \in Visitor
        BY <1>0, <2>4, <3>2
      <4>2. CASE copy[d].row = w
        BY <2>1, <2>3, <2>5, <3>2, <4>1, <4>2 DEF Linked, w
      <4>3. CASE copy[d].row # w
        BY <2>5, <3>2, <4>1, <4>3 DEF Linked
      <4>4. QED
        BY <4>2, <4>3
    <3>3. QED
      BY <3>1, <3>2
  <2>8. \A d, e \in Click :
          /\ click'[d] = "save" /\ click'[e] = "save"
          /\ copy[d].row = copy[e].row
          /\ copy[d].data.digest = copy[e].data.digest
          => copy[d].data.expires = copy[e].data.expires
    BY <2>4 DEF Linked
  <2>9. QED
    BY <2>1, <2>6, <2>7, <2>8 DEF Linked
<1>5. QED
  BY <1>1, <1>2, <1>3, <1>4

-----------------------------------------------------------------------------
(* Sessions and sockets: Owners and Latest are inductive *)

(* A step that leaves sessions and sockets alone.                           *)
LEMMA OwnersFrame ==
  ASSUME Owners, faults = 0 => Latest, UNCHANGED <<joinVars, sockVars>>,
         faults' = 0 => faults = 0
  PROVE  Owners' /\ (faults' = 0 => Latest')
BY DEF Owners, Owned, Latest, Joining, joinVars, sockVars

(* Every session and every socket has a participant.                        *)
LEMMA OwnersKept ==
  ASSUME TypeOK, Owners, NEW b \in Browser,
         \/ \E v \in Visitor : JoinAuthenticate(b, v)
         \/ JoinRemember(b) \/ JoinInvalidate(b)
         \/ Connect(b) \/ Hello(b) \/ Disconnect(b)
  PROVE  Owners'
<1>1. CASE \E v \in Visitor : JoinAuthenticate(b, v)
  <2>0. PICK v \in Visitor : JoinAuthenticate(b, v)
    BY <1>1
  <2> DEFINE s == [key |-> sessions + 1, row |-> v]
  <2>1. /\ session' = [session EXCEPT ![b] = s]
        /\ join' = [join EXCEPT ![b] = "remember"]
        /\ UNCHANGED <<socket, scope>>
    BY <2>0 DEF JoinAuthenticate, sockVars
  <2>2. s # NoSession /\ Owned(s)
    <3>1. sessions \in Nat /\ s.key = sessions + 1 /\ s.row = v
      BY DEF TypeOK
    <3>2. s.key # 0
      BY <3>1
    <3>3. QED
      BY <3>1, <3>2 DEF Owned, NoSession
  <2> HIDE DEF s
  <2>3. /\ session'[b] = s
        /\ \A x \in Browser : x # b => session'[x] = session[x] /\ join'[x] = join[x]
    BY <2>1 DEF TypeOK
  <2>4. QED
    BY <2>1, <2>2, <2>3 DEF Owners, Owned
<1>2. CASE JoinRemember(b)
  <2>1. /\ UNCHANGED <<session, socket, scope>> /\ join[b] # "idle"
        /\ \A x \in Browser : x # b => join'[x] = join[x]
    BY <1>2 DEF JoinRemember, sockVars, TypeOK
  <2>2. QED
    BY <2>1 DEF Owners, Owned
<1>3. CASE JoinInvalidate(b)
  <2>1. /\ UNCHANGED <<session, scope>> /\ join'[b] = "idle"
        /\ \A x \in Browser : x # b => join'[x] = join[x]
        /\ \A x \in Browser : socket'[x] \in {"none", socket[x]}
    BY <1>3 DEF JoinInvalidate, Close, TypeOK
  <2>2. QED
    BY <2>1 DEF Owners, Owned
<1>4. CASE Connect(b)
  <2>1. /\ UNCHANGED <<session, join>> /\ session[b] # NoSession
        /\ scope'[b] = session[b]
        /\ \A x \in Browser : x # b => scope'[x] = scope[x] /\ socket'[x] = socket[x]
    BY <1>4 DEF Connect, joinVars, TypeOK
  <2>2. QED
    BY <2>1 DEF Owners, Owned
<1>5. CASE Hello(b)
  <2>1. /\ UNCHANGED <<session, join, scope>> /\ socket[b] # "none"
        /\ \A x \in Browser : x # b => socket'[x] \in {"none", socket[x]}
    BY <1>5 DEF Hello, joinVars, TypeOK
  <2>2. QED
    BY <2>1 DEF Owners, Owned
<1>6. CASE Disconnect(b)
  <2>1. /\ UNCHANGED <<session, join, scope>>
        /\ \A x \in Browser : socket'[x] \in {"none", socket[x]}
    BY <1>6 DEF Disconnect, Close, joinVars, TypeOK
  <2>2. QED
    BY <2>1 DEF Owners, Owned
<1>7. QED
  BY <1>1, <1>2, <1>3, <1>4, <1>5, <1>6

(* The link is followed: the browser is about to be recorded.               *)
LEMMA AuthenticateKeepsLatest ==
  ASSUME TypeOK, Owners, Latest, NEW b \in Browser, NEW v \in Visitor,
         JoinAuthenticate(b, v)
  PROVE  Latest'
<1>1. /\ join[b] = "idle"
      /\ session' = [session EXCEPT ![b] = [key |-> sessions + 1, row |-> v]]
      /\ join' = [join EXCEPT ![b] = "remember"]
      /\ moved' = moved \cup {w \in Visitor \ {v} :
                                session[b] = [key |-> current[w], row |-> w]}
      /\ UNCHANGED <<socket, scope, slipped, current>>
  BY DEF JoinAuthenticate, sockVars
<1>2. /\ session'[b].row = v /\ join'[b] = "remember"
      /\ \A x \in Browser : x # b => session'[x] = session[x] /\ join'[x] = join[x]
  BY <1>1 DEF TypeOK
<1>3. \A w : (Joining(w, {"remember"}) => Joining(w, {"remember"})')
             /\ (Joining(w, {"remember", "invalidate"})
                   => Joining(w, {"remember", "invalidate"})')
  BY <1>1, <1>2 DEF Joining
<1>4. Joining(v, {"remember"})'
  BY <1>2 DEF Joining
<1>5. ASSUME NEW w \in Visitor, current'[w] = 0,
             \E x \in Browser : session'[x].row = w \/ scope'[x].row = w
      PROVE  Joining(w, {"remember"})'
  <2>1. CASE w = v
    BY <1>4, <2>1
  <2>2. CASE w # v
    <3>1. \E x \in Browser : session[x].row = w \/ scope[x].row = w
      BY <1>1, <1>2, <1>5, <2>2
    <3>2. QED
      BY <1>1, <1>3, <1>5, <3>1 DEF Latest
  <2>3. QED
    BY <2>1, <2>2
<1>6. ASSUME NEW w \in Visitor, current'[w] # 0, w \notin moved'
      PROVE  \/ \E x \in Browser : session'[x] = [key |-> current'[w], row |-> w]
             \/ Joining(w, {"remember"})'
  <2>1. CASE w = v
    BY <1>4, <2>1
  <2>2. CASE w # v /\ Joining(w, {"remember"})
    BY <1>3, <2>2
  <2>3. CASE w # v /\ ~Joining(w, {"remember"})
    <3>1. PICK x \in Browser : session[x] = [key |-> current[w], row |-> w]
      BY <1>1, <1>6, <2>3 DEF Latest
    <3>2. x # b
      BY <1>1, <1>6, <2>3, <3>1
    <3>3. QED
      BY <1>1, <1>2, <3>1, <3>2
  <2>4. QED
    BY <2>1, <2>2, <2>3
<1>7. ASSUME NEW x \in Browser, socket'[x] = "member", x \notin slipped',
             scope'[x].key # current'[scope'[x].row]
      PROVE  Joining(scope[x].row, {"remember", "invalidate"})'
  BY <1>1, <1>3, <1>7 DEF Latest
<1>8. QED
  BY <1>1, <1>5, <1>6, <1>7 DEF Latest

(* The session is recorded: the older sockets are about to be closed.       *)
LEMMA RememberKeepsLatest ==
  ASSUME TypeOK, Owners, Latest, NEW b \in Browser, JoinRemember(b), faults' = 0
  PROVE  Latest'
<1> DEFINE v == session[b].row
<1>1. /\ join[b] = "remember" /\ join' = [join EXCEPT ![b] = "invalidate"]
      /\ current' = [current EXCEPT ![v] = session[b].key]
      /\ moved' = moved \ {v}
      /\ UNCHANGED <<session, socket, scope, slipped>>
  BY FaultCounts DEF JoinRemember, sockVars
<1>2. v \in Visitor /\ session[b].key # 0
      /\ session[b] = [key |-> session[b].key, row |-> v]
  BY <1>1 DEF Owners, Owned, TypeOK, Session
<1> HIDE DEF v
<1>3. /\ current'[v] = session[b].key
      /\ \A w \in Visitor : w # v => current'[w] = current[w]
      /\ join'[b] = "invalidate"
      /\ \A x \in Browser : x # b => join'[x] = join[x]
  BY <1>1, <1>2 DEF TypeOK
<1>4. \A w : w # v =>
        /\ Joining(w, {"remember"}) => Joining(w, {"remember"})'
        /\ Joining(w, {"remember", "invalidate"})
             => Joining(w, {"remember", "invalidate"})'
  BY <1>1, <1>3 DEF Joining, v
<1>5. Joining(v, {"remember", "invalidate"})'
  BY <1>1, <1>3 DEF Joining, v
<1>6. ASSUME NEW w \in Visitor, current'[w] = 0,
             \E x \in Browser : session'[x].row = w \/ scope'[x].row = w
      PROVE  Joining(w, {"remember"})'
  <2>1. w # v
    BY <1>2, <1>3, <1>6
  <2>2. QED
    BY <1>1, <1>3, <1>4, <1>6, <2>1 DEF Latest
<1>7. ASSUME NEW w \in Visitor, current'[w] # 0, w \notin moved'
      PROVE  \/ \E x \in Browser : session'[x] = [key |-> current'[w], row |-> w]
             \/ Joining(w, {"remember"})'
  <2>1. CASE w = v
    BY <1>1, <1>2, <1>3, <2>1
  <2>2. CASE w # v
    BY <1>1, <1>3, <1>4, <1>7, <2>2 DEF Latest
  <2>3. QED
    BY <2>1, <2>2
<1>8. ASSUME NEW x \in Browser, socket'[x] = "member", x \notin slipped',
             scope'[x].key # current'[scope'[x].row]
      PROVE  Joining(scope[x].row, {"remember", "invalidate"})'
  <2>1. CASE scope[x].row = v
    BY <1>1, <1>3, <2>1 DEF Joining, v
  <2>2. CASE scope[x].row # v
    <3>1. scope[x].row \in Visitor
      BY <1>1, <1>8 DEF Owners, Owned
    <3>2. scope[x].key # current[scope[x].row]
      BY <1>1, <1>3, <1>8, <2>2, <3>1
    <3>3. QED
      BY <1>1, <1>4, <1>8, <2>2, <3>2 DEF Latest
  <2>3. QED
    BY <2>1, <2>2
<1>9. QED
  BY <1>1, <1>6, <1>7, <1>8 DEF Latest

(* The older sockets are closed.                                            *)
LEMMA InvalidateKeepsLatest ==
  ASSUME TypeOK, Owners, Latest, NEW b \in Browser, JoinInvalidate(b), faults' = 0
  PROVE  Latest'
<1> DEFINE v == session[b].row
<1>1. /\ join[b] = "invalidate" /\ join' = [join EXCEPT ![b] = "idle"]
      /\ Close(Members(v))
      /\ UNCHANGED <<session, current, moved, scope>>
  BY FaultCounts DEF JoinInvalidate
<1> HIDE DEF v
<1>2. /\ \A x \in Browser : socket'[x] = "member" =>
           socket[x] = "member" /\ scope[x].row # v /\ x \notin Members(v)
      /\ slipped' = slipped \ Members(v)
  BY <1>1 DEF Close, Members
<1>3. /\ join'[b] = "idle" /\ \A x \in Browser : x # b => join'[x] = join[x]
  BY <1>1 DEF TypeOK
<1>4. \A w : Joining(w, {"remember"}) => Joining(w, {"remember"})'
  BY <1>1, <1>3 DEF Joining
<1>5. \A w : w # v /\ Joining(w, {"remember", "invalidate"})
               => Joining(w, {"remember", "invalidate"})'
  BY <1>1, <1>3 DEF Joining, v
<1>6. ASSUME NEW x \in Browser, socket'[x] = "member", x \notin slipped',
             scope'[x].key # current'[scope'[x].row]
      PROVE  Joining(scope[x].row, {"remember", "invalidate"})'
  BY <1>1, <1>2, <1>5, <1>6 DEF Latest
<1>7. ASSUME NEW w \in Visitor, current'[w] = 0,
             \E x \in Browser : session'[x].row = w \/ scope'[x].row = w
      PROVE  Joining(w, {"remember"})'
  BY <1>1, <1>4, <1>7 DEF Latest
<1>8. ASSUME NEW w \in Visitor, current'[w] # 0, w \notin moved'
      PROVE  \/ \E x \in Browser : session'[x] = [key |-> current'[w], row |-> w]
             \/ Joining(w, {"remember"})'
  BY <1>1, <1>4, <1>8 DEF Latest
<1>9. QED
  BY <1>1, <1>6, <1>7, <1>8 DEF Latest

(* A socket joins the group with the recorded session, before any was       *)
(* recorded, or after its session was replaced, which the history says.     *)
LEMMA SocketsKeepLatest ==
  ASSUME TypeOK, Owners, Latest, NEW b \in Browser,
         Connect(b) \/ Hello(b) \/ Disconnect(b)
  PROVE  Latest'
<1>1. UNCHANGED <<session, current, moved, join>>
  BY DEF Connect, Hello, Disconnect, joinVars
<1>2. \A w, steps : Joining(w, steps) => Joining(w, steps)'
  BY <1>1 DEF Joining
<1>3. \A x \in Browser : scope'[x] = scope[x] \/ scope'[x] = session[x]
  BY DEF Connect, Hello, Disconnect, TypeOK
<1>4. ASSUME NEW w \in Visitor, current'[w] = 0,
             \E x \in Browser : session'[x].row = w \/ scope'[x].row = w
      PROVE  Joining(w, {"remember"})'
  <2>1. \E x \in Browser : session[x].row = w \/ scope[x].row = w
    BY <1>1, <1>3, <1>4
  <2>2. QED
    BY <1>1, <1>2, <1>4, <2>1 DEF Latest
<1>5. ASSUME NEW w \in Visitor, current'[w] # 0, w \notin moved'
      PROVE  \/ \E x \in Browser : session'[x] = [key |-> current'[w], row |-> w]
             \/ Joining(w, {"remember"})'
  BY <1>1, <1>2, <1>5 DEF Latest
<1>6. ASSUME NEW x \in Browser, socket'[x] = "member", x \notin slipped',
             scope'[x].key # current'[scope'[x].row]
      PROVE  Joining(scope[x].row, {"remember", "invalidate"})'
  <2>1. CASE Connect(b)
    <3>1. x # b /\ scope'[x] = scope[x] /\ socket'[x] = socket[x]
          /\ slipped' = slipped
      BY <1>6, <2>1 DEF Connect, TypeOK
    <3>2. QED
      BY <1>1, <1>6, <3>1 DEF Latest, Joining
  <2>2. CASE Disconnect(b)
    <3>1. scope' = scope /\ socket[x] = "member" /\ x # b
          /\ slipped' = slipped \ {b}
      BY <1>6, <2>2 DEF Disconnect, Close
    <3>2. QED
      BY <1>1, <1>6, <3>1 DEF Latest, Joining
  <2>3. CASE Hello(b)
    <3> DEFINE others == Members(scope[b].row) \ {b}
    <3>1. /\ scope' = scope /\ socket[b] = "accepted"
          /\ socket' = [y \in Browser |-> IF y = b THEN "member"
                                          ELSE IF y \in others THEN "none"
                                          ELSE socket[y]]
          /\ slipped' = (slipped \ others)
                          \cup (IF Matches(scope[b]) THEN {} ELSE {b})
      BY <2>3 DEF Hello
    <3> HIDE DEF others
    <3>2. CASE x = b
      <4>1. current[scope[b].row] \in {0, scope[b].key}
        BY <1>6, <3>1, <3>2 DEF Matches
      <4>2. current[scope[b].row] = 0 /\ scope[b].row \in Visitor
        BY <1>1, <1>6, <3>1, <3>2, <4>1 DEF Owners, Owned
      <4>3. Joining(scope[b].row, {"remember"})
        BY <4>2 DEF Latest
      <4>4. Joining(scope[b].row, {"remember", "invalidate"})
        BY <4>3 DEF Joining
      <4>5. QED
        BY <1>1, <3>1, <3>2, <4>4 DEF Joining
    <3>3. CASE x # b
      <4>1. socket[x] = "member" /\ x \notin others
        BY <1>6, <3>1, <3>3
      <4>2. x \notin slipped
        BY <1>6, <3>1, <4>1
      <4>3. QED
        BY <1>1, <1>6, <3>1, <4>1, <4>2 DEF Latest, Joining
    <3>4. QED
      BY <3>2, <3>3
  <2>4. QED
    BY <2>1, <2>2, <2>3
<1>7. QED
  BY <1>4, <1>5, <1>6 DEF Latest

-----------------------------------------------------------------------------
(* The inductive invariant *)

(* At the start nobody has registered.                                      *)
LEMMA AdmissionInit == Init => IInv
<1> SUFFICES ASSUME Init
             PROVE  IInv
  OBVIOUS
<1>1. NoRow \in Row /\ NoRow.stored = FALSE /\ NoRow.digest = 0
  BY DEF NoRow, Row
<1>2. NoSession \in Session /\ NoSession.row = Nobody /\ Nobody \notin Visitor
  BY AdmissionAssumption DEF NoSession, Session
<1>3. /\ \A v \in Visitor : rows[v] = NoRow /\ reg[v] = "new" /\ mail[v] = "none"
                            /\ handed[v] = 0 /\ current[v] = 0
      /\ \A c \in Click : click[c] = "new" /\ copy[c].data = NoRow
      /\ \A b \in Browser : join[b] = "idle" /\ session[b] = NoSession
                            /\ socket[b] = "none" /\ scope[b] = NoSession
      /\ links = 0
  BY DEF Init
<1>4. TypeOK
  <2>1. /\ rows \in [Visitor -> Row] /\ session \in [Browser -> Session]
        /\ scope \in [Browser -> Session]
    BY <1>1, <1>2 DEF Init
  <2>2. copy \in [Click -> [row : Visitor \cup {Nobody}, data : Row]]
    BY <1>1 DEF Init
  <2>3. EventEnd \in Nat
    BY AdmissionAssumption
  <2>4. QED
    BY <2>1, <2>2, <2>3 DEF Init, TypeOK
<1>5. Registered
  BY <1>1, <1>3 DEF Registered
<1>6. Clicked
  BY <1>3 DEF Clicked
<1>7. Linked
  BY <1>1, <1>3 DEF Linked
<1>8. Owners
  BY <1>3 DEF Owners, Owned
<1>9. Latest
  BY <1>2, <1>3 DEF Latest
<1>10. QED
  BY <1>4, <1>5, <1>6, <1>7, <1>8, <1>9 DEF IInv

(* A request of the registration keeps the invariant.                       *)
LEMMA RegisterStep ==
  ASSUME IInv, NEW v \in Visitor,
         \/ RegisterCheck(v) \/ RegisterRefused(v) \/ RegisterCreate(v)
         \/ RegisterToken(v) \/ RegisterMail(v)
  PROVE  IInv'
<1>1. /\ TypeOK /\ Registered /\ Clicked /\ Linked /\ Owners
      /\ faults = 0 => Latest
  BY DEF IInv
<1>2. TypeOK' /\ Registered'
  BY <1>1, RegisterTypes, RegisterKeepsRegistered
<1>3. /\ UNCHANGED <<clock, end, links, handed, lapsed, click, copy>>
      /\ UNCHANGED <<joinVars, sockVars>>
  BY DEF RegisterCheck, RegisterRefused, RegisterCreate, RegisterToken,
         RegisterMail, rowVars, clickVars
<1>4. faults' = 0 => faults = 0
  BY <1>1, FaultCounts
     DEF RegisterCheck, RegisterRefused, RegisterCreate, RegisterToken, RegisterMail
<1>5. Clicked'
  <2>1. CASE RegisterToken(v) \/ RegisterMail(v)
    BY <1>1, <2>1, RegisterKeepsClicked
  <2>2. CASE RegisterCheck(v) \/ RegisterRefused(v) \/ RegisterCreate(v)
    <3>1. UNCHANGED mail
      BY <2>2 DEF RegisterCheck, RegisterRefused, RegisterCreate
    <3>2. QED
      BY <1>1, <1>3, <3>1, ClickedFrame
  <2>3. QED
    BY <2>1, <2>2
<1>6. \A w \in Visitor : /\ rows'[w].digest = rows[w].digest
                         /\ rows'[w].expires = rows[w].expires
  <2>1. CASE rows' = rows
    BY <2>1
  <2>2. CASE rows' = [rows EXCEPT ![v].stored = TRUE]
    <3>1. rows \in [Visitor -> Row] /\ 0 \in Nat
      BY <1>1 DEF TypeOK
    <3>2. QED
      BY <2>2, <3>1, RowWrites
  <2>3. rows' = rows \/ rows' = [rows EXCEPT ![v].stored = TRUE]
    BY DEF RegisterCheck, RegisterRefused, RegisterCreate, RegisterToken,
           RegisterMail, rowVars
  <2>4. QED
    BY <2>1, <2>2, <2>3
<1>7. Linked'
  BY <1>1, <1>3, <1>6, LinkedFrame
<1>8. Owners' /\ (faults' = 0 => Latest')
  BY <1>1, <1>3, <1>4, OwnersFrame
<1>9. QED
  BY <1>2, <1>5, <1>7, <1>8 DEF IInv

(* So does a request of a confirmation link.                                *)
LEMMA VerifyStep ==
  ASSUME IInv, NEW c \in Click,
         \/ \E v \in Visitor : VerifyToken(c, v)
         \/ VerifyMark(c) \/ VerifyLoad(c) \/ VerifySave(c)
  PROVE  IInv'
<1>1. /\ TypeOK /\ Registered /\ Clicked /\ Linked /\ Owners
      /\ faults = 0 => Latest
  BY DEF IInv
<1>2. TypeOK'
  BY <1>1, VerifyTypes
<1>3. UNCHANGED <<joinVars, sockVars>> /\ UNCHANGED faults
  BY DEF VerifyToken, VerifyMark, VerifyLoad, VerifySave
<1>4. Registered'
  <2>1. CASE VerifyMark(c) \/ VerifySave(c)
    BY <1>1, <2>1, VerifyKeepsRegistered
  <2>2. CASE (\E v \in Visitor : VerifyToken(c, v)) \/ VerifyLoad(c)
    <3>1. UNCHANGED <<name, reg, mail, rushed>> /\ UNCHANGED rows
      BY <2>2 DEF VerifyToken, VerifyLoad, rowVars, regVars
    <3>2. QED
      BY <1>1, <1>3, <3>1, RegisteredFrame
  <2>3. QED
    BY <2>1, <2>2
<1>5. Clicked' /\ Linked'
  BY <1>1, VerifyKeepsClicked, VerifyKeepsLinked
<1>6. Owners' /\ (faults' = 0 => Latest')
  BY <1>1, <1>3, OwnersFrame
<1>7. QED
  BY <1>2, <1>4, <1>5, <1>6 DEF IInv

(* So do the clock, an extension and a new link.                            *)
LEMMA LinkStep ==
  ASSUME IInv, Tick \/ Extend \/ \E v \in Visitor : issue_join_token(v)
  PROVE  IInv'
<1>1. /\ TypeOK /\ Registered /\ Clicked /\ Linked /\ Owners
      /\ faults = 0 => Latest
  BY DEF IInv
<1>2. TypeOK'
  BY <1>1, LinkTypes
<1>3. /\ UNCHANGED <<joinVars, sockVars>> /\ UNCHANGED <<click, copy, faults>>
      /\ UNCHANGED <<name, reg, mail, rushed>>
  BY DEF Tick, Extend, issue_join_token, regVars, clickVars
<1>4. \A w \in Visitor : rows'[w].stored = rows[w].stored
  <2>1. CASE Tick \/ Extend
    BY <2>1 DEF Tick, Extend, rowVars
  <2>2. CASE \E v \in Visitor : issue_join_token(v)
    <3>1. PICK v \in Visitor : issue_join_token(v)
      BY <2>2
    <3>2. /\ rows \in [Visitor -> Row] /\ links + 1 \in Nat /\ end \in Nat
          /\ rows' = [rows EXCEPT ![v].digest = links + 1, ![v].expires = end]
      BY <1>1, <3>1 DEF TypeOK, issue_join_token
    <3>3. QED
      BY <3>2, RowWrites
  <2>3. QED
    BY <2>1, <2>2
<1>5. Registered' /\ Clicked'
  BY <1>1, <1>3, <1>4, RegisteredFrame, ClickedFrame
<1>6. Linked'
  <2>1. CASE Tick
    <3>1. UNCHANGED <<links, handed, lapsed, end, rows>>
      BY <2>1 DEF Tick, rowVars
    <3>2. QED
      BY <1>1, <1>3, <3>1, LinkedFrame
  <2>2. QED
    BY <1>1, <2>1, ExtendKeepsLinked, IssueKeepsLinked
<1>7. Owners' /\ (faults' = 0 => Latest')
  BY <1>1, <1>3, OwnersFrame
<1>8. QED
  BY <1>2, <1>5, <1>6, <1>7 DEF IInv

(* So do a browser and its socket.                                          *)
LEMMA SessionStep ==
  ASSUME IInv, NEW b \in Browser,
         \/ \E v \in Visitor : JoinAuthenticate(b, v)
         \/ JoinRemember(b) \/ JoinInvalidate(b)
         \/ Connect(b) \/ Hello(b) \/ Disconnect(b)
  PROVE  IInv'
<1>1. /\ TypeOK /\ Registered /\ Clicked /\ Linked /\ Owners
      /\ faults = 0 => Latest
  BY DEF IInv
<1>2. TypeOK' /\ Owners'
  BY <1>1, SessionTypes, OwnersKept
<1>3. /\ UNCHANGED <<name, reg, mail, rushed>> /\ UNCHANGED <<click, copy>>
      /\ UNCHANGED <<links, handed, lapsed, end>>
  BY DEF JoinAuthenticate, JoinRemember, JoinInvalidate, Connect, Hello,
         Disconnect, regVars, clickVars, rowVars
<1>4. faults' = 0 => faults = 0
  BY <1>1, FaultCounts
     DEF JoinAuthenticate, JoinRemember, JoinInvalidate, Connect, Hello, Disconnect
<1>5. \A w \in Visitor : /\ rows'[w].stored = rows[w].stored
                         /\ rows'[w].digest = rows[w].digest
                         /\ rows'[w].expires = rows[w].expires
  <2>1. CASE rows' = rows
    BY <2>1
  <2>2. CASE \E v \in Visitor : rows' = [rows EXCEPT ![v].joined = TRUE]
    <3>1. rows \in [Visitor -> Row] /\ 0 \in Nat
      BY <1>1 DEF TypeOK
    <3>2. QED
      BY <2>2, <3>1, RowWrites
  <2>3. rows' = rows \/ \E v \in Visitor : rows' = [rows EXCEPT ![v].joined = TRUE]
    BY DEF JoinAuthenticate, JoinRemember, JoinInvalidate, Connect, Hello,
           Disconnect, rowVars
  <2>4. QED
    BY <2>1, <2>2, <2>3
<1>6. Registered' /\ Clicked' /\ Linked'
  BY <1>1, <1>3, <1>4, <1>5, RegisteredFrame, ClickedFrame, LinkedFrame
<1>7. faults' = 0 => Latest'
  BY <1>1, <1>4, AuthenticateKeepsLatest, RememberKeepsLatest,
     InvalidateKeepsLatest, SocketsKeepLatest
<1>8. QED
  BY <1>2, <1>6, <1>7 DEF IInv

(* Every step keeps the invariant.                                          *)
LEMMA AdmissionNext == IInv /\ [Next]_vars => IInv'
<1> SUFFICES ASSUME IInv, [Next]_vars
             PROVE  IInv'
  OBVIOUS
<1>1. CASE UNCHANGED vars
  <2>1. TypeOK' /\ Registered' /\ Clicked' /\ Linked'
    BY <1>1 DEF IInv, vars, TypeOK, Registered, Clicked, Linked
  <2>2. Owners' /\ (faults' = 0 => Latest')
    BY <1>1, OwnersFrame DEF IInv, vars, joinVars, sockVars
  <2>3. QED
    BY <2>1, <2>2 DEF IInv
<1>2. CASE Next
  BY <1>2, RegisterStep, VerifyStep, LinkStep, SessionStep DEF Next
<1>3. QED
  BY <1>1, <1>2

-----------------------------------------------------------------------------
(* Theorems *)

(***************************************************************************)
(* register_view, verify_email_view, issue_join_token, join_participant    *)
(* and the socket keep the invariant, whatever the number of concurrent    *)
(* requests.                                                               *)
(***************************************************************************)
THEOREM AdmissionInvariant == Spec => []IInv
BY AdmissionInit, AdmissionNext, PTL DEF Spec

(***************************************************************************)
(* register_view: two rows have one address only after their requests      *)
(* overlapped, and then they have different names; an address that is      *)
(* taken has been sent its link once no request is under way, if nothing   *)
(* failed.                                                                 *)
(***************************************************************************)
THEOREM AdmissionOneRow == Spec => []OneRowPerEmail
<1>1. IInv => OneRowPerEmail
  <2> SUFFICES ASSUME Registered
               PROVE  OneRowPerEmail
    BY DEF IInv
  <2>1. \A v, w \in Stored : v # w => rushed /\ name[v] # name[w]
    BY DEF Registered, Stored
  <2>2. (\A v \in Visitor : reg[v] \notin {"token", "mail"}) /\ faults = 0 =>
          \A v \in Stored : mail[v] \in {"mailed", "used"}
    BY DEF Registered, Stored
  <2>3. QED
    BY <2>1, <2>2 DEF OneRowPerEmail
<1>2. QED
  BY <1>1, AdmissionInvariant, PTL

(***************************************************************************)
(* issue_join_token and authenticate_join_token: the last link handed out  *)
(* is accepted until the event is over, except across an extension or a    *)
(* confirmation that had read the row before.                              *)
(***************************************************************************)
THEOREM AdmissionLink == Spec => []LinkKeepsWorking
<1>1. IInv => LinkKeepsWorking
  <2> SUFFICES ASSUME TypeOK, Linked, NEW v \in Visitor,
                      handed[v] # 0, v \notin lapsed, clock < end
               PROVE  Accepted(v)
    BY DEF IInv, LinkKeepsWorking
  <2>1. rows[v].digest = handed[v] /\ rows[v].expires = end
    BY DEF Linked
  <2>2. ~(end <= clock)
    BY DEF TypeOK
  <2>3. QED
    BY <2>1, <2>2 DEF Accepted
<1>2. QED
  BY <1>1, AdmissionInvariant, PTL

(***************************************************************************)
(* remember_participant_session and invalidate_participant_sockets: when   *)
(* no join is under way, the members of a participant's group hold the     *)
(* session recorded last, and a browser has it, unless a call failed.      *)
(***************************************************************************)
THEOREM AdmissionLatest == Spec => []LatestSessionOnly
<1>1. IInv => LatestSessionOnly
  <2> SUFFICES ASSUME Latest, \A b \in Browser : join[b] = "idle",
                      NEW v \in Visitor
               PROVE  /\ \A b \in Members(v) :
                           scope[b].key = current[v] \/ b \in slipped
                      /\ current[v] # 0 /\ v \notin moved =>
                           \E b \in Browser :
                             session[b] = [key |-> current[v], row |-> v]
    BY DEF IInv, LatestSessionOnly
  <2>1. ~Joining(v, {"remember"}) /\ ~Joining(v, {"remember", "invalidate"})
    BY DEF Joining
  <2>2. ASSUME NEW b \in Members(v), b \notin slipped
        PROVE  scope[b].key = current[v]
    <3>1. b \in Browser /\ socket[b] = "member" /\ scope[b].row = v
      BY <2>2 DEF Members
    <3>2. QED
      BY <2>1, <2>2, <3>1 DEF Latest
  <2>3. ASSUME current[v] # 0, v \notin moved
        PROVE  \E b \in Browser : session[b] = [key |-> current[v], row |-> v]
    BY <2>1, <2>3 DEF Latest
  <2>4. QED
    BY <2>2, <2>3
<1>2. QED
  BY <1>1, AdmissionInvariant, PTL

=============================================================================
