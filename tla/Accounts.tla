------------------------------ MODULE Accounts ------------------------------
(***************************************************************************)
(* Accounts when Supabase is the identity provider: identities, passwords  *)
(* and one-time links live there, the right to use the program lives in    *)
(* the local users table, and no transaction spans both.                   *)
(*                                                                         *)
(* A request runs on the event loop from one call of the provider to the   *)
(* next; token verification, with the adoption or creation of a local row, *)
(* runs in a thread, one transaction at a time.  The provider can refuse,  *)
(* or be unreachable after it has done what it was asked; a local write    *)
(* can fail; the process can die.                                          *)
(*                                                                         *)
(* api/auth.py, api/admin.py, core/supabase_auth.py, services/users.py,    *)
(* services/supabase_gateway.py, services/seed_admin.py, api/deps.py.      *)
(***************************************************************************)
EXTENDS EmailLocks

CONSTANTS
  Subjects,     \* the identities the provider can ever hold
  Stranger,     \* a password set at the provider's dashboard, unknown here
  Operator,     \* the password in the server's environment
  SeedEmail,    \* FW_ADMIN_EMAIL
  Loads,        \* the mixes tried: which kinds each of Reqs may be, how often the
                \* process dies, how often a call, an answer or a local write fails,
                \* and how far the clock goes
  Leeway        \* IAT_LEEWAY_SECONDS

ASSUME SubjectsAssumption ==
  /\ Nothing \notin Subjects
  /\ {Stranger, Operator} \cap (Reqs \cup {Nothing}) = {} /\ Stranger # Operator
  /\ SeedEmail \in Emails
ASSUME LoadsAssumption ==
  \A l \in Loads :
    /\ l.restarts \in Nat /\ l.faults \in Nat /\ l.ticks \in Nat
    /\ DOMAIN l.may = Reqs
ASSUME LeewayAssumption == Leeway \in Nat

VARIABLES
  now,        \* one clock for both services, in ticks
  ident,      \* the provider's identities
  mail,       \* the subjects whose one-time link is valid
  session,    \* the subjects with a refresh token that works
  row,        \* the users table, by address (unique)
  envelope,   \* otp sessions handed back as retry tokens
  req,        \* the requests
  process,    \* "down", "up", or how far seed_admin is
  restarts,
  faults,
  load,       \* the mix of this behaviour
  others,     \* are there accounts beyond Emails?
  evictedAt   \* history: when the last rotation answered as done took effect

remote == <<ident, mail, session>>
system == <<process, restarts, others, load>>
quiet == <<faults, system>>
vars == <<now, remote, row, envelope, req, quiet, evictedAt, lockVars>>

Pw == Reqs \cup {Stranger, Operator, Nothing}  \* a password is known by the request that set it
Creating == {"create", "invite"}
AllKinds == Creating \cup {"resend", "patch", "login", "refresh", "change",
                           "reset", "confirm", "retry"}
Gateway == {"create", "invite", "look", "rotate", "signin", "otp", "refresh",
            "mail", "signout"}

Identity == [email : Emails \cup {Nothing}, pw : Pw, provider : {"email", "oauth"},
             pending : BOOLEAN, born : BOOLEAN]
Unborn == [email |-> Nothing, pw |-> Nothing, provider |-> "email",
           pending |-> FALSE, born |-> FALSE]

User == [there : BOOLEAN, ext : Subjects \cup {Nothing}, active : BOOLEAN,
         changed : Int]
NoUser == [there |-> FALSE, ext |-> Nothing, active |-> TRUE, changed |-> -Leeway - 1]

NoRequest == [kind |-> "none", email |-> Nothing, step |-> "idle", reply |-> "none",
              sub |-> Nothing, iat |-> 0, how |-> "none", saw |-> NoUser,
              set |-> TRUE, found |-> "none", at |-> -1, status |-> 0]

Status == {0, 200, 201, 204, 401, 409, 422, 500, 503}
Request == [kind : AllKinds \cup {"none"}, email : Emails \cup {Nothing},
            step : Gateway \cup {"idle", "locking", "link", "mark", "patching", "closing",
                                 "find", "meet", "adopt", "provision", "admit", "lost", "done"},
            reply : {"none", "pending", "ok", "weak", "rejected", "unavailable"},
            sub : Subjects \cup {Nothing}, iat : Nat,
            how : {"none", "password", "otp"}, saw : User, set : BOOLEAN,
            found : {"none", "pending", "password", "oauth"},
            at : Int, status : Status]

TypeOK ==
  /\ now \in Nat
  /\ ident \in [Subjects -> Identity]
  /\ mail \subseteq Subjects /\ session \subseteq Subjects
  /\ row \in [Emails -> User]
  /\ envelope \subseteq [sub : Subjects, email : Emails, iat : Nat]
  /\ req \in [Reqs -> Request]
  /\ process \in {"down", "created", "rotated", "marking", "up"}
  /\ restarts \in Nat /\ faults \in Nat /\ others \in BOOLEAN /\ load \in Loads
  /\ evictedAt \in [Subjects -> Int]
  /\ LocksTypeOK

-----------------------------------------------------------------------------
Owns(e) == {s \in Subjects : ident[s].email = e}
RowOf(s) == {e \in Emails : row[e].there /\ row[e].ext = s}

\* A step of a request: it asks the provider, goes on, or has its answer.
Asks(q, call) == [q EXCEPT !.step = call, !.reply = "pending"]
Goes(q, step) == [q EXCEPT !.step = step, !.reply = "none"]
Done(q) == [NoRequest EXCEPT !.kind = q.kind, !.step = "done"]
Ends(q, status) ==
  IF q.kind \in Creating \cup {"resend"}
    THEN [NoRequest EXCEPT !.kind = q.kind, !.sub = q.sub, !.status = status, !.step = "closing"]
    ELSE Done(q)
Moves(r, q) == req' = [req EXCEPT ![r] = q]
Heard(r, call, reply) == req[r].step = call /\ req[r].reply = reply

Init ==
  /\ now = 0
  /\ ident = [s \in Subjects |-> Unborn]
  /\ mail = {} /\ session = {} /\ envelope = {}
  /\ row \in [Emails -> {NoUser, [NoUser EXCEPT !.there = TRUE],
                         [NoUser EXCEPT !.there = TRUE, !.active = FALSE]}]
  /\ req = [r \in Reqs |-> NoRequest]
  /\ process = "down" /\ restarts = 0 /\ faults = 0 /\ load \in Loads
  /\ others \in {TRUE, \E e \in Emails : row[e].there}
  /\ evictedAt = [s \in Subjects |-> -1]
  /\ LocksInit

-----------------------------------------------------------------------------
(* The provider. *)

\* A call took effect: what the provider then holds and what the caller learns.
Granted(r) ==
  LET q == req[r]  e == q.email  s == q.sub
  IN
  \/ /\ q.step \in {"create", "invite"} /\ Owns(e) = {}
     /\ \E new \in {x \in Subjects : ~ident[x].born} :
          /\ ident' = [ident EXCEPT ![new] =
               [email |-> e, pw |-> IF q.step = "create" THEN r ELSE Nothing,
                provider |-> "email", pending |-> q.step = "invite", born |-> TRUE]]
          /\ mail' = IF q.step = "invite" THEN mail \cup {new} ELSE mail
          /\ Moves(r, [q EXCEPT !.reply = "ok", !.sub = new])
     /\ UNCHANGED session
  \/ /\ q.step = "invite"
     /\ \E x \in Owns(e) :
          /\ ident[x].pending
          /\ mail' = mail \cup {x}
          /\ Moves(r, [q EXCEPT !.reply = "ok", !.sub = x])
     /\ UNCHANGED <<ident, session>>
  \/ /\ q.step = "look"
     /\ \/ /\ Owns(e) = {}
           /\ Moves(r, [q EXCEPT !.reply = "ok", !.sub = Nothing])
        \/ \E x \in Owns(e) :
             Moves(r, [q EXCEPT !.reply = "ok", !.sub = x,
                         !.found = IF ident[x].provider # "email" THEN "oauth"
                                   ELSE IF ident[x].pending THEN "pending" ELSE "password"])
     /\ UNCHANGED remote
  \/ /\ q.step = "rotate" /\ ident[s].email # Nothing
     /\ ident' = [ident EXCEPT ![s].pw = r]
     /\ session' = session \ {s}
     /\ Moves(r, [q EXCEPT !.reply = "ok", !.at = now])
     /\ UNCHANGED mail
  \/ /\ q.step = "signin"
     /\ \E x \in Owns(e) :
          /\ ident[x].pw # Nothing
          /\ ident' = [ident EXCEPT ![x].pending = FALSE]
          /\ session' = session \cup {x}
          /\ Moves(r, [q EXCEPT !.reply = "ok", !.sub = x, !.iat = now, !.how = "password"])
     /\ UNCHANGED mail
  \/ /\ q.step = "otp" /\ s \in mail
     /\ ident' = [ident EXCEPT ![s].pending = FALSE]
     /\ mail' = mail \ {s}
     /\ session' = session \cup {s}
     /\ Moves(r, [q EXCEPT !.reply = "ok", !.iat = now, !.how = "otp"])
  \/ /\ q.step = "refresh" /\ s \in session
     /\ Moves(r, [q EXCEPT !.reply = "ok", !.iat = now, !.how = "password"])
     /\ UNCHANGED remote
  \/ /\ q.step = "mail"
     /\ mail' = mail \cup Owns(e)
     /\ Moves(r, [q EXCEPT !.reply = "ok"])
     /\ UNCHANGED <<ident, session>>
  \/ /\ q.step = "signout"
     /\ session' = session \ {s}
     /\ Moves(r, [q EXCEPT !.reply = "ok"])
     /\ UNCHANGED <<ident, mail>>

\* What the provider refuses by its own rules; anything else it refuses is a fault.
\* (A bounded pool of subjects also refuses when it is used up.)
Refusable(q) ==
  \/ q.step \in Creating /\ \A s \in Subjects : ident[s].born
  \/ q.step = "create" /\ Owns(q.email) # {}
  \/ q.step = "invite" /\ \E x \in Owns(q.email) : ~ident[x].pending
  \/ q.step = "rotate" /\ ident[q.sub].email = Nothing
  \/ q.step = "signin"
  \/ q.step = "otp" /\ q.sub \notin mail
  \/ q.step = "refresh" /\ q.sub \notin session

Fault == faults < load.faults /\ faults' = faults + 1

\* A call that is answered with an error, or not at all, may have had its effect.
Serve(r) ==
  LET q == req[r]
  IN  /\ q.reply = "pending" /\ q.step \in Gateway
      /\ \/ Granted(r) /\ UNCHANGED faults
         \/ Refusable(q) /\ Moves(r, [q EXCEPT !.reply = "rejected"]) /\ UNCHANGED <<remote, faults>>
         \/ Fault /\ UNCHANGED remote
            /\ \E reply \in {"rejected", "unavailable"} \cup
                            (IF q.step \in {"create", "rotate"} THEN {"weak"} ELSE {}) :
                 Moves(r, [q EXCEPT !.reply = reply])
      /\ UNCHANGED <<now, row, envelope, system, evictedAt, lockVars>>

AnswerLost(r) ==
  /\ req[r].reply = "ok" /\ Fault
  /\ Moves(r, [req[r] EXCEPT !.reply = "unavailable"])
  /\ UNCHANGED <<now, remote, row, envelope, system, evictedAt, lockVars>>

\* At the provider's dashboard: an identity this program did not make, or one removed.
Dashboard ==
  /\ \/ \E s \in Subjects, e \in Emails, p \in {"email", "oauth"} :
          /\ ~ident[s].born /\ Owns(e) = {}
          /\ ident' = [ident EXCEPT ![s] = [email |-> e, pw |-> Stranger, provider |-> p,
                                            pending |-> FALSE, born |-> TRUE]]
          /\ UNCHANGED <<mail, session>>
     \/ \E s \in Subjects :
          /\ ident[s].email # Nothing
          /\ ident' = [ident EXCEPT ![s] = [Unborn EXCEPT !.born = TRUE]]
          /\ mail' = mail \ {s} /\ session' = session \ {s}
  /\ UNCHANGED <<now, row, envelope, req, quiet, evictedAt, lockVars>>

-----------------------------------------------------------------------------
(* The local table.  A write is a transaction; link_external_id updates    *)
(* only an unlinked row, and no two rows may have the same external_id.    *)

Linkable(e, s) == row[e].there /\ row[e].ext = Nothing /\ RowOf(s) = {}
Insertable(e, s) == ~row[e].there /\ RowOf(s) = {}
Linked(e, s) == [row EXCEPT ![e].ext = s]
Inserted(e, s) == [row EXCEPT ![e] = [NoUser EXCEPT !.there = TRUE, !.ext = s]]
Marked(e) == [row EXCEPT ![e].changed = now - Leeway]

-----------------------------------------------------------------------------
(* Requests.  Those refused before they touch anything are not steps.      *)

Starts(r, kind) ==
  /\ process = "up" /\ req[r].step = "idle" /\ kind \in load.may[r]
  /\ UNCHANGED <<now, remote, row, envelope, quiet, evictedAt>>
Opened(kind, e) == [NoRequest EXCEPT !.kind = kind, !.email = e]
Continues(r) == UNCHANGED <<now, remote, quiet, lockVars>>

\* The answer is decided; history notes the rotation it reports as done.
Answers(r, q, status) ==
  /\ Moves(r, Ends(q, status))
  /\ evictedAt' = IF status < 300 /\ q.at >= 0 /\ q.at > evictedAt[q.sub]
                    THEN [evictedAt EXCEPT ![q.sub] = q.at] ELSE evictedAt

Failed(r, q) == Answers(r, q, IF q.reply = "unavailable" THEN 503 ELSE 422)

(* POST /admin/users and resend-invite, under the lock of the address. *)
StartLocked(r) ==
  \E kind \in Creating \cup {"resend"}, e \in Emails :
    /\ Starts(r, kind) /\ Acquire(r, e)
    /\ kind = "resend" => row[e].there /\ row[e].active /\ row[e].ext # Nothing
    /\ Moves(r, [Opened(kind, e) EXCEPT !.step = "locking"])

\* The check for a linked row comes before the provider is asked.
LockTurn(r) ==
  /\ req[r].step = "locking" /\ Enter(r)
  /\ LET q == req[r]  e == q.email
     IN  IF q.kind = "resend" THEN Moves(r, Asks(q, "invite"))
         ELSE IF row[e].there /\ row[e].ext # Nothing THEN Moves(r, Ends(q, 422))
         ELSE Moves(r, Asks([q EXCEPT !.saw = row[e]], q.kind))
  /\ UNCHANGED <<now, remote, row, envelope, quiet, evictedAt>>

LockDone(r) ==
  /\ req[r].step = "closing" /\ Leave(r)
  /\ Moves(r, Done(req[r]))
  /\ UNCHANGED <<now, remote, row, envelope, quiet, evictedAt>>

\* The reply to create_user or invite_user.
Made(r) ==
  LET q == req[r]
  IN  /\ q.step \in Creating /\ q.reply \notin {"none", "pending"}
      /\ \/ q.reply = "ok" /\ q.kind \in Creating /\ Moves(r, Goes(q, "link")) /\ UNCHANGED evictedAt
         \/ q.reply = "ok" /\ q.kind = "resend" /\ Answers(r, q, 204)
         \/ q.reply = "rejected" /\ q.kind \in Creating /\ Moves(r, Asks(q, "look")) /\ UNCHANGED evictedAt
         \/ q.reply = "rejected" /\ q.kind = "resend" /\ Failed(r, q)
         \/ q.reply \in {"weak", "unavailable"} /\ Failed(r, q)
      /\ Continues(r) /\ UNCHANGED <<row, envelope>>

\* An existing identity is linked to an invitation only while that is pending;
\* a create takes it over by rotating its password, if it is an e-mail identity.
UsableTrusting(q) ==
  /\ q.reply = "ok" /\ q.sub # Nothing
  /\ q.found \in {"pending", "password"}
Usable(q) ==
  /\ q.reply = "ok" /\ q.sub # Nothing
  /\ q.found \in IF q.kind = "invite" THEN {"pending"} ELSE {"pending", "password"}
Looked(r) ==
  LET q == req[r]
  IN  /\ q.step = "look" /\ q.reply \notin {"none", "pending"}
      /\ IF ~Usable(q) THEN Failed(r, q)
         ELSE /\ Moves(r, IF q.kind = "invite" THEN Goes(q, "link") ELSE Asks(q, "rotate"))
              /\ UNCHANGED evictedAt
      /\ Continues(r) /\ UNCHANGED <<row, envelope>>

\* Adopt the row seen by the pre-check, or insert one.
Link(r) ==
  LET q == req[r]  e == q.email
      After == IF q.at >= 0 THEN Moves(r, Goes(q, "mark")) /\ UNCHANGED evictedAt
                            ELSE Answers(r, q, 201)
  IN  /\ q.step = "link"
      /\ \/ q.saw.there /\ Linkable(e, q.sub) /\ row' = Linked(e, q.sub) /\ After
         \/ q.saw.there /\ row[e].ext = q.sub /\ UNCHANGED row /\ After
         \/ q.saw.there /\ ~Linkable(e, q.sub) /\ row[e].ext # q.sub
            /\ UNCHANGED row /\ Answers(r, q, 409)
         \/ ~q.saw.there /\ Insertable(e, q.sub) /\ row' = Inserted(e, q.sub) /\ After
         \/ ~q.saw.there /\ ~Insertable(e, q.sub) /\ UNCHANGED row /\ Answers(r, q, 422)
      /\ Continues(r) /\ UNCHANGED envelope

\* mark_password_changed, then the best-effort sign-out where there is a bearer.
Mark(r) ==
  LET q == req[r]
  IN  /\ q.step = "mark"
      /\ row' = Marked(q.email)
      /\ CASE q.kind = "create" -> Answers(r, q, 201)
           [] q.kind = "patch" -> Answers(r, q, 200)
           [] OTHER -> Moves(r, Asks(q, "signout")) /\ UNCHANGED evictedAt
      /\ Continues(r) /\ UNCHANGED envelope

(* Where a rotation was asked for, its outcome decides how the request goes on. *)
RotateDone(r) ==
  LET q == req[r]
      Next_ == CASE q.kind = "create" -> "link"
                 [] q.kind = "patch" -> "patching"
                 [] q.kind = "confirm" /\ ~q.saw.there -> "find"
                 [] OTHER -> "mark"
  IN  /\ q.step = "rotate" /\ q.reply \notin {"none", "pending"}
      /\ IF q.reply = "ok" THEN Moves(r, Goes(q, Next_)) /\ UNCHANGED <<envelope, evictedAt>>
         ELSE /\ Failed(r, q)
              /\ envelope' = IF q.kind \in {"confirm", "retry"}
                               THEN envelope \cup {[sub |-> q.sub, email |-> q.email, iat |-> q.iat]}
                               ELSE envelope
      /\ Continues(r) /\ UNCHANGED row

SignOutDone(r) ==
  LET q == req[r]
  IN  /\ q.step = "signout" /\ q.reply \notin {"none", "pending"}
      /\ IF q.kind = "confirm" /\ q.saw.there
           THEN Moves(r, Goes(q, "find")) /\ UNCHANGED evictedAt
           ELSE Answers(r, q, 204)
      /\ Continues(r) /\ UNCHANGED <<row, envelope>>

(* PATCH /admin/users: the password first, then what differs from the row it read. *)
StartPatch(r) ==
  \E e \in Emails, active \in BOOLEAN :
    /\ Starts(r, "patch") /\ row[e].there
    /\ LET q == [Opened("patch", e) EXCEPT !.saw = row[e], !.set = active, !.sub = row[e].ext]
       IN  \/ Moves(r, Goes(q, "patching"))
           \/ row[e].ext # Nothing /\ Moves(r, Asks(q, "rotate"))
    /\ UNCHANGED lockVars

Patch(r) ==
  LET q == req[r]  e == q.email
  IN  /\ q.step = "patching"
      /\ row' = IF q.set # q.saw.active THEN [row EXCEPT ![e].active = q.set] ELSE row
      /\ IF q.at >= 0 THEN Moves(r, Goes(q, "mark")) /\ UNCHANGED evictedAt
                      ELSE Answers(r, q, 200)
      /\ Continues(r) /\ UNCHANGED envelope

(* Sign-in and refresh; the rate of sign-ins is LocalLogin's throttle. *)
StartLogin(r) ==
  \E e \in Emails :
    /\ Starts(r, "login") /\ Moves(r, Asks(Opened("login", e), "signin"))
    /\ UNCHANGED lockVars
StartRefresh(r) ==
  \E s \in session :
    /\ Starts(r, "refresh")
    /\ Moves(r, Asks([Opened("refresh", ident[s].email) EXCEPT !.sub = s], "refresh"))
    /\ UNCHANGED lockVars

\* change_password proves the current password, then rotates the row's own subject.
StartChange(r) ==
  \E e \in Emails :
    /\ Starts(r, "change") /\ row[e].there /\ row[e].active /\ row[e].ext # Nothing
    /\ Moves(r, Asks(Opened("change", e), "signin"))
    /\ UNCHANGED lockVars

Authenticated(r) ==
  LET q == req[r]
  IN  /\ q.step \in {"signin", "refresh"} /\ q.reply \notin {"none", "pending"}
      /\ IF q.reply # "ok"
           THEN Answers(r, q, IF q.reply = "unavailable" THEN 503
                              ELSE IF q.kind = "change" THEN 422 ELSE 401)
           ELSE /\ Moves(r, IF q.kind = "change"
                              THEN Asks([q EXCEPT !.sub = row[q.email].ext], "rotate")
                              ELSE Goes(q, "find"))
                /\ UNCHANGED evictedAt
      /\ Continues(r) /\ UNCHANGED <<row, envelope>>

(* A one-time link: asked for, and confirmed with a new password. *)
StartReset(r) ==
  \E e \in Emails :
    /\ Starts(r, "reset") /\ ~(row[e].there /\ ~row[e].active)
    /\ Moves(r, Asks(Opened("reset", e), "mail"))
    /\ UNCHANGED lockVars
ResetDone(r) ==
  /\ req[r].step = "mail" /\ req[r].reply \notin {"none", "pending"}
  /\ Answers(r, req[r], 204)
  /\ Continues(r) /\ UNCHANGED <<row, envelope>>

StartConfirm(r) ==
  \E s \in mail :
    /\ Starts(r, "confirm")
    /\ Moves(r, Asks([Opened("confirm", ident[s].email) EXCEPT !.sub = s], "otp"))
    /\ UNCHANGED lockVars

\* The link is spent.  The rows it may be about are read before the rotation:
\* the one linked to the subject, or an unlinked one of its address.
Confirmable(r) ==
  LET q == req[r]
      own == RowOf(q.sub)
      adoptable == {e \in {q.email} : row[e].there /\ row[e].ext = Nothing}
      about == IF own # {} THEN own ELSE adoptable
  IN  /\ q.step = "otp" /\ q.reply \notin {"none", "pending"}
      /\ IF q.reply # "ok" \/ \E e \in about : ~row[e].active THEN Failed(r, q)
         ELSE /\ Moves(r, Asks([q EXCEPT !.saw = IF own # {} THEN row[q.email] ELSE NoUser], "rotate"))
              /\ UNCHANGED evictedAt
      /\ Continues(r) /\ UNCHANGED <<row, envelope>>

\* The retry leg is entered with an otp session handed out before, or with the
\* token of any other session.
StartRetry(r) ==
  /\ Starts(r, "retry")
  /\ \/ \E t \in envelope :
          Moves(r, Goes([Opened("retry", t.email) EXCEPT !.sub = t.sub, !.iat = t.iat,
                                                       !.how = "otp"], "find"))
     \/ \E s \in session :
          Moves(r, Goes([Opened("retry", ident[s].email) EXCEPT !.sub = s, !.iat = now,
                                                               !.how = "password"], "find"))
  /\ UNCHANGED lockVars

-----------------------------------------------------------------------------
(* resolve_supabase_user, one transaction at a time, in a thread. *)

Refused(r, q) == Answers(r, q, IF q.kind \in {"login", "refresh"} THEN 401 ELSE 422)

ByExternalId(r) ==
  LET q == req[r]
  IN  /\ q.step = "find"
      /\ Moves(r, Goes(q, IF RowOf(q.sub) # {} THEN "admit" ELSE "meet"))
      /\ Continues(r) /\ UNCHANGED <<row, envelope, evictedAt>>

ByEmail(r) ==
  LET q == req[r]  e == q.email
  IN  /\ q.step = "meet"
      /\ IF row[e].there /\ row[e].ext # Nothing THEN Refused(r, q)
         ELSE /\ Moves(r, Goes(q, IF row[e].there THEN "adopt" ELSE "provision"))
              /\ UNCHANGED evictedAt
      /\ Continues(r) /\ UNCHANGED <<row, envelope>>

Adopts(r, can) ==
  LET q == req[r]  e == q.email
  IN  /\ q.step = "adopt"
      /\ row' = IF can THEN Linked(e, q.sub) ELSE row
      /\ IF row'[e].ext = q.sub THEN Moves(r, Goes(q, "admit")) /\ UNCHANGED evictedAt
                                ELSE Refused(r, q)
      /\ Continues(r) /\ UNCHANGED envelope
Adopt(r) == Adopts(r, Linkable(req[r].email, req[r].sub))

Provision(r) ==
  LET q == req[r]  e == q.email
  IN  /\ q.step = "provision"
      /\ row' = IF Insertable(e, q.sub) THEN Inserted(e, q.sub) ELSE row
      /\ IF row'[e].ext = q.sub THEN Moves(r, Goes(q, "admit")) /\ UNCHANGED evictedAt
                                ELSE Refused(r, q)
      /\ Continues(r) /\ UNCHANGED envelope

\* The row the verifier named is read again: is the account active?
AdmitUnmarked(r) ==
  LET q == req[r]  active == row[q.email].active
  IN  /\ q.step = "admit"
      /\ CASE q.kind \in {"login", "refresh"} -> Answers(r, q, IF active THEN 200 ELSE 401)
           [] q.kind = "retry" /\ (q.how # "otp" \/ ~active) -> Answers(r, q, 422)
           [] q.kind = "retry" /\ q.how = "otp" /\ active ->
                Moves(r, Asks(q, "rotate")) /\ UNCHANGED evictedAt
           [] q.kind = "confirm" -> Answers(r, q, IF active THEN 204 ELSE 422)
      /\ Continues(r) /\ UNCHANGED <<row, envelope>>
Admit(r) ==
  LET q == req[r]  active == row[q.email].active
  IN  /\ q.step = "admit"
      /\ CASE q.kind \in {"login", "refresh"} -> Answers(r, q, IF active THEN 200 ELSE 401)
           [] q.kind = "retry" /\ (q.how # "otp" \/ ~active) -> Answers(r, q, 422)
           [] q.kind = "retry" /\ q.how = "otp" /\ active ->
                Moves(r, Asks(q, "rotate")) /\ UNCHANGED evictedAt
           [] q.kind = "confirm" /\ ~active -> Answers(r, q, 422)
           [] q.kind = "confirm" /\ active /\ q.saw.there -> Answers(r, q, 204)
           [] q.kind = "confirm" /\ active /\ ~q.saw.there ->
                Moves(r, Goes(q, "mark")) /\ UNCHANGED evictedAt
      /\ Continues(r) /\ UNCHANGED <<row, envelope>>

-----------------------------------------------------------------------------
(* Failure and restart. *)

LocalFails(r) ==
  /\ req[r].step \in {"link", "mark", "patching", "find", "meet", "adopt", "provision", "admit"}
  /\ Fault /\ Answers(r, req[r], 500)
  /\ UNCHANGED <<now, remote, row, envelope, system, lockVars>>

Crash ==
  /\ process # "down" /\ restarts < load.restarts
  /\ process' = "down" /\ restarts' = restarts + 1
  /\ req' = [r \in Reqs |-> IF req[r].step \in {"idle", "done"} THEN req[r]
                            ELSE [NoRequest EXCEPT !.kind = req[r].kind, !.step = "lost"]]
  /\ LocksReset
  /\ UNCHANGED <<now, remote, row, envelope, faults, others, load, evictedAt>>

(* Start-up: with accounts nothing is seeded; without, the operator's        *)
(* password is created at the provider, or set on the e-mail identity there. *)
Populated == others \/ \E e \in Emails : row[e].there

Boot ==
  /\ process = "down"
  /\ \/ Populated /\ process' = "up" /\ UNCHANGED remote
     \/ /\ ~Populated /\ Owns(SeedEmail) = {}
        /\ \E s \in {x \in Subjects : ~ident[x].born} :
             ident' = [ident EXCEPT ![s] = [email |-> SeedEmail, pw |-> Operator,
                                provider |-> "email", pending |-> FALSE, born |-> TRUE]]
        /\ process' = "created" /\ UNCHANGED <<mail, session>>
     \/ /\ ~Populated
        /\ \E s \in Owns(SeedEmail) :
             /\ ident[s].provider = "email"
             /\ ident' = [ident EXCEPT ![s].pw = Operator]
             /\ session' = session \ {s}
        /\ process' = "rotated" /\ UNCHANGED mail
  /\ UNCHANGED <<now, row, envelope, req, restarts, faults, others, load, evictedAt, lockVars>>

SeedRow ==
  /\ process \in {"created", "rotated"}
  /\ \E s \in Owns(SeedEmail) : row' = Inserted(SeedEmail, s)
  /\ process' = IF process = "rotated" THEN "marking" ELSE "up"
  /\ UNCHANGED <<now, remote, envelope, req, restarts, faults, others, load, evictedAt, lockVars>>

SeedMark ==
  /\ process = "marking" /\ row' = Marked(SeedEmail) /\ process' = "up"
  /\ UNCHANGED <<now, remote, envelope, req, restarts, faults, others, load, evictedAt, lockVars>>

Tick ==
  /\ now < load.ticks /\ now' = now + 1
  /\ UNCHANGED <<remote, row, envelope, req, quiet, evictedAt, lockVars>>

-----------------------------------------------------------------------------
Start(r) ==
  \/ StartLocked(r) \/ StartPatch(r) \/ StartLogin(r) \/ StartRefresh(r)
  \/ StartChange(r) \/ StartReset(r) \/ StartConfirm(r) \/ StartRetry(r)

\* What the server does for a request once it is there.
Progress(r) ==
  \/ LockTurn(r) \/ LockDone(r) \/ Made(r) \/ Looked(r) \/ Link(r) \/ Mark(r)
  \/ RotateDone(r) \/ SignOutDone(r) \/ Patch(r) \/ Authenticated(r)
  \/ ResetDone(r) \/ Confirmable(r) \/ ByExternalId(r) \/ ByEmail(r)
  \/ Adopt(r) \/ Provision(r) \/ Admit(r)

Next ==
  \/ \E r \in Reqs : Start(r) \/ Progress(r) \/ Serve(r) \/ AnswerLost(r) \/ LocalFails(r)
  \/ Dashboard \/ Crash \/ Boot \/ SeedRow \/ SeedMark \/ Tick

Spec == Init /\ [][Next]_vars

-----------------------------------------------------------------------------
(* Once a rotation was answered as done, every access token of the subject
   that was issued before it, less the tolerated drift, is refused: the row
   linked to it - whoever linked it, and when - carries the mark
   (auth.py:808, 944; admin.py:372). *)
RotationEvicts ==
  \A e \in Emails : LET s == row[e].ext IN
    (row[e].there /\ s # Nothing) => row[e].changed >= evictedAt[s] - Leeway

(* A 201 reports a password that is the account's, unless a rotation outside
   the administrators' create requests came after (email_locks.py:3). *)
PasswordHonoured ==
  [][\A r \in Reqs :
       (/\ req[r].kind = "create" /\ req[r].step \notin {"closing", "done"}
        /\ req'[r].step = "closing" /\ req'[r].status = 201)
       => LET pw == ident[req[r].sub].pw
          IN  pw = r \/ pw = Nothing \/ (pw \in Reqs /\ req[pw].kind # "create")]_vars

(* An administrator's request never links an identity that opens with a
   password set elsewhere (admin.py:249, 312). *)
NoStrangersLinked ==
  [][\A r \in Reqs :
       (Link(r) /\ row' # row) =>
         LET s == req[r].sub
         IN  ident[s].pw # Stranger /\ ident[s].provider = "email"]_vars

(* What administrators are told, and whom they link, is so. *)
CreationsAreHonest == PasswordHonoured /\ NoStrangersLinked

(* However requests cross: one administrator's request at a time for an email,
   and the mark of a rotation that was reported on the row of its identity. *)
AccountsAreSingle == OnePerEmail /\ RotationEvicts
=============================================================================
