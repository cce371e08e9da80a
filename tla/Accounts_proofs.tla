--------------------------- MODULE Accounts_proofs ---------------------------
(***************************************************************************)
(* Accounts with a provider, for any requests, addresses, identities,      *)
(* numbers of faults, crashes and ticks.                                   *)
(*                                                                         *)
(* First the locks: two requests for one address are never inside          *)
(* together, since the count of an address is the number of requests that  *)
(* wait or are inside for it, so an entry that someone needs is never      *)
(* evicted, and all who need an address share one lock.                    *)
(*                                                                         *)
(* Then what the provider and the table of users have in common without a  *)
(* transaction that spans both: an identity keeps for ever the address it  *)
(* was born with - its home -, and whatever names it, a row, a request or  *)
(* a retry token, names it under that address.  So the row that is marked  *)
(* after a rotation is the row of the rotated identity.                    *)
(*                                                                         *)
(* Last the accounts without a provider.  A handler holds the row it       *)
(* verified through two more transactions, and the password may be changed *)
(* meanwhile.  What makes that harmless is that the row carries the        *)
(* password and its epoch together, from one read, and that the epoch of   *)
(* the token is taken from it.  And the throttle of the logins: an entry    *)
(* for each key, none blocked for longer than the longest delay after it    *)
(* was last seen, none blocked before the threshold - so what is blocked is *)
(* neither too old for the table nor the one too many.                      *)
(***************************************************************************)
EXTENDS Accounts, LocalLogin, FiniteSetTheorems, WellFoundedInduction, TLAPS

(* The locks. *)

In(r) == section[r].place # "outside"
Users(e) == {r \in Reqs : In(r) /\ section[r].key = e}

Counted == \A e \in Emails : refs[e] = Cardinality(Users(e))
Shared ==
  \A r \in Reqs : In(r) =>
    section[r].key \in Emails /\ section[r].lock \in Locks
    /\ table[section[r].key] = section[r].lock
Entered == \A r \in Reqs : section[r].place = "inside" => holder[section[r].lock] = r
LocksInv == LocksTypeOK /\ Counted /\ Shared /\ Entered

LEMMA UsersFinite ==
  ASSUME NEW e \in Emails
  PROVE  IsFiniteSet(Users(e))
<1>1. Users(e) \subseteq Reqs
  BY DEF Users
<1> QED BY <1>1, ReqsAssumption, FS_Subset

LEMMA LocksInitInv == LocksInit => LocksInv
<1> SUFFICES ASSUME LocksInit PROVE LocksInv
  OBVIOUS
<1> USE DEF LocksInit, Outside
<1>1. LocksTypeOK
  <2>1. <<>> \in Seq(Reqs)
    OBVIOUS
  <2> QED BY <2>1 DEF LocksTypeOK
<1>2. Counted
  <2> SUFFICES ASSUME NEW e \in Emails PROVE refs[e] = Cardinality(Users(e))
    BY DEF Counted
  <2>1. Users(e) = {}
    BY DEF Users, In
  <2> QED BY <2>1, FS_EmptySet
<1>3. Shared /\ Entered
  BY DEF Shared, Entered, In
<1> QED BY <1>1, <1>2, <1>3 DEF LocksInv

(* Nobody needs an entry whose count is zero. *)
LEMMA UnusedWhenEvictable ==
  ASSUME LocksInv, NEW e \in Emails, Evictable(e)
  PROVE  Users(e) = {}
<1>1. Cardinality(Users(e)) = 0
  BY DEF LocksInv, Counted, Evictable
<1> QED BY <1>1, UsersFinite, FS_EmptySet

LEMMA AcquireInv ==
  ASSUME LocksInv, NEW r \in Reqs, NEW e \in Emails, Acquire(r, e)
  PROVE  LocksInv'
<1> USE DEF LocksInv
<1>1. PICK gone \in SUBSET {k \in Emails : Evictable(k)}, l \in Locks :
        LET kept == [k \in Emails |-> IF k \in gone THEN Nothing ELSE table[k]]
        IN  /\ IF kept[e] # Nothing THEN l = kept[e] ELSE Fresh(l)
            /\ table' = [kept EXCEPT ![e] = l]
            /\ queue' = [queue EXCEPT ![l] = Append(@, r)]
            /\ section' = [section EXCEPT ![r] = [place |-> "waiting", key |-> e, lock |-> l]]
  BY DEF Acquire
<1>2. section[r] = Outside /\ refs' = [refs EXCEPT ![e] = @ + 1] /\ UNCHANGED holder
  BY DEF Acquire
<1>3. \A s \in Reqs : s # r => section'[s] = section[s]
  BY <1>1 DEF LocksTypeOK
<1>4. section'[r] = [place |-> "waiting", key |-> e, lock |-> l]
  BY <1>1 DEF LocksTypeOK
<1>5. LocksTypeOK'
  <2>1. table' \in [Emails -> Locks \cup {Nothing}]
    BY <1>1 DEF LocksTypeOK
  <2>2. refs' \in [Emails -> Nat] /\ holder' \in [Locks -> Reqs \cup {Nothing}]
    BY <1>2 DEF LocksTypeOK
  <2>3. queue' \in [Locks -> Seq(Reqs)]
    <3>1. Append(queue[l], r) \in Seq(Reqs)
      BY DEF LocksTypeOK
    <3> QED BY <3>1, <1>1 DEF LocksTypeOK
  <2>4. section' \in [Reqs -> [place : {"outside", "waiting", "inside"},
                               key : Emails \cup {Nothing}, lock : Locks \cup {Nothing}]]
    BY <1>1 DEF LocksTypeOK
  <2> QED BY <2>1, <2>2, <2>3, <2>4 DEF LocksTypeOK
<1>6. Counted'
  <2> SUFFICES ASSUME NEW k \in Emails PROVE refs'[k] = Cardinality(Users(k)')
    BY DEF Counted
  <2>1. IsFiniteSet(Users(k)) /\ refs[k] = Cardinality(Users(k))
    BY UsersFinite DEF Counted
  <2>2. CASE k = e
    <3>1. r \notin Users(e)
      BY <1>2 DEF Users, In, Outside
    <3>2. Users(e)' = Users(e) \cup {r}
      BY <1>3, <1>4 DEF Users, In
    <3>3. Cardinality(Users(e)') = Cardinality(Users(e)) + 1
      BY <2>1, <2>2, <3>1, <3>2, FS_AddElement
    <3> QED BY <1>2, <2>1, <2>2, <3>3 DEF LocksTypeOK
  <2>3. CASE k # e
    <3>1. Users(k)' = Users(k)
      BY <1>2, <1>3, <1>4, <2>3 DEF Users, In, Outside
    <3> QED BY <1>2, <2>1, <2>3, <3>1 DEF LocksTypeOK
  <2> QED BY <2>2, <2>3
<1>7. Shared'
  <2> SUFFICES ASSUME NEW s \in Reqs, In(s)'
               PROVE  /\ section'[s].key \in Emails /\ section'[s].lock \in Locks
                      /\ table'[section'[s].key] = section'[s].lock
    BY DEF Shared
  <2>1. CASE s = r
    BY <1>1, <1>4, <2>1 DEF LocksTypeOK
  <2>2. CASE s # r
    <3>1. section'[s] = section[s] /\ In(s)
      BY <1>3, <2>2 DEF In
    <3>2. section[s].key \in Emails /\ section[s].lock \in Locks
          /\ table[section[s].key] = section[s].lock
      BY <3>1 DEF Shared
    <3>3. section[s].key \notin gone
      <4>1. s \in Users(section[s].key)
        BY <3>1 DEF Users
      <4> QED BY <4>1, <3>2, UnusedWhenEvictable
    <3>4. table[section[s].key] # Nothing
      BY <3>2, NothingAssumption
    <3> QED BY <1>1, <3>1, <3>2, <3>3, <3>4 DEF LocksTypeOK
  <2> QED BY <2>1, <2>2
<1>8. Entered'
  BY <1>2, <1>3, <1>4 DEF Entered
<1> QED BY <1>5, <1>6, <1>7, <1>8

LEMMA EnterInv ==
  ASSUME LocksInv, NEW r \in Reqs, Enter(r)
  PROVE  LocksInv'
<1> USE DEF LocksInv
<1> DEFINE l == section[r].lock
<1>1. /\ section[r].place = "waiting" /\ holder[l] = Nothing /\ Head(queue[l]) = r
      /\ holder' = [holder EXCEPT ![l] = r]
      /\ queue' = [queue EXCEPT ![l] = Tail(@)]
      /\ section' = [section EXCEPT ![r].place = "inside"]
      /\ UNCHANGED <<table, refs>>
  BY DEF Enter
<1>2. In(r) /\ l \in Locks
  BY <1>1 DEF In, Shared
<1>3. \A s \in Reqs : /\ section'[s].key = section[s].key /\ section'[s].lock = section[s].lock
                      /\ s # r => section'[s] = section[s]
  BY <1>1 DEF LocksTypeOK
<1>4. section'[r].place = "inside"
  BY <1>1 DEF LocksTypeOK
<1>5. \A s \in Reqs : In(s)' = In(s)
  BY <1>2, <1>3, <1>4 DEF In
<1>6. LocksTypeOK'
  <2>1. queue' \in [Locks -> Seq(Reqs)]
    <3>1. queue[l] # <<>> => Tail(queue[l]) \in Seq(Reqs)
      BY <1>2 DEF LocksTypeOK
    <3>2. queue[l] = <<>> => Tail(queue[l]) \in Seq(Reqs)
      BY <1>2 DEF LocksTypeOK
    <3> QED BY <3>1, <3>2, <1>1, <1>2 DEF LocksTypeOK
  <2> DEFINE Section == [place : {"outside", "waiting", "inside"},
                         key : Emails \cup {Nothing}, lock : Locks \cup {Nothing}]
  <2>2. section' \in [Reqs -> Section]
    <3>1. section \in [Reqs -> Section]
      BY DEF LocksTypeOK
    <3>2. [section[r] EXCEPT !.place = "inside"] \in Section
      BY <3>1
    <3>3. section' = [section EXCEPT ![r] = [section[r] EXCEPT !.place = "inside"]]
      BY <1>1
    <3> HIDE DEF Section
    <3> QED BY <3>1, <3>2, <3>3
  <2> QED BY <2>1, <2>2, <1>1, <1>2 DEF LocksTypeOK
<1>7. Counted'
  <2>1. \A k \in Emails : Users(k)' = Users(k)
    BY <1>3, <1>5 DEF Users
  <2> QED BY <1>1, <2>1 DEF Counted
<1>8. Shared'
  BY <1>1, <1>3, <1>5 DEF Shared
<1>9. Entered'
  <2> SUFFICES ASSUME NEW s \in Reqs, section'[s].place = "inside"
               PROVE  holder'[section'[s].lock] = s
    BY DEF Entered
  <2>1. CASE s = r
    BY <1>1, <1>2, <1>3, <2>1 DEF LocksTypeOK
  <2>2. CASE s # r
    <3>1. section[s].place = "inside" /\ holder[section[s].lock] = s
      BY <1>3, <2>2 DEF Entered
    <3>2. section[s].lock # l
      BY <1>1, <3>1, NothingAssumption
    <3> QED BY <1>1, <1>3, <3>1, <3>2 DEF LocksTypeOK
  <2> QED BY <2>1, <2>2
<1> QED BY <1>6, <1>7, <1>8, <1>9

LEMMA LeaveInv ==
  ASSUME LocksInv, NEW r \in Reqs, Leave(r)
  PROVE  LocksInv'
<1> USE DEF LocksInv
<1>0. PICK l \in Locks, e \in Emails : l = section[r].lock /\ e = section[r].key
  BY DEF Leave, Shared, In
<1>1. /\ section[r].place = "inside"
      /\ holder' = [holder EXCEPT ![l] = Nothing]
      /\ refs' = [refs EXCEPT ![e] = @ - 1]
      /\ section' = [section EXCEPT ![r] = Outside]
      /\ UNCHANGED <<table, queue>>
  BY <1>0 DEF Leave
<1>2. In(r) /\ holder[l] = r
  BY <1>0, <1>1 DEF In, Entered
<1>3. section'[r] = Outside /\ \A s \in Reqs : s # r => section'[s] = section[s]
  BY <1>1 DEF LocksTypeOK
<1>4. /\ IsFiniteSet(Users(e)) /\ refs[e] = Cardinality(Users(e))
      /\ Cardinality(Users(e)') = Cardinality(Users(e)) - 1 /\ Cardinality(Users(e)') \in Nat
  <2>1. IsFiniteSet(Users(e)) /\ refs[e] = Cardinality(Users(e)) /\ r \in Users(e)
    BY <1>0, <1>2, UsersFinite DEF Counted, Users
  <2>2. Users(e)' = Users(e) \ {r}
    BY <1>0, <1>2, <1>3, NothingAssumption DEF Users, In, Outside
  <2>3. IsFiniteSet(Users(e)') /\ Cardinality(Users(e)') = Cardinality(Users(e)) - 1
    BY <2>1, <2>2, FS_RemoveElement
  <2> QED BY <2>1, <2>3, FS_CardinalityType
<1>5. LocksTypeOK'
  <2>1. refs' \in [Emails -> Nat]
    BY <1>1, <1>2, <1>4 DEF LocksTypeOK
  <2>2. section' \in [Reqs -> [place : {"outside", "waiting", "inside"},
                               key : Emails \cup {Nothing}, lock : Locks \cup {Nothing}]]
    BY <1>1 DEF LocksTypeOK, Outside
  <2> QED BY <2>1, <2>2, <1>1, <1>2 DEF LocksTypeOK
<1>6. Counted'
  <2> SUFFICES ASSUME NEW k \in Emails PROVE refs'[k] = Cardinality(Users(k)')
    BY DEF Counted
  <2>1. CASE k = e
    BY <1>1, <1>4, <2>1 DEF LocksTypeOK
  <2>2. CASE k # e
    <3>1. Users(k)' = Users(k)
      BY <1>0, <1>2, <1>3, <2>2 DEF Users, In, Outside
    <3> QED BY <1>1, <2>2, <3>1 DEF Counted, LocksTypeOK
  <2> QED BY <2>1, <2>2
<1>7. Shared'
  BY <1>1, <1>3 DEF Shared, In, Outside
<1>8. Entered'
  <2> SUFFICES ASSUME NEW s \in Reqs, section'[s].place = "inside"
               PROVE  holder'[section'[s].lock] = s
    BY DEF Entered
  <2>1. s # r
    BY <1>3 DEF Outside
  <2>2. section'[s] = section[s] /\ holder[section[s].lock] = s
    BY <1>3, <2>1 DEF Entered
  <2>3. section[s].lock # l
    BY <1>2, <2>1, <2>2
  <2> QED BY <1>1, <2>2, <2>3 DEF LocksTypeOK
<1> QED BY <1>5, <1>6, <1>7, <1>8

LEMMA ResetInv ==
  ASSUME LocksReset
  PROVE  LocksInv'
<1> USE DEF LocksReset, Outside
<1>1. LocksTypeOK'
  <2>1. <<>> \in Seq(Reqs)
    OBVIOUS
  <2> QED BY <2>1 DEF LocksTypeOK
<1>2. Counted'
  <2> SUFFICES ASSUME NEW e \in Emails PROVE refs'[e] = Cardinality(Users(e)')
    BY DEF Counted
  <2>1. Users(e)' = {}
    BY DEF Users, In
  <2> QED BY <2>1, FS_EmptySet
<1>3. Shared' /\ Entered'
  BY DEF Shared, Entered, In
<1> QED BY <1>1, <1>2, <1>3 DEF LocksInv

LEMMA LocksStep == LocksInv /\ [LocksNext]_lockVars => LocksInv'
<1> SUFFICES ASSUME LocksInv, [LocksNext]_lockVars PROVE LocksInv'
  OBVIOUS
<1>1. ASSUME NEW r \in Reqs, Enter(r) PROVE LocksInv'
  BY <1>1, EnterInv
<1>2. ASSUME NEW r \in Reqs, Leave(r) PROVE LocksInv'
  BY <1>2, LeaveInv
<1>3. ASSUME NEW r \in Reqs, NEW e \in Emails, Acquire(r, e) PROVE LocksInv'
  BY <1>3, AcquireInv
<1>4. CASE LocksReset
  BY <1>4, ResetInv
<1>5. CASE UNCHANGED lockVars
  <2>1. \A e \in Emails : Users(e)' = Users(e)
    BY <1>5 DEF lockVars, Users, In
  <2> QED BY <1>5, <2>1 DEF lockVars, LocksInv, LocksTypeOK, Counted, Shared, Entered, In
<1> QED BY <1>1, <1>2, <1>3, <1>4, <1>5 DEF LocksNext

LEMMA LocksInvEntails == LocksInv => OnePerEmail
<1> SUFFICES ASSUME LocksInv, NEW r1 \in Reqs, NEW r2 \in Reqs,
                    section[r1].place = "inside", section[r2].place = "inside",
                    section[r1].key = section[r2].key
             PROVE  r1 = r2
  BY DEF OnePerEmail
<1>1. holder[section[r1].lock] = r1 /\ holder[section[r2].lock] = r2
  BY DEF LocksInv, Entered
<1>2. section[r1].lock = section[r2].lock
  BY DEF LocksInv, Shared, In
<1> QED BY <1>1, <1>2

(* The table, the counts, the locks and their waiters keep their types: a   *)
(* count never goes below zero (email_locks.py:73-78).                      *)
THEOREM LocksTypeCorrect == LocksSpec => []LocksTypeOK
<1>1. LocksInv => LocksTypeOK
  BY DEF LocksInv
<1> QED BY LocksInitInv, LocksStep, <1>1, PTL DEF LocksSpec

(* Two requests for one address are never inside together (:10-17).         *)
THEOREM OneRequestPerEmail == LocksSpec => []OnePerEmail
BY LocksInitInv, LocksStep, LocksInvEntails, PTL DEF LocksSpec

-----------------------------------------------------------------------------
(* The accounts.  Operators take the state they speak of as arguments, so  *)
(* that one lemma serves the state before a step and the state after it.   *)

Resting == {"idle", "done", "lost"}
Active(q) == q.step \notin Resting \cup {"closing"}
Resolving == {"find", "meet", "adopt", "provision", "admit"}
Locked == Creating \cup {"resend"}
Rotating == {"create", "patch", "change", "confirm", "retry"}

\* An identity that no stranger's password opens.
Ours(s, idn) == idn[s].pw # Stranger /\ idn[s].provider = "email"
LinkedRow(q, rw) == rw[q.email].there /\ rw[q.email].ext = q.sub
\* Where a request is sure that its row is that of its subject ...
MustBeLinked(q) ==
  \/ q.step \in {"mark", "signout", "admit"}
  \/ q.step = "rotate" /\ q.kind \in {"patch", "change", "retry"}
  \/ q.step \in {"rotate"} \cup Resolving /\ q.kind = "confirm" /\ q.saw.there
  \/ q.step = "patching" /\ q.at >= 0
\* ... and that it carries the mark.
MustBeMarked(q) ==
  \/ q.step = "signout"
  \/ q.step \in Resolving /\ q.kind = "confirm" /\ q.saw.there

KindFits(q) ==
  /\ q.step = "idle" <=> q.kind = "none"
  /\ q.reply # "none" => q.step \in Gateway
  /\ q.step \in {"locking", "closing"} => q.kind \in Locked
  /\ q.step = "create" => q.kind = "create"
  /\ q.step = "invite" => q.kind \in {"invite", "resend"}
  /\ q.step \in {"look", "link"} => q.kind \in Creating
  /\ q.step \in {"rotate", "mark"} => q.kind \in Rotating
  /\ q.step = "patching" => q.kind = "patch"
  /\ q.step = "signin" => q.kind \in {"login", "change"}
  /\ q.step = "refresh" => q.kind = "refresh"
  /\ q.step = "otp" => q.kind = "confirm"
  /\ q.step = "mail" => q.kind = "reset"
  /\ q.step = "signout" => q.kind \in {"change", "confirm", "retry"}
  /\ q.step \in Resolving => q.kind \in {"login", "refresh", "retry", "confirm"}

\* A request knows its subject, under the subject's address, where it needs it.
Homed(q, h, idn) ==
  /\ q.email \in Emails
  /\ q.sub # Nothing => idn[q.sub].born /\ h[q.sub] = q.email
  /\ q.step \in {"rotate", "link", "mark", "signout", "otp", "refresh"} \cup Resolving
     => q.sub \in Subjects
  /\ q.step \in {"create", "invite", "signin"} /\ q.reply = "ok" => q.sub \in Subjects
\* Only past its rotation does it carry the rotation's time.
Timed(q) ==
  q.at >= 0 =>
    /\ q.sub \in Subjects
    /\ \/ q.step = "rotate" /\ q.reply \notin {"none", "pending"}
       \/ q.step \in {"mark", "signout", "patching"}
       \/ q.step = "link" /\ q.kind = "create"
       \/ q.step \in Resolving /\ q.kind = "confirm"
Rowed(q, rw) ==
  /\ q.kind = "change" => rw[q.email].there /\ rw[q.email].ext # Nothing
  /\ MustBeLinked(q) => LinkedRow(q, rw)
  /\ MustBeMarked(q) => rw[q.email].changed >= q.at - Leeway
\* What it links is no stranger's.
Unopened(q, idn) ==
  /\ q.step \in {"create", "invite"} /\ q.kind \in Creating /\ q.reply = "ok" => Ours(q.sub, idn)
  /\ q.step = "look" /\ q.reply = "ok" /\ q.sub # Nothing =>
       /\ q.found = "pending" => Ours(q.sub, idn)
       /\ q.found = "password" => idn[q.sub].provider = "email"
  /\ q.step = "rotate" /\ q.kind = "create" => idn[q.sub].provider = "email"
  /\ q.step = "rotate" /\ q.kind = "create" /\ q.reply = "ok" => Ours(q.sub, idn)
  /\ q.step = "link" => Ours(q.sub, idn)

Fits(q, h, idn, rw, t) ==
  /\ KindFits(q)
  /\ q.at >= -1 /\ q.at <= t
  /\ ~Active(q) => q.at = -1
  /\ Active(q) => Homed(q, h, idn) /\ Timed(q) /\ Rowed(q, rw) /\ Unopened(q, idn)

\* h gives each identity its home.
IdentHomes(h, idn) ==
  \A s \in Subjects : idn[s].email # Nothing => idn[s].born /\ idn[s].email = h[s]
RowHomes(h, idn, rw) ==
  \A e \in Emails : rw[e].ext # Nothing =>
    rw[e].there /\ idn[rw[e].ext].born /\ h[rw[e].ext] = e
EnvelopeHomes(h, idn, env) == \A t \in env : idn[t.sub].born /\ h[t.sub] = t.email
Homes(h) ==
  /\ h \in [Subjects -> Emails]
  /\ IdentHomes(h, ident) /\ RowHomes(h, ident, row) /\ EnvelopeHomes(h, ident, envelope)
  /\ \A r \in Reqs : Fits(req[r], h, ident, row, now)

Identities ==
  /\ \A s \in mail \cup session : ident[s].email # Nothing
  /\ \A s \in Subjects : ident[s].pending => Ours(s, ident)
  /\ \A s \in Subjects : ident[s].pw \in Reqs => req[ident[s].pw].kind # "none"

MarkedSince(s, time, rw) ==
  \E e \in Emails : rw[e].ext = s /\ rw[e].changed >= time - Leeway
Marks ==
  /\ \A e \in Emails : row[e].changed >= -Leeway - 1 /\ row[e].changed <= now - Leeway
  /\ \A s \in Subjects : evictedAt[s] >= -1
  /\ \A s \in Subjects : evictedAt[s] >= 0 => MarkedSince(s, evictedAt[s], row)

Starting ==
  /\ process # "up" => \A r \in Reqs : req[r].step \in Resting
  /\ process \in {"created", "rotated"} => \A e \in Emails : ~row[e].there

\* The requests that need the lock of their address have it.
Within(q, place) ==
  /\ q.step = "locking" => place.place = "waiting" /\ place.key = q.email
  /\ q.kind \in Locked /\ q.step \notin Resting \cup {"locking"} =>
       place.place = "inside" /\ (q.step # "closing" => place.key = q.email)
Sections == \A r \in Reqs : Within(req[r], section[r])

\* What opens an account that request r has given a password.
Covered(q) ==
  /\ q.kind = "create"
  /\ \/ q.step \in {"create", "rotate"} /\ q.reply = "ok"
     \/ q.step \in {"link", "mark"}
Honoured(r, pw, q) == pw = r \/ pw = Nothing \/ (pw \in Reqs /\ q[pw].kind # "create")
SettledByPassword == \A r \in Reqs : Covered(req[r]) => Honoured(r, ident[req[r].sub].pw, req)

Inv ==
  /\ TypeOK /\ LocksInv
  /\ \E h \in [Subjects -> Emails] : Homes(h)
  /\ Identities /\ Marks /\ Starting /\ Sections /\ SettledByPassword

-----------------------------------------------------------------------------
(* What the constructors of a request's next state give. *)

Same(p, q) ==
  /\ p.kind = q.kind /\ p.email = q.email /\ p.sub = q.sub /\ p.iat = q.iat /\ p.how = q.how
  /\ p.saw = q.saw /\ p.set = q.set /\ p.found = q.found /\ p.at = q.at /\ p.status = q.status

LEMMA NoUserTyped == NoUser \in User
BY LeewayAssumption DEF NoUser, User

LEMMA NoRequestTyped == NoRequest \in Request
BY NoUserTyped DEF NoRequest, Request, AllKinds, Status

LEMMA AsksFacts ==
  ASSUME NEW q \in Request, NEW call \in Gateway
  PROVE  /\ Asks(q, call) \in Request /\ Same(Asks(q, call), q)
         /\ Asks(q, call).step = call /\ Asks(q, call).reply = "pending"
BY DEF Asks, Same, Request

LEMMA GoesFacts ==
  ASSUME NEW q \in Request,
         NEW step \in {"link", "mark", "patching", "find", "meet", "adopt", "provision", "admit"}
  PROVE  /\ Goes(q, step) \in Request /\ Same(Goes(q, step), q)
         /\ Goes(q, step).step = step /\ Goes(q, step).reply = "none"
<1>1. Goes(q, step) = [q EXCEPT !.step = step, !.reply = "none"]
  BY DEF Goes
<1>2. Goes(q, step) \in Request
  BY <1>1 DEF Request
<1> QED BY <1>1, <1>2 DEF Same, Request

LEMMA DoneFacts ==
  ASSUME NEW q \in Request
  PROVE  /\ Done(q) \in Request /\ Done(q).kind = q.kind /\ Done(q).step = "done"
         /\ Done(q).at = -1 /\ Done(q).reply = "none"
<1>1. Done(q) = [NoRequest EXCEPT !.kind = q.kind, !.step = "done"]
  BY DEF Done
<1>2. NoRequest.at = -1 /\ NoRequest.reply = "none" /\ NoRequest \in Request
  BY NoRequestTyped DEF NoRequest
<1>3. Done(q) \in Request
  BY <1>1, <1>2 DEF Request
<1> QED BY <1>1, <1>2, <1>3 DEF Request

LEMMA EndsFacts ==
  ASSUME NEW q \in Request, NEW status \in Status
  PROVE  LET p == Ends(q, status) IN
         /\ p \in Request /\ p.kind = q.kind /\ p.at = -1 /\ p.reply = "none"
         /\ q.kind \in Locked => p.step = "closing" /\ p.status = status /\ p.sub = q.sub
         /\ q.kind \notin Locked => p.step = "done"
<1>1. CASE q.kind \in Locked
  <2>1. Ends(q, status) = [NoRequest EXCEPT !.kind = q.kind, !.sub = q.sub,
                                            !.status = status, !.step = "closing"]
    BY <1>1 DEF Ends, Locked
  <2>2. NoRequest.at = -1 /\ NoRequest.reply = "none" /\ NoRequest \in Request
    BY NoRequestTyped DEF NoRequest
  <2>3. Ends(q, status) \in Request
    <3>1. q.kind \in AllKinds \cup {"none"} /\ q.sub \in Subjects \cup {Nothing}
      BY DEF Request
    <3>2. Ends(q, status) =
            [kind |-> q.kind, email |-> Nothing, step |-> "closing", reply |-> "none",
             sub |-> q.sub, iat |-> 0, how |-> "none", saw |-> NoUser, set |-> TRUE,
             found |-> "none", at |-> -1, status |-> status]
      BY <2>1 DEF NoRequest
    <3> QED BY <3>1, <3>2, NoUserTyped DEF Request
  <2> QED BY <1>1, <2>1, <2>2, <2>3 DEF Request
<1>2. CASE q.kind \notin Locked
  <2>1. Ends(q, status) = Done(q)
    BY <1>2 DEF Ends, Locked
  <2> QED BY <1>2, <2>1, DoneFacts
<1> QED BY <1>1, <1>2

LEMMA OpenedFacts ==
  ASSUME NEW kind \in AllKinds, NEW e \in Emails
  PROVE  LET p == Opened(kind, e) IN
         /\ p \in Request /\ p.kind = kind /\ p.email = e /\ p.sub = Nothing /\ p.at = -1
         /\ p.saw = NoUser /\ p.iat = 0 /\ p.how = "none" /\ p.reply = "none"
BY NoRequestTyped DEF Opened, NoRequest, Request

LEMMA MovesFacts ==
  ASSUME NEW r \in Reqs, NEW p \in Request, Moves(r, p), req \in [Reqs -> Request]
  PROVE  /\ req' \in [Reqs -> Request] /\ req'[r] = p
         /\ \A x \in Reqs : x # r => req'[x] = req[x]
BY DEF Moves

-----------------------------------------------------------------------------
(* What a step of one request leaves true of another. *)

(* Nothing a request relies on is taken back: homes, links, marks, and that *)
(* no stranger's password opens an account.                                *)
Later(h, idn, rw, t, h2, idn2, rw2, t2) ==
  /\ t2 >= t
  /\ \A s \in Subjects : idn[s].born =>
       /\ idn2[s].born /\ h2[s] = h[s]
       /\ Ours(s, idn) => Ours(s, idn2)
       /\ idn[s].provider = "email" => idn2[s].provider = "email"
  /\ \A e \in Emails :
       /\ rw[e].there => rw2[e].there /\ rw2[e].changed >= rw[e].changed
       /\ rw[e].ext # Nothing => rw2[e].ext = rw[e].ext

LEMMA FitsStays ==
  ASSUME NEW q \in Request, NEW h, NEW idn, NEW rw \in [Emails -> User], NEW t \in Int,
         NEW h2, NEW idn2, NEW rw2 \in [Emails -> User], NEW t2 \in Int,
         Later(h, idn, rw, t, h2, idn2, rw2, t2), Fits(q, h, idn, rw, t)
  PROVE  Fits(q, h2, idn2, rw2, t2)
<1>0. /\ q.email \in Emails \cup {Nothing} /\ q.sub \in Subjects \cup {Nothing}
      /\ q.at \in Int /\ Leeway \in Int /\ Nothing \notin Subjects
  BY LeewayAssumption, SubjectsAssumption DEF Request
<1>1. KindFits(q) /\ q.at >= -1 /\ q.at <= t2 /\ (~Active(q) => q.at = -1)
  BY <1>0 DEF Fits, Later
<1>2. ASSUME Active(q)
      PROVE  Homed(q, h2, idn2) /\ Timed(q) /\ Rowed(q, rw2) /\ Unopened(q, idn2)
  <2>0. Homed(q, h, idn) /\ Timed(q) /\ Rowed(q, rw) /\ Unopened(q, idn)
    BY <1>2 DEF Fits
  <2>1. Homed(q, h2, idn2)
    BY <1>0, <2>0 DEF Homed, Later
  <2>2. Rowed(q, rw2)
    <3>0. q.email \in Emails
      BY <2>0 DEF Homed
    <3>1. q.kind = "change" => rw2[q.email].there /\ rw2[q.email].ext # Nothing
      BY <2>0, <3>0 DEF Rowed, Later
    <3>2. MustBeLinked(q) => q.sub \in Subjects
      BY <2>0 DEF MustBeLinked, Homed, Timed, Resolving
    <3>3. MustBeLinked(q) => LinkedRow(q, rw2)
      BY <1>0, <2>0, <3>0, <3>2 DEF Rowed, LinkedRow, Later
    <3>4. MustBeMarked(q) => MustBeLinked(q)
      BY DEF MustBeMarked, MustBeLinked
    <3>5. MustBeMarked(q) => rw2[q.email].changed >= q.at - Leeway
      <4>1. rw[q.email].changed \in Int /\ rw2[q.email].changed \in Int
        BY <3>0 DEF User
      <4> QED BY <1>0, <2>0, <3>0, <3>4, <4>1 DEF Rowed, LinkedRow, Later
    <3> QED BY <3>1, <3>3, <3>5 DEF Rowed
  <2>3. Unopened(q, idn2)
    <3>1. q.sub # Nothing => idn[q.sub].born
      BY <2>0 DEF Homed
    <3>2. q.sub # Nothing => /\ Ours(q.sub, idn) => Ours(q.sub, idn2)
                             /\ idn[q.sub].provider = "email" => idn2[q.sub].provider = "email"
      BY <1>0, <3>1 DEF Later
    <3>3. q.step \in {"rotate", "link"} => q.sub # Nothing
      BY <1>0, <2>0 DEF Homed
    <3>4. q.step \in {"create", "invite"} /\ q.reply = "ok" => q.sub # Nothing
      BY <1>0, <2>0 DEF Homed
    <3> QED BY <2>0, <3>2, <3>3, <3>4 DEF Unopened
  <2> QED BY <2>0, <2>1, <2>2, <2>3
<1> QED BY <1>1, <1>2 DEF Fits

(* A step of request r, whatever else it changes.                          *)
LEMMA StepKeeps ==
  ASSUME Inv, NEW r \in Reqs, NEW p \in Request, Moves(r, p), process = "up",
         TypeOK', LocksInv', UNCHANGED process,
         \A h \in [Subjects -> Emails] : Homes(h) =>
           \E h2 \in [Subjects -> Emails] :
             /\ Later(h, ident, row, now, h2, ident', row', now')
             /\ IdentHomes(h2, ident') /\ RowHomes(h2, ident', row')
             /\ EnvelopeHomes(h2, ident', envelope') /\ Fits(p, h2, ident', row', now'),
         \A s \in mail' \cup session' : ident'[s].email # Nothing,
         \A s \in Subjects : ident'[s].pending => Ours(s, ident'),
         p.kind # "none", req[r].kind # "none" => p.kind = req[r].kind,
         \A s \in Subjects : ident'[s].pw \in {ident[s].pw, r} \/ ident'[s].pw \notin Reqs,
         Marks',
         Within(p, section'[r]), \A x \in Reqs : x # r => section'[x] = section[x],
         Covered(p) => Honoured(r, ident'[p.sub].pw, req'),
         \A x \in Reqs : x # r /\ Covered(req[x]) =>
           \/ ident'[req[x].sub].pw \in {ident[req[x].sub].pw, Nothing}
           \/ ident'[req[x].sub].pw = r /\ p.kind # "create"
  PROVE  Inv'
<1>1. /\ req \in [Reqs -> Request] /\ req' \in [Reqs -> Request] /\ req'[r] = p
      /\ \A x \in Reqs : x # r => req'[x] = req[x]
  BY MovesFacts DEF Inv, TypeOK
<1>2. (\E h \in [Subjects -> Emails] : Homes(h))'
  <2>1. PICK h \in [Subjects -> Emails] : Homes(h)
    BY DEF Inv
  <2>2. PICK h2 \in [Subjects -> Emails] :
             /\ Later(h, ident, row, now, h2, ident', row', now')
             /\ IdentHomes(h2, ident') /\ RowHomes(h2, ident', row')
             /\ EnvelopeHomes(h2, ident', envelope') /\ Fits(p, h2, ident', row', now')
    BY <2>1
  <2>3. ASSUME NEW x \in Reqs PROVE Fits(req'[x], h2, ident', row', now')
    <3>1. CASE x = r
      BY <1>1, <2>2, <3>1
    <3>2. CASE x # r
      <4>1. req'[x] = req[x] /\ req[x] \in Request /\ Fits(req[x], h, ident, row, now)
        BY <1>1, <2>1, <3>2 DEF Homes
      <4>2. /\ row \in [Emails -> User] /\ row' \in [Emails -> User]
            /\ now \in Int /\ now' \in Int
        BY DEF Inv, TypeOK
      <4> QED BY <2>2, <4>1, <4>2, FitsStays
    <3> QED BY <3>1, <3>2
  <2> QED BY <2>2, <2>3 DEF Homes
<1>3. Identities'
  <2>1. ASSUME NEW s \in Subjects, ident'[s].pw \in Reqs
        PROVE  req'[ident'[s].pw].kind # "none"
    <3>1. CASE ident'[s].pw = r
      BY <1>1, <3>1
    <3>2. CASE ident'[s].pw = ident[s].pw /\ ident'[s].pw # r
      BY <1>1, <2>1, <3>2 DEF Inv, Identities
    <3> QED BY <2>1, <3>1, <3>2
  <2> QED BY <2>1 DEF Identities
<1>4. Starting'
  BY DEF Starting
<1>5. Sections'
  BY <1>1 DEF Inv, Sections
<1>6. SettledByPassword'
  <2> SUFFICES ASSUME NEW x \in Reqs, Covered(req'[x])
               PROVE  Honoured(x, ident'[req'[x].sub].pw, req')
    BY DEF SettledByPassword
  <2>1. CASE x = r
    BY <1>1, <2>1
  <2>2. CASE x # r
    <3> DEFINE s == req[x].sub
    <3>1. req'[x] = req[x] /\ Covered(req[x]) /\ Honoured(x, ident[s].pw, req)
      BY <1>1, <2>2 DEF Inv, SettledByPassword
    <3>2. CASE ident'[s].pw = Nothing
      BY <3>1, <3>2 DEF Honoured
    <3>3. CASE ident'[s].pw = r /\ p.kind # "create"
      BY <1>1, <3>1, <3>3 DEF Honoured
    <3>4. CASE ident'[s].pw = ident[s].pw /\ ident'[s].pw # Nothing
      <4>1. CASE ident[s].pw \in Reqs \ {x}
        <5>1. req[ident[s].pw].kind # "create"
          BY <3>1, <3>4, <4>1 DEF Honoured
        <5>2. s \in Subjects
          <6>1. PICK h \in [Subjects -> Emails] : Homes(h)
            BY DEF Inv
          <6>2. Fits(req[x], h, ident, row, now) /\ Active(req[x])
            BY <3>1, <6>1 DEF Homes, Covered, Active, Resting
          <6> QED BY <3>1, <6>2 DEF Fits, Homed, Covered
        <5>3. req[ident[s].pw].kind # "none"
          BY <4>1, <5>2 DEF Inv, Identities
        <5>4. req'[ident[s].pw].kind = req[ident[s].pw].kind
          BY <1>1, <4>1, <5>3
        <5> QED BY <3>1, <3>4, <4>1, <5>1, <5>4 DEF Honoured
      <4>2. CASE ident[s].pw \notin Reqs \ {x}
        BY <3>1, <3>4, <4>2 DEF Honoured
      <4> QED BY <4>1, <4>2
    <3> QED BY <2>2, <3>1, <3>2, <3>3, <3>4
  <2> QED BY <2>1, <2>2
<1> QED BY <1>2, <1>3, <1>4, <1>5, <1>6 DEF Inv

-----------------------------------------------------------------------------
(* Steps that leave the provider alone. *)

LEMMA LocksStay ==
  ASSUME LocksInv, UNCHANGED lockVars
  PROVE  LocksInv' /\ section' = section
<1>1. LocksInv'
  BY LocksStep
<1> QED BY <1>1 DEF lockVars

LEMMA HomeExists ==
  ASSUME Inv
  PROVE  \E h \in [Subjects -> Emails] : Homes(h)
BY DEF Inv

LEMMA UpWhenActive ==
  ASSUME Inv, NEW r \in Reqs, req[r].step \notin Resting
  PROVE  process = "up"
BY DEF Inv, Starting

LEMMA FitsOf ==
  ASSUME NEW h, Homes(h), NEW r \in Reqs
  PROVE  /\ Fits(req[r], h, ident, row, now)
         /\ Active(req[r]) => /\ Homed(req[r], h, ident) /\ Timed(req[r])
                              /\ Rowed(req[r], row) /\ Unopened(req[r], ident)
BY DEF Homes, Fits

LEMMA Typed ==
  ASSUME Inv
  PROVE  /\ now \in Nat /\ now \in Int /\ ident \in [Subjects -> Identity]
         /\ mail \subseteq Subjects /\ session \subseteq Subjects
         /\ row \in [Emails -> User] /\ req \in [Reqs -> Request]
         /\ envelope \subseteq [sub : Subjects, email : Emails, iat : Nat]
         /\ evictedAt \in [Subjects -> Int] /\ faults \in Nat
         /\ Leeway \in Nat /\ Leeway \in Int
BY LeewayAssumption DEF Inv, TypeOK

(* What such a step may do to the table of users and to the retry tokens.  *)
RowGrows ==
  /\ row' \in [Emails -> User]
  /\ \A e \in Emails :
       /\ row[e].there => row'[e].there /\ row'[e].changed >= row[e].changed
       /\ row[e].ext # Nothing => row'[e].ext = row[e].ext
       /\ row'[e].changed >= -Leeway - 1 /\ row'[e].changed <= now - Leeway
  /\ \A h \in [Subjects -> Emails] : Homes(h) => RowHomes(h, ident, row')
Locally ==
  /\ UNCHANGED <<now, remote, system, lockVars>>
  /\ faults' \in Nat
  /\ RowGrows
  /\ envelope' \subseteq [sub : Subjects, email : Emails, iat : Nat]
  /\ \A h \in [Subjects -> Emails] : Homes(h) => EnvelopeHomes(h, ident, envelope')
\* The evictions that are new are of marked rows.
EvictsMarked ==
  /\ evictedAt' \in [Subjects -> Int]
  /\ \A s \in Subjects : \/ evictedAt'[s] = evictedAt[s]
                         \/ evictedAt'[s] >= 0 /\ MarkedSince(s, evictedAt'[s], row')

LEMMA RowStays ==
  ASSUME Inv, UNCHANGED row
  PROVE  RowGrows
<1>1. \A e \in Emails : row[e].changed \in Int
  BY Typed DEF User
<1> QED BY <1>1, Typed DEF RowGrows, Homes, Inv, Marks

LEMMA StaysLocal ==
  ASSUME Inv, UNCHANGED <<now, remote, system, lockVars, row, envelope>>, faults' \in Nat
  PROVE  Locally
BY RowStays, Typed DEF Locally, Homes

LEMMA MarksGrow ==
  ASSUME Inv, RowGrows, EvictsMarked, UNCHANGED now
  PROVE  Marks'
<1>1. \A e \in Emails : row'[e].changed >= -Leeway - 1 /\ row'[e].changed <= now' - Leeway
  BY DEF RowGrows
<1>2. ASSUME NEW s \in Subjects
      PROVE  /\ evictedAt'[s] >= -1
             /\ evictedAt'[s] >= 0 => MarkedSince(s, evictedAt'[s], row')
  <2>1. evictedAt[s] \in Int /\ evictedAt'[s] \in Int
    BY Typed DEF EvictsMarked
  <2>2. CASE evictedAt'[s] = evictedAt[s]
    <3>1. evictedAt'[s] >= -1
      BY <2>2 DEF Inv, Marks
    <3>2. ASSUME evictedAt'[s] >= 0 PROVE MarkedSince(s, evictedAt'[s], row')
      <4>1. PICK e \in Emails : row[e].ext = s /\ row[e].changed >= evictedAt[s] - Leeway
        BY <2>2, <3>2 DEF Inv, Marks, MarkedSince
      <4>2. row[e].ext # Nothing /\ row[e].there
        <5>1. row[e].ext # Nothing
          BY <4>1, SubjectsAssumption
        <5> QED BY <5>1, HomeExists DEF Homes, RowHomes
      <4>3. row'[e].ext = s /\ row'[e].changed >= row[e].changed
        BY <4>1, <4>2 DEF RowGrows
      <4>4. row[e].changed \in Int /\ row'[e].changed \in Int
        BY Typed DEF RowGrows, User
      <4>5. row'[e].changed >= evictedAt'[s] - Leeway
        BY <2>1, <2>2, <4>1, <4>3, <4>4, Typed
      <4> QED BY <4>3, <4>5 DEF MarkedSince
    <3> QED BY <3>1, <3>2
  <2>3. CASE evictedAt'[s] >= 0 /\ MarkedSince(s, evictedAt'[s], row')
    BY <2>1, <2>3
  <2> QED BY <2>2, <2>3 DEF EvictsMarked
<1> QED BY <1>1, <1>2 DEF Marks

LEMMA LocalKeeps ==
  ASSUME Inv, NEW r \in Reqs, NEW p \in Request, Moves(r, p), process = "up",
         Locally, EvictsMarked,
         \A h \in [Subjects -> Emails] : Homes(h) => Fits(p, h, ident, row', now),
         p.kind # "none", req[r].kind # "none" => p.kind = req[r].kind,
         Within(p, section[r]),
         Covered(p) => Honoured(r, ident[p.sub].pw, req)
  PROVE  Inv'
<1>1. LocksInv' /\ section' = section
  BY LocksStay DEF Inv, Locally
<1>2. /\ req' \in [Reqs -> Request] /\ req'[r] = p
      /\ \A x \in Reqs : x # r => req'[x] = req[x]
  BY MovesFacts, Typed
<1>3. UNCHANGED <<now, ident, mail, session, process, restarts, others, load>>
  BY DEF Locally, remote, system
<1>4. TypeOK'
  BY <1>1, <1>2, <1>3 DEF Inv, TypeOK, LocksInv, Locally, RowGrows, EvictsMarked
<1>5. ASSUME NEW h \in [Subjects -> Emails], Homes(h)
      PROVE  /\ Later(h, ident, row, now, h, ident', row', now')
             /\ IdentHomes(h, ident') /\ RowHomes(h, ident', row')
             /\ EnvelopeHomes(h, ident', envelope') /\ Fits(p, h, ident', row', now')
  <2>1. Later(h, ident, row, now, h, ident', row', now')
    BY <1>3, Typed DEF Later, Locally, RowGrows
  <2> QED BY <1>3, <1>5, <2>1 DEF Homes, Locally, RowGrows
<1>6. Marks'
  BY <1>3, MarksGrow DEF Locally
<1>7. Covered(p) => Honoured(r, ident'[p.sub].pw, req')
  BY <1>2, <1>3 DEF Honoured
<1>8. /\ \A s \in mail' \cup session' : ident'[s].email # Nothing
      /\ \A s \in Subjects : ident'[s].pending => Ours(s, ident')
  BY <1>3 DEF Inv, Identities
<1>9. Within(p, section'[r]) /\ \A x \in Reqs : x # r => section'[x] = section[x]
  BY <1>1
<1> QED BY <1>1, <1>3, <1>4, <1>5, <1>6, <1>7, <1>8, <1>9, StepKeeps

LEMMA UnevictedMarked ==
  ASSUME Inv, UNCHANGED evictedAt
  PROVE  EvictsMarked
BY Typed DEF EvictsMarked

(* A request that goes on. *)
LEMMA GoesOn ==
  ASSUME Inv, NEW r \in Reqs, NEW p \in Request, Moves(r, p), Active(req[r]), Active(p),
         req[r].step # "locking", p.step # "locking", p.step # "idle",
         Locally, UNCHANGED evictedAt, p.kind = req[r].kind, p.email = req[r].email,
         \A h \in [Subjects -> Emails] : Homes(h) => Fits(p, h, ident, row', now),
         Covered(p) => Honoured(r, ident[p.sub].pw, req)
  PROVE  Inv'
<1>1. process = "up"
  BY UpWhenActive DEF Active
<1>2. p.kind # "none"
  BY HomeExists, FitsOf DEF Fits, KindFits, Active, Resting
<1>3. Within(p, section[r])
  <2>1. Within(req[r], section[r])
    BY DEF Inv, Sections
  <2> QED BY <2>1 DEF Within, Active
<1> QED BY <1>1, <1>2, <1>3, UnevictedMarked, LocalKeeps

(* A request that is answered. *)
LEMMA AnswersFacts ==
  ASSUME Inv, NEW r \in Reqs, NEW q \in Request, NEW status \in Status, Answers(r, q, status),
         status < 300 /\ q.at >= 0 => q.sub \in Subjects /\ MarkedSince(q.sub, q.at, row')
  PROVE  Moves(r, Ends(q, status)) /\ EvictsMarked
<1>1. CASE status < 300 /\ q.at >= 0 /\ q.at > evictedAt[q.sub]
  <2>1. evictedAt' = [evictedAt EXCEPT ![q.sub] = q.at] /\ q.at \in Int
    BY <1>1 DEF Answers, Request
  <2> QED BY <1>1, <2>1, Typed DEF Answers, EvictsMarked
<1>2. CASE ~(status < 300 /\ q.at >= 0 /\ q.at > evictedAt[q.sub])
  BY <1>2, Typed DEF Answers, EvictsMarked
<1> QED BY <1>1, <1>2

LEMMA AnswersKeeps ==
  ASSUME Inv, NEW r \in Reqs, NEW q \in Request, NEW status \in Status, Answers(r, q, status),
         Active(req[r]), req[r].step # "locking", q.kind = req[r].kind, Locally,
         status < 300 /\ q.at >= 0 => q.sub \in Subjects /\ MarkedSince(q.sub, q.at, row')
  PROVE  Inv'
<1> DEFINE p == Ends(q, status)
<1>1. /\ p \in Request /\ p.kind = q.kind /\ p.at = -1 /\ p.reply = "none"
      /\ q.kind \in Locked => p.step = "closing"
      /\ q.kind \notin Locked => p.step = "done"
  BY EndsFacts
<1>2. Moves(r, p) /\ EvictsMarked
  BY AnswersFacts
<1> HIDE DEF p
<1>3. process = "up"
  BY UpWhenActive DEF Active
<1>4. p.kind # "none"
  BY <1>1, HomeExists, FitsOf DEF Fits, KindFits, Active, Resting
<1>5. ASSUME NEW h \in [Subjects -> Emails], Homes(h)
      PROVE  Fits(p, h, ident, row', now)
  <2>1. KindFits(p)
    BY <1>1, <1>4 DEF KindFits, Resolving
  <2>2. ~Active(p)
    BY <1>1 DEF Active, Resting
  <2> QED BY <1>1, <2>1, <2>2, Typed DEF Fits
<1>6. Within(p, section[r])
  <2>1. Within(req[r], section[r])
    BY DEF Inv, Sections
  <2> QED BY <1>1, <2>1 DEF Within, Active, Resting
<1>7. ~Covered(p)
  BY <1>1 DEF Covered
<1> QED BY <1>1, <1>2, <1>3, <1>4, <1>5, <1>6, <1>7, LocalKeeps

-----------------------------------------------------------------------------
(* Each step of a request. *)

LEMMA ContinuesLocally ==
  ASSUME Inv, NEW r \in Reqs, Continues(r), UNCHANGED <<row, envelope>>
  PROVE  Locally
BY StaysLocal, Typed DEF Continues, quiet

LEMMA RefusedKeeps ==
  ASSUME Inv, NEW r \in Reqs, NEW status \in {401, 409, 422, 500, 503},
         Answers(r, req[r], status), Active(req[r]), req[r].step # "locking", Locally
  PROVE  Inv'
<1>1. req[r] \in Request /\ status \in Status /\ ~(status < 300)
  BY Typed DEF Status
<1> QED BY <1>1, AnswersKeeps

LEMMA FailedKeeps ==
  ASSUME Inv, NEW r \in Reqs, Failed(r, req[r]), Active(req[r]), req[r].step # "locking", Locally
  PROVE  Inv'
<1>1. PICK status \in {422, 503} : Answers(r, req[r], status)
  BY DEF Failed
<1> QED BY <1>1, RefusedKeeps

(* A request that goes on by itself, and one that asks the provider. *)
LEMMA GoesKeeps ==
  ASSUME Inv, NEW r \in Reqs,
         NEW step \in {"link", "mark", "patching", "find", "meet", "adopt", "provision", "admit"},
         Moves(r, Goes(req[r], step)), Active(req[r]), req[r].step # "locking",
         Locally, UNCHANGED evictedAt,
         \A p \in Request, h \in [Subjects -> Emails] :
           Homes(h) /\ Same(p, req[r]) /\ p.step = step /\ p.reply = "none"
           => Fits(p, h, ident, row', now),
         step \in {"link", "mark"} /\ req[r].kind = "create"
           => Honoured(r, ident[req[r].sub].pw, req)
  PROVE  Inv'
<1> DEFINE p == Goes(req[r], step)
<1>1. p \in Request /\ Same(p, req[r]) /\ p.step = step /\ p.reply = "none"
  BY Typed, GoesFacts
<1>2. Moves(r, p)
  OBVIOUS
<1> HIDE DEF p
<1>3. /\ Active(p) /\ p.step \notin {"locking", "idle"}
      /\ p.kind = req[r].kind /\ p.email = req[r].email
  BY <1>1 DEF Active, Resting, Same
<1>4. Covered(p) => Honoured(r, ident[p.sub].pw, req)
  BY <1>1 DEF Covered, Same
<1> QED BY <1>1, <1>2, <1>3, <1>4, GoesOn

LEMMA AsksKeeps ==
  ASSUME Inv, NEW r \in Reqs, NEW q \in Request, NEW call \in Gateway,
         Moves(r, Asks(q, call)), Active(req[r]), req[r].step # "locking",
         q.kind = req[r].kind, q.email = req[r].email,
         Locally, UNCHANGED evictedAt,
         \A p \in Request, h \in [Subjects -> Emails] :
           Homes(h) /\ Same(p, q) /\ p.step = call /\ p.reply = "pending"
           => Fits(p, h, ident, row', now)
  PROVE  Inv'
<1> DEFINE p == Asks(q, call)
<1>1. p \in Request /\ Same(p, q) /\ p.step = call /\ p.reply = "pending"
  BY AsksFacts
<1>2. Moves(r, p)
  OBVIOUS
<1> HIDE DEF p
<1>3. /\ Active(p) /\ p.step \notin {"locking", "idle"}
      /\ p.kind = req[r].kind /\ p.email = req[r].email
  BY <1>1 DEF Active, Resting, Same, Gateway
<1>4. ~Covered(p)
  BY <1>1 DEF Covered, Gateway
<1> QED BY <1>1, <1>2, <1>3, <1>4, GoesOn

LEMMA MadeKeeps ==
  ASSUME Inv, NEW r \in Reqs, Made(r)
  PROVE  Inv'
<1> DEFINE q == req[r]
<1>1. /\ q \in Request /\ q.step \in Creating /\ q.reply \notin {"none", "pending"}
      /\ Locally /\ row' = row
  BY Typed, ContinuesLocally DEF Made
<1>2. Active(q) /\ q.step # "locking"
  BY <1>1 DEF Active, Resting, Creating
<1>3. CASE q.reply = "ok" /\ q.kind \in Creating /\ Moves(r, Goes(q, "link")) /\ UNCHANGED evictedAt
  <2>1. ASSUME NEW p \in Request, NEW h \in [Subjects -> Emails], Homes(h),
               Same(p, q), p.step = "link", p.reply = "none"
        PROVE  Fits(p, h, ident, row', now)
    <3>1. Fits(q, h, ident, row, now)
      BY <2>1, FitsOf
    <3> QED BY <1>1, <1>2, <1>3, <2>1, <3>1 DEF Fits, Same, KindFits, Active, Resting, Resolving, Homed, Timed, Rowed,
           MustBeLinked, MustBeMarked, LinkedRow, Unopened, Creating, Rotating, Locked, Gateway
  <2>2. q.kind = "create" => Honoured(r, ident[q.sub].pw, req)
    <3>1. q.kind = "create" => q.step = "create"
      BY <1>1, HomeExists, FitsOf DEF Fits, KindFits, Creating
    <3> QED BY <1>3, <3>1 DEF Covered, Inv, SettledByPassword
  <2> QED BY <1>1, <1>2, <1>3, <2>1, <2>2, GoesKeeps
<1>4. CASE q.reply = "ok" /\ q.kind = "resend" /\ Answers(r, q, 204)
  <2>1. ~(q.at >= 0)
    BY <1>1, <1>2, HomeExists, FitsOf DEF Timed, Creating, Resolving
  <2> QED BY <1>1, <1>2, <1>4, <2>1, AnswersKeeps DEF Status
<1>5. CASE Failed(r, q)
  BY <1>1, <1>2, <1>5, FailedKeeps
<1>6. CASE q.reply = "rejected" /\ q.kind \in Creating /\ Moves(r, Asks(q, "look")) /\ UNCHANGED evictedAt
  <2>1. ASSUME NEW p \in Request, NEW h \in [Subjects -> Emails], Homes(h),
               Same(p, q), p.step = "look", p.reply = "pending"
        PROVE  Fits(p, h, ident, row', now)
    <3>1. Fits(q, h, ident, row, now)
      BY <2>1, FitsOf
    <3> QED BY <1>1, <1>2, <1>6, <2>1, <3>1 DEF Fits, Same, KindFits, Active, Resting, Resolving, Homed, Timed, Rowed,
           MustBeLinked, MustBeMarked, LinkedRow, Unopened, Creating, Rotating, Locked, Gateway
  <2> QED BY <1>1, <1>2, <1>6, <2>1, AsksKeeps DEF Gateway
<1> QED BY <1>3, <1>4, <1>5, <1>6 DEF Made

LEMMA LookedKeeps ==
  ASSUME Inv, NEW r \in Reqs, Looked(r)
  PROVE  Inv'
<1> DEFINE q == req[r]
<1>1. /\ q \in Request /\ q.step = "look" /\ Locally /\ row' = row
  BY Typed, ContinuesLocally DEF Looked
<1>2. Active(q) /\ q.step # "locking"
  BY <1>1 DEF Active, Resting
<1>3. CASE ~Usable(q)
  BY <1>1, <1>2, <1>3, FailedKeeps DEF Looked
<1>4. CASE Usable(q) /\ q.kind = "invite"
  <2>1. Moves(r, Goes(q, "link")) /\ UNCHANGED evictedAt
    BY <1>4 DEF Looked
  <2>2. ASSUME NEW p \in Request, NEW h \in [Subjects -> Emails], Homes(h),
               Same(p, q), p.step = "link", p.reply = "none"
        PROVE  Fits(p, h, ident, row', now)
    <3>1. Fits(q, h, ident, row, now)
      BY <2>2, FitsOf
    <3>2. q.sub \in Subjects /\ q.reply = "ok" /\ q.found = "pending"
      BY <1>1, <1>4 DEF Usable, Request
    <3>3. Homed(q, h, ident) /\ Ours(q.sub, ident) /\ ~(q.at >= 0)
      BY <1>1, <1>2, <3>1, <3>2, SubjectsAssumption DEF Fits, Unopened, Timed, Resolving
    <3>4. KindFits(p) /\ Active(p) /\ p.at >= -1 /\ p.at <= now /\ Timed(p)
      BY <1>4, <2>2, <3>1, <3>3 DEF Fits, KindFits, Timed, Same, Active, Resting, Resolving, Locked, Creating
    <3>5. Homed(p, h, ident) /\ Rowed(p, row') /\ Unopened(p, ident)
      BY <1>4, <2>2, <3>2, <3>3 DEF Homed, Rowed, MustBeLinked, MustBeMarked, Unopened, Same, Resolving
    <3> QED BY <3>4, <3>5 DEF Fits
  <2> QED BY <1>1, <1>2, <1>4, <2>1, <2>2, GoesKeeps
<1>5. CASE Usable(q) /\ q.kind # "invite"
  <2>1. Moves(r, Asks(q, "rotate")) /\ UNCHANGED evictedAt
    BY <1>5 DEF Looked
  <2>2. ASSUME NEW p \in Request, NEW h \in [Subjects -> Emails], Homes(h),
               Same(p, q), p.step = "rotate", p.reply = "pending"
        PROVE  Fits(p, h, ident, row', now)
    <3>1. Fits(q, h, ident, row, now)
      BY <2>2, FitsOf
    <3>2. q.sub \in Subjects /\ q.sub # Nothing /\ q.reply = "ok" /\ q.found \in {"pending", "password"}
      BY <1>1, <1>5 DEF Usable, Request
    <3>3. ident[q.sub].provider = "email"
      BY <1>1, <1>2, <3>1, <3>2 DEF Fits, Unopened, Ours
    <3> QED BY <1>1, <1>2, <1>5, <2>2, <3>1, <3>2, <3>3 DEF Fits, Same, KindFits, Active, Resting, Resolving, Homed, Timed, Rowed,
           MustBeLinked, MustBeMarked, LinkedRow, Unopened, Creating, Rotating, Locked, Gateway
  <2> QED BY <1>1, <1>2, <1>5, <2>1, <2>2, AsksKeeps DEF Gateway
<1> QED BY <1>3, <1>4, <1>5

LEMMA RotateDoneKeeps ==
  ASSUME Inv, NEW r \in Reqs, RotateDone(r)
  PROVE  Inv'
<1> DEFINE q == req[r]
<1>1. /\ q \in Request /\ q.step = "rotate" /\ row' = row /\ Continues(r)
      /\ q.reply \notin {"none", "pending"}
  BY Typed DEF RotateDone
<1>2. Active(q) /\ q.step # "locking"
  BY <1>1 DEF Active, Resting
<1>3. CASE q.reply = "ok"
  <2>0. q.kind \in Rotating
    BY <1>1, HomeExists, FitsOf DEF Fits, KindFits
  <2>1. PICK step \in {"link", "mark", "patching", "find"} :
          /\ Moves(r, Goes(q, step))
          /\ q.kind = "create" => step = "link"
          /\ q.kind = "patch" => step = "patching"
          /\ q.kind = "confirm" => step = IF q.saw.there THEN "mark" ELSE "find"
          /\ q.kind \in {"change", "retry"} => step = "mark"
    <3>1. CASE q.kind = "create"
      BY <1>3, <3>1 DEF RotateDone
    <3>2. CASE q.kind = "patch"
      BY <1>3, <3>2 DEF RotateDone
    <3>3. CASE q.kind = "confirm" /\ ~q.saw.there
      BY <1>3, <3>3 DEF RotateDone
    <3>4. CASE q.kind = "confirm" /\ q.saw.there
      BY <1>3, <3>4 DEF RotateDone
    <3>5. CASE q.kind \in {"change", "retry"}
      BY <1>3, <3>5 DEF RotateDone
    <3> QED BY <2>0, <3>1, <3>2, <3>3, <3>4, <3>5 DEF Rotating
  <2>2. UNCHANGED <<envelope, evictedAt>>
    BY <1>3 DEF RotateDone
  <2>3. Locally
    BY <1>1, <2>2, ContinuesLocally
  <2>4. ASSUME NEW p \in Request, NEW h \in [Subjects -> Emails], Homes(h),
               Same(p, q), p.step = step, p.reply = "none"
        PROVE  Fits(p, h, ident, row', now)
    <3>1. Fits(q, h, ident, row, now)
      BY <2>4, FitsOf
    <3>2. Homed(q, h, ident) /\ Timed(q) /\ Rowed(q, row) /\ Unopened(q, ident)
      BY <1>2, <3>1 DEF Fits
    <3>3. q.sub \in Subjects
      BY <1>1, <3>2 DEF Homed
    <3>4. KindFits(p) /\ Active(p) /\ p.at >= -1 /\ p.at <= now
      BY <2>0, <2>1, <2>4, <3>1 DEF Fits, KindFits, Same, Active, Resting, Resolving, Rotating, Locked, Creating
    <3>5. Homed(p, h, ident) /\ Timed(p)
      BY <1>1, <2>0, <2>1, <2>4, <3>2, <3>3 DEF Homed, Timed, Same, Rotating, Resolving
    <3>6. Rowed(p, row')
      BY <1>1, <2>0, <2>1, <2>4, <3>2 DEF Rowed, MustBeLinked, MustBeMarked, LinkedRow, Same, Rotating, Resolving
    <3>7. Unopened(p, ident)
      BY <1>1, <1>3, <2>0, <2>1, <2>4, <3>2 DEF Unopened, Same, Rotating
    <3> QED BY <3>4, <3>5, <3>6, <3>7 DEF Fits
  <2>5. q.kind = "create" => Honoured(r, ident[q.sub].pw, req)
    BY <1>1, <1>3 DEF Covered, Inv, SettledByPassword
  <2> QED BY <1>1, <1>2, <2>1, <2>2, <2>3, <2>4, <2>5, GoesKeeps
<1>4. CASE q.reply # "ok"
  <2>1. Failed(r, q)
    BY <1>4 DEF RotateDone
  <2>2. \A h \in [Subjects -> Emails] : Homes(h) => Homed(q, h, ident)
    BY <1>2, FitsOf
  <2>3. q.sub \in Subjects /\ q.email \in Emails /\ q.iat \in Nat
    BY <1>1, <2>2, HomeExists DEF Homed, Request
  <2>4. envelope' \subseteq envelope \cup {[sub |-> q.sub, email |-> q.email, iat |-> q.iat]}
    BY <1>4 DEF RotateDone
  <2>5. \A h \in [Subjects -> Emails] : Homes(h) => EnvelopeHomes(h, ident, envelope')
    BY <2>2, <2>3, <2>4, SubjectsAssumption DEF Homed, EnvelopeHomes, Homes
  <2>6. Locally
    BY <1>1, <2>3, <2>4, <2>5, RowStays, Typed DEF Locally, Continues, quiet
  <2> QED BY <1>2, <2>1, <2>6, FailedKeeps
<1> QED BY <1>3, <1>4

LEMMA LinkedMarks ==
  ASSUME NEW q \in Request, NEW rw, q.email \in Emails, LinkedRow(q, rw),
         rw[q.email].changed >= q.at - Leeway
  PROVE  MarkedSince(q.sub, q.at, rw)
BY DEF LinkedRow, MarkedSince

LEMMA SignOutDoneKeeps ==
  ASSUME Inv, NEW r \in Reqs, SignOutDone(r)
  PROVE  Inv'
<1> DEFINE q == req[r]
<1>1. q \in Request /\ q.step = "signout" /\ row' = row /\ Locally
  BY Typed, ContinuesLocally DEF SignOutDone
<1>2. Active(q) /\ q.step # "locking"
  BY <1>1 DEF Active, Resting
<1>3. CASE q.kind = "confirm" /\ q.saw.there
  <2>1. Moves(r, Goes(q, "find")) /\ UNCHANGED evictedAt
    BY <1>3 DEF SignOutDone
  <2>2. ASSUME NEW p \in Request, NEW h \in [Subjects -> Emails], Homes(h),
               Same(p, q), p.step = "find", p.reply = "none"
        PROVE  Fits(p, h, ident, row', now)
    <3>1. Fits(q, h, ident, row, now)
      BY <2>2, FitsOf
    <3> QED BY <1>1, <1>2, <1>3, <2>2, <3>1 DEF Fits, Same, KindFits, Active, Resting, Resolving, Homed, Timed, Rowed,
           MustBeLinked, MustBeMarked, LinkedRow, Unopened, Creating, Rotating, Locked, Gateway
  <2> QED BY <1>1, <1>2, <1>3, <2>1, <2>2, GoesKeeps
<1>4. CASE ~(q.kind = "confirm" /\ q.saw.there)
  <2>1. Answers(r, q, 204)
    BY <1>4 DEF SignOutDone
  <2>2. PICK h \in [Subjects -> Emails] : Homes(h)
    BY HomeExists
  <2>3. Homed(q, h, ident) /\ Rowed(q, row)
    BY <1>2, <2>2, FitsOf
  <2>4. q.sub \in Subjects /\ MarkedSince(q.sub, q.at, row')
    BY <1>1, <2>3, LinkedMarks DEF Homed, Rowed, MustBeLinked, MustBeMarked
  <2> QED BY <1>1, <1>2, <2>1, <2>4, AnswersKeeps DEF Status
<1> QED BY <1>3, <1>4

LEMMA ResetDoneKeeps ==
  ASSUME Inv, NEW r \in Reqs, ResetDone(r)
  PROVE  Inv'
<1> DEFINE q == req[r]
<1>1. q \in Request /\ q.step = "mail" /\ Locally /\ Answers(r, q, 204)
  BY Typed, ContinuesLocally DEF ResetDone
<1>2. Active(q) /\ q.step # "locking"
  BY <1>1 DEF Active, Resting
<1>3. ~(q.at >= 0)
  BY <1>1, <1>2, HomeExists, FitsOf DEF Timed, Resolving
<1> QED BY <1>1, <1>2, <1>3, AnswersKeeps DEF Status

LEMMA AuthenticatedKeeps ==
  ASSUME Inv, NEW r \in Reqs, Authenticated(r)
  PROVE  Inv'
<1> DEFINE q == req[r]
<1>1. q \in Request /\ q.step \in {"signin", "refresh"} /\ row' = row /\ Locally
  BY Typed, ContinuesLocally DEF Authenticated
<1>2. Active(q) /\ q.step # "locking"
  BY <1>1 DEF Active, Resting
<1>3. CASE q.reply # "ok"
  <2>1. PICK status \in {401, 422, 503} : Answers(r, q, status)
    BY <1>3 DEF Authenticated
  <2> QED BY <1>1, <1>2, <2>1, RefusedKeeps
<1>4. CASE q.reply = "ok" /\ q.kind # "change"
  <2>1. Moves(r, Goes(q, "find")) /\ UNCHANGED evictedAt
    BY <1>4 DEF Authenticated
  <2>2. ASSUME NEW p \in Request, NEW h \in [Subjects -> Emails], Homes(h),
               Same(p, q), p.step = "find", p.reply = "none"
        PROVE  Fits(p, h, ident, row', now)
    <3>1. Fits(q, h, ident, row, now)
      BY <2>2, FitsOf
    <3> QED BY <1>1, <1>2, <1>4, <2>2, <3>1 DEF Fits, Same, KindFits, Active, Resting, Resolving, Homed, Timed, Rowed,
           MustBeLinked, MustBeMarked, LinkedRow, Unopened, Creating, Rotating, Locked, Gateway
  <2>3. q.kind # "create"
    BY <1>1, HomeExists, FitsOf DEF Fits, KindFits
  <2> QED BY <1>1, <1>2, <1>4, <2>1, <2>2, <2>3, GoesKeeps
<1>5. CASE q.reply = "ok" /\ q.kind = "change"
  <2> DEFINE q2 == [q EXCEPT !.sub = row[q.email].ext]
  <2>1. Moves(r, Asks(q2, "rotate")) /\ UNCHANGED evictedAt
    BY <1>5 DEF Authenticated
  <2>2. /\ q.email \in Emails /\ row[q.email].there
        /\ row[q.email].ext # Nothing /\ row[q.email].ext \in Subjects
    BY <1>2, <1>5, HomeExists, FitsOf, Typed DEF Homed, Rowed, User
  <2>3. /\ q2 \in Request /\ q2.kind = q.kind /\ q2.email = q.email /\ q2.at = q.at
        /\ q2.sub = row[q.email].ext
    BY <1>1, <2>2 DEF Request
  <2> HIDE DEF q2
  <2>4. ASSUME NEW p \in Request, NEW h \in [Subjects -> Emails], Homes(h),
               Same(p, q2), p.step = "rotate", p.reply = "pending"
        PROVE  Fits(p, h, ident, row', now)
    <3>1. Fits(q, h, ident, row, now) /\ ~(q.at >= 0)
      BY <1>1, <1>2, <2>4, FitsOf DEF Timed, Resolving
    <3>2. ident[p.sub].born /\ h[p.sub] = p.email
      BY <2>2, <2>3, <2>4 DEF Homes, RowHomes, Same
    <3> QED BY <1>1, <1>2, <1>5, <2>2, <2>3, <2>4, <3>1, <3>2 DEF Fits, Same, KindFits, Active, Resting, Resolving, Homed, Timed, Rowed,
           MustBeLinked, MustBeMarked, LinkedRow, Unopened, Creating, Rotating, Locked, Gateway
  <2> QED BY <1>1, <1>2, <2>1, <2>3, <2>4, AsksKeeps DEF Gateway
<1> QED BY <1>3, <1>4, <1>5

(* A row of the subject of a request is the row of its address.            *)
LEMMA RowAtHome ==
  ASSUME NEW h, Homes(h), NEW s \in Subjects, NEW e \in RowOf(s)
  PROVE  h[s] = e
BY SubjectsAssumption DEF RowOf, Homes, RowHomes

LEMMA ConfirmableKeeps ==
  ASSUME Inv, NEW r \in Reqs, Confirmable(r)
  PROVE  Inv'
<1> DEFINE q == req[r]
           own == RowOf(q.sub)
           adoptable == {e \in {q.email} : row[e].there /\ row[e].ext = Nothing}
           about == IF own # {} THEN own ELSE adoptable
           refuses == q.reply # "ok" \/ \E e \in about : ~row[e].active
           saw == IF own # {} THEN row[q.email] ELSE NoUser
           q2 == [q EXCEPT !.saw = saw]
<1>1. q \in Request /\ q.step = "otp" /\ row' = row /\ Locally
  BY Typed, ContinuesLocally DEF Confirmable
<1>2. Active(q) /\ q.step # "locking"
  BY <1>1 DEF Active, Resting
<1>3. CASE refuses
  <2>1. Failed(r, q)
    BY <1>3 DEF Confirmable
  <2> QED BY <1>1, <1>2, <2>1, FailedKeeps
<1>4. CASE ~refuses
  <2>1. Moves(r, Asks(q2, "rotate")) /\ UNCHANGED evictedAt
    BY <1>4 DEF Confirmable
  <2>2. q.email \in Emails /\ q.sub \in Subjects
    BY <1>1, <1>2, HomeExists, FitsOf DEF Homed
  <2>3. saw \in User
    BY <2>2, NoUserTyped, Typed
  <2>4. /\ q2 \in Request /\ q2.kind = q.kind /\ q2.email = q.email /\ q2.at = q.at
        /\ q2.sub = q.sub /\ q2.saw = saw
    BY <1>1, <2>3 DEF Request
  <2>5. saw.there => own # {}
    BY DEF NoUser
  <2> HIDE DEF q2, saw
  <2>6. ASSUME NEW p \in Request, NEW h \in [Subjects -> Emails], Homes(h),
               Same(p, q2), p.step = "rotate", p.reply = "pending"
        PROVE  Fits(p, h, ident, row', now)
    <3>1. Fits(q, h, ident, row, now) /\ ~(q.at >= 0)
      BY <1>1, <1>2, <2>6, FitsOf DEF Timed, Resolving
    <3>2. h[q.sub] = q.email /\ ident[q.sub].born
      BY <1>2, <2>2, <3>1, SubjectsAssumption DEF Fits, Homed
    <3>3. saw.there => LinkedRow(q, row)
      <4>1. ASSUME NEW e \in own PROVE LinkedRow(q, row)
        <5>1. e = q.email
          BY <2>2, <2>6, <3>2, <4>1, RowAtHome
        <5> QED BY <4>1, <5>1 DEF RowOf, LinkedRow
      <4> QED BY <2>5, <4>1
    <3>4. q.kind = "confirm"
      BY <1>1, <3>1 DEF Fits, KindFits
    <3> QED BY <1>1, <1>2, <2>2, <2>4, <2>6, <3>1, <3>2, <3>3, <3>4 DEF Fits, Same, KindFits, Active, Resting, Resolving, Homed, Timed, Rowed,
           MustBeLinked, MustBeMarked, LinkedRow, Unopened, Creating, Rotating, Locked, Gateway
  <2> QED BY <1>1, <1>2, <2>1, <2>4, <2>6, AsksKeeps DEF Gateway
<1> QED BY <1>3, <1>4

LEMMA ByExternalIdKeeps ==
  ASSUME Inv, NEW r \in Reqs, ByExternalId(r)
  PROVE  Inv'
<1> DEFINE q == req[r]
           step == IF RowOf(q.sub) # {} THEN "admit" ELSE "meet"
<1>1. /\ q \in Request /\ q.step = "find" /\ row' = row /\ Locally
      /\ Moves(r, Goes(q, step)) /\ UNCHANGED evictedAt
  BY Typed, ContinuesLocally DEF ByExternalId
<1>2. Active(q) /\ q.step # "locking"
  BY <1>1 DEF Active, Resting
<1>3. ASSUME NEW p \in Request, NEW h \in [Subjects -> Emails], Homes(h),
             Same(p, q), p.step = step, p.reply = "none"
      PROVE  Fits(p, h, ident, row', now)
  <2>1. Fits(q, h, ident, row, now) /\ q.sub \in Subjects /\ h[q.sub] = q.email
    BY <1>1, <1>2, <1>3, FitsOf, SubjectsAssumption DEF Homed, Resolving
  <2>2. step = "admit" => LinkedRow(q, row)
    <3>1. ASSUME NEW e \in RowOf(q.sub) PROVE LinkedRow(q, row)
      <4>1. e = q.email
        BY <1>3, <2>1, <3>1, RowAtHome
      <4> QED BY <3>1, <4>1 DEF RowOf, LinkedRow
    <3> QED BY <3>1
  <2>3. step \in {"admit", "meet"}
    OBVIOUS
  <2> HIDE DEF step
  <2> QED BY <1>1, <1>2, <1>3, <2>1, <2>2, <2>3 DEF Fits, Same, KindFits, Active, Resting, Resolving, Homed, Timed, Rowed,
           MustBeLinked, MustBeMarked, LinkedRow, Unopened, Creating, Rotating, Locked, Gateway
<1>4. step \in {"admit", "meet"}
  OBVIOUS
<1> HIDE DEF step
<1> QED BY <1>1, <1>2, <1>3, <1>4, GoesKeeps

LEMMA ByEmailKeeps ==
  ASSUME Inv, NEW r \in Reqs, ByEmail(r)
  PROVE  Inv'
<1> DEFINE q == req[r]
           known == row[q.email].there /\ row[q.email].ext # Nothing
           step == IF row[q.email].there THEN "adopt" ELSE "provision"
<1>1. q \in Request /\ q.step = "meet" /\ row' = row /\ Locally
  BY Typed, ContinuesLocally DEF ByEmail
<1>2. Active(q) /\ q.step # "locking"
  BY <1>1 DEF Active, Resting
<1>3. CASE known
  <2>1. PICK status \in {401, 422} : Answers(r, q, status)
    BY <1>3 DEF ByEmail, Refused
  <2> QED BY <1>1, <1>2, <2>1, RefusedKeeps
<1>4. CASE ~known
  <2>1. Moves(r, Goes(q, step)) /\ UNCHANGED evictedAt
    BY <1>4 DEF ByEmail
  <2>2. step \in {"adopt", "provision"}
    OBVIOUS
  <2> HIDE DEF step
  <2>3. ASSUME NEW p \in Request, NEW h \in [Subjects -> Emails], Homes(h),
               Same(p, q), p.step = step, p.reply = "none"
        PROVE  Fits(p, h, ident, row', now)
    <3>1. Fits(q, h, ident, row, now)
      BY <2>3, FitsOf
    <3> QED BY <1>1, <1>2, <2>2, <2>3, <3>1 DEF Fits, Same, KindFits, Active, Resting, Resolving, Homed, Timed, Rowed,
           MustBeLinked, MustBeMarked, LinkedRow, Unopened, Creating, Rotating, Locked, Gateway
  <2> QED BY <1>1, <1>2, <2>1, <2>2, <2>3, GoesKeeps
<1> QED BY <1>3, <1>4

LEMMA AdmitKeeps ==
  ASSUME Inv, NEW r \in Reqs, Admit(r)
  PROVE  Inv'
<1> DEFINE q == req[r]
<1>1. q \in Request /\ q.step = "admit" /\ row' = row /\ Locally
  BY Typed, ContinuesLocally DEF Admit
<1>2. Active(q) /\ q.step # "locking"
  BY <1>1 DEF Active, Resting
<1>3. PICK g \in [Subjects -> Emails] : Homes(g)
  BY HomeExists
<1>4. Homed(q, g, ident) /\ Timed(q) /\ Rowed(q, row) /\ KindFits(q)
  BY <1>2, <1>3, FitsOf DEF Fits
<1>5. CASE q.kind \in {"login", "refresh"}
  <2>1. PICK status \in {200, 401} : Answers(r, q, status)
    BY <1>1, <1>5 DEF Admit
  <2>2. ~(q.at >= 0)
    BY <1>1, <1>4, <1>5 DEF Timed
  <2> QED BY <1>1, <1>2, <2>1, <2>2, AnswersKeeps DEF Status
<1>6. CASE q.kind = "retry" /\ (q.how # "otp" \/ ~row[q.email].active)
  <2>1. Answers(r, q, 422)
    BY <1>6 DEF Admit
  <2> QED BY <1>1, <1>2, <2>1, RefusedKeeps
<1>7. CASE q.kind = "retry" /\ ~(q.how # "otp" \/ ~row[q.email].active)
  <2>1. Moves(r, Asks(q, "rotate")) /\ UNCHANGED evictedAt
    BY <1>7 DEF Admit
  <2>2. ASSUME NEW p \in Request, NEW h \in [Subjects -> Emails], Homes(h),
               Same(p, q), p.step = "rotate", p.reply = "pending"
        PROVE  Fits(p, h, ident, row', now)
    <3>1. Fits(q, h, ident, row, now)
      BY <2>2, FitsOf
    <3>2. ~(q.at >= 0) /\ q.sub \in Subjects /\ LinkedRow(q, row)
      BY <1>1, <1>4, <1>7 DEF Timed, Homed, Rowed, MustBeLinked, Resolving
    <3> QED BY <1>1, <1>2, <1>7, <2>2, <3>1, <3>2 DEF Fits, Same, KindFits, Active, Resting, Resolving, Homed, Timed, Rowed,
           MustBeLinked, MustBeMarked, LinkedRow, Unopened, Creating, Rotating, Locked, Gateway
  <2> QED BY <1>1, <1>2, <2>1, <2>2, AsksKeeps DEF Gateway
<1>8. CASE q.kind = "confirm" /\ ~row[q.email].active
  <2>1. Answers(r, q, 422)
    BY <1>8 DEF Admit
  <2> QED BY <1>1, <1>2, <2>1, RefusedKeeps
<1>9. CASE q.kind = "confirm" /\ row[q.email].active /\ q.saw.there
  <2>1. Answers(r, q, 204)
    BY <1>9 DEF Admit
  <2>2. q.sub \in Subjects /\ MarkedSince(q.sub, q.at, row')
    BY <1>1, <1>4, <1>9, LinkedMarks DEF Homed, Rowed, MustBeLinked, MustBeMarked, Resolving
  <2> QED BY <1>1, <1>2, <2>1, <2>2, AnswersKeeps DEF Status
<1>10. CASE q.kind = "confirm" /\ row[q.email].active /\ ~q.saw.there
  <2>1. Moves(r, Goes(q, "mark")) /\ UNCHANGED evictedAt
    BY <1>10 DEF Admit
  <2>2. ASSUME NEW p \in Request, NEW h \in [Subjects -> Emails], Homes(h),
               Same(p, q), p.step = "mark", p.reply = "none"
        PROVE  Fits(p, h, ident, row', now)
    <3>1. Fits(q, h, ident, row, now)
      BY <2>2, FitsOf
    <3> QED BY <1>1, <1>2, <1>10, <2>2, <3>1 DEF Fits, Same, KindFits, Active, Resting, Resolving, Homed, Timed, Rowed,
           MustBeLinked, MustBeMarked, LinkedRow, Unopened, Creating, Rotating, Locked, Gateway
  <2> QED BY <1>1, <1>2, <1>10, <2>1, <2>2, GoesKeeps
<1> QED BY <1>1, <1>4, <1>5, <1>6, <1>7, <1>8, <1>9, <1>10 DEF KindFits, Resolving

-----------------------------------------------------------------------------
(* Steps that change the table of users. *)

LEMMA RowLocally ==
  ASSUME Inv, NEW r \in Reqs, Continues(r), RowGrows, UNCHANGED envelope
  PROVE  Locally
BY Typed DEF Continues, quiet, Locally, Homes

LEMMA LinkedGrows ==
  ASSUME Inv, NEW e \in Emails, NEW s \in Subjects, Linkable(e, s), row' = Linked(e, s),
         \A h \in [Subjects -> Emails] : Homes(h) => ident[s].born /\ h[s] = e
  PROVE  RowGrows /\ row'[e].there /\ row'[e].ext = s
<1>1. row' = [row EXCEPT ![e].ext = s] /\ row[e].there /\ row[e].ext = Nothing
  BY DEF Linked, Linkable
<1>2. row \in [Emails -> User]
  BY Typed
<1>3. /\ row'[e].there /\ row'[e].ext = s /\ row'[e].changed = row[e].changed
      /\ row'[e] \in User /\ \A k \in Emails : k # e => row'[k] = row[k]
  BY <1>1, <1>2 DEF User
<1>4. row' \in [Emails -> User]
  BY <1>1, <1>2, <1>3
<1>5. \A k \in Emails : row[k].changed \in Int
  BY <1>2 DEF User
<1>6. ASSUME NEW h \in [Subjects -> Emails], Homes(h) PROVE RowHomes(h, ident, row')
  BY <1>3, <1>6 DEF RowHomes, Homes
<1>7. \A k \in Emails :
        /\ row[k].there => row'[k].there
        /\ row'[k].changed = row[k].changed /\ row'[k].changed >= row[k].changed
        /\ row[k].ext # Nothing => row'[k].ext = row[k].ext
  BY <1>1, <1>3, <1>5
<1>8. \A k \in Emails : row'[k].changed >= -Leeway - 1 /\ row'[k].changed <= now - Leeway
  BY <1>7 DEF Inv, Marks
<1> QED BY <1>3, <1>4, <1>6, <1>7, <1>8 DEF RowGrows

LEMMA InsertedGrows ==
  ASSUME Inv, NEW e \in Emails, NEW s \in Subjects, Insertable(e, s), row' = Inserted(e, s),
         \A h \in [Subjects -> Emails] : Homes(h) => ident[s].born /\ h[s] = e
  PROVE  RowGrows /\ row'[e].there /\ row'[e].ext = s
<1> DEFINE u == [NoUser EXCEPT !.there = TRUE, !.ext = s]
<1>1. row' = [row EXCEPT ![e] = u] /\ ~row[e].there
  BY DEF Inserted, Insertable
<1>2. row[e].ext = Nothing
  BY <1>1, HomeExists DEF Homes, RowHomes
<1>3. NoUser \in User /\ NoUser.changed = -Leeway - 1
  BY NoUserTyped DEF NoUser
<1>4. u \in User /\ u.there /\ u.ext = s /\ u.changed = -Leeway - 1
  BY <1>3 DEF User
<1> HIDE DEF u
<1>5. row \in [Emails -> User]
  BY Typed
<1>6. row' \in [Emails -> User] /\ row'[e] = u /\ \A k \in Emails : k # e => row'[k] = row[k]
  BY <1>1, <1>4, <1>5
<1>7. \A k \in Emails : row[k].changed \in Int
  BY <1>5 DEF User
<1>8. ASSUME NEW h \in [Subjects -> Emails], Homes(h) PROVE RowHomes(h, ident, row')
  BY <1>4, <1>6, <1>8 DEF RowHomes, Homes
<1>9. \A k \in Emails : row'[k].changed >= -Leeway - 1 /\ row'[k].changed <= now - Leeway
  <2>1. -Leeway - 1 <= now - Leeway /\ -Leeway - 1 >= -Leeway - 1
    BY Typed
  <2> QED BY <1>4, <1>6, <2>1 DEF Inv, Marks
<1>10. \A k \in Emails :
         /\ row[k].there => row'[k].there /\ row'[k].changed >= row[k].changed
         /\ row[k].ext # Nothing => row'[k].ext = row[k].ext
  BY <1>1, <1>2, <1>6, <1>7
<1> QED BY <1>4, <1>6, <1>8, <1>9, <1>10 DEF RowGrows

LEMMA MarkedGrows ==
  ASSUME Inv, NEW e \in Emails, row' = Marked(e)
  PROVE  /\ RowGrows /\ row'[e].changed = now - Leeway
         /\ row'[e].there = row[e].there /\ row'[e].ext = row[e].ext
<1>1. row' = [row EXCEPT ![e].changed = now - Leeway] /\ row \in [Emails -> User]
  BY Typed DEF Marked
<1>2. /\ row'[e].there = row[e].there /\ row'[e].ext = row[e].ext
      /\ row'[e].changed = now - Leeway /\ now - Leeway \in Int
      /\ row'[e] \in User /\ \A k \in Emails : k # e => row'[k] = row[k]
  BY <1>1, Typed DEF User
<1>3. row' \in [Emails -> User]
  BY <1>1, <1>2
<1>4. \A k \in Emails : row[k].changed \in Int
  BY <1>1 DEF User
<1>5. \A k \in Emails : row'[k].there = row[k].there /\ row'[k].ext = row[k].ext
  BY <1>2
<1>6. ASSUME NEW h \in [Subjects -> Emails], Homes(h) PROVE RowHomes(h, ident, row')
  BY <1>5, <1>6 DEF RowHomes, Homes
<1>7. \A k \in Emails : row'[k].changed >= -Leeway - 1 /\ row'[k].changed <= now - Leeway
  BY <1>2, Typed DEF Inv, Marks
<1>8. \A k \in Emails : row'[k].changed >= row[k].changed
  <2>1. row[e].changed <= now - Leeway
    BY DEF Inv, Marks
  <2> QED BY <1>2, <1>4, <2>1
<1> QED BY <1>2, <1>3, <1>5, <1>6, <1>7, <1>8 DEF RowGrows

LEMMA LinkKeeps ==
  ASSUME Inv, NEW r \in Reqs, Link(r)
  PROVE  Inv'
<1> DEFINE q == req[r]
           e == q.email
           After == IF q.at >= 0 THEN Moves(r, Goes(q, "mark")) /\ UNCHANGED evictedAt
                                 ELSE Answers(r, q, 201)
<1>1. q \in Request /\ q.step = "link" /\ Continues(r) /\ UNCHANGED envelope
  BY Typed DEF Link
<1>2. Active(q) /\ q.step # "locking"
  BY <1>1 DEF Active, Resting
<1>3. /\ e \in Emails /\ q.sub \in Subjects
      /\ \A h \in [Subjects -> Emails] : Homes(h) => ident[q.sub].born /\ h[q.sub] = e
  BY <1>1, <1>2, HomeExists, FitsOf, SubjectsAssumption DEF Homed
<1>4. RowHomes(CHOOSE h \in [Subjects -> Emails] : Homes(h), ident, row)
  BY HomeExists DEF Homes
<1>5. ASSUME Locally, After, LinkedRow(q, row') PROVE Inv'
  <2>1. CASE q.at >= 0
    <3>1. Moves(r, Goes(q, "mark")) /\ UNCHANGED evictedAt
      BY <1>5, <2>1
    <3>2. q.kind = "create"
      BY <1>1, <1>2, <2>1, HomeExists, FitsOf DEF Timed, Resolving
    <3>3. ASSUME NEW p \in Request, NEW h \in [Subjects -> Emails], Homes(h),
                 Same(p, q), p.step = "mark", p.reply = "none"
          PROVE  Fits(p, h, ident, row', now)
      <4>1. Fits(q, h, ident, row, now)
        BY <3>3, FitsOf
      <4> QED BY <1>1, <1>2, <1>3, <1>5, <2>1, <3>2, <3>3, <4>1 DEF Fits, Same, KindFits, Active, Resting, Resolving, Homed, Timed, Rowed,
           MustBeLinked, MustBeMarked, LinkedRow, Unopened, Creating, Rotating, Locked, Gateway
    <3>4. Honoured(r, ident[q.sub].pw, req)
      BY <1>1, <3>2 DEF Covered, Inv, SettledByPassword
    <3> QED BY <1>1, <1>2, <1>5, <3>1, <3>3, <3>4, GoesKeeps
  <2>2. CASE ~(q.at >= 0)
    <3>1. Answers(r, q, 201)
      BY <1>5, <2>2
    <3> QED BY <1>1, <1>2, <1>5, <2>2, <3>1, AnswersKeeps DEF Status
  <2> QED BY <2>1, <2>2
<1>6. CASE q.saw.there /\ Linkable(e, q.sub) /\ row' = Linked(e, q.sub) /\ After
  BY <1>1, <1>3, <1>5, <1>6, LinkedGrows, RowLocally DEF LinkedRow
<1>7. CASE q.saw.there /\ row[e].ext = q.sub /\ UNCHANGED row /\ After
  <2>1. row[e].there
    BY <1>3, <1>4, <1>7, SubjectsAssumption DEF RowHomes
  <2> QED BY <1>1, <1>5, <1>7, <2>1, RowStays, RowLocally DEF LinkedRow
<1>8. CASE ~q.saw.there /\ Insertable(e, q.sub) /\ row' = Inserted(e, q.sub) /\ After
  BY <1>1, <1>3, <1>5, <1>8, InsertedGrows, RowLocally DEF LinkedRow
<1>9. CASE UNCHANGED row /\ \E status \in {409, 422} : Answers(r, q, status)
  BY <1>1, <1>2, <1>9, RowStays, RowLocally, RefusedKeeps
<1> QED BY <1>6, <1>7, <1>8, <1>9 DEF Link

LEMMA MarkKeeps ==
  ASSUME Inv, NEW r \in Reqs, Mark(r)
  PROVE  Inv'
<1> DEFINE q == req[r]
           e == q.email
<1>1. /\ q \in Request /\ q.step = "mark" /\ row' = Marked(e)
      /\ Continues(r) /\ UNCHANGED envelope
  BY Typed DEF Mark
<1>2. Active(q) /\ q.step # "locking"
  BY <1>1 DEF Active, Resting
<1>3. /\ e \in Emails /\ q.sub \in Subjects /\ q.kind \in Rotating
      /\ LinkedRow(q, row) /\ q.at <= now /\ q.at \in Int
  BY <1>1, <1>2, HomeExists, FitsOf DEF Homed, Rowed, MustBeLinked, Fits, KindFits, Request
<1>4. Locally /\ LinkedRow(q, row') /\ row'[e].changed = now - Leeway
  BY <1>1, <1>3, MarkedGrows, RowLocally DEF LinkedRow
<1>5. row'[e].changed >= q.at - Leeway
  BY <1>3, <1>4, Typed
<1>6. CASE q.kind \in {"create", "patch"}
  <2>1. PICK status \in {200, 201} : Answers(r, q, status)
    BY <1>6 DEF Mark
  <2>2. MarkedSince(q.sub, q.at, row')
    BY <1>3, <1>4, <1>5 DEF MarkedSince, LinkedRow
  <2> QED BY <1>1, <1>2, <1>3, <1>4, <2>1, <2>2, AnswersKeeps DEF Status
<1>7. CASE q.kind \notin {"create", "patch"}
  <2>1. Moves(r, Asks(q, "signout")) /\ UNCHANGED evictedAt
    BY <1>7 DEF Mark
  <2>2. ASSUME NEW p \in Request, NEW h \in [Subjects -> Emails], Homes(h),
               Same(p, q), p.step = "signout", p.reply = "pending"
        PROVE  Fits(p, h, ident, row', now)
    <3>1. Fits(q, h, ident, row, now)
      BY <2>2, FitsOf
    <3>2. Homed(q, h, ident) /\ Timed(q) /\ Rowed(q, row)
      BY <1>2, <3>1 DEF Fits
    <3>3. KindFits(p) /\ Active(p) /\ p.at >= -1 /\ p.at <= now
      BY <1>3, <1>7, <2>2, <3>1 DEF Fits, KindFits, Same, Active, Resting, Resolving, Rotating, Locked, Creating, Gateway
    <3>4. Homed(p, h, ident) /\ Timed(p) /\ Unopened(p, ident)
      BY <1>1, <1>3, <2>2, <3>2 DEF Homed, Timed, Unopened, Same, Resolving
    <3>5. row'[e].ext # Nothing
      BY <1>3, <1>4, SubjectsAssumption DEF LinkedRow
    <3>6. Rowed(p, row')
      BY <1>4, <1>5, <2>2, <3>5 DEF Rowed, LinkedRow, Same
    <3> QED BY <3>3, <3>4, <3>6 DEF Fits
  <2> QED BY <1>1, <1>2, <1>4, <2>1, <2>2, AsksKeeps DEF Gateway
<1> QED BY <1>6, <1>7

LEMMA PatchKeeps ==
  ASSUME Inv, NEW r \in Reqs, Patch(r)
  PROVE  Inv'
<1> DEFINE q == req[r]
           e == q.email
<1>1. /\ q \in Request /\ q.step = "patching" /\ Continues(r) /\ UNCHANGED envelope
      /\ row' = IF q.set # q.saw.active THEN [row EXCEPT ![e].active = q.set] ELSE row
  BY Typed DEF Patch
<1>2. Active(q) /\ q.step # "locking"
  BY <1>1 DEF Active, Resting
<1>3. e \in Emails /\ q.kind = "patch" /\ row \in [Emails -> User] /\ q.set \in BOOLEAN
  BY <1>1, <1>2, HomeExists, FitsOf, Typed DEF Homed, Fits, KindFits, Request
<1>4. /\ row' \in [Emails -> User]
      /\ \A k \in Emails : /\ row'[k].there = row[k].there /\ row'[k].ext = row[k].ext
                           /\ row'[k].changed = row[k].changed
  <2>1. CASE q.set # q.saw.active
    <3>1. row' = [row EXCEPT ![e].active = q.set]
      BY <1>1, <2>1
    <3> QED BY <1>3, <3>1 DEF User
  <2>2. CASE ~(q.set # q.saw.active)
    BY <1>1, <1>3, <2>2
  <2> QED BY <2>1, <2>2
<1>5. RowGrows
  <2>1. \A k \in Emails : row[k].changed \in Int
    BY Typed DEF User
  <2>2. ASSUME NEW h \in [Subjects -> Emails], Homes(h) PROVE RowHomes(h, ident, row')
    BY <1>4, <2>2 DEF RowHomes, Homes
  <2>3. \A k \in Emails : row'[k].changed >= -Leeway - 1 /\ row'[k].changed <= now - Leeway
    BY <1>4 DEF Inv, Marks
  <2> QED BY <1>4, <2>1, <2>2, <2>3 DEF RowGrows
<1>6. Locally
  BY <1>1, <1>5, RowLocally
<1>7. CASE q.at >= 0
  <2>1. Moves(r, Goes(q, "mark")) /\ UNCHANGED evictedAt
    BY <1>7 DEF Patch
  <2>2. ASSUME NEW p \in Request, NEW h \in [Subjects -> Emails], Homes(h),
               Same(p, q), p.step = "mark", p.reply = "none"
        PROVE  Fits(p, h, ident, row', now)
    <3>1. Fits(q, h, ident, row, now)
      BY <2>2, FitsOf
    <3>2. q.sub \in Subjects /\ LinkedRow(q, row')
      BY <1>1, <1>2, <1>3, <1>4, <1>7, <3>1 DEF Fits, Timed, Rowed, MustBeLinked, LinkedRow
    <3> QED BY <1>1, <1>2, <1>3, <2>2, <3>1, <3>2 DEF Fits, Same, KindFits, Active, Resting, Resolving, Homed, Timed, Rowed,
           MustBeLinked, MustBeMarked, LinkedRow, Unopened, Creating, Rotating, Locked, Gateway
  <2> QED BY <1>1, <1>2, <1>3, <1>6, <2>1, <2>2, GoesKeeps
<1>8. CASE ~(q.at >= 0)
  <2>1. Answers(r, q, 200)
    BY <1>8 DEF Patch
  <2> QED BY <1>1, <1>2, <1>6, <1>8, <2>1, AnswersKeeps DEF Status
<1> QED BY <1>7, <1>8

(* The verifier's last step, whoever wrote the row.                        *)
LEMMA LinkedAdmits ==
  ASSUME Inv, NEW r \in Reqs, req[r].step \in {"adopt", "provision"}, Locally,
         IF row'[req[r].email].ext = req[r].sub
           THEN Moves(r, Goes(req[r], "admit")) /\ UNCHANGED evictedAt
           ELSE Refused(r, req[r])
  PROVE  Inv'
<1> DEFINE q == req[r]
<1>1. q \in Request /\ q.step \in {"adopt", "provision"}
  BY Typed
<1>2. Active(q) /\ q.step # "locking"
  BY <1>1 DEF Active, Resting
<1>3. CASE row'[q.email].ext = q.sub
  <2>1. Moves(r, Goes(q, "admit")) /\ UNCHANGED evictedAt
    BY <1>3
  <2>2. ASSUME NEW p \in Request, NEW h \in [Subjects -> Emails], Homes(h),
               Same(p, q), p.step = "admit", p.reply = "none"
        PROVE  Fits(p, h, ident, row', now)
    <3>1. Fits(q, h, ident, row, now)
      BY <2>2, FitsOf
    <3>2. Homed(q, h, ident) /\ Timed(q) /\ Rowed(q, row)
      BY <1>2, <3>1 DEF Fits
    <3>3. q.email \in Emails /\ q.sub \in Subjects /\ q.sub # Nothing
      BY <1>1, <3>2, SubjectsAssumption DEF Homed, Resolving
    <3>4. LinkedRow(q, row')
      BY <1>3, <2>2, <3>3 DEF LinkedRow, Locally, RowGrows, RowHomes
    <3>5. KindFits(p) /\ Active(p) /\ p.at >= -1 /\ p.at <= now
      BY <1>1, <2>2, <3>1 DEF Fits, KindFits, Same, Active, Resting, Resolving, Rotating, Locked, Creating, Gateway
    <3>6. Homed(p, h, ident) /\ Timed(p) /\ Unopened(p, ident)
      BY <1>1, <2>2, <3>2, <3>3 DEF Homed, Timed, Unopened, Same, Resolving
    <3>7. Rowed(p, row')
      <4>1. MustBeMarked(p) => MustBeMarked(q)
        BY <1>1, <2>2 DEF MustBeMarked, Same, Resolving
      <4>2. MustBeMarked(q) => row'[q.email].changed >= q.at - Leeway
        <5>1. /\ row[q.email].changed \in Int /\ row'[q.email].changed \in Int
              /\ q.at \in Int
          BY <1>1, <3>3, Typed DEF Locally, RowGrows, User, Request
        <5>2. MustBeMarked(q) => row[q.email].there
          BY <3>2 DEF MustBeMarked, MustBeLinked, Rowed, LinkedRow
        <5> QED BY <3>2, <3>3, <5>1, <5>2, Typed DEF Locally, RowGrows, Rowed
      <4>3. p.kind # "change"
        BY <2>2, <3>5 DEF KindFits, Resolving
      <4> QED BY <2>2, <3>4, <4>1, <4>2, <4>3 DEF Rowed, LinkedRow, Same
    <3> QED BY <3>5, <3>6, <3>7 DEF Fits
  <2> QED BY <1>1, <1>2, <2>1, <2>2, GoesKeeps
<1>4. CASE row'[q.email].ext # q.sub
  <2>1. PICK status \in {401, 422} : Answers(r, q, status)
    BY <1>4 DEF Refused
  <2> QED BY <1>1, <1>2, <2>1, RefusedKeeps
<1> QED BY <1>3, <1>4

LEMMA AdoptKeeps ==
  ASSUME Inv, NEW r \in Reqs, Adopt(r)
  PROVE  Inv'
<1> DEFINE e == req[r].email
           s == req[r].sub
<1>1. /\ req[r].step = "adopt" /\ Continues(r) /\ UNCHANGED envelope
      /\ row' = IF Linkable(e, s) THEN Linked(e, s) ELSE row
      /\ IF row'[e].ext = s THEN Moves(r, Goes(req[r], "admit")) /\ UNCHANGED evictedAt
                            ELSE Refused(r, req[r])
  BY DEF Adopt, Adopts
<1>2. Active(req[r])
  BY <1>1 DEF Active, Resting
<1>3. /\ e \in Emails /\ s \in Subjects
      /\ \A h \in [Subjects -> Emails] : Homes(h) => ident[s].born /\ h[s] = e
  BY <1>1, <1>2, HomeExists, FitsOf, SubjectsAssumption DEF Homed, Resolving
<1>4. Locally
  BY <1>1, <1>3, LinkedGrows, RowStays, RowLocally
<1> QED BY <1>1, <1>4, LinkedAdmits

LEMMA ProvisionKeeps ==
  ASSUME Inv, NEW r \in Reqs, Provision(r)
  PROVE  Inv'
<1> DEFINE e == req[r].email
           s == req[r].sub
<1>1. /\ req[r].step = "provision" /\ Continues(r) /\ UNCHANGED envelope
      /\ row' = IF Insertable(e, s) THEN Inserted(e, s) ELSE row
      /\ IF row'[e].ext = s THEN Moves(r, Goes(req[r], "admit")) /\ UNCHANGED evictedAt
                            ELSE Refused(r, req[r])
  BY DEF Provision
<1>2. Active(req[r])
  BY <1>1 DEF Active, Resting
<1>3. /\ e \in Emails /\ s \in Subjects
      /\ \A h \in [Subjects -> Emails] : Homes(h) => ident[s].born /\ h[s] = e
  BY <1>1, <1>2, HomeExists, FitsOf, SubjectsAssumption DEF Homed, Resolving
<1>4. Locally
  BY <1>1, <1>3, InsertedGrows, RowStays, RowLocally
<1> QED BY <1>1, <1>4, LinkedAdmits

-----------------------------------------------------------------------------
(* Faults of a request. *)

LEMMA FaultTyped ==
  ASSUME Inv, Fault
  PROVE  faults' \in Nat
BY Typed DEF Fault

LEMMA LocalFailsKeeps ==
  ASSUME Inv, NEW r \in Reqs, LocalFails(r)
  PROVE  Inv'
<1>1. Answers(r, req[r], 500) /\ Active(req[r]) /\ req[r].step # "locking"
  BY DEF LocalFails, Active, Resting
<1>2. Locally
  BY FaultTyped, StaysLocal DEF LocalFails
<1> QED BY <1>1, <1>2, RefusedKeeps

LEMMA AnswerLostKeeps ==
  ASSUME Inv, NEW r \in Reqs, AnswerLost(r)
  PROVE  Inv'
<1> DEFINE q == req[r]
           p == [q EXCEPT !.reply = "unavailable"]
<1>1. q \in Request /\ q.reply = "ok" /\ Moves(r, p) /\ UNCHANGED evictedAt
  BY Typed DEF AnswerLost
<1>2. p \in Request /\ Same(p, q) /\ p.step = q.step /\ p.reply = "unavailable"
  BY <1>1 DEF Request, Same
<1> HIDE DEF p
<1>3. q.step \in Gateway
  BY <1>1, HomeExists, FitsOf DEF Fits, KindFits
<1>4. Locally
  BY FaultTyped, StaysLocal DEF AnswerLost
<1>5. /\ Active(q) /\ Active(p) /\ q.step # "locking" /\ p.step # "locking" /\ p.step # "idle"
      /\ p.kind = q.kind /\ p.email = q.email
  BY <1>2, <1>3 DEF Active, Resting, Gateway, Same
<1>6. ASSUME NEW h \in [Subjects -> Emails], Homes(h) PROVE Fits(p, h, ident, row', now)
  <2>1. Fits(q, h, ident, row, now) /\ row' = row
    BY <1>6, FitsOf DEF AnswerLost
  <2> QED BY <1>1, <1>2, <1>3, <1>5, <2>1 DEF Fits, Same, KindFits, Active, Resting, Resolving, Homed, Timed, Rowed,
           MustBeLinked, MustBeMarked, LinkedRow, Unopened, Creating, Rotating, Locked, Gateway
<1>7. ~Covered(p)
  BY <1>2, <1>3 DEF Covered, Gateway
<1> QED BY <1>1, <1>2, <1>4, <1>5, <1>6, <1>7, GoesOn

-----------------------------------------------------------------------------
(* A request starts, or waits for, enters and leaves the lock of its address. *)

LEMMA OnlyRequestKeeps ==
  ASSUME Inv, NEW r \in Reqs, NEW p \in Request, Moves(r, p), process = "up",
         UNCHANGED <<now, remote, row, envelope, quiet, evictedAt>>, LocksInv',
         \A h \in [Subjects -> Emails] : Homes(h) => Fits(p, h, ident, row, now),
         p.kind # "none", req[r].kind # "none" => p.kind = req[r].kind,
         Within(p, section'[r]), \A x \in Reqs : x # r => section'[x] = section[x],
         ~Covered(p)
  PROVE  Inv'
<1>1. /\ req' \in [Reqs -> Request] /\ req'[r] = p
      /\ \A x \in Reqs : x # r => req'[x] = req[x]
  BY MovesFacts, Typed
<1>2. UNCHANGED <<now, ident, mail, session, row, envelope, faults, process, restarts, others,
                  load, evictedAt>>
  BY DEF remote, quiet, system
<1>3. TypeOK'
  BY <1>1, <1>2 DEF Inv, TypeOK, LocksInv
<1>4. ASSUME NEW h \in [Subjects -> Emails], Homes(h)
      PROVE  /\ Later(h, ident, row, now, h, ident', row', now')
             /\ IdentHomes(h, ident') /\ RowHomes(h, ident', row')
             /\ EnvelopeHomes(h, ident', envelope') /\ Fits(p, h, ident', row', now')
  <2>1. \A e \in Emails : row[e].changed \in Int
    BY Typed DEF User
  <2>2. Later(h, ident, row, now, h, ident', row', now')
    BY <1>2, <2>1, Typed DEF Later
  <2> QED BY <1>2, <1>4, <2>2 DEF Homes
<1>5. Marks'
  BY <1>2 DEF Inv, Marks, MarkedSince
<1>6. /\ \A s \in mail' \cup session' : ident'[s].email # Nothing
      /\ \A s \in Subjects : ident'[s].pending => Ours(s, ident')
  BY <1>2 DEF Inv, Identities
<1> QED BY <1>2, <1>3, <1>4, <1>5, <1>6, StepKeeps

LEMMA OpensKeeps ==
  ASSUME Inv, NEW r \in Reqs, NEW kind \in AllKinds \ Locked, Starts(r, kind), UNCHANGED lockVars,
         NEW p \in Request, Moves(r, p), p.kind = kind, p.at = -1,
         KindFits(p), Active(p),
         \A h \in [Subjects -> Emails] :
           Homes(h) => Homed(p, h, ident) /\ Rowed(p, row) /\ Unopened(p, ident)
  PROVE  Inv'
<1>1. process = "up" /\ req[r].step = "idle" /\ UNCHANGED <<now, remote, row, envelope, quiet, evictedAt>>
  BY DEF Starts
<1>2. LocksInv' /\ section' = section
  BY LocksStay DEF Inv
<1>3. \A h \in [Subjects -> Emails] : Homes(h) => Fits(p, h, ident, row, now)
  BY Typed DEF Fits, Timed
<1>4. p.kind # "none" /\ req[r].kind = "none"
  BY <1>1, HomeExists, FitsOf DEF Fits, KindFits, AllKinds, Creating
<1>5. Within(p, section[r]) /\ ~Covered(p)
  BY DEF Within, KindFits, Covered, Locked, Creating
<1> QED BY <1>1, <1>2, <1>3, <1>4, <1>5, OnlyRequestKeeps

LEMMA StartPatchKeeps ==
  ASSUME Inv, NEW r \in Reqs, StartPatch(r)
  PROVE  Inv'
<1>1. PICK e \in Emails, active \in BOOLEAN :
        /\ Starts(r, "patch") /\ row[e].there
        /\ LET q == [Opened("patch", e) EXCEPT !.saw = row[e], !.set = active, !.sub = row[e].ext]
           IN  \/ Moves(r, Goes(q, "patching"))
               \/ row[e].ext # Nothing /\ Moves(r, Asks(q, "rotate"))
        /\ UNCHANGED lockVars
  BY DEF StartPatch
<1> DEFINE o == Opened("patch", e)
           q == [o EXCEPT !.saw = row[e], !.set = active, !.sub = row[e].ext]
<1>2. o \in Request /\ o.kind = "patch" /\ o.email = e /\ o.at = -1
  BY OpenedFacts DEF AllKinds
<1>3. row[e] \in User /\ row[e].ext \in Subjects \cup {Nothing}
  BY Typed DEF User
<1>4. \/ Moves(r, Goes(q, "patching"))
      \/ row[e].ext # Nothing /\ Moves(r, Asks(q, "rotate"))
  BY <1>1
<1> HIDE DEF o
<1>5. q \in Request /\ q.kind = "patch" /\ q.email = e /\ q.at = -1 /\ q.sub = row[e].ext
  BY <1>2, <1>3 DEF Request
<1> HIDE DEF q
<1>6. PICK p \in Request, step \in {"patching", "rotate"} :
        /\ Moves(r, p) /\ Same(p, q) /\ p.step = step
        /\ step = "rotate" => row[e].ext # Nothing
        /\ p.reply = IF step = "rotate" THEN "pending" ELSE "none"
  <2>1. CASE Moves(r, Goes(q, "patching"))
    BY <1>5, <2>1, GoesFacts
  <2>2. CASE row[e].ext # Nothing /\ Moves(r, Asks(q, "rotate"))
    BY <1>5, <2>2, AsksFacts DEF Gateway
  <2> QED BY <1>4, <2>1, <2>2
<1>7. /\ p.kind = "patch" /\ p.email = e /\ p.at = -1 /\ p.sub = row[e].ext
      /\ KindFits(p) /\ Active(p)
  BY <1>5, <1>6 DEF Same, KindFits, Active, Resting, Resolving, Rotating, Gateway, Locked, Creating
<1>8. ASSUME NEW h \in [Subjects -> Emails], Homes(h)
      PROVE  Homed(p, h, ident) /\ Rowed(p, row) /\ Unopened(p, ident)
  <2>1. row[e].ext # Nothing => ident[row[e].ext].born /\ h[row[e].ext] = e
    BY <1>8 DEF Homes, RowHomes
  <2>2. Homed(p, h, ident)
    BY <1>3, <1>6, <1>7, <2>1 DEF Homed, Resolving
  <2>3. Rowed(p, row) /\ Unopened(p, ident)
    BY <1>1, <1>6, <1>7 DEF Rowed, LinkedRow, MustBeLinked, MustBeMarked, Unopened, Resolving
  <2> QED BY <2>2, <2>3
<1> QED BY <1>1, <1>6, <1>7, <1>8, OpensKeeps DEF AllKinds, Locked, Creating

(* A request that begins by asking the provider, or with a session.        *)
LEMMA AsksFirstKeeps ==
  ASSUME Inv, NEW r \in Reqs, NEW kind \in AllKinds \ Locked, Starts(r, kind), UNCHANGED lockVars,
         NEW q \in Request, q.kind = kind, q.at = -1, q.email \in Emails,
         NEW call \in Gateway, Moves(r, Asks(q, call)),
         \/ call = "signin" /\ kind \in {"login", "change"}
         \/ call = "refresh" /\ kind = "refresh"
         \/ call = "otp" /\ kind = "confirm"
         \/ call = "mail" /\ kind = "reset",
         kind = "change" => row[q.email].there /\ row[q.email].ext # Nothing,
         call \in {"refresh", "otp"} => q.sub \in Subjects,
         \A h \in [Subjects -> Emails] :
           Homes(h) /\ q.sub # Nothing => ident[q.sub].born /\ h[q.sub] = q.email
  PROVE  Inv'
<1> DEFINE p == Asks(q, call)
<1>1. p \in Request /\ Same(p, q) /\ p.step = call /\ p.reply = "pending"
  BY AsksFacts
<1>2. Moves(r, p)
  OBVIOUS
<1> HIDE DEF p
<1>3. KindFits(p) /\ Active(p) /\ p.kind = kind /\ p.at = -1
  BY <1>1 DEF Same, KindFits, Active, Resting, Resolving, Rotating, Gateway, Locked, Creating
<1>4. ASSUME NEW h \in [Subjects -> Emails], Homes(h)
      PROVE  Homed(p, h, ident) /\ Rowed(p, row) /\ Unopened(p, ident)
  BY <1>1, <1>4 DEF Same, Homed, Rowed, MustBeLinked, MustBeMarked, Unopened, Resolving
<1> QED BY <1>1, <1>2, <1>3, <1>4, OpensKeeps

(* Whoever has a link or a session has an address.                         *)
LEMMA HolderHomes ==
  ASSUME Inv, NEW s \in mail \cup session
  PROVE  /\ s \in Subjects /\ ident[s].email \in Emails
         /\ \A h \in [Subjects -> Emails] : Homes(h) => ident[s].born /\ h[s] = ident[s].email
<1>1. s \in Subjects /\ ident[s].email # Nothing /\ ident[s] \in Identity
  BY Typed DEF Inv, Identities
<1> QED BY <1>1 DEF Identity, Homes, IdentHomes

LEMMA StartAskingKeeps ==
  ASSUME Inv, NEW r \in Reqs,
         StartLogin(r) \/ StartRefresh(r) \/ StartChange(r) \/ StartReset(r) \/ StartConfirm(r)
  PROVE  Inv'
<1> USE DEF AllKinds, Locked, Creating, Gateway
<1>1. ASSUME NEW e \in Emails, NEW kind \in {"login", "change", "reset"}, Starts(r, kind), UNCHANGED lockVars,
             Moves(r, Asks(Opened(kind, e), IF kind = "reset" THEN "mail" ELSE "signin")),
             kind = "change" => row[e].there /\ row[e].ext # Nothing
      PROVE  Inv'
  <2> DEFINE q == Opened(kind, e)
             call == IF kind = "reset" THEN "mail" ELSE "signin"
  <2>1. q \in Request /\ q.kind = kind /\ q.at = -1 /\ q.email = e /\ q.sub = Nothing
    BY OpenedFacts
  <2>2. Moves(r, Asks(q, call)) /\ call \in {"mail", "signin"} /\ (call = "mail" <=> kind = "reset")
    BY <1>1
  <2> HIDE DEF q, call
  <2> QED BY <1>1, <2>1, <2>2, AsksFirstKeeps
<1>2. ASSUME NEW s \in mail \cup session, NEW kind \in {"refresh", "confirm"}, Starts(r, kind), UNCHANGED lockVars,
             Moves(r, Asks([Opened(kind, ident[s].email) EXCEPT !.sub = s],
                           IF kind = "refresh" THEN "refresh" ELSE "otp"))
      PROVE  Inv'
  <2> DEFINE e == ident[s].email
             o == Opened(kind, e)
             q == [o EXCEPT !.sub = s]
             call == IF kind = "refresh" THEN "refresh" ELSE "otp"
  <2>1. s \in Subjects /\ e \in Emails
        /\ \A h \in [Subjects -> Emails] : Homes(h) => ident[s].born /\ h[s] = e
    BY HolderHomes
  <2>2. o \in Request /\ o.kind = kind /\ o.at = -1 /\ o.email = e
    BY <2>1, OpenedFacts
  <2>3. Moves(r, Asks(q, call)) /\ call \in {"refresh", "otp"} /\ (call = "otp" <=> kind = "confirm")
    BY <1>2
  <2> HIDE DEF o, call, e
  <2>4. q \in Request /\ q.kind = kind /\ q.at = -1 /\ q.email = e /\ q.sub = s
    BY <2>1, <2>2 DEF Request
  <2> HIDE DEF q
  <2> QED BY <1>2, <2>1, <2>3, <2>4, AsksFirstKeeps
<1>3. CASE StartLogin(r)
  BY <1>1, <1>3 DEF StartLogin
<1>4. CASE StartRefresh(r)
  BY <1>2, <1>4 DEF StartRefresh
<1>5. CASE StartChange(r)
  BY <1>1, <1>5 DEF StartChange
<1>6. CASE StartReset(r)
  BY <1>1, <1>6 DEF StartReset
<1>7. CASE StartConfirm(r)
  BY <1>2, <1>7 DEF StartConfirm
<1> QED BY <1>3, <1>4, <1>5, <1>6, <1>7

LEMMA StartRetryKeeps ==
  ASSUME Inv, NEW r \in Reqs, StartRetry(r)
  PROVE  Inv'
<1>1. Starts(r, "retry") /\ UNCHANGED lockVars
  BY DEF StartRetry
<1>2. ASSUME NEW e \in Emails, NEW s \in Subjects, NEW iat \in Nat, NEW how \in {"password", "otp"},
             Moves(r, Goes([Opened("retry", e) EXCEPT !.sub = s, !.iat = iat, !.how = how], "find")),
             \A h \in [Subjects -> Emails] : Homes(h) => ident[s].born /\ h[s] = e
      PROVE  Inv'
  <2> DEFINE o == Opened("retry", e)
             q == [o EXCEPT !.sub = s, !.iat = iat, !.how = how]
             p == Goes(q, "find")
  <2>1. o \in Request /\ o.kind = "retry" /\ o.at = -1 /\ o.email = e /\ o.saw = NoUser
    BY OpenedFacts DEF AllKinds
  <2>2. Moves(r, p)
    BY <1>2
  <2> HIDE DEF o
  <2>3. q \in Request /\ q.kind = "retry" /\ q.at = -1 /\ q.email = e /\ q.sub = s
    BY <2>1 DEF Request
  <2> HIDE DEF q
  <2>4. p \in Request /\ Same(p, q) /\ p.step = "find" /\ p.reply = "none"
    BY <2>3, GoesFacts
  <2> HIDE DEF p
  <2>5. KindFits(p) /\ Active(p) /\ p.kind = "retry" /\ p.at = -1
    BY <2>3, <2>4 DEF Same, KindFits, Active, Resting, Resolving, Rotating, Gateway, Locked, Creating
  <2>6. ASSUME NEW h \in [Subjects -> Emails], Homes(h)
        PROVE  Homed(p, h, ident) /\ Rowed(p, row) /\ Unopened(p, ident)
    BY <1>2, <2>3, <2>4, <2>6 DEF Same, Homed, Rowed, MustBeLinked, MustBeMarked, Unopened, Resolving
  <2> QED BY <1>1, <2>2, <2>4, <2>5, <2>6, OpensKeeps DEF AllKinds, Locked, Creating
<1>3. ASSUME NEW t \in envelope,
             Moves(r, Goes([Opened("retry", t.email) EXCEPT !.sub = t.sub, !.iat = t.iat,
                                                            !.how = "otp"], "find"))
      PROVE  Inv'
  <2>1. t.email \in Emails /\ t.sub \in Subjects /\ t.iat \in Nat
    BY Typed
  <2>2. \A h \in [Subjects -> Emails] : Homes(h) => ident[t.sub].born /\ h[t.sub] = t.email
    BY DEF Homes, EnvelopeHomes
  <2> QED BY <1>2, <1>3, <2>1, <2>2
<1>4. ASSUME NEW s \in session,
             Moves(r, Goes([Opened("retry", ident[s].email) EXCEPT !.sub = s, !.iat = now,
                                                                   !.how = "password"], "find"))
      PROVE  Inv'
  BY <1>2, <1>4, HolderHomes, Typed
<1> QED BY <1>3, <1>4 DEF StartRetry

LEMMA StartLockedKeeps ==
  ASSUME Inv, NEW r \in Reqs, StartLocked(r)
  PROVE  Inv'
<1>1. PICK kind \in Locked, e \in Emails :
        /\ Starts(r, kind) /\ Acquire(r, e)
        /\ Moves(r, [Opened(kind, e) EXCEPT !.step = "locking"])
  BY DEF StartLocked, Locked
<1> DEFINE o == Opened(kind, e)
           p == [o EXCEPT !.step = "locking"]
<1>2. o \in Request /\ o.kind = kind /\ o.email = e /\ o.sub = Nothing /\ o.at = -1 /\ o.reply = "none"
  BY OpenedFacts DEF Locked, Creating, AllKinds
<1>3. Moves(r, p)
  BY <1>1
<1> HIDE DEF o
<1>4. /\ p \in Request /\ p.kind = kind /\ p.email = e /\ p.sub = Nothing /\ p.at = -1
      /\ p.reply = "none" /\ p.step = "locking"
  BY <1>2 DEF Request
<1> HIDE DEF p
<1>5. process = "up" /\ req[r].step = "idle" /\ UNCHANGED <<now, remote, row, envelope, quiet, evictedAt>>
  BY <1>1 DEF Starts
<1>6. LocksInv'
  BY <1>1, AcquireInv DEF Inv
<1>7. /\ section'[r].place = "waiting" /\ section'[r].key = e
      /\ \A x \in Reqs : x # r => section'[x] = section[x]
  BY <1>1 DEF Acquire, Inv, LocksInv, LocksTypeOK
<1>8. ASSUME NEW h \in [Subjects -> Emails], Homes(h) PROVE Fits(p, h, ident, row, now)
  <2>1. KindFits(p)
    BY <1>4 DEF KindFits, Locked, Creating, Resolving
  <2>2. Homed(p, h, ident) /\ Timed(p) /\ Rowed(p, row) /\ Unopened(p, ident)
    BY <1>4 DEF Homed, Timed, Rowed, MustBeLinked, MustBeMarked, Unopened, Resolving, Locked, Creating
  <2> QED BY <1>4, <2>1, <2>2, Typed DEF Fits, Active, Resting
<1>9. p.kind # "none" /\ req[r].kind = "none"
  BY <1>4, <1>5, HomeExists, FitsOf DEF Fits, KindFits, Locked, Creating
<1>10. Within(p, section'[r]) /\ ~Covered(p)
  BY <1>4, <1>7 DEF Within, Covered
<1> QED BY <1>3, <1>4, <1>5, <1>6, <1>7, <1>8, <1>9, <1>10, OnlyRequestKeeps

LEMMA LockTurnKeeps ==
  ASSUME Inv, NEW r \in Reqs, LockTurn(r)
  PROVE  Inv'
<1> DEFINE q == req[r]
           e == q.email
           q2 == [q EXCEPT !.saw = row[e]]
<1>1. /\ q \in Request /\ q.step = "locking" /\ Enter(r)
      /\ UNCHANGED <<now, remote, row, envelope, quiet, evictedAt>>
  BY Typed DEF LockTurn
<1>2. Active(q) /\ q.reply = "none" /\ process = "up"
  <2>1. Active(q)
    BY <1>1 DEF Active, Resting
  <2>2. q.reply = "none"
    BY <1>1, HomeExists, FitsOf DEF Fits, KindFits, Gateway
  <2> QED BY <1>1, <2>1, <2>2, UpWhenActive DEF Resting
<1>3. /\ LocksInv' /\ section'[r].place = "inside" /\ section'[r].key = e
      /\ \A x \in Reqs : x # r => section'[x] = section[x]
  <2>1. section[r].key = e
    BY <1>1 DEF Inv, Sections, Within
  <2> QED BY <1>1, <2>1, EnterInv DEF Enter, Inv, LocksInv, LocksTypeOK
<1>4. e \in Emails /\ q.kind \in Locked /\ ~(q.at >= 0)
  BY <1>1, <1>2, HomeExists, FitsOf DEF Homed, Timed, Fits, KindFits, Resolving
<1>5. q2 \in Request /\ q2.kind = q.kind /\ q2.email = e /\ q2.sub = q.sub /\ q2.at = q.at
  BY <1>1, <1>4, Typed DEF Request
<1>6. \/ Moves(r, Ends(q, 422))
      \/ \E call \in Creating : /\ call = "create" <=> q.kind = "create"
                                /\ Moves(r, Asks(q, call)) \/ Moves(r, Asks(q2, call))
  <2>1. CASE q.kind = "resend"
    <3>1. Moves(r, Asks(q, "invite"))
      BY <2>1 DEF LockTurn
    <3> QED BY <2>1, <3>1 DEF Creating
  <2>2. CASE q.kind # "resend"
    <3>1. q.kind \in Creating
      BY <1>4, <2>2 DEF Locked
    <3>2. Moves(r, Ends(q, 422)) \/ Moves(r, Asks(q2, q.kind))
      BY <2>2 DEF LockTurn
    <3> QED BY <3>1, <3>2 DEF Creating
  <2> QED BY <2>1, <2>2
<1>7. CASE Moves(r, Ends(q, 422))
  <2> DEFINE p == Ends(q, 422)
  <2>1. p \in Request /\ p.kind = q.kind /\ p.at = -1 /\ p.reply = "none" /\ p.step = "closing"
    BY <1>1, <1>4, EndsFacts DEF Status
  <2>2. Moves(r, p)
    BY <1>7
  <2> HIDE DEF p
  <2>3. ASSUME NEW h \in [Subjects -> Emails], Homes(h) PROVE Fits(p, h, ident, row, now)
    <3>1. KindFits(p) /\ ~Active(p)
      BY <1>4, <2>1 DEF KindFits, Locked, Creating, Resolving, Active
    <3> QED BY <2>1, <3>1, Typed DEF Fits
  <2>4. p.kind # "none" /\ Within(p, section'[r]) /\ ~Covered(p)
    BY <1>3, <1>4, <2>1 DEF Within, Covered, Locked, Creating
  <2> QED BY <1>1, <1>2, <1>3, <2>1, <2>2, <2>3, <2>4, OnlyRequestKeeps
<1>8. ASSUME NEW w \in {q, q2}, NEW call \in Creating, call = "create" <=> q.kind = "create",
             Moves(r, Asks(w, call))
      PROVE  Inv'
  <2>0. w \in Request /\ w.kind = q.kind /\ w.email = e /\ w.sub = q.sub /\ w.at = q.at
    BY <1>1, <1>5
  <2> HIDE DEF q2
  <2> DEFINE p == Asks(w, call)
  <2>1. p \in Request /\ Same(p, w) /\ p.step = call /\ p.reply = "pending"
    BY <2>0, AsksFacts DEF Creating, Gateway
  <2>2. Moves(r, p)
    BY <1>8
  <2> HIDE DEF p
  <2>3. /\ p.kind = q.kind /\ p.email = e /\ p.sub = q.sub /\ p.at = q.at
        /\ p.step \in Creating /\ (p.step = "create" <=> p.kind = "create")
    BY <1>8, <2>0, <2>1 DEF Same
  <2>4. ASSUME NEW h \in [Subjects -> Emails], Homes(h) PROVE Fits(p, h, ident, row, now)
    <3>1. Homed(q, h, ident) /\ q.at >= -1 /\ q.at <= now
      BY <1>2, <2>4, FitsOf DEF Fits
    <3>2. KindFits(p) /\ Active(p)
      BY <1>4, <2>1, <2>3 DEF KindFits, Locked, Creating, Gateway, Resolving, Active, Resting
    <3>3. Homed(p, h, ident)
      BY <1>4, <2>1, <2>3, <3>1 DEF Homed, Creating, Resolving
    <3>4. Timed(p) /\ Rowed(p, row) /\ Unopened(p, ident)
      BY <1>4, <2>1, <2>3 DEF Timed, Rowed, MustBeLinked, MustBeMarked, Unopened, Creating, Locked, Resolving
    <3> QED BY <2>3, <3>1, <3>2, <3>3, <3>4 DEF Fits
  <2>5. p.kind # "none" /\ Within(p, section'[r]) /\ ~Covered(p)
    BY <1>3, <1>4, <2>1, <2>3 DEF Within, Covered, Locked, Creating
  <2> QED BY <1>1, <1>2, <1>3, <2>1, <2>2, <2>3, <2>4, <2>5, OnlyRequestKeeps
<1> QED BY <1>6, <1>7, <1>8

LEMMA LockDoneKeeps ==
  ASSUME Inv, NEW r \in Reqs, LockDone(r)
  PROVE  Inv'
<1> DEFINE q == req[r]
           p == Done(q)
<1>1. /\ q \in Request /\ q.step = "closing" /\ Leave(r) /\ Moves(r, p)
      /\ UNCHANGED <<now, remote, row, envelope, quiet, evictedAt>>
  BY Typed DEF LockDone
<1>2. p \in Request /\ p.kind = q.kind /\ p.step = "done" /\ p.at = -1 /\ p.reply = "none"
  BY <1>1, DoneFacts
<1> HIDE DEF p
<1>3. process = "up"
  BY <1>1, UpWhenActive DEF Resting
<1>4. q.kind \in Locked
  BY <1>1, HomeExists, FitsOf DEF Fits, KindFits
<1>5. LocksInv' /\ \A x \in Reqs : x # r => section'[x] = section[x]
  BY <1>1, LeaveInv DEF Leave, Inv, LocksInv, LocksTypeOK
<1>6. ASSUME NEW h \in [Subjects -> Emails], Homes(h) PROVE Fits(p, h, ident, row, now)
  <2>1. KindFits(p) /\ ~Active(p)
    BY <1>2, <1>4 DEF KindFits, Locked, Creating, Resolving, Active, Resting
  <2> QED BY <1>2, <2>1, Typed DEF Fits
<1>7. p.kind # "none" /\ Within(p, section'[r]) /\ ~Covered(p)
  BY <1>2, <1>4 DEF Within, Covered, Locked, Creating, Resting
<1> QED BY <1>1, <1>2, <1>3, <1>5, <1>6, <1>7, OnlyRequestKeeps

-----------------------------------------------------------------------------
(* The provider serves a call. *)

Served(r) ==
  /\ req[r].reply = "pending" /\ req[r].step \in Gateway
  /\ UNCHANGED <<now, row, envelope, system, evictedAt, lockVars>>
  /\ faults' \in Nat
\* What the provider holds afterwards takes nothing back.
Kept ==
  /\ ident' \in [Subjects -> Identity] /\ mail' \subseteq Subjects /\ session' \subseteq Subjects
  /\ \A s \in Subjects : ident[s].born =>
       /\ ident'[s].born
       /\ Ours(s, ident) => Ours(s, ident')
       /\ ident[s].provider = "email" => ident'[s].provider = "email"
  /\ \A s \in mail' \cup session' : ident'[s].email # Nothing
  /\ \A s \in Subjects : ident'[s].pending => Ours(s, ident')

LEMMA ServedKeeps ==
  ASSUME Inv, NEW r \in Reqs, Served(r), Kept, NEW p \in Request, Moves(r, p),
         p.kind = req[r].kind, p.email = req[r].email, p.step = req[r].step,
         \A h \in [Subjects -> Emails] : Homes(h) =>
           \E h2 \in [Subjects -> Emails] :
             /\ \A s \in Subjects : ident[s].born => h2[s] = h[s]
             /\ IdentHomes(h2, ident') /\ Fits(p, h2, ident', row, now),
         \A s \in Subjects : ident'[s].pw \in {ident[s].pw, r} \/ ident'[s].pw \notin Reqs,
         Covered(p) => ident'[p.sub].pw = r,
         \A x \in Reqs : x # r /\ Covered(req[x]) =>
           \/ ident'[req[x].sub].pw = ident[req[x].sub].pw
           \/ ident'[req[x].sub].pw = r /\ p.kind # "create"
  PROVE  Inv'
<1>1. /\ req' \in [Reqs -> Request] /\ req'[r] = p
      /\ \A x \in Reqs : x # r => req'[x] = req[x]
  BY MovesFacts, Typed
<1>2. UNCHANGED <<now, row, envelope, process, restarts, others, load, evictedAt>>
  BY DEF Served, system
<1>3. LocksInv' /\ section' = section
  BY LocksStay DEF Inv, Served
<1>4. TypeOK'
  BY <1>1, <1>2, <1>3 DEF Inv, TypeOK, LocksInv, Served, Kept
<1>5. process = "up" /\ Active(req[r])
  BY UpWhenActive DEF Served, Gateway, Resting, Active
<1>6. ASSUME NEW h \in [Subjects -> Emails], Homes(h)
      PROVE  \E h2 \in [Subjects -> Emails] :
             /\ Later(h, ident, row, now, h2, ident', row', now')
             /\ IdentHomes(h2, ident') /\ RowHomes(h2, ident', row')
             /\ EnvelopeHomes(h2, ident', envelope') /\ Fits(p, h2, ident', row', now')
  <2>1. PICK h2 \in [Subjects -> Emails] :
             /\ \A s \in Subjects : ident[s].born => h2[s] = h[s]
             /\ IdentHomes(h2, ident') /\ Fits(p, h2, ident', row, now)
    BY <1>6
  <2>2. \A e \in Emails : row[e].changed \in Int /\ row[e].ext \in Subjects \cup {Nothing}
    BY Typed DEF User
  <2>3. Later(h, ident, row, now, h2, ident', row', now')
    BY <1>2, <2>1, <2>2, Typed DEF Later, Kept
  <2>4. RowHomes(h2, ident', row')
    BY <1>2, <1>6, <2>1, <2>2 DEF RowHomes, Homes, Kept
  <2>5. EnvelopeHomes(h2, ident', envelope')
    BY <1>2, <1>6, <2>1, Typed DEF EnvelopeHomes, Homes, Kept
  <2> QED BY <1>2, <2>1, <2>3, <2>4, <2>5
<1>7. Marks'
  BY <1>2 DEF Inv, Marks, MarkedSince
<1>8. p.kind # "none"
  BY <1>5, HomeExists, FitsOf DEF Fits, KindFits, Active, Resting
<1>9. Within(p, section'[r]) /\ \A x \in Reqs : x # r => section'[x] = section[x]
  BY <1>3 DEF Inv, Sections, Within
<1>10. Covered(p) => Honoured(r, ident'[p.sub].pw, req')
  BY DEF Honoured
<1> QED BY <1>1, <1>2, <1>3, <1>4, <1>5, <1>6, <1>7, <1>8, <1>9, <1>10, StepKeeps DEF Kept

(* An answer that tells a request nothing it would rely on.                *)
LEMMA ReplyFits ==
  ASSUME NEW h, Homes(h), NEW r \in Reqs, req[r].reply = "pending", req[r].step \in Gateway,
         NEW p \in Request, p.kind = req[r].kind, p.email = req[r].email, p.step = req[r].step,
         p.sub = req[r].sub, p.saw = req[r].saw, p.at = req[r].at,
         p.reply \in {"ok", "weak", "rejected", "unavailable"},
         p.reply = "ok" => p.step \notin {"create", "invite", "look", "rotate", "signin"}
  PROVE  Fits(p, h, ident, row, now)
<1> DEFINE q == req[r]
<1>1. Fits(q, h, ident, row, now) /\ Active(q) /\ Active(p)
  BY FitsOf DEF Active, Gateway, Resting
<1> QED BY <1>1 DEF Fits, Same, KindFits, Active, Resting, Resolving, Homed, Timed, Rowed,
           MustBeLinked, MustBeMarked, LinkedRow, Unopened, Creating, Rotating, Locked, Gateway

LEMMA UnknowingKeeps ==
  ASSUME Inv, NEW r \in Reqs, Served(r), Kept, NEW p \in Request, Moves(r, p),
         p.kind = req[r].kind, p.email = req[r].email, p.step = req[r].step,
         p.sub = req[r].sub, p.saw = req[r].saw, p.at = req[r].at,
         p.reply \in {"ok", "weak", "rejected", "unavailable"},
         p.reply = "ok" => p.step \notin {"create", "invite", "look", "rotate", "signin"},
         \A s \in Subjects : /\ ident'[s].email = ident[s].email /\ ident'[s].pw = ident[s].pw
  PROVE  Inv'
<1>1. ASSUME NEW h \in [Subjects -> Emails], Homes(h)
      PROVE  IdentHomes(h, ident') /\ Fits(p, h, ident', row, now)
  <2>1. Fits(p, h, ident, row, now)
    BY <1>1, ReplyFits DEF Served
  <2>2. Later(h, ident, row, now, h, ident', row, now)
    <3>1. \A e \in Emails : row[e].changed \in Int
      BY Typed DEF User
    <3> QED BY <3>1, Typed DEF Later, Kept
  <2>3. Fits(p, h, ident', row, now)
    BY <2>1, <2>2, Typed, FitsStays
  <2> QED BY <1>1, <2>3 DEF IdentHomes, Homes, Kept
<1>2. ~Covered(p)
  BY DEF Covered, Served, Gateway
<1>3. ASSUME NEW x \in Reqs, Covered(req[x]) PROVE ident'[req[x].sub].pw = ident[req[x].sub].pw
  <2>1. req[x].sub \in Subjects
    <3>1. Active(req[x])
      BY <1>3 DEF Covered, Active, Resting
    <3> QED BY <1>3, <3>1, HomeExists, FitsOf DEF Covered, Homed
  <2> QED BY <2>1
<1> QED BY <1>1, <1>2, <1>3, ServedKeeps

LEMMA UntouchedKept ==
  ASSUME Inv, ident' = ident, mail' \subseteq Subjects, session' \subseteq Subjects,
         \A s \in mail' \cup session' : ident[s].email # Nothing
  PROVE  Kept
BY Typed DEF Kept, Inv, Identities

LEMMA BirthKeeps ==
  ASSUME Inv, NEW r \in Reqs, Served(r), req[r].step \in {"create", "invite"}, UNCHANGED session,
         NEW new \in Subjects, ~ident[new].born,
         ident' = [ident EXCEPT ![new] =
               [email |-> req[r].email, pw |-> IF req[r].step = "create" THEN r ELSE Nothing,
                provider |-> "email", pending |-> req[r].step = "invite", born |-> TRUE]],
         mail' = IF req[r].step = "invite" THEN mail \cup {new} ELSE mail,
         Moves(r, [req[r] EXCEPT !.reply = "ok", !.sub = new])
  PROVE  Inv'
<1> DEFINE q == req[r]
           e == q.email
           p == [q EXCEPT !.reply = "ok", !.sub = new]
           pw == IF q.step = "create" THEN r ELSE Nothing
           id == [email |-> e, pw |-> pw, provider |-> "email",
                  pending |-> q.step = "invite", born |-> TRUE]
<1>1. q \in Request /\ Active(q) /\ Moves(r, p)
  BY Typed DEF Active, Resting
<1>2. /\ e \in Emails /\ e # Nothing /\ ~(q.at >= 0)
      /\ q.kind \in Locked /\ (q.step = "create" => q.kind = "create")
      /\ (q.step = "invite" => q.kind # "create")
  BY <1>1, HomeExists, FitsOf, NothingAssumption DEF Homed, Timed, Fits, KindFits, Resolving, Locked, Creating
<1>3. /\ p \in Request /\ p.kind = q.kind /\ p.email = e /\ p.step = q.step /\ p.reply = "ok"
      /\ p.sub = new /\ p.at = q.at
  BY <1>1 DEF Request
<1> HIDE DEF p
<1>4. id \in Identity /\ pw # Stranger /\ pw \in {r, Nothing}
  BY <1>2, SubjectsAssumption DEF Identity, Pw
<1>5. ident' = [ident EXCEPT ![new] = id]
  OBVIOUS
<1>6. id.email = e /\ id.pw = pw /\ id.provider = "email" /\ id.born
  OBVIOUS
<1> HIDE DEF id
<1>7. ident \in [Subjects -> Identity]
  BY Typed
<1>8. /\ ident' \in [Subjects -> Identity] /\ ident'[new] = id
      /\ \A s \in Subjects : s # new => ident'[s] = ident[s]
  BY <1>4, <1>5, <1>7
<1>9. Ours(new, ident')
  BY <1>4, <1>6, <1>8 DEF Ours
<1>10. Kept
  <2>1. \A s \in Subjects : ident[s].born => ident'[s] = ident[s]
    BY <1>8
  <2>2. mail' \subseteq mail \cup {new} /\ session' = session
    OBVIOUS
  <2>3. \A s \in mail' \cup session' : ident'[s].email # Nothing
    BY <1>2, <1>6, <1>8, <2>2, Typed DEF Inv, Identities
  <2>4. \A s \in Subjects : ident'[s].pending => Ours(s, ident')
    BY <1>8, <1>9 DEF Inv, Identities, Ours
  <2> QED BY <1>8, <2>1, <2>2, <2>3, <2>4, Typed DEF Kept, Ours
<1>11. ASSUME NEW h \in [Subjects -> Emails], Homes(h)
       PROVE  \E h2 \in [Subjects -> Emails] :
             /\ \A s \in Subjects : ident[s].born => h2[s] = h[s]
             /\ IdentHomes(h2, ident') /\ Fits(p, h2, ident', row, now)
  <2> DEFINE h2 == [h EXCEPT ![new] = e]
  <2>1. h2 \in [Subjects -> Emails] /\ h2[new] = e /\ \A s \in Subjects : s # new => h2[s] = h[s]
    BY <1>2
  <2> HIDE DEF h2
  <2>2. \A s \in Subjects : ident[s].born => h2[s] = h[s]
    BY <2>1
  <2>3. IdentHomes(h2, ident')
    BY <1>6, <1>8, <1>11, <2>1 DEF Homes, IdentHomes
  <2>4. Fits(p, h2, ident', row, now)
    <3>1. Fits(q, h, ident, row, now)
      BY <1>11, FitsOf
    <3>2. KindFits(p) /\ Active(p) /\ p.at >= -1 /\ p.at <= now
      BY <1>1, <1>2, <1>3, <3>1 DEF Fits, KindFits, Active, Gateway, Creating, Resolving
    <3>3. Homed(p, h2, ident') /\ Timed(p)
      BY <1>2, <1>3, <1>6, <1>8, <2>1 DEF Homed, Timed, Resolving
    <3>4. Rowed(p, row) /\ Unopened(p, ident')
      BY <1>2, <1>3, <1>9 DEF Rowed, MustBeLinked, MustBeMarked, Unopened, Locked, Creating, Resolving
    <3> QED BY <3>2, <3>3, <3>4 DEF Fits
  <2> QED BY <2>1, <2>2, <2>3, <2>4
<1>12. \A s \in Subjects : ident'[s].pw \in {ident[s].pw, r} \/ ident'[s].pw \notin Reqs
  BY <1>4, <1>6, <1>8, NothingAssumption
<1>13. Covered(p) => ident'[p.sub].pw = r
  BY <1>2, <1>3, <1>6, <1>8 DEF Covered
<1>14. ASSUME NEW x \in Reqs, x # r, Covered(req[x])
       PROVE  ident'[req[x].sub].pw = ident[req[x].sub].pw
  <2>1. Active(req[x])
    BY <1>14 DEF Covered, Active, Resting
  <2>2. req[x].sub \in Subjects /\ ident[req[x].sub].born
    BY <1>14, <2>1, HomeExists, FitsOf, SubjectsAssumption DEF Covered, Homed
  <2> QED BY <1>8, <2>2
<1> QED BY <1>1, <1>3, <1>10, <1>11, <1>12, <1>13, <1>14, ServedKeeps

LEMMA ReinviteKeeps ==
  ASSUME Inv, NEW r \in Reqs, Served(r), req[r].step = "invite", UNCHANGED <<ident, session>>,
         NEW x \in Owns(req[r].email), ident[x].pending, mail' = mail \cup {x},
         Moves(r, [req[r] EXCEPT !.reply = "ok", !.sub = x])
  PROVE  Inv'
<1> DEFINE q == req[r]
           p == [q EXCEPT !.reply = "ok", !.sub = x]
<1>1. /\ q \in Request /\ Active(q) /\ Moves(r, p) /\ x \in Subjects /\ ident[x].email = q.email
      /\ Ours(x, ident)
  BY Typed DEF Active, Resting, Owns, Inv, Identities
<1>2. p \in Request /\ p.kind = q.kind /\ p.email = q.email /\ p.step = q.step /\ p.reply = "ok"
      /\ p.sub = x /\ p.at = q.at /\ p.saw = q.saw
  BY <1>1 DEF Request
<1> HIDE DEF p
<1>3. q.email \in Emails /\ q.email # Nothing /\ q.kind \in {"invite", "resend"}
  BY <1>1, HomeExists, FitsOf, NothingAssumption DEF Homed, Fits, KindFits
<1>4. Kept
  BY <1>1, <1>3, UntouchedKept, Typed DEF Inv, Identities
<1>5. ASSUME NEW h \in [Subjects -> Emails], Homes(h)
      PROVE  IdentHomes(h, ident') /\ Fits(p, h, ident', row, now)
  <2>1. Fits(q, h, ident, row, now) /\ ident[x].born /\ h[x] = q.email
    BY <1>1, <1>3, <1>5, FitsOf DEF Homes, IdentHomes
  <2>2. KindFits(p) /\ Active(p) /\ p.at >= -1 /\ p.at <= now
    BY <1>1, <1>2, <2>1 DEF Fits, KindFits, Active, Gateway
  <2>3. Homed(p, h, ident) /\ Timed(p)
    BY <1>1, <1>2, <1>3, <2>1 DEF Fits, Homed, Timed, Resolving
  <2>4. Rowed(p, row) /\ Unopened(p, ident)
    BY <1>1, <1>2, <1>3 DEF Rowed, MustBeLinked, MustBeMarked, Unopened, Creating, Resolving
  <2> QED BY <1>5, <2>2, <2>3, <2>4 DEF Fits, Homes
<1>6. ~Covered(p)
  BY <1>2, <1>3 DEF Covered
<1> QED BY <1>1, <1>2, <1>4, <1>5, <1>6, ServedKeeps

LEMMA LookKeeps ==
  ASSUME Inv, NEW r \in Reqs, Served(r), req[r].step = "look", UNCHANGED remote,
         \/ Moves(r, [req[r] EXCEPT !.reply = "ok", !.sub = Nothing])
         \/ \E x \in Owns(req[r].email) :
              Moves(r, [req[r] EXCEPT !.reply = "ok", !.sub = x,
                         !.found = IF ident[x].provider # "email" THEN "oauth"
                                   ELSE IF ident[x].pending THEN "pending" ELSE "password"])
  PROVE  Inv'
<1> DEFINE q == req[r]
<1>0. UNCHANGED <<ident, mail, session>>
  BY DEF remote
<1>1. /\ q \in Request /\ Active(q)
  BY Typed DEF Active, Resting
<1>2. PICK p \in Request :
        /\ Moves(r, p) /\ p.kind = q.kind /\ p.email = q.email /\ p.step = q.step /\ p.reply = "ok"
        /\ p.at = q.at
        /\ \/ p.sub = Nothing
           \/ /\ p.sub \in Owns(q.email)
              /\ p.found = "pending" => Ours(p.sub, ident)
              /\ p.found = "password" => ident[p.sub].provider = "email"
  <2>1. CASE Moves(r, [q EXCEPT !.reply = "ok", !.sub = Nothing])
    <3> DEFINE p == [q EXCEPT !.reply = "ok", !.sub = Nothing]
    <3>1. p \in Request /\ p.kind = q.kind /\ p.email = q.email /\ p.step = q.step
          /\ p.reply = "ok" /\ p.at = q.at /\ p.sub = Nothing
      BY <1>1 DEF Request
    <3>2. Moves(r, p)
      BY <2>1
    <3> HIDE DEF p
    <3> QED BY <3>1, <3>2
  <2>2. ASSUME NEW x \in Owns(q.email),
               NEW found \in {"oauth", "pending", "password"},
               found = IF ident[x].provider # "email" THEN "oauth"
                       ELSE IF ident[x].pending THEN "pending" ELSE "password",
               Moves(r, [q EXCEPT !.reply = "ok", !.sub = x, !.found = found])
        PROVE  \E p \in Request :
          /\ Moves(r, p) /\ p.kind = q.kind /\ p.email = q.email /\ p.step = q.step /\ p.reply = "ok"
          /\ p.at = q.at
          /\ \/ p.sub = Nothing
             \/ /\ p.sub \in Owns(q.email)
                /\ p.found = "pending" => Ours(p.sub, ident)
                /\ p.found = "password" => ident[p.sub].provider = "email"
    <3> DEFINE p == [q EXCEPT !.reply = "ok", !.sub = x, !.found = found]
    <3>1. x \in Subjects /\ (found = "pending" => Ours(x, ident))
          /\ (found = "password" => ident[x].provider = "email")
      BY <2>2 DEF Owns, Inv, Identities
    <3>2. p \in Request /\ p.kind = q.kind /\ p.email = q.email /\ p.step = q.step
          /\ p.reply = "ok" /\ p.at = q.at /\ p.sub = x /\ p.found = found
      BY <1>1, <3>1 DEF Request
    <3>3. Moves(r, p)
      BY <2>2
    <3> HIDE DEF p
    <3> QED BY <2>2, <3>1, <3>2, <3>3
  <2> QED BY <2>1, <2>2
<1>3. q.email \in Emails /\ q.email # Nothing /\ q.kind \in Creating
  BY <1>1, HomeExists, FitsOf, NothingAssumption DEF Homed, Fits, KindFits
<1>4. Kept
  BY <1>0, UntouchedKept, Typed DEF Inv, Identities
<1>5. ASSUME NEW h \in [Subjects -> Emails], Homes(h)
      PROVE  IdentHomes(h, ident') /\ Fits(p, h, ident', row, now)
  <2>1. Fits(q, h, ident, row, now)
    BY <1>5, FitsOf
  <2>2. KindFits(p) /\ Active(p) /\ p.at >= -1 /\ p.at <= now
    BY <1>1, <1>2, <2>1 DEF Fits, KindFits, Active, Gateway
  <2>3. p.sub # Nothing => ident[p.sub].born /\ h[p.sub] = q.email
    BY <1>2, <1>3, <1>5 DEF Owns, Homes, IdentHomes
  <2>4. Homed(p, h, ident) /\ Timed(p)
    BY <1>1, <1>2, <1>3, <2>1, <2>3 DEF Fits, Homed, Timed, Resolving
  <2>5. Rowed(p, row) /\ Unopened(p, ident)
    BY <1>1, <1>2, <1>3 DEF Rowed, MustBeLinked, MustBeMarked, Unopened, Creating, Resolving
  <2> QED BY <1>0, <1>5, <2>2, <2>4, <2>5 DEF Fits, Homes
<1>6. ~Covered(p)
  BY <1>2 DEF Covered
<1> QED BY <1>0, <1>1, <1>2, <1>4, <1>5, <1>6, ServedKeeps

(* Two creates that are past the lock of one address are one request.      *)
LEMMA OneCreate ==
  ASSUME Inv, NEW x \in Reqs, NEW y \in Reqs, Active(req[x]), Active(req[y]),
         req[x].step # "locking", req[y].step # "locking",
         req[x].kind \in Locked, req[y].kind \in Locked, req[x].email = req[y].email
  PROVE  x = y
<1>1. /\ section[x].place = "inside" /\ section[x].key = req[x].email
      /\ section[y].place = "inside" /\ section[y].key = req[y].email
  BY DEF Inv, Sections, Within, Active
<1> QED BY <1>1, LocksInvEntails DEF Inv, OnePerEmail

LEMMA RotateKeeps ==
  ASSUME Inv, NEW r \in Reqs, Served(r), req[r].step = "rotate",
         ident' = [ident EXCEPT ![req[r].sub].pw = r],
         session' = session \ {req[r].sub},
         Moves(r, [req[r] EXCEPT !.reply = "ok", !.at = now]), UNCHANGED mail
  PROVE  Inv'
<1> DEFINE q == req[r]
           s == q.sub
           p == [q EXCEPT !.reply = "ok", !.at = now]
<1>1. /\ q \in Request /\ Active(q) /\ Moves(r, p) /\ now \in Int /\ now >= 0
  BY Typed DEF Active, Resting
<1>2. /\ p \in Request /\ p.kind = q.kind /\ p.email = q.email /\ p.step = q.step /\ p.reply = "ok"
      /\ p.sub = s /\ p.at = now /\ p.saw = q.saw
  BY <1>1 DEF Request
<1> HIDE DEF p
<1>3. /\ q.email \in Emails /\ s \in Subjects /\ q.kind \in Rotating
      /\ \A h \in [Subjects -> Emails] : Homes(h) => ident[s].born /\ h[s] = q.email
  BY <1>1, HomeExists, FitsOf, SubjectsAssumption DEF Homed, Fits, KindFits
<1>4. /\ ident' \in [Subjects -> Identity] /\ ident'[s].pw = r
      /\ \A x \in Subjects :
           /\ ident'[x].email = ident[x].email /\ ident'[x].provider = ident[x].provider
           /\ ident'[x].pending = ident[x].pending /\ ident'[x].born = ident[x].born
           /\ x # s => ident'[x].pw = ident[x].pw
  BY <1>3, Typed DEF Identity, Pw
<1>5. \A x \in Subjects : /\ Ours(x, ident) => Ours(x, ident')
                          /\ ident'[x].pw \in {ident[x].pw, r}
  BY <1>3, <1>4, SubjectsAssumption DEF Ours
<1>6. Kept
  <2>1. mail' \subseteq mail /\ session' \subseteq session
    OBVIOUS
  <2>2. \A x \in mail' \cup session' : x \in Subjects /\ ident'[x].email # Nothing
    BY <1>4, <2>1, Typed DEF Inv, Identities
  <2>3. \A x \in Subjects : ident'[x].pending => Ours(x, ident')
    BY <1>4, <1>5 DEF Inv, Identities
  <2> QED BY <1>4, <1>5, <2>2, <2>3 DEF Kept
<1>7. ASSUME NEW h \in [Subjects -> Emails], Homes(h)
      PROVE  IdentHomes(h, ident') /\ Fits(p, h, ident', row, now)
  <2>1. Fits(q, h, ident, row, now)
    BY <1>7, FitsOf
  <2>2. Homed(q, h, ident) /\ Timed(q) /\ Rowed(q, row) /\ Unopened(q, ident)
    BY <1>1, <2>1 DEF Fits
  <2>3. KindFits(p) /\ Active(p) /\ p.at >= -1 /\ p.at <= now
    BY <1>1, <1>2, <2>1 DEF Fits, KindFits, Active, Gateway
  <2>4. Homed(p, h, ident') /\ Timed(p)
    BY <1>2, <1>3, <1>4, <2>2 DEF Homed, Timed, Resolving
  <2>5. Rowed(p, row)
    BY <1>2, <2>2 DEF Rowed, MustBeLinked, MustBeMarked, LinkedRow, Resolving
  <2>6. Unopened(p, ident')
    BY <1>2, <1>3, <1>4, <2>2, SubjectsAssumption DEF Unopened, Ours
  <2>7. IdentHomes(h, ident')
    BY <1>4, <1>7 DEF Homes, IdentHomes
  <2> QED BY <2>3, <2>4, <2>5, <2>6, <2>7 DEF Fits
<1>8. Covered(p) => ident'[p.sub].pw = r
  BY <1>2, <1>4
<1>9. ASSUME NEW x \in Reqs, x # r, Covered(req[x])
      PROVE  \/ ident'[req[x].sub].pw = ident[req[x].sub].pw
             \/ ident'[req[x].sub].pw = r /\ p.kind # "create"
  <2>1. /\ Active(req[x]) /\ req[x].step # "locking" /\ req[x].kind = "create"
        /\ req[x].step \in {"create", "rotate", "link", "mark"}
    BY <1>9 DEF Covered, Active, Resting
  <2>2. PICK h \in [Subjects -> Emails] : Homes(h)
    BY HomeExists
  <2>3. req[x].sub \in Subjects /\ h[req[x].sub] = req[x].email
    BY <1>9, <2>1, <2>2, FitsOf, SubjectsAssumption DEF Covered, Homed
  <2>4. CASE req[x].sub # s
    BY <1>4, <2>3, <2>4
  <2>5. CASE req[x].sub = s
    <3>1. req[x].email = q.email
      BY <1>3, <2>2, <2>3, <2>5
    <3>2. q.kind # "create"
      BY <1>1, <1>9, <2>1, <3>1, OneCreate DEF Locked, Creating
    <3> QED BY <1>2, <1>4, <2>5, <3>2
  <2> QED BY <2>4, <2>5
<1>10. \A x \in Subjects : ident'[x].pw \in {ident[x].pw, r} \/ ident'[x].pw \notin Reqs
  BY <1>5
<1> QED BY <1>1, <1>2, <1>6, <1>7, <1>8, <1>9, <1>10, ServedKeeps

(* A sign-in confirms a pending identity. *)
LEMMA ConfirmedKept ==
  ASSUME Inv, NEW x \in Subjects, ident' = [ident EXCEPT ![x].pending = FALSE],
         mail' \subseteq mail, session' = session \cup {x}, ident[x].email # Nothing
  PROVE  /\ Kept
         /\ \A s \in Subjects :
              /\ ident'[s].email = ident[s].email /\ ident'[s].pw = ident[s].pw
              /\ ident'[s].provider = ident[s].provider /\ ident'[s].born = ident[s].born
<1>1. /\ ident' \in [Subjects -> Identity]
      /\ \A s \in Subjects :
           /\ ident'[s].email = ident[s].email /\ ident'[s].pw = ident[s].pw
           /\ ident'[s].provider = ident[s].provider /\ ident'[s].born = ident[s].born
           /\ ident'[s].pending => ident[s].pending
  BY Typed DEF Identity
<1>2. \A s \in mail' \cup session' : s \in Subjects /\ ident'[s].email # Nothing
  BY <1>1, Typed DEF Inv, Identities
<1>3. \A s \in Subjects : Ours(s, ident) <=> Ours(s, ident')
  BY <1>1 DEF Ours
<1> QED BY <1>1, <1>2, <1>3 DEF Kept, Inv, Identities

LEMMA SignInKeeps ==
  ASSUME Inv, NEW r \in Reqs, Served(r), req[r].step = "signin",
         NEW x \in Owns(req[r].email),
         ident' = [ident EXCEPT ![x].pending = FALSE], session' = session \cup {x},
         Moves(r, [req[r] EXCEPT !.reply = "ok", !.sub = x, !.iat = now, !.how = "password"]),
         UNCHANGED mail
  PROVE  Inv'
<1> DEFINE q == req[r]
           p == [q EXCEPT !.reply = "ok", !.sub = x, !.iat = now, !.how = "password"]
<1>1. /\ q \in Request /\ Active(q) /\ Moves(r, p) /\ x \in Subjects /\ ident[x].email = q.email
  BY Typed DEF Active, Resting, Owns
<1>2. /\ p \in Request /\ p.kind = q.kind /\ p.email = q.email /\ p.step = q.step /\ p.reply = "ok"
      /\ p.sub = x /\ p.at = q.at
  BY <1>1, Typed DEF Request
<1> HIDE DEF p
<1>3. /\ q.email \in Emails /\ q.email # Nothing /\ q.kind \in {"login", "change"}
  BY <1>1, HomeExists, FitsOf, NothingAssumption DEF Homed, Fits, KindFits
<1>4. Kept /\ \A s \in Subjects : /\ ident'[s].email = ident[s].email /\ ident'[s].pw = ident[s].pw
                                  /\ ident'[s].born = ident[s].born
  BY <1>1, <1>3, ConfirmedKept
<1>5. ASSUME NEW h \in [Subjects -> Emails], Homes(h)
      PROVE  IdentHomes(h, ident') /\ Fits(p, h, ident', row, now)
  <2>1. Fits(q, h, ident, row, now)
    BY <1>5, FitsOf
  <2>2. KindFits(p) /\ Active(p) /\ p.at >= -1 /\ p.at <= now
    BY <1>1, <1>2, <2>1 DEF Fits, KindFits, Active, Gateway
  <2>3. IdentHomes(h, ident') /\ ident'[x].born /\ h[x] = q.email
    BY <1>1, <1>3, <1>4, <1>5 DEF Homes, IdentHomes
  <2>4. Homed(p, h, ident') /\ Timed(p) /\ Unopened(p, ident')
    BY <1>1, <1>2, <1>3, <2>1, <2>3 DEF Fits, Homed, Timed, Unopened, Resolving
  <2>5. Rowed(p, row)
    BY <1>1, <1>2, <1>3, <2>1 DEF Fits, Rowed, MustBeLinked, MustBeMarked, Resolving
  <2> QED BY <2>2, <2>3, <2>4, <2>5 DEF Fits
<1>6. ~Covered(p)
  BY <1>2, <1>3 DEF Covered
<1>7. ASSUME NEW y \in Reqs, Covered(req[y]) PROVE ident'[req[y].sub].pw = ident[req[y].sub].pw
  <2>1. Active(req[y])
    BY <1>7 DEF Covered, Active, Resting
  <2>2. req[y].sub \in Subjects
    BY <1>7, <2>1, HomeExists, FitsOf DEF Covered, Homed
  <2> QED BY <1>4, <2>2
<1> QED BY <1>1, <1>2, <1>4, <1>5, <1>6, <1>7, ServedKeeps

LEMMA OtpKeeps ==
  ASSUME Inv, NEW r \in Reqs, Served(r), req[r].step = "otp", req[r].sub \in mail,
         ident' = [ident EXCEPT ![req[r].sub].pending = FALSE],
         mail' = mail \ {req[r].sub}, session' = session \cup {req[r].sub},
         Moves(r, [req[r] EXCEPT !.reply = "ok", !.iat = now, !.how = "otp"])
  PROVE  Inv'
<1> DEFINE q == req[r]
           p == [q EXCEPT !.reply = "ok", !.iat = now, !.how = "otp"]
<1>1. q \in Request /\ Moves(r, p)
  BY Typed
<1>2. /\ p \in Request /\ p.kind = q.kind /\ p.email = q.email /\ p.step = q.step /\ p.reply = "ok"
      /\ p.sub = q.sub /\ p.at = q.at /\ p.saw = q.saw
  BY <1>1, Typed DEF Request
<1> HIDE DEF p
<1>3. q.sub \in Subjects /\ ident[q.sub].email # Nothing
  BY Typed DEF Inv, Identities
<1>4. Kept /\ \A s \in Subjects : ident'[s].email = ident[s].email /\ ident'[s].pw = ident[s].pw
  BY <1>3, ConfirmedKept
<1> QED BY <1>1, <1>2, <1>4, UnknowingKeeps

LEMMA RefreshKeeps ==
  ASSUME Inv, NEW r \in Reqs, Served(r), req[r].step = "refresh", UNCHANGED <<ident, mail, session>>,
         Moves(r, [req[r] EXCEPT !.reply = "ok", !.iat = now, !.how = "password"])
  PROVE  Inv'
<1> DEFINE q == req[r]
           p == [q EXCEPT !.reply = "ok", !.iat = now, !.how = "password"]
<1>1. q \in Request /\ Moves(r, p)
  BY Typed
<1>2. /\ p \in Request /\ p.kind = q.kind /\ p.email = q.email /\ p.step = q.step /\ p.reply = "ok"
      /\ p.sub = q.sub /\ p.at = q.at /\ p.saw = q.saw
  BY <1>1, Typed DEF Request
<1> HIDE DEF p
<1>3. Kept
  BY UntouchedKept, Typed DEF Inv, Identities
<1> QED BY <1>1, <1>2, <1>3, UnknowingKeeps

(* The answers that change no identity. *)
LEMMA AnswerKeeps ==
  ASSUME Inv, NEW r \in Reqs, Served(r), UNCHANGED ident,
         mail' \subseteq Subjects, session' \subseteq Subjects,
         \A s \in mail' \cup session' : ident[s].email # Nothing,
         NEW reply \in {"ok", "weak", "rejected", "unavailable"},
         Moves(r, [req[r] EXCEPT !.reply = reply]),
         reply = "ok" => req[r].step \notin {"create", "invite", "look", "rotate", "signin"}
  PROVE  Inv'
<1> DEFINE q == req[r]
           p == [q EXCEPT !.reply = reply]
<1>1. q \in Request /\ Moves(r, p)
  BY Typed
<1>2. /\ p \in Request /\ p.kind = q.kind /\ p.email = q.email /\ p.step = q.step /\ p.reply = reply
      /\ p.sub = q.sub /\ p.at = q.at /\ p.saw = q.saw
  BY <1>1 DEF Request
<1> HIDE DEF p
<1>3. Kept
  BY UntouchedKept
<1> QED BY <1>1, <1>2, <1>3, UnknowingKeeps

LEMMA GrantedKeeps ==
  ASSUME Inv, NEW r \in Reqs, Served(r), Granted(r)
  PROVE  Inv'
<1> DEFINE q == req[r]
           e == q.email
           s == q.sub
<1>0. /\ \A x \in mail \cup session : ident[x].email # Nothing
      /\ mail \subseteq Subjects /\ session \subseteq Subjects /\ now \in Nat
  BY Typed DEF Inv, Identities
<1>1. CASE /\ q.step \in {"create", "invite"} /\ Owns(e) = {}
           /\ \E new \in {x \in Subjects : ~ident[x].born} :
                /\ ident' = [ident EXCEPT ![new] =
                     [email |-> e, pw |-> IF q.step = "create" THEN r ELSE Nothing,
                      provider |-> "email", pending |-> q.step = "invite", born |-> TRUE]]
                /\ mail' = IF q.step = "invite" THEN mail \cup {new} ELSE mail
                /\ Moves(r, [q EXCEPT !.reply = "ok", !.sub = new])
           /\ UNCHANGED session
  BY <1>1, BirthKeeps
<1>2. CASE /\ q.step = "invite"
           /\ \E x \in Owns(e) :
                /\ ident[x].pending
                /\ mail' = mail \cup {x}
                /\ Moves(r, [q EXCEPT !.reply = "ok", !.sub = x])
           /\ UNCHANGED <<ident, session>>
  BY <1>2, ReinviteKeeps
<1>3. CASE /\ q.step = "look"
           /\ \/ /\ Owns(e) = {}
                 /\ Moves(r, [q EXCEPT !.reply = "ok", !.sub = Nothing])
              \/ \E x \in Owns(e) :
                   Moves(r, [q EXCEPT !.reply = "ok", !.sub = x,
                               !.found = IF ident[x].provider # "email" THEN "oauth"
                                         ELSE IF ident[x].pending THEN "pending" ELSE "password"])
           /\ UNCHANGED remote
  BY <1>3, LookKeeps
<1>4. CASE /\ q.step = "rotate" /\ ident[s].email # Nothing
           /\ ident' = [ident EXCEPT ![s].pw = r]
           /\ session' = session \ {s}
           /\ Moves(r, [q EXCEPT !.reply = "ok", !.at = now])
           /\ UNCHANGED mail
  BY <1>4, RotateKeeps
<1>5. CASE /\ q.step = "signin"
           /\ \E x \in Owns(e) :
                /\ ident[x].pw # Nothing
                /\ ident' = [ident EXCEPT ![x].pending = FALSE]
                /\ session' = session \cup {x}
                /\ Moves(r, [q EXCEPT !.reply = "ok", !.sub = x, !.iat = now, !.how = "password"])
           /\ UNCHANGED mail
  BY <1>5, SignInKeeps
<1>6. CASE /\ q.step = "otp" /\ s \in mail
           /\ ident' = [ident EXCEPT ![s].pending = FALSE]
           /\ mail' = mail \ {s}
           /\ session' = session \cup {s}
           /\ Moves(r, [q EXCEPT !.reply = "ok", !.iat = now, !.how = "otp"])
  BY <1>6, OtpKeeps
<1>7. CASE /\ q.step = "refresh" /\ s \in session
           /\ Moves(r, [q EXCEPT !.reply = "ok", !.iat = now, !.how = "password"])
           /\ UNCHANGED remote
  <2>1. UNCHANGED <<ident, mail, session>>
    BY <1>7 DEF remote
  <2> QED BY <1>7, <2>1, RefreshKeeps
<1>8. CASE /\ q.step = "mail"
           /\ mail' = mail \cup Owns(e)
           /\ Moves(r, [q EXCEPT !.reply = "ok"])
           /\ UNCHANGED <<ident, session>>
  <2>1. e # Nothing
    <3>1. Active(q)
      BY <1>8 DEF Active, Resting
    <3> QED BY <3>1, HomeExists, FitsOf, NothingAssumption DEF Homed
  <2>2. \A x \in Owns(e) : x \in Subjects /\ ident[x].email # Nothing
    BY <2>1 DEF Owns
  <2> QED BY <1>0, <1>8, <2>2, AnswerKeeps
<1>9. CASE /\ q.step = "signout"
           /\ session' = session \ {s}
           /\ Moves(r, [q EXCEPT !.reply = "ok"])
           /\ UNCHANGED <<ident, mail>>
  BY <1>0, <1>9, AnswerKeeps
<1> QED BY <1>1, <1>2, <1>3, <1>4, <1>5, <1>6, <1>7, <1>8, <1>9 DEF Granted

LEMMA ServeKeeps ==
  ASSUME Inv, NEW r \in Reqs, Serve(r)
  PROVE  Inv'
<1>1. /\ req[r].reply = "pending" /\ req[r].step \in Gateway
      /\ UNCHANGED <<now, row, envelope, system, evictedAt, lockVars>>
  BY DEF Serve
<1>2. /\ \A x \in mail \cup session : ident[x].email # Nothing
      /\ mail \subseteq Subjects /\ session \subseteq Subjects
  BY Typed DEF Inv, Identities
<1>3. CASE Granted(r) /\ UNCHANGED faults
  <2>1. Served(r)
    BY <1>1, <1>3, Typed DEF Served
  <2> QED BY <1>3, <2>1, GrantedKeeps
<1>4. CASE Refusable(req[r]) /\ Moves(r, [req[r] EXCEPT !.reply = "rejected"]) /\ UNCHANGED <<remote, faults>>
  <2>1. Served(r) /\ UNCHANGED <<ident, mail, session>>
    BY <1>1, <1>4, Typed DEF Served, remote
  <2> QED BY <1>2, <1>4, <2>1, AnswerKeeps
<1>5. CASE /\ Fault /\ UNCHANGED remote
           /\ \E reply \in {"rejected", "unavailable", "weak"} :
                Moves(r, [req[r] EXCEPT !.reply = reply])
  <2>1. Served(r) /\ UNCHANGED <<ident, mail, session>>
    BY <1>1, <1>5, FaultTyped DEF Served, remote
  <2> QED BY <1>2, <1>5, <2>1, AnswerKeeps
<1> QED BY <1>3, <1>4, <1>5 DEF Serve

-----------------------------------------------------------------------------
(* Steps without a request. *)

LEMMA AloneKeeps ==
  ASSUME Inv, UNCHANGED <<req, lockVars>>, TypeOK', Marks', Starting',
         \A h \in [Subjects -> Emails] : Homes(h) =>
           \E h2 \in [Subjects -> Emails] :
             /\ Later(h, ident, row, now, h2, ident', row', now')
             /\ IdentHomes(h2, ident') /\ RowHomes(h2, ident', row')
             /\ EnvelopeHomes(h2, ident', envelope'),
         \A s \in mail' \cup session' : ident'[s].email # Nothing,
         \A s \in Subjects : ident'[s].pending => Ours(s, ident'),
         \A s \in Subjects : ident'[s].pw = ident[s].pw \/ ident'[s].pw \notin Reqs,
         \A x \in Reqs : Covered(req[x]) => ident'[req[x].sub].pw \in {ident[req[x].sub].pw, Nothing}
  PROVE  Inv'
<1>1. LocksInv' /\ section' = section /\ req' = req
  BY LocksStay DEF Inv
<1>2. (\E h \in [Subjects -> Emails] : Homes(h))'
  <2>1. PICK h \in [Subjects -> Emails] : Homes(h)
    BY HomeExists
  <2>2. PICK h2 \in [Subjects -> Emails] :
             /\ Later(h, ident, row, now, h2, ident', row', now')
             /\ IdentHomes(h2, ident') /\ RowHomes(h2, ident', row')
             /\ EnvelopeHomes(h2, ident', envelope')
    BY <2>1
  <2>3. ASSUME NEW x \in Reqs PROVE Fits(req'[x], h2, ident', row', now')
    <3>1. req'[x] = req[x] /\ req[x] \in Request /\ Fits(req[x], h, ident, row, now)
      BY <1>1, <2>1, Typed DEF Homes
    <3>2. row \in [Emails -> User] /\ row' \in [Emails -> User] /\ now \in Int /\ now' \in Int
      BY DEF Inv, TypeOK
    <3> QED BY <2>2, <3>1, <3>2, FitsStays
  <2> QED BY <2>2, <2>3 DEF Homes
<1>3. Identities'
  BY <1>1 DEF Inv, Identities
<1>4. Sections'
  BY <1>1 DEF Inv, Sections
<1>5. SettledByPassword'
  BY <1>1 DEF Inv, SettledByPassword, Honoured
<1> QED BY <1>1, <1>2, <1>3, <1>4, <1>5 DEF Inv

LEMMA NoneCovered ==
  ASSUME Inv, process # "up"
  PROVE  \A x \in Reqs : ~Covered(req[x])
BY DEF Inv, Starting, Covered, Resting

LEMMA CoveredBorn ==
  ASSUME Inv, NEW x \in Reqs, Covered(req[x])
  PROVE  req[x].sub \in Subjects /\ ident[req[x].sub].born
<1>1. Active(req[x])
  BY DEF Covered, Active, Resting
<1> QED BY <1>1, HomeExists, FitsOf, SubjectsAssumption DEF Covered, Homed

(* An identity made elsewhere than by a request. *)
LEMMA BornElsewhere ==
  ASSUME Inv, NEW s \in Subjects, ~ident[s].born, NEW id \in Identity,
         id.email \in Emails, id.born, ~id.pending, id.pw \notin Reqs,
         ident' = [ident EXCEPT ![s] = id],
         UNCHANGED <<now, mail, session, row, envelope>>
  PROVE  /\ ident' \in [Subjects -> Identity]
         /\ \A h \in [Subjects -> Emails] : Homes(h) =>
              \E h2 \in [Subjects -> Emails] :
                /\ Later(h, ident, row, now, h2, ident', row', now')
                /\ IdentHomes(h2, ident') /\ RowHomes(h2, ident', row')
                /\ EnvelopeHomes(h2, ident', envelope')
         /\ \A x \in mail' \cup session' : ident'[x].email # Nothing
         /\ \A x \in Subjects : ident'[x].pending => Ours(x, ident')
         /\ \A x \in Subjects : ident'[x].pw = ident[x].pw \/ ident'[x].pw \notin Reqs
         /\ \A x \in Reqs : Covered(req[x]) => ident'[req[x].sub].pw = ident[req[x].sub].pw
<1>1. /\ ident' \in [Subjects -> Identity] /\ ident'[s] = id
      /\ \A x \in Subjects : x # s => ident'[x] = ident[x]
  BY Typed
<1>2. ASSUME NEW h \in [Subjects -> Emails], Homes(h)
      PROVE  \E h2 \in [Subjects -> Emails] :
                /\ Later(h, ident, row, now, h2, ident', row', now')
                /\ IdentHomes(h2, ident') /\ RowHomes(h2, ident', row')
                /\ EnvelopeHomes(h2, ident', envelope')
  <2> DEFINE h2 == [h EXCEPT ![s] = id.email]
  <2>1. h2 \in [Subjects -> Emails] /\ h2[s] = id.email /\ \A x \in Subjects : x # s => h2[x] = h[x]
    OBVIOUS
  <2> HIDE DEF h2
  <2>2. \A e \in Emails : row[e].changed \in Int /\ row[e].ext \in Subjects \cup {Nothing}
    BY Typed DEF User
  <2>3. Later(h, ident, row, now, h2, ident', row', now')
    BY <1>1, <2>1, <2>2, Typed DEF Later, Ours
  <2>4. IdentHomes(h2, ident')
    BY <1>1, <1>2, <2>1 DEF Homes, IdentHomes
  <2>5. RowHomes(h2, ident', row')
    BY <1>1, <1>2, <2>1, <2>2 DEF Homes, RowHomes
  <2>6. EnvelopeHomes(h2, ident', envelope')
    BY <1>1, <1>2, <2>1, Typed DEF Homes, EnvelopeHomes
  <2> QED BY <2>1, <2>3, <2>4, <2>5, <2>6
<1>3. \A x \in mail' \cup session' : ident'[x].email # Nothing
  BY <1>1, NothingAssumption, Typed DEF Inv, Identities
<1>4. \A x \in Subjects : ident'[x].pending => Ours(x, ident')
  BY <1>1 DEF Inv, Identities, Ours
<1>5. \A x \in Subjects : ident'[x].pw = ident[x].pw \/ ident'[x].pw \notin Reqs
  BY <1>1
<1>6. \A x \in Reqs : Covered(req[x]) => ident'[req[x].sub].pw = ident[req[x].sub].pw
  BY <1>1, CoveredBorn
<1> QED BY <1>1, <1>2, <1>3, <1>4, <1>5, <1>6

LEMMA MarksStay ==
  ASSUME Inv, UNCHANGED <<row, evictedAt>>, now' \in Int, now' >= now
  PROVE  Marks'
<1>1. \A e \in Emails : row[e].changed \in Int
  BY Typed DEF User
<1>2. \A e \in Emails : row'[e].changed >= -Leeway - 1 /\ row'[e].changed <= now' - Leeway
  BY <1>1, Typed DEF Inv, Marks
<1> QED BY <1>2 DEF Inv, Marks, MarkedSince

LEMMA DashboardKeeps ==
  ASSUME Inv, Dashboard
  PROVE  Inv'
<1>1. UNCHANGED <<now, row, envelope, req, faults, process, restarts, others, load, evictedAt, lockVars>>
  BY DEF Dashboard, quiet, system
<1>2. LocksInv'
  BY <1>1, LocksStay DEF Inv
<1>3. Marks' /\ Starting'
  BY <1>1, MarksStay, Typed DEF Inv, Starting
<1>4. ASSUME NEW s \in Subjects, NEW e \in Emails, NEW p \in {"email", "oauth"}, ~ident[s].born,
             ident' = [ident EXCEPT ![s] = [email |-> e, pw |-> Stranger, provider |-> p,
                                            pending |-> FALSE, born |-> TRUE]],
             UNCHANGED <<mail, session>>
      PROVE  Inv'
  <2> DEFINE id == [email |-> e, pw |-> Stranger, provider |-> p, pending |-> FALSE, born |-> TRUE]
  <2>1. /\ id \in Identity /\ id.email \in Emails /\ id.born /\ ~id.pending /\ id.pw \notin Reqs
    BY SubjectsAssumption DEF Identity, Pw
  <2>2. ident' = [ident EXCEPT ![s] = id]
    BY <1>4
  <2> HIDE DEF id
  <2>3. /\ ident' \in [Subjects -> Identity]
        /\ \A h \in [Subjects -> Emails] : Homes(h) =>
              \E h2 \in [Subjects -> Emails] :
                /\ Later(h, ident, row, now, h2, ident', row', now')
                /\ IdentHomes(h2, ident') /\ RowHomes(h2, ident', row')
                /\ EnvelopeHomes(h2, ident', envelope')
        /\ \A x \in mail' \cup session' : ident'[x].email # Nothing
        /\ \A x \in Subjects : ident'[x].pending => Ours(x, ident')
        /\ \A x \in Subjects : ident'[x].pw = ident[x].pw \/ ident'[x].pw \notin Reqs
        /\ \A x \in Reqs : Covered(req[x]) => ident'[req[x].sub].pw = ident[req[x].sub].pw
    BY <1>1, <1>4, <2>1, <2>2, BornElsewhere
  <2>4. TypeOK'
    BY <1>1, <1>2, <1>4, <2>3 DEF Inv, TypeOK, LocksInv
  <2> QED BY <1>1, <1>3, <2>3, <2>4, AloneKeeps
<1>5. ASSUME NEW s \in Subjects, ident[s].email # Nothing,
             ident' = [ident EXCEPT ![s] = [Unborn EXCEPT !.born = TRUE]],
             mail' = mail \ {s}, session' = session \ {s}
      PROVE  Inv'
  <2> DEFINE id == [Unborn EXCEPT !.born = TRUE]
  <2>1. /\ id.email = Nothing /\ id.pw = Nothing /\ id.provider = "email" /\ ~id.pending /\ id.born
    BY DEF Unborn
  <2>2. id \in Identity
    BY DEF Unborn, Identity, Pw
  <2>3. ident' = [ident EXCEPT ![s] = id]
    BY <1>5
  <2> HIDE DEF id
  <2>4. /\ ident' \in [Subjects -> Identity] /\ ident'[s] = id
        /\ \A x \in Subjects : x # s => ident'[x] = ident[x]
    BY <2>2, <2>3, Typed
  <2>5. TypeOK'
    BY <1>1, <1>2, <1>5, <2>4, Typed DEF Inv, TypeOK, LocksInv
  <2>6. ASSUME NEW h \in [Subjects -> Emails], Homes(h)
        PROVE  /\ Later(h, ident, row, now, h, ident', row', now')
               /\ IdentHomes(h, ident') /\ RowHomes(h, ident', row')
               /\ EnvelopeHomes(h, ident', envelope')
    <3>1. \A e \in Emails : row[e].changed \in Int /\ row[e].ext \in Subjects \cup {Nothing}
      BY Typed DEF User
    <3>2. \A x \in Subjects : /\ ident[x].born => ident'[x].born
                              /\ Ours(x, ident) => Ours(x, ident')
                              /\ ident[x].provider = "email" => ident'[x].provider = "email"
      BY <2>1, <2>4, SubjectsAssumption DEF Ours
    <3>3. Later(h, ident, row, now, h, ident', row', now')
      BY <1>1, <3>1, <3>2, Typed DEF Later
    <3>4. IdentHomes(h, ident')
      BY <2>1, <2>4, <2>6 DEF Homes, IdentHomes
    <3>5. RowHomes(h, ident', row')
      BY <1>1, <2>6, <3>1, <3>2 DEF Homes, RowHomes
    <3>6. EnvelopeHomes(h, ident', envelope')
      BY <1>1, <2>6, <3>2, Typed DEF Homes, EnvelopeHomes
    <3> QED BY <3>3, <3>4, <3>5, <3>6
  <2>7. \A x \in mail' \cup session' : ident'[x].email # Nothing
    BY <1>5, <2>4, Typed DEF Inv, Identities
  <2>8. \A x \in Subjects : ident'[x].pending => Ours(x, ident')
    BY <2>1, <2>4 DEF Inv, Identities, Ours
  <2>9. \A x \in Subjects : ident'[x].pw \in {ident[x].pw, Nothing}
    BY <2>1, <2>4
  <2>10. \A x \in Reqs : Covered(req[x]) => ident'[req[x].sub].pw \in {ident[req[x].sub].pw, Nothing}
    BY <2>9, CoveredBorn
  <2> QED BY <1>1, <1>3, <2>5, <2>6, <2>7, <2>8, <2>9, <2>10, NothingAssumption, AloneKeeps
<1> QED BY <1>4, <1>5 DEF Dashboard

LEMMA LostFacts ==
  ASSUME NEW q \in Request, NEW p, p = [NoRequest EXCEPT !.kind = q.kind, !.step = "lost"]
  PROVE  /\ p \in Request /\ p.kind = q.kind /\ p.step = "lost"
         /\ p.at = -1 /\ p.reply = "none"
<1>1. NoRequest.at = -1 /\ NoRequest.reply = "none" /\ NoRequest \in Request
  BY NoRequestTyped DEF NoRequest
<1>2. p \in Request
  BY <1>1 DEF Request
<1> QED BY <1>1, <1>2 DEF Request

LEMMA CrashKeeps ==
  ASSUME Inv, Crash
  PROVE  Inv'
<1>0. req' = [r \in Reqs |-> IF req[r].step \in {"idle", "done"} THEN req[r]
                              ELSE [NoRequest EXCEPT !.kind = req[r].kind, !.step = "lost"]]
  BY DEF Crash
<1>1. /\ process' = "down" /\ restarts' \in Nat
      /\ UNCHANGED <<now, ident, mail, session, row, envelope, faults, others, load, evictedAt>>
  <2>1. restarts \in Nat
    BY DEF Inv, TypeOK
  <2>2. /\ process' = "down" /\ restarts' = restarts + 1
        /\ UNCHANGED <<now, remote, row, envelope, faults, others, load, evictedAt>>
    BY Zenon DEF Crash
  <2> QED BY <2>1, <2>2 DEF remote
<1>2. LocksInv'
  BY ResetInv DEF Crash
<1>3. ASSUME NEW r \in Reqs
      PROVE  /\ req'[r] \in Request /\ req'[r].kind = req[r].kind /\ req'[r].step \in Resting
             /\ \A h \in [Subjects -> Emails] : Homes(h) => Fits(req'[r], h, ident, row, now)
  <2>1. CASE req[r].step \in {"idle", "done"}
    BY <1>0, <2>1, FitsOf, Typed DEF Resting
  <2>2. CASE req[r].step \notin {"idle", "done"}
    <3>1. req[r] \in Request /\ req'[r] = [NoRequest EXCEPT !.kind = req[r].kind, !.step = "lost"]
      BY <1>0, <2>2, Typed
    <3> DEFINE p == req'[r]
    <3>4. /\ p \in Request /\ p.kind = req[r].kind /\ p.step = "lost"
          /\ p.at = -1 /\ p.reply = "none"
      BY <3>1, LostFacts
    <3> HIDE DEF p
    <3>5. p.kind # "none"
      BY <2>2, <3>4, HomeExists, FitsOf DEF Fits, KindFits
    <3>6. KindFits(p) /\ ~Active(p)
      BY <3>4, <3>5 DEF KindFits, Active, Resting, Resolving, Creating
    <3> QED BY <3>4, <3>6, Typed DEF Fits, Resting, p
  <2> QED BY <2>1, <2>2
<1>4. TypeOK'
  <2>1. req' \in [Reqs -> Request]
    BY <1>0, <1>3
  <2> QED BY <1>1, <1>2, <2>1 DEF Inv, TypeOK, LocksInv
<1>5. (\E h \in [Subjects -> Emails] : Homes(h))'
  <2>1. PICK h \in [Subjects -> Emails] : Homes(h)
    BY HomeExists
  <2> QED BY <1>1, <1>3, <2>1 DEF Homes
<1>6. Identities' /\ Marks'
  BY <1>1, <1>3 DEF Inv, Identities, Marks, Ours, MarkedSince
<1>7. Starting'
  BY <1>1, <1>3 DEF Starting
<1>8. Sections' /\ SettledByPassword'
  BY <1>3 DEF Sections, Within, SettledByPassword, Covered, Resting
<1> QED BY <1>2, <1>4, <1>5, <1>6, <1>7, <1>8 DEF Inv

LEMMA AddressedHomes ==
  ASSUME Inv, NEW s \in Owns(SeedEmail)
  PROVE  /\ s \in Subjects
         /\ \A h \in [Subjects -> Emails] : Homes(h) => ident[s].born /\ h[s] = SeedEmail
BY SubjectsAssumption, NothingAssumption DEF Owns, Homes, IdentHomes

LEMMA BootKeeps ==
  ASSUME Inv, Boot
  PROVE  Inv'
<1>1. /\ process = "down"
      /\ UNCHANGED <<now, row, envelope, req, restarts, faults, others, load, evictedAt, lockVars>>
  BY DEF Boot
<1>2. LocksInv'
  BY <1>1, LocksStay DEF Inv
<1>3. Marks' /\ \A x \in Reqs : ~Covered(req[x])
  BY <1>1, MarksStay, NoneCovered, Typed
<1>4. /\ process' \in {"up", "created", "rotated"}
      /\ process' \in {"created", "rotated"} => ~Populated
  BY DEF Boot
<1>5. Starting'
  BY <1>1, <1>4 DEF Inv, Starting, Populated
<1>6. CASE UNCHANGED remote
  <2>1. UNCHANGED <<ident, mail, session>>
    BY <1>6 DEF remote
  <2>2. TypeOK'
    BY <1>1, <1>2, <1>4, <2>1 DEF Inv, TypeOK, LocksInv
  <2>3. ASSUME NEW h \in [Subjects -> Emails], Homes(h)
        PROVE  /\ Later(h, ident, row, now, h, ident', row', now')
               /\ IdentHomes(h, ident') /\ RowHomes(h, ident', row')
               /\ EnvelopeHomes(h, ident', envelope')
    <3>1. \A e \in Emails : row[e].changed \in Int
      BY Typed DEF User
    <3> QED BY <1>1, <2>1, <2>3, <3>1, Typed DEF Homes, Later
  <2>4. /\ \A s \in mail' \cup session' : ident'[s].email # Nothing
        /\ \A s \in Subjects : ident'[s].pending => Ours(s, ident')
    BY <2>1 DEF Inv, Identities
  <2> QED BY <1>1, <1>3, <1>5, <2>1, <2>2, <2>3, <2>4, AloneKeeps
<1>7. ASSUME NEW s \in Subjects, ~ident[s].born,
             ident' = [ident EXCEPT ![s] = [email |-> SeedEmail, pw |-> Operator,
                                provider |-> "email", pending |-> FALSE, born |-> TRUE]],
             UNCHANGED <<mail, session>>
      PROVE  Inv'
  <2> DEFINE id == [email |-> SeedEmail, pw |-> Operator, provider |-> "email",
                    pending |-> FALSE, born |-> TRUE]
  <2>1. /\ id \in Identity /\ id.email \in Emails /\ id.born /\ ~id.pending /\ id.pw \notin Reqs
    BY SubjectsAssumption DEF Identity, Pw
  <2>2. ident' = [ident EXCEPT ![s] = id]
    BY <1>7
  <2> HIDE DEF id
  <2>3. /\ ident' \in [Subjects -> Identity]
        /\ \A h \in [Subjects -> Emails] : Homes(h) =>
              \E h2 \in [Subjects -> Emails] :
                /\ Later(h, ident, row, now, h2, ident', row', now')
                /\ IdentHomes(h2, ident') /\ RowHomes(h2, ident', row')
                /\ EnvelopeHomes(h2, ident', envelope')
        /\ \A x \in mail' \cup session' : ident'[x].email # Nothing
        /\ \A x \in Subjects : ident'[x].pending => Ours(x, ident')
        /\ \A x \in Subjects : ident'[x].pw = ident[x].pw \/ ident'[x].pw \notin Reqs
    BY <1>1, <1>7, <2>1, <2>2, BornElsewhere
  <2>4. TypeOK'
    BY <1>1, <1>2, <1>4, <1>7, <2>3 DEF Inv, TypeOK, LocksInv
  <2> QED BY <1>1, <1>3, <1>5, <2>3, <2>4, AloneKeeps
<1>8. ASSUME NEW s \in Owns(SeedEmail), ident[s].provider = "email",
             ident' = [ident EXCEPT ![s].pw = Operator],
             session' = session \ {s}, UNCHANGED mail
      PROVE  Inv'
  <2>1. s \in Subjects
    BY DEF Owns
  <2>2. /\ ident' \in [Subjects -> Identity] /\ ident'[s].pw = Operator
        /\ \A x \in Subjects :
             /\ ident'[x].email = ident[x].email /\ ident'[x].provider = ident[x].provider
             /\ ident'[x].pending = ident[x].pending /\ ident'[x].born = ident[x].born
             /\ x # s => ident'[x].pw = ident[x].pw
    BY <1>8, <2>1, Typed DEF Identity, Pw
  <2>3. \A x \in Subjects : /\ Ours(x, ident) => Ours(x, ident')
                            /\ ident'[x].pw = ident[x].pw \/ ident'[x].pw \notin Reqs
    BY <2>1, <2>2, SubjectsAssumption DEF Ours
  <2>4. TypeOK'
    BY <1>1, <1>2, <1>4, <1>8, <2>2, Typed DEF Inv, TypeOK, LocksInv
  <2>5. ASSUME NEW h \in [Subjects -> Emails], Homes(h)
        PROVE  /\ Later(h, ident, row, now, h, ident', row', now')
               /\ IdentHomes(h, ident') /\ RowHomes(h, ident', row')
               /\ EnvelopeHomes(h, ident', envelope')
    <3>1. \A e \in Emails : row[e].changed \in Int /\ row[e].ext \in Subjects \cup {Nothing}
      BY Typed DEF User
    <3>2. Later(h, ident, row, now, h, ident', row', now')
      BY <1>1, <2>2, <2>3, <3>1, Typed DEF Later
    <3>3. IdentHomes(h, ident') /\ RowHomes(h, ident', row') /\ EnvelopeHomes(h, ident', envelope')
      BY <1>1, <2>2, <2>5, <3>1, Typed DEF Homes, IdentHomes, RowHomes, EnvelopeHomes
    <3> QED BY <3>2, <3>3
  <2>6. \A x \in mail' \cup session' : ident'[x].email # Nothing
    BY <1>8, <2>2, Typed DEF Inv, Identities
  <2>7. \A x \in Subjects : ident'[x].pending => Ours(x, ident')
    BY <2>2, <2>3 DEF Inv, Identities
  <2> QED BY <1>1, <1>3, <1>5, <2>3, <2>4, <2>5, <2>6, <2>7, AloneKeeps
<1> QED BY <1>6, <1>7, <1>8 DEF Boot

LEMMA RowAloneKeeps ==
  ASSUME Inv, RowGrows, UNCHANGED <<now, remote, envelope, req, restarts, faults, others, load,
                                    evictedAt, lockVars>>,
         process' \in {"marking", "up"}, Starting'
  PROVE  Inv'
<1>1. UNCHANGED <<ident, mail, session>> /\ LocksInv'
  BY LocksStay DEF Inv, remote
<1>2. TypeOK'
  BY <1>1 DEF Inv, TypeOK, LocksInv, RowGrows
<1>3. Marks'
  BY UnevictedMarked, MarksGrow
<1>4. ASSUME NEW h \in [Subjects -> Emails], Homes(h)
      PROVE  /\ Later(h, ident, row, now, h, ident', row', now')
             /\ IdentHomes(h, ident') /\ RowHomes(h, ident', row')
             /\ EnvelopeHomes(h, ident', envelope')
  BY <1>1, <1>4, Typed DEF Homes, Later, RowGrows
<1>5. /\ \A s \in mail' \cup session' : ident'[s].email # Nothing
      /\ \A s \in Subjects : ident'[s].pending => Ours(s, ident')
  BY <1>1 DEF Inv, Identities
<1> QED BY <1>1, <1>2, <1>3, <1>4, <1>5, AloneKeeps

LEMMA SeedRowKeeps ==
  ASSUME Inv, SeedRow
  PROVE  Inv'
<1>1. /\ process \in {"created", "rotated"} /\ process' \in {"marking", "up"}
      /\ UNCHANGED <<now, remote, envelope, req, restarts, faults, others, load, evictedAt, lockVars>>
  BY DEF SeedRow
<1>2. PICK s \in Owns(SeedEmail) : row' = Inserted(SeedEmail, s)
  BY DEF SeedRow
<1>3. \A e \in Emails : ~row[e].there
  BY <1>1 DEF Inv, Starting
<1>4. Insertable(SeedEmail, s)
  BY <1>3, SubjectsAssumption DEF Insertable, RowOf
<1>5. RowGrows
  BY <1>2, <1>4, AddressedHomes, InsertedGrows, SubjectsAssumption
<1>6. Starting'
  BY <1>1 DEF Inv, Starting
<1> QED BY <1>1, <1>5, <1>6, RowAloneKeeps

LEMMA SeedMarkKeeps ==
  ASSUME Inv, SeedMark
  PROVE  Inv'
<1>1. /\ row' = Marked(SeedEmail) /\ process' = "up"
      /\ UNCHANGED <<now, remote, envelope, req, restarts, faults, others, load, evictedAt, lockVars>>
  BY DEF SeedMark
<1>2. RowGrows
  BY <1>1, MarkedGrows, SubjectsAssumption
<1>3. Starting'
  BY <1>1 DEF Starting
<1> QED BY <1>1, <1>2, <1>3, RowAloneKeeps

LEMMA TickKeeps ==
  ASSUME Inv, Tick
  PROVE  Inv'
<1>1. /\ now' = now + 1 /\ now' \in Nat /\ now' >= now
      /\ UNCHANGED <<ident, mail, session, row, envelope, req, faults, process, restarts, others,
                     load, evictedAt, lockVars>>
  BY Typed DEF Tick, remote, quiet, system
<1>2. LocksInv'
  BY <1>1, LocksStay DEF Inv
<1>3. TypeOK' /\ Marks' /\ Starting'
  BY <1>1, <1>2, MarksStay DEF Inv, TypeOK, LocksInv, Starting
<1>4. ASSUME NEW h \in [Subjects -> Emails], Homes(h)
      PROVE  /\ Later(h, ident, row, now, h, ident', row', now')
             /\ IdentHomes(h, ident') /\ RowHomes(h, ident', row')
             /\ EnvelopeHomes(h, ident', envelope')
  <2>1. \A e \in Emails : row[e].changed \in Int
    BY Typed DEF User
  <2> QED BY <1>1, <1>4, <2>1 DEF Homes, Later
<1>5. /\ \A s \in mail' \cup session' : ident'[s].email # Nothing
      /\ \A s \in Subjects : ident'[s].pending => Ours(s, ident')
  BY <1>1 DEF Inv, Identities
<1> QED BY <1>1, <1>3, <1>4, <1>5, AloneKeeps

-----------------------------------------------------------------------------
LEMMA InitInv == Init => Inv
<1> SUFFICES ASSUME Init PROVE Inv
  OBVIOUS
<1>1. LocksInv
  BY LocksInitInv DEF Init
<1>2. /\ now = 0 /\ ident = [s \in Subjects |-> Unborn] /\ mail = {} /\ session = {} /\ envelope = {}
      /\ req = [r \in Reqs |-> NoRequest] /\ process = "down" /\ restarts = 0 /\ faults = 0
      /\ load \in Loads /\ others \in BOOLEAN /\ evictedAt = [s \in Subjects |-> -1]
  BY DEF Init
<1>3. /\ row \in [Emails -> User]
      /\ \A e \in Emails : row[e].ext = Nothing /\ row[e].changed = -Leeway - 1
  <2> DEFINE Empty == [NoUser EXCEPT !.there = TRUE]
             Off == [NoUser EXCEPT !.there = TRUE, !.active = FALSE]
  <2>1. NoUser \in User /\ NoUser.ext = Nothing /\ NoUser.changed = -Leeway - 1
    BY NoUserTyped DEF NoUser
  <2>2. Empty \in User /\ Empty.ext = Nothing /\ Empty.changed = -Leeway - 1
    BY <2>1 DEF User
  <2>3. Off \in User /\ Off.ext = Nothing /\ Off.changed = -Leeway - 1
    BY <2>1 DEF User
  <2>4. row \in [Emails -> {NoUser, Empty, Off}]
    BY DEF Init
  <2> HIDE DEF Empty, Off
  <2> QED BY <2>1, <2>2, <2>3, <2>4
<1>4. Unborn \in Identity /\ Unborn.email = Nothing /\ ~Unborn.pending /\ Unborn.pw = Nothing
  BY DEF Unborn, Identity, Pw
<1>5. TypeOK
  BY <1>1, <1>2, <1>3, <1>4, NoRequestTyped DEF TypeOK, LocksInv
<1>6. \E h \in [Subjects -> Emails] : Homes(h)
  <2> DEFINE h == [s \in Subjects |-> SeedEmail]
  <2>1. h \in [Subjects -> Emails]
    BY SubjectsAssumption
  <2>2. IdentHomes(h, ident) /\ RowHomes(h, ident, row) /\ EnvelopeHomes(h, ident, envelope)
    BY <1>2, <1>3, <1>4 DEF IdentHomes, RowHomes, EnvelopeHomes
  <2>3. Fits(NoRequest, h, ident, row, now)
    BY <1>2 DEF Fits, NoRequest, KindFits, Active, Resting, Resolving, Creating
  <2> QED BY <1>2, <2>1, <2>2, <2>3 DEF Homes
<1>7. Identities
  BY <1>2, <1>4, NothingAssumption DEF Identities
<1>8. Marks
  BY <1>2, <1>3, LeewayAssumption DEF Marks
<1>9. Starting /\ Sections /\ SettledByPassword
  BY <1>2 DEF Starting, Resting, Sections, Within, SettledByPassword, Covered, NoRequest
<1> QED BY <1>1, <1>5, <1>6, <1>7, <1>8, <1>9 DEF Inv

LEMMA NextInv == Inv /\ [Next]_vars => Inv'
<1> SUFFICES ASSUME Inv, [Next]_vars PROVE Inv'
  OBVIOUS
<1>1. ASSUME NEW r \in Reqs, Start(r) PROVE Inv'
  BY <1>1, StartLockedKeeps, StartPatchKeeps, StartAskingKeeps, StartRetryKeeps DEF Start
<1>2. ASSUME NEW r \in Reqs, Progress(r) PROVE Inv'
  BY <1>2, LockTurnKeeps, LockDoneKeeps, MadeKeeps, LookedKeeps, LinkKeeps, MarkKeeps,
     RotateDoneKeeps, SignOutDoneKeeps, PatchKeeps, AuthenticatedKeeps, ResetDoneKeeps,
     ConfirmableKeeps, ByExternalIdKeeps, ByEmailKeeps, AdoptKeeps, ProvisionKeeps, AdmitKeeps
     DEF Progress
<1>3. ASSUME NEW r \in Reqs, Serve(r) \/ AnswerLost(r) \/ LocalFails(r) PROVE Inv'
  BY <1>3, ServeKeeps, AnswerLostKeeps, LocalFailsKeeps
<1>4. CASE Dashboard \/ Crash \/ Boot \/ SeedRow \/ SeedMark \/ Tick
  BY <1>4, DashboardKeeps, CrashKeeps, BootKeeps, SeedRowKeeps, SeedMarkKeeps, TickKeeps
<1>5. CASE UNCHANGED vars
  <2>1. UNCHANGED <<now, ident, mail, session, row, envelope, req, faults, process, restarts, others,
                    load, evictedAt, lockVars>>
    BY <1>5 DEF vars, remote, quiet, system
  <2>2. LocksInv' /\ section' = section
    BY <2>1, LocksStay DEF Inv
  <2>3. TypeOK' /\ Marks' /\ Starting'
    BY <2>1, <2>2, MarksStay, Typed DEF Inv, TypeOK, LocksInv, Starting
  <2>4. ASSUME NEW h \in [Subjects -> Emails], Homes(h)
        PROVE  /\ Later(h, ident, row, now, h, ident', row', now')
               /\ IdentHomes(h, ident') /\ RowHomes(h, ident', row')
               /\ EnvelopeHomes(h, ident', envelope')
    <3>1. \A e \in Emails : row[e].changed \in Int
      BY Typed DEF User
    <3> QED BY <2>1, <2>4, <3>1, Typed DEF Homes, Later
  <2>5. /\ \A s \in mail' \cup session' : ident'[s].email # Nothing
        /\ \A s \in Subjects : ident'[s].pending => Ours(s, ident')
    BY <2>1 DEF Inv, Identities
  <2> QED BY <2>1, <2>3, <2>4, <2>5, AloneKeeps
<1> QED BY <1>1, <1>2, <1>3, <1>4, <1>5 DEF Next

-----------------------------------------------------------------------------
(* Where a create reports its success. *)

Reports(r) == req'[r].step = "closing" /\ req'[r].status = 201

LEMMA OtherAnswers ==
  ASSUME Inv, NEW r \in Reqs, NEW status \in Status \ {201}, Answers(r, req[r], status)
  PROVE  ~Reports(r)
<1> DEFINE p == Ends(req[r], status)
<1>1. /\ p \in Request
      /\ req[r].kind \in Locked => p.status = status
      /\ req[r].kind \notin Locked => p.step = "done"
  BY EndsFacts, Typed
<1>2. Moves(r, p)
  BY DEF Answers
<1> HIDE DEF p
<1>3. req'[r] = p
  BY <1>1, <1>2, MovesFacts, Typed
<1> QED BY <1>1, <1>3 DEF Reports

LEMMA OtherFailures ==
  ASSUME Inv, NEW r \in Reqs, Failed(r, req[r]) \/ Refused(r, req[r])
  PROVE  ~Reports(r)
<1>1. PICK status \in {401, 422, 503} : Answers(r, req[r], status)
  BY DEF Failed, Refused
<1> QED BY <1>1, OtherAnswers DEF Status

LEMMA OtherMoves ==
  ASSUME Inv, NEW r \in Reqs, NEW q \in Request,
         \/ \E call \in Gateway : Moves(r, Asks(q, call))
         \/ \E step \in {"link", "mark", "patching", "find", "meet", "adopt", "provision", "admit"} :
              Moves(r, Goes(q, step))
  PROVE  ~Reports(r)
<1>1. ASSUME NEW call \in Gateway, Moves(r, Asks(q, call)) PROVE ~Reports(r)
  <2> DEFINE p == Asks(q, call)
  <2>1. p \in Request /\ p.step # "closing" /\ Moves(r, p)
    BY <1>1, AsksFacts DEF Gateway
  <2> HIDE DEF p
  <2> QED BY <2>1, MovesFacts, Typed DEF Reports
<1>2. ASSUME NEW step \in {"link", "mark", "patching", "find", "meet", "adopt", "provision", "admit"},
             Moves(r, Goes(q, step))
      PROVE  ~Reports(r)
  <2> DEFINE p == Goes(q, step)
  <2>1. p \in Request /\ p.step # "closing" /\ Moves(r, p)
    BY <1>2, GoesFacts
  <2> HIDE DEF p
  <2> QED BY <2>1, MovesFacts, Typed DEF Reports
<1> QED BY <1>1, <1>2

(* Of a create's own steps only Link and Mark report success.              *)
LEMMA OnlyLinkedReports ==
  ASSUME Inv, NEW r \in Reqs, Progress(r), req[r].kind = "create",
         req[r].step \notin {"link", "mark", "closing"}
  PROVE  ~Reports(r)
<1> DEFINE q == req[r]
<1>0. q \in Request
  BY Typed
<1>1. ~(Link(r) \/ Mark(r) \/ LockDone(r))
  BY DEF Link, Mark, LockDone
<1>2. CASE LockTurn(r)
  <2> DEFINE q2 == [q EXCEPT !.saw = row[q.email]]
  <2>1. Active(q)
    BY <1>2 DEF LockTurn, Active, Resting
  <2>2. q.email \in Emails
    BY <2>1, HomeExists, FitsOf DEF Homed
  <2>3. q2 \in Request
    BY <1>0, <2>2, Typed DEF Request
  <2>4. Moves(r, Ends(q, 422)) \/ Moves(r, Asks(q2, "create"))
    BY <1>2 DEF LockTurn
  <2> HIDE DEF q2
  <2>5. CASE Moves(r, Ends(q, 422))
    <3> DEFINE p == Ends(q, 422)
    <3>1. p \in Request /\ p.status = 422 /\ Moves(r, p)
      BY <2>5, EndsFacts, Typed DEF Status, Locked, Creating
    <3> HIDE DEF p
    <3> QED BY <3>1, MovesFacts, Typed DEF Reports
  <2>6. CASE Moves(r, Asks(q2, "create"))
    BY <2>3, <2>6, OtherMoves DEF Gateway
  <2> QED BY <2>4, <2>5, <2>6
<1>3. CASE Made(r)
  <2>1. \/ Moves(r, Goes(q, "link")) \/ Moves(r, Asks(q, "look"))
        \/ Failed(r, q) \/ Answers(r, q, 204)
    BY <1>3 DEF Made
  <2> QED BY <1>0, <2>1, OtherMoves, OtherFailures, OtherAnswers DEF Gateway, Status
<1>4. CASE Looked(r)
  <2>1. Failed(r, q) \/ Moves(r, Goes(q, "link")) \/ Moves(r, Asks(q, "rotate"))
    BY <1>4 DEF Looked
  <2> QED BY <1>0, <2>1, OtherMoves, OtherFailures DEF Gateway
<1>5. CASE RotateDone(r)
  <2>1. Moves(r, Goes(q, "link")) \/ Failed(r, q)
    BY <1>5 DEF RotateDone
  <2> QED BY <1>0, <2>1, OtherMoves, OtherFailures
<1>6. CASE SignOutDone(r)
  <2>1. Moves(r, Goes(q, "find")) \/ Answers(r, q, 204)
    BY <1>6 DEF SignOutDone
  <2> QED BY <1>0, <2>1, OtherMoves, OtherAnswers DEF Status
<1>7. CASE Patch(r)
  <2>1. Moves(r, Goes(q, "mark")) \/ Answers(r, q, 200)
    BY <1>7 DEF Patch
  <2> QED BY <1>0, <2>1, OtherMoves, OtherAnswers DEF Status
<1>8. CASE Authenticated(r)
  <2>1. \/ \E status \in {401, 422, 503} : Answers(r, q, status)
        \/ Moves(r, Goes(q, "find"))
    BY <1>8 DEF Authenticated
  <2> QED BY <1>0, <2>1, OtherMoves, OtherAnswers DEF Status
<1>9. CASE ResetDone(r)
  BY <1>9, OtherAnswers DEF ResetDone, Status
<1>10. CASE Confirmable(r) \/ ByExternalId(r) \/ ByEmail(r) \/ Adopt(r) \/ Provision(r) \/ Admit(r)
  <2>1. q.step \in {"otp"} \cup Resolving
    BY <1>10 DEF Confirmable, ByExternalId, ByEmail, Adopt, Adopts, Provision, Admit, Resolving
  <2> QED BY <2>1, HomeExists, FitsOf DEF Fits, KindFits
<1> QED BY <1>1, <1>2, <1>3, <1>4, <1>5, <1>6, <1>7, <1>8, <1>9, <1>10 DEF Progress

(* An answer of the provider is not an answer to the client.               *)
LEMMA ServedWaits ==
  ASSUME Inv, NEW r \in Reqs, Serve(r) \/ AnswerLost(r), req[r].step # "closing"
  PROVE  ~Reports(r)
<1> DEFINE q == req[r]
<1>1. q \in Request /\ req \in [Reqs -> Request]
  BY Typed
<1>2. ASSUME NEW s, NEW found,
             \/ \E reply \in {"ok", "weak", "rejected", "unavailable"} :
                  Moves(r, [q EXCEPT !.reply = reply])
             \/ Moves(r, [q EXCEPT !.reply = "ok", !.sub = s])
             \/ Moves(r, [q EXCEPT !.reply = "ok", !.sub = s, !.found = found])
             \/ Moves(r, [q EXCEPT !.reply = "ok", !.at = now])
             \/ Moves(r, [q EXCEPT !.reply = "ok", !.sub = s, !.iat = now, !.how = "password"])
             \/ Moves(r, [q EXCEPT !.reply = "ok", !.iat = now, !.how = "password"])
             \/ Moves(r, [q EXCEPT !.reply = "ok", !.iat = now, !.how = "otp"])
      PROVE  ~Reports(r)
  <2>0. ASSUME NEW p, Moves(r, p), p.step = q.step PROVE ~Reports(r)
    BY <1>1, <2>0 DEF Moves, Reports
  <2>1. ASSUME NEW reply, Moves(r, [q EXCEPT !.reply = reply]) PROVE ~Reports(r)
    <3>1. [q EXCEPT !.reply = reply].step = q.step
      BY <1>1 DEF Request
    <3> QED BY <2>0, <2>1, <3>1
  <2>2. CASE Moves(r, [q EXCEPT !.reply = "ok", !.sub = s])
    <3>1. [q EXCEPT !.reply = "ok", !.sub = s].step = q.step
      BY <1>1 DEF Request
    <3> QED BY <2>0, <2>2, <3>1
  <2>3. CASE Moves(r, [q EXCEPT !.reply = "ok", !.sub = s, !.found = found])
    <3>1. [q EXCEPT !.reply = "ok", !.sub = s, !.found = found].step = q.step
      BY <1>1 DEF Request
    <3> QED BY <2>0, <2>3, <3>1
  <2>4. CASE Moves(r, [q EXCEPT !.reply = "ok", !.at = now])
    <3>1. [q EXCEPT !.reply = "ok", !.at = now].step = q.step
      BY <1>1 DEF Request
    <3> QED BY <2>0, <2>4, <3>1
  <2>5. CASE Moves(r, [q EXCEPT !.reply = "ok", !.sub = s, !.iat = now, !.how = "password"])
    <3>1. [q EXCEPT !.reply = "ok", !.sub = s, !.iat = now, !.how = "password"].step = q.step
      BY <1>1 DEF Request
    <3> QED BY <2>0, <2>5, <3>1
  <2>6. CASE Moves(r, [q EXCEPT !.reply = "ok", !.iat = now, !.how = "password"])
    <3>1. [q EXCEPT !.reply = "ok", !.iat = now, !.how = "password"].step = q.step
      BY <1>1 DEF Request
    <3> QED BY <2>0, <2>6, <3>1
  <2>7. CASE Moves(r, [q EXCEPT !.reply = "ok", !.iat = now, !.how = "otp"])
    <3>1. [q EXCEPT !.reply = "ok", !.iat = now, !.how = "otp"].step = q.step
      BY <1>1 DEF Request
    <3> QED BY <2>0, <2>7, <3>1
  <2> QED BY <1>2, <2>1, <2>2, <2>3, <2>4, <2>5, <2>6, <2>7
<1>3. CASE Granted(r)
  BY <1>2, <1>3 DEF Granted
<1>4. CASE \E reply \in {"weak", "rejected", "unavailable"} : Moves(r, [q EXCEPT !.reply = reply])
  BY <1>2, <1>4
<1> QED BY <1>3, <1>4 DEF Serve, AnswerLost

(* A step of another request, or of none, moves this one nowhere.          *)
LEMMA OthersWait ==
  ASSUME Inv, NEW r \in Reqs, NEW x \in Reqs, x # r,
         Start(x) \/ Progress(x) \/ Serve(x) \/ AnswerLost(x) \/ LocalFails(x)
  PROVE  req'[r] = req[r]
<1>1. PICK p : Moves(x, p)
  <2>1. CASE Start(x)
    BY <2>1 DEF Start, StartLocked, StartPatch, StartLogin, StartRefresh, StartChange, StartReset,
         StartConfirm, StartRetry
  <2>2. CASE LocalFails(x)
    BY <2>2 DEF LocalFails, Answers
  <2>3. CASE Serve(x) \/ AnswerLost(x)
    BY <2>3 DEF Serve, AnswerLost, Granted
  <2>4. CASE LockTurn(x) \/ LockDone(x) \/ Made(x) \/ Looked(x)
    BY <2>4 DEF LockTurn, LockDone, Made, Looked, Failed, Answers
  <2>5. CASE Link(x) \/ Mark(x) \/ Patch(x)
    BY <2>5 DEF Link, Mark, Patch, Answers
  <2>6. CASE RotateDone(x) \/ SignOutDone(x) \/ Authenticated(x) \/ ResetDone(x)
    BY <2>6 DEF RotateDone, SignOutDone, Authenticated, ResetDone, Failed, Answers
  <2>7. CASE Confirmable(x) \/ ByExternalId(x) \/ ByEmail(x)
    BY <2>7 DEF Confirmable, ByExternalId, ByEmail, Failed, Refused, Answers
  <2>8. CASE Adopt(x) \/ Provision(x)
    BY <2>8 DEF Adopt, Adopts, Provision, Refused, Answers
  <2>9. CASE Admit(x)
    <3>1. /\ req[x].step = "admit"
          /\ req[x].kind \in {"login", "refresh", "retry", "confirm"}
      <4>1. req[x].step = "admit"
        BY <2>9 DEF Admit
      <4> QED BY <4>1, HomeExists, FitsOf DEF Fits, KindFits, Resolving
    <3> QED BY <2>9, <3>1 DEF Admit, Answers
  <2> QED BY <2>1, <2>2, <2>3, <2>4, <2>5, <2>6, <2>7, <2>8, <2>9 DEF Progress
<1> QED BY <1>1, Typed DEF Moves

-----------------------------------------------------------------------------
(* Every part of the state keeps its type; so does the table of locks.     *)
THEOREM TypeCorrect == Spec => []TypeOK
<1>1. Inv => TypeOK
  BY DEF Inv
<1> QED BY InitInv, NextInv, <1>1, PTL DEF Spec

(* Two requests of administrators for one address are never inside their   *)
(* lock together, among all requests, faults and crashes                    *)
(* (core/email_locks.py:10-17, api/admin.py).                               *)
THEOREM OneAdministratorPerEmail == Spec => []OnePerEmail
<1>1. Inv => OnePerEmail
  BY LocksInvEntails DEF Inv
<1> QED BY InitInv, NextInv, <1>1, PTL DEF Spec

(* Once a rotation was answered as done, the row linked to its subject     *)
(* carries the mark that refuses the tokens issued before it               *)
(* (api/auth.py:808, 944; api/admin.py:372).                               *)
THEOREM RotationsEvict == Spec => []RotationEvicts
<1>1. Inv => RotationEvicts
  <2> SUFFICES ASSUME Inv, NEW e \in Emails, row[e].there, row[e].ext # Nothing
               PROVE  row[e].changed >= evictedAt[row[e].ext] - Leeway
    BY DEF RotationEvicts
  <2> DEFINE s == row[e].ext
  <2>1. s \in Subjects /\ row[e].changed \in Int /\ evictedAt[s] \in Int
    BY Typed DEF User
  <2>2. CASE evictedAt[s] >= 0
    <3>1. PICK k \in Emails : row[k].ext = s /\ row[k].changed >= evictedAt[s] - Leeway
      BY <2>1, <2>2 DEF Inv, Marks, MarkedSince
    <3>2. k = e
      BY <3>1, HomeExists DEF Homes, RowHomes
    <3> QED BY <3>1, <3>2
  <2>3. CASE ~(evictedAt[s] >= 0)
    <3>1. evictedAt[s] = -1 /\ row[e].changed >= -Leeway - 1
      BY <2>1, <2>3 DEF Inv, Marks
    <3> QED BY <2>1, <3>1, Typed
  <2> QED BY <2>2, <2>3
<1> QED BY InitInv, NextInv, <1>1, PTL DEF Spec

(* An administrator's request links only an identity of the e-mail         *)
(* provider whose password was not set elsewhere (api/admin.py:249, 312).  *)
THEOREM LinksNoStranger == Spec => NoStrangersLinked
<1>1. Inv => \A r \in Reqs : Link(r) =>
               ident[req[r].sub].pw # Stranger /\ ident[req[r].sub].provider = "email"
  <2> SUFFICES ASSUME Inv, NEW r \in Reqs, Link(r)
               PROVE  ident[req[r].sub].pw # Stranger /\ ident[req[r].sub].provider = "email"
    OBVIOUS
  <2>1. req[r].step = "link" /\ Active(req[r])
    BY DEF Link, Active, Resting
  <2> QED BY <2>1, HomeExists, FitsOf DEF Unopened, Ours
<1>2. Inv /\ [Next]_vars =>
        [\A r \in Reqs : (Link(r) /\ row' # row) =>
           LET s == req[r].sub IN ident[s].pw # Stranger /\ ident[s].provider = "email"]_vars
  BY <1>1
<1> QED BY InitInv, NextInv, <1>2, PTL DEF Spec, NoStrangersLinked

(* The password a 201 reports opens the account, unless it was changed     *)
(* since by other means than an administrator's create                     *)
(* (core/email_locks.py:3, api/admin.py).                                  *)
THEOREM HonoursPasswords == Spec => PasswordHonoured
<1>1. ASSUME Inv, Next, NEW r \in Reqs, req[r].kind = "create",
             req[r].step \notin {"closing", "done"}, Reports(r)
      PROVE  LET pw == ident[req[r].sub].pw
             IN  pw = r \/ pw = Nothing \/ (pw \in Reqs /\ req[pw].kind # "create")
  <2>1. CASE req[r].step \in {"link", "mark"}
    BY <1>1, <2>1 DEF Inv, SettledByPassword, Covered, Honoured
  <2>2. CASE req[r].step \notin {"link", "mark"}
    <3>1. ASSUME NEW x \in Reqs, x # r,
                 Start(x) \/ Progress(x) \/ Serve(x) \/ AnswerLost(x) \/ LocalFails(x)
          PROVE  FALSE
      BY <1>1, <3>1, OthersWait DEF Reports
    <3>2. ~Start(r)
      <4>1. req[r].step # "idle"
        BY <1>1, HomeExists, FitsOf DEF Fits, KindFits
      <4> QED BY <4>1 DEF Start, StartLocked, StartPatch, StartLogin, StartRefresh, StartChange,
                StartReset, StartConfirm, StartRetry, Starts
    <3>3. ~Progress(r)
      BY <1>1, <2>2, OnlyLinkedReports
    <3>4. ~(Serve(r) \/ AnswerLost(r))
      BY <1>1, ServedWaits
    <3>5. ~LocalFails(r)
      BY <1>1, OtherAnswers DEF LocalFails, Status
    <3>6. ~Crash
      <4> SUFFICES ASSUME Crash PROVE FALSE
        OBVIOUS
      <4>1. req' = [x \in Reqs |-> IF req[x].step \in {"idle", "done"} THEN req[x]
                                   ELSE [NoRequest EXCEPT !.kind = req[x].kind, !.step = "lost"]]
        BY DEF Crash
      <4>2. CASE req[r].step \in {"idle", "done"}
        BY <1>1, <4>1, <4>2 DEF Reports
      <4>3. CASE req[r].step \notin {"idle", "done"}
        <5>1. req'[r] = [NoRequest EXCEPT !.kind = req[r].kind, !.step = "lost"]
          BY <4>1, <4>3
        <5>2. req'[r].step = "lost"
          BY <1>1, <5>1, LostFacts, Typed
        <5> QED BY <1>1, <5>2 DEF Reports
      <4> QED BY <4>2, <4>3
    <3>7. ~(Dashboard \/ Boot \/ SeedRow \/ SeedMark \/ Tick)
      BY <1>1 DEF Dashboard, Boot, SeedRow, SeedMark, Tick, Reports
    <3> QED BY <1>1, <3>1, <3>2, <3>3, <3>4, <3>5, <3>6, <3>7 DEF Next
  <2> QED BY <2>1, <2>2
<1>2. Inv /\ [Next]_vars =>
        [\A r \in Reqs :
           (/\ req[r].kind = "create" /\ req[r].step \notin {"closing", "done"}
            /\ req'[r].step = "closing" /\ req'[r].status = 201)
           => LET pw == ident[req[r].sub].pw
              IN  pw = r \/ pw = Nothing \/ (pw \in Reqs /\ req[pw].kind # "create")]_vars
  BY <1>1 DEF Reports
<1> QED BY InitInv, NextInv, <1>2, PTL DEF Spec, PasswordHonoured

(* One administrator's request at a time for an email, and the mark of a       *)
(* rotation that was reported on the row of its identity.                     *)
THEOREM AccountsHeld == Spec => []AccountsAreSingle
BY OneAdministratorPerEmail, RotationsEvict, PTL DEF AccountsAreSingle

(* What administrators are told of a password, and whom they link, is so. *)
THEOREM HonestCreations == Spec => CreationsAreHonest
BY LinksNoStranger, HonoursPasswords DEF CreationsAreHonest

-----------------------------------------------------------------------------
(* Accounts without a provider. *)
Paired(held) == held.epoch = held.password
HoldsRow(step) == step.at \in {"clearing", "issuing"}

AccountPaired ==
  account \in [password : Nat, epoch : Nat, active : BOOLEAN] /\ Paired(account)
HandlersPaired ==
  /\ DOMAIN thread = Threads
  /\ \A t \in Threads : HoldsRow(thread[t]) => Paired(thread[t].row)
TokensPaired == \A token \in tokens : Paired(token)
LoginInv == AccountPaired /\ HandlersPaired /\ TokensPaired

\* A handler that goes on holds a fitting row if its new step does.
LEMMA LoginGoesOn ==
  ASSUME NEW t \in Threads, NEW step, HandlersPaired, Turns(t, step),
         HoldsRow(step) => Paired(step.row)
  PROVE  HandlersPaired'
<1>1. DOMAIN thread' = Threads
  BY DEF Turns, HandlersPaired
<1>2. ASSUME NEW u \in Threads, HoldsRow(thread'[u]) PROVE Paired(thread'[u].row)
  <2>1. CASE u = t
    BY <1>2, <2>1 DEF Turns, HandlersPaired
  <2>2. CASE u # t
    BY <1>2, <2>2 DEF Turns, HandlersPaired
  <2> QED BY <2>1, <2>2
<1> QED BY <1>1, <1>2 DEF HandlersPaired

LEMMA EndsIdle ==
  ASSUME NEW t \in Threads, HandlersPaired, Returns(t)
  PROVE  HandlersPaired'
<1>1. Turns(t, Idle)
  BY DEF Returns, Turns
<1>2. ~HoldsRow(Idle)
  BY DEF HoldsRow, Idle
<1> QED BY <1>1, <1>2, LoginGoesOn

\* Whoever sets a password raises the epoch with it.
LEMMA SetTogether ==
  ASSUME AccountPaired, SetPassword
  PROVE  AccountPaired'
<1>1. account' = [account EXCEPT !.password = account.password + 1, !.epoch = account.epoch + 1]
  BY DEF SetPassword
<1>2. account' \in [password : Nat, epoch : Nat, active : BOOLEAN]
  <2>1. account.password + 1 \in Nat /\ account.epoch + 1 \in Nat
    BY DEF AccountPaired
  <2> QED BY <1>1, <2>1, ZenonT(30) DEF AccountPaired
<1>3. account'.epoch = account'.password
  BY <1>1 DEF AccountPaired, Paired
<1> QED BY <1>2, <1>3 DEF AccountPaired, Paired

LEMMA HoldsAtFirst == LoginInit => LoginInv
<1> SUFFICES ASSUME LoginInit PROVE LoginInv
  OBVIOUS
<1>1. AccountPaired
  BY DEF LoginInit, AccountPaired, Paired
<1>2. HandlersPaired
  BY DEF LoginInit, HandlersPaired, HoldsRow, Idle
<1>3. TokensPaired
  BY DEF LoginInit, TokensPaired
<1> QED BY <1>1, <1>2, <1>3 DEF LoginInv

LEMMA LoginStep == LoginInv /\ [LoginNext]_loginVars => LoginInv'
<1> SUFFICES ASSUME LoginInv, [LoginNext]_loginVars PROVE LoginInv'
  OBVIOUS
<1>0. AccountPaired /\ HandlersPaired /\ TokensPaired
  BY DEF LoginInv
<1>1. CASE ResetPassword
  <2>1. AccountPaired'
    BY <1>0, <1>1, SetTogether DEF ResetPassword
  <2>2. HandlersPaired' /\ TokensPaired'
    BY <1>0, <1>1 DEF ResetPassword, HandlersPaired, TokensPaired
  <2> QED BY <2>1, <2>2 DEF LoginInv
<1>2. CASE SetActive
  <2>1. AccountPaired'
    BY <1>0, <1>2 DEF SetActive, AccountPaired, Paired
  <2>2. HandlersPaired' /\ TokensPaired'
    BY <1>0, <1>2 DEF SetActive, HandlersPaired, TokensPaired
  <2> QED BY <2>1, <2>2 DEF LoginInv
<1>3. CASE ClockTick
  BY <1>0, <1>3 DEF ClockTick, LoginInv, AccountPaired, HandlersPaired, TokensPaired
<1>4. CASE Restart
  <2>1. HandlersPaired'
    BY <1>4 DEF Restart, HandlersPaired, HoldsRow, Idle
  <2>2. AccountPaired' /\ TokensPaired'
    BY <1>0, <1>4 DEF Restart, AccountPaired, TokensPaired
  <2> QED BY <2>1, <2>2 DEF LoginInv
<1>5. ASSUME NEW t \in Threads,
             Login(t) \/ Check(t) \/ Refuse(t) \/ Look(t) \/ Stamp(t) \/ RecordFailure(t)
             \/ RecordSuccess(t) \/ Issue(t) \/ ChangePassword(t) \/ Prove(t) \/ Change(t)
      PROVE  LoginInv'
  <2>1. CASE Login(t)
    <3>1. PICK k \in Keys, guess \in Guesses :
            Turns(t, [at |-> "checking", key |-> k, guess |-> guess])
      BY <2>1 DEF Login
    <3>2. HandlersPaired'
      BY <1>0, <3>1, LoginGoesOn DEF HoldsRow
    <3> QED BY <1>0, <2>1, <3>2 DEF Login, LoginInv, AccountPaired, TokensPaired
  <2>2. CASE Check(t)
    <3> DEFINE next == IF Blocked(thread[t].key) THEN "refusing" ELSE "looking"
    <3>1. Turns(t, [thread[t] EXCEPT !.at = next])
      BY <2>2 DEF Check
    <3>2. ~HoldsRow([thread[t] EXCEPT !.at = next])
      BY <2>2 DEF HoldsRow, Check
    <3>3. HandlersPaired'
      BY <1>0, <3>1, <3>2, LoginGoesOn
    <3> QED BY <1>0, <2>2, <3>3 DEF Check, LoginInv, AccountPaired, TokensPaired
  <2>3. CASE Refuse(t)
    <3>1. HandlersPaired'
      BY <1>0, <2>3, EndsIdle DEF Refuse
    <3> QED BY <1>0, <2>3, <3>1 DEF Refuse, LoginInv, AccountPaired, TokensPaired
  <2>4. CASE Look(t)
    <3>1. CASE Turns(t, [at |-> "clearing", key |-> thread[t].key, row |-> account])
      BY <1>0, <3>1, <2>4, LoginGoesOn DEF Look, LoginInv, AccountPaired, TokensPaired
    <3>2. CASE Turns(t, [at |-> "failing", key |-> thread[t].key])
      BY <1>0, <3>2, <2>4, LoginGoesOn DEF Look, HoldsRow, LoginInv, AccountPaired, TokensPaired
    <3> QED BY <2>4, <3>1, <3>2 DEF Look
  <2>5. CASE Stamp(t)
    <3>1. HandlersPaired'
      BY <1>0, <2>5, LoginGoesOn DEF Stamp, HoldsRow
    <3> QED BY <1>0, <2>5, <3>1 DEF Stamp, LoginInv, AccountPaired, TokensPaired
  <2>6. CASE RecordFailure(t)
    <3>1. HandlersPaired'
      BY <1>0, <2>6, EndsIdle DEF RecordFailure
    <3> QED BY <1>0, <2>6, <3>1 DEF RecordFailure, LoginInv, AccountPaired, TokensPaired
  <2>7. CASE RecordSuccess(t)
    <3>1. Paired(thread[t].row)
      BY <1>0, <2>7 DEF RecordSuccess, HandlersPaired, HoldsRow
    <3>2. HandlersPaired'
      BY <1>0, <2>7, <3>1, LoginGoesOn DEF RecordSuccess
    <3> QED BY <1>0, <2>7, <3>2 DEF RecordSuccess, LoginInv, AccountPaired, TokensPaired
  <2>8. CASE Issue(t)
    <3>1. Paired(thread[t].row)
      BY <1>0, <2>8 DEF Issue, HandlersPaired, HoldsRow
    <3>2. TokensPaired'
      BY <1>0, <2>8, <3>1 DEF Issue, Issued, TokensPaired, Paired
    <3>3. HandlersPaired'
      BY <1>0, <2>8, EndsIdle DEF Issue
    <3> QED BY <1>0, <2>8, <3>2, <3>3 DEF Issue, LoginInv, AccountPaired
  <2>9. CASE ChangePassword(t)
    <3>1. PICK guess \in Guesses : Turns(t, [at |-> "proving", guess |-> guess])
      BY <2>9 DEF ChangePassword
    <3>2. HandlersPaired'
      BY <1>0, <3>1, LoginGoesOn DEF HoldsRow
    <3> QED BY <1>0, <2>9, <3>2 DEF ChangePassword, LoginInv, AccountPaired, TokensPaired
  <2>10. CASE Prove(t)
    <3>1. CASE Turns(t, [at |-> "changing"])
      BY <1>0, <3>1, <2>10, LoginGoesOn DEF Prove, HoldsRow, LoginInv, AccountPaired, TokensPaired
    <3>2. CASE Returns(t)
      BY <1>0, <3>2, <2>10, EndsIdle DEF Prove, LoginInv, AccountPaired, TokensPaired
    <3> QED BY <2>10, <3>1, <3>2 DEF Prove
  <2>11. CASE Change(t)
    <3>1. AccountPaired'
      BY <1>0, <2>11, SetTogether DEF Change
    <3>2. HandlersPaired'
      BY <1>0, <2>11, EndsIdle DEF Change
    <3> QED BY <1>0, <2>11, <3>1, <3>2 DEF Change, LoginInv, TokensPaired
  <2> QED BY <1>5, <2>1, <2>2, <2>3, <2>4, <2>5, <2>6, <2>7, <2>8, <2>9, <2>10, <2>11
<1>6. CASE UNCHANGED loginVars
  BY <1>0, <1>6 DEF loginVars, LoginInv, AccountPaired, HandlersPaired, TokensPaired
<1> QED BY <1>1, <1>2, <1>3, <1>4, <1>5, <1>6 DEF LoginNext

\* A token that is accepted was given for the password of today, however often
\* the password was changed between the check and the token (deps.py:80-92,
\* users.py:290-318).
THEOREM TokensAreOfToday == LoginSpec => []TokensFollowPassword
<1>1. LoginInv => TokensFollowPassword
  BY DEF LoginInv, AccountPaired, TokensPaired, Paired, TokensFollowPassword, Accepted
<1> QED BY <1>1, HoldsAtFirst, LoginStep, PTL DEF LoginSpec

-----------------------------------------------------------------------------
(* The throttle's table. *)

LEMMA LeastIs ==
  ASSUME NEW ns \in SUBSET Nat, ns # {}
  PROVE  Min(ns) \in ns /\ \A n \in ns : Min(ns) <= n
<1>1. \E m \in ns : \A n \in ns : ~(<<n, m>> \in OpToRel(<, Nat))
  BY NatLessThanWellFounded, WFMin
<1>2. PICK m \in ns : \A n \in ns : ~(<<n, m>> \in OpToRel(<, Nat))
  BY <1>1
<1>3. \A n \in ns : ~(n < m)
  BY <1>2 DEF OpToRel
<1>4. \E x \in ns : \A y \in ns : x <= y
  BY <1>3
<1> QED
  BY <1>4 DEF Min

Upto(ps, p) == {q \in ps : q <= p}

\* Places are counted off one by one.
LEMMA Ranked ==
  ASSUME NEW n \in Nat, NEW ps \in SUBSET (1..n)
  PROVE  /\ Cardinality(ps) \in 0..n
         /\ ps # 1..n => Cardinality(ps) < n
         /\ \A p \in ps : Cardinality(Upto(ps, p)) \in 1..Cardinality(ps)
         /\ \A p, q \in ps : Cardinality(Upto(ps, p)) = Cardinality(Upto(ps, q)) => p = q
         /\ \A k \in 1..Cardinality(ps) : \E p \in ps : Cardinality(Upto(ps, p)) = k
<1> DEFINE rank == [p \in ps |-> Cardinality(Upto(ps, p))]
<1>1. IsFiniteSet(1..n) /\ Cardinality(1..n) = n
  BY FS_Interval
<1>2. IsFiniteSet(ps) /\ Cardinality(ps) \in Nat /\ Cardinality(ps) <= n
      /\ (Cardinality(ps) = n => ps = 1..n)
  BY <1>1, FS_Subset, FS_CardinalityType
<1>3. ASSUME NEW p \in ps
      PROVE  /\ IsFiniteSet(Upto(ps, p)) /\ Upto(ps, p) \in SUBSET ps /\ p \in Upto(ps, p)
             /\ Cardinality(Upto(ps, p)) \in 1..Cardinality(ps)
  <2>1. Upto(ps, p) \in SUBSET ps /\ p \in Upto(ps, p)
    BY DEF Upto
  <2>2. IsFiniteSet(Upto(ps, p)) /\ Cardinality(Upto(ps, p)) <= Cardinality(ps)
    BY <1>2, <2>1, FS_Subset
  <2>3. Cardinality(Upto(ps, p)) \in Nat /\ Cardinality(Upto(ps, p)) # 0
    BY <2>1, <2>2, FS_CardinalityType, FS_EmptySet
  <2> QED
    BY <1>2, <2>1, <2>2, <2>3
<1>4. ASSUME NEW p \in ps, NEW q \in ps, p < q
      PROVE  Cardinality(Upto(ps, p)) # Cardinality(Upto(ps, q))
  <2>1. Upto(ps, p) \in SUBSET Upto(ps, q) /\ q \notin Upto(ps, p)
    <3>1. p \in Nat /\ q \in Nat /\ \A x \in ps : x \in Nat
      OBVIOUS
    <3>2. \A x \in ps : x <= p => x <= q
      BY <1>4, <3>1
    <3>3. ~(q <= p)
      BY <1>4, <3>1
    <3> QED
      BY <3>2, <3>3 DEF Upto
  <2>2. Upto(ps, p) # Upto(ps, q)
    BY <1>3, <2>1
  <2> QED
    BY <1>3, <2>1, <2>2, FS_Subset
<1>5. \A p, q \in ps : Cardinality(Upto(ps, p)) = Cardinality(Upto(ps, q)) => p = q
  BY <1>4
<1>6. rank \in Injection(ps, 1..Cardinality(ps))
  BY <1>3, <1>5 DEF Injection, IsInjective
<1>7. IsFiniteSet(1..Cardinality(ps)) /\ Cardinality(1..Cardinality(ps)) = Cardinality(ps)
  BY <1>2, FS_Interval
<1>8. rank \in Surjection(ps, 1..Cardinality(ps))
  BY <1>6, <1>7, FS_Injection
<1>9. \A k \in 1..Cardinality(ps) : \E p \in ps : Cardinality(Upto(ps, p)) = k
  BY <1>8 DEF Surjection
<1> QED
  BY <1>2, <1>3, <1>5, <1>9

\* What is at some places is what was there, each once.
LEMMA PlacedIs ==
  ASSUME NEW S, NEW es \in Seq(S), NEW ps \in SUBSET DOMAIN es
  PROVE  /\ AtPlaces(es, ps) \in Seq(S)
         /\ Len(AtPlaces(es, ps)) = Cardinality(ps) /\ DOMAIN AtPlaces(es, ps) = 1..Cardinality(ps)
         /\ Cardinality(ps) <= Len(es) /\ (ps # DOMAIN es => Cardinality(ps) < Len(es))
         /\ \E nth \in [1..Cardinality(ps) -> ps] :
              /\ \A i \in 1..Cardinality(ps) : AtPlaces(es, ps)[i] = es[nth[i]]
              /\ \A i, j \in 1..Cardinality(ps) : nth[i] = nth[j] => i = j
              /\ \A p \in ps : \E i \in 1..Cardinality(ps) : nth[i] = p
<1>0. PICK c : c = Cardinality(ps)
  OBVIOUS
<1> DEFINE nth == [n \in 1..c |-> CHOOSE p \in ps : Cardinality({q \in ps : q <= p}) = n]
<1>1. DOMAIN es = 1..Len(es) /\ Len(es) \in Nat /\ \A p \in ps : es[p] \in S
  OBVIOUS
<1>2. /\ c \in 0..Len(es)
      /\ ps # DOMAIN es => c < Len(es)
      /\ \A p \in ps : Cardinality({q \in ps : q <= p}) \in 1..c
      /\ \A p, q \in ps : Cardinality({x \in ps : x <= p}) = Cardinality({x \in ps : x <= q}) => p = q
      /\ \A k \in 1..c : \E p \in ps : Cardinality({q \in ps : q <= p}) = k
  BY <1>0, <1>1, Ranked DEF Upto
<1>3. \A n \in 1..c : nth[n] \in ps /\ Cardinality({q \in ps : q <= nth[n]}) = n
  BY <1>2
<1>4. nth \in [1..c -> ps] /\ \A i, j \in 1..c : nth[i] = nth[j] => i = j
  BY <1>3
<1>5. \A p \in ps : \E i \in 1..c : nth[i] = p
  BY <1>2, <1>3
<1>6. AtPlaces(es, ps) = [n \in 1..c |-> es[nth[n]]]
  BY <1>0 DEF AtPlaces
<1> HIDE DEF nth
<1>7. \A n \in 1..c : es[nth[n]] \in S
  BY <1>1, <1>4
<1>8. AtPlaces(es, ps) \in Seq(S) /\ Len(AtPlaces(es, ps)) = c /\ DOMAIN AtPlaces(es, ps) = 1..c
  BY <1>1, <1>2, <1>6, <1>7
<1>9. \A i \in 1..c : AtPlaces(es, ps)[i] = es[nth[i]]
  BY <1>6
<1>11. c <= Len(es) /\ (ps # DOMAIN es => c < Len(es))
  BY <1>1, <1>2
<1>12. AtPlaces(es, ps) \in Seq(S)
  BY <1>8
<1>13. Len(AtPlaces(es, ps)) = Cardinality(ps) /\ DOMAIN AtPlaces(es, ps) = 1..Cardinality(ps)
  BY <1>0, <1>8
<1>14. Cardinality(ps) <= Len(es) /\ (ps # DOMAIN es => Cardinality(ps) < Len(es))
  BY <1>0, <1>11
<1>15. \E f \in [1..Cardinality(ps) -> ps] :
        /\ \A i \in 1..Cardinality(ps) : AtPlaces(es, ps)[i] = es[f[i]]
        /\ \A i, j \in 1..Cardinality(ps) : f[i] = f[j] => i = j
        /\ \A p \in ps : \E i \in 1..Cardinality(ps) : f[i] = p
  <2>1. nth \in [1..Cardinality(ps) -> ps]
    BY <1>0, <1>4
  <2>2. /\ \A i \in 1..Cardinality(ps) : AtPlaces(es, ps)[i] = es[nth[i]]
        /\ \A i, j \in 1..Cardinality(ps) : nth[i] = nth[j] => i = j
        /\ \A p \in ps : \E i \in 1..Cardinality(ps) : nth[i] = p
    BY <1>0, <1>4, <1>5, <1>9
  <2> QED
    BY <2>1, <2>2
<1> QED
  BY <1>12, <1>13, <1>14, <1>15

LEMMA AppendIsLonger ==
  ASSUME NEW S, NEW es \in Seq(S), NEW e \in S
  PROVE  /\ Append(es, e) \in Seq(S) /\ Len(Append(es, e)) = Len(es) + 1
         /\ Append(es, e)[Len(es) + 1] = e /\ \A i \in DOMAIN es : Append(es, e)[i] = es[i]
OBVIOUS

Attempts == [key : Keys, failures : Nat, until : Nat, seen : Nat]
OneEach(es) == \A i, j \in DOMAIN es : es[i].key = es[j].key => i = j
Lasting(e) == e.seen <= clock /\ e.until <= e.seen + MaxDelay /\ (e.until > 0 => e.failures >= Threshold)
TableSound(es) == es \in Seq(Attempts) /\ OneEach(es) /\ \A i \in DOMAIN es : Lasting(es[i])

LEMMA TableTyped ==
  ASSUME NEW es, TableSound(es)
  PROVE  \A i \in DOMAIN es : i \in Nat /\ es[i] \in Attempts /\ es[i].until \in Nat
<1>1. es \in Seq(Attempts)
  BY DEF TableSound
<1>2. \A i \in DOMAIN es : es[i] \in Attempts /\ i \in Nat
  BY <1>1
<1> QED
  BY <1>2 DEF Attempts

\* What stands at some places of a sound table is sound.
LEMMA PlacedSound ==
  ASSUME NEW es, TableSound(es), NEW ps \in SUBSET DOMAIN es
  PROVE  /\ TableSound(AtPlaces(es, ps))
         /\ Len(AtPlaces(es, ps)) <= Len(es) /\ (ps # DOMAIN es => Len(AtPlaces(es, ps)) < Len(es))
         /\ \A i \in DOMAIN AtPlaces(es, ps) : \E p \in ps : AtPlaces(es, ps)[i] = es[p]
         /\ \A p \in ps : \E i \in DOMAIN AtPlaces(es, ps) : AtPlaces(es, ps)[i] = es[p]
<1>1. es \in Seq(Attempts)
  BY DEF TableSound
<1> DEFINE at == AtPlaces(es, ps)
           c == Cardinality(ps)
<1>2. /\ at \in Seq(Attempts) /\ Len(at) = c /\ DOMAIN at = 1..c
      /\ c <= Len(es) /\ (ps # DOMAIN es => c < Len(es))
  BY <1>1, PlacedIs
<1>3. PICK nth \in [1..c -> ps] :
        /\ \A i \in 1..c : at[i] = es[nth[i]]
        /\ \A i, j \in 1..c : nth[i] = nth[j] => i = j
        /\ \A p \in ps : \E i \in 1..c : nth[i] = p
  BY <1>1, PlacedIs
<1> HIDE DEF at, c
<1>4. \A i \in 1..c : nth[i] \in ps
  BY <1>3
<1>5. OneEach(at)
  BY <1>2, <1>3, <1>4 DEF TableSound, OneEach
<1>6. \A i \in DOMAIN at : Lasting(at[i])
  BY <1>2, <1>3, <1>4 DEF TableSound
<1>7. \A p \in ps : \E i \in DOMAIN at : at[i] = es[p]
  BY <1>2, <1>3
<1>8. \A i \in DOMAIN at : \E p \in ps : at[i] = es[p]
  BY <1>2, <1>3, <1>4
<1> QED
  BY <1>2, <1>5, <1>6, <1>7, <1>8 DEF TableSound, at

\* One more entry, of a key that has none.
LEMMA OneMoreSound ==
  ASSUME NEW es, TableSound(es), NEW e \in Attempts, Lasting(e), \A i \in DOMAIN es : es[i].key # e.key
  PROVE  /\ TableSound(Append(es, e))
         /\ Len(Append(es, e)) = Len(es) + 1 /\ Append(es, e)[Len(es) + 1] = e
         /\ DOMAIN Append(es, e) = 1..(Len(es) + 1)
         /\ \A i \in DOMAIN es : Append(es, e)[i] = es[i]
<1>1. es \in Seq(Attempts) /\ Len(es) \in Nat /\ DOMAIN es = 1..Len(es)
  BY DEF TableSound
<1>2. /\ Append(es, e) \in Seq(Attempts) /\ Len(Append(es, e)) = Len(es) + 1
      /\ Append(es, e)[Len(es) + 1] = e /\ \A i \in DOMAIN es : Append(es, e)[i] = es[i]
  BY <1>1, AppendIsLonger
<1>3. DOMAIN Append(es, e) = 1..(Len(es) + 1)
  BY <1>1, <1>2
<1>4. \A i \in 1..(Len(es) + 1) : i \in DOMAIN es \/ i = Len(es) + 1
  BY <1>1
<1>5. OneEach(Append(es, e))
  BY <1>2, <1>3, <1>4 DEF OneEach, TableSound
<1>6. \A i \in DOMAIN Append(es, e) : Lasting(Append(es, e)[i])
  BY <1>2, <1>3, <1>4 DEF TableSound
<1> QED
  BY <1>2, <1>3, <1>5, <1>6 DEF TableSound

\* The table without a key.
LEMMA OthersAre ==
  ASSUME TableSound(throttle), NEW k
  PROVE  /\ TableSound(Others(k)) /\ \A i \in DOMAIN Others(k) : Others(k)[i].key # k
         /\ Len(Others(k)) <= Len(throttle) /\ (Entry(k) # {} => Len(Others(k)) < Len(throttle))
         /\ \A i \in DOMAIN throttle : throttle[i].key # k =>
              \E j \in DOMAIN Others(k) : Others(k)[j] = throttle[i]
<1> DEFINE ps == {i \in DOMAIN throttle : throttle[i].key # k}
<1>1. ps \in SUBSET DOMAIN throttle /\ Others(k) = AtPlaces(throttle, ps)
  BY DEF Others
<1>2. Entry(k) # {} => ps # DOMAIN throttle
  BY DEF Entry
<1>3. \A p \in ps : throttle[p].key # k
  OBVIOUS
<1>4. \A i \in DOMAIN throttle : throttle[i].key # k => i \in ps
  OBVIOUS
<1> HIDE DEF ps
<1> QED
  BY <1>1, <1>2, <1>3, <1>4, PlacedSound

LEMMA EntryIs ==
  ASSUME TableSound(throttle), NEW k, NEW e \in Entry(k)
  PROVE  /\ Entry(k) = {e} /\ e \in Attempts /\ e.key = k /\ Lasting(e)
         /\ \E i \in DOMAIN throttle : throttle[i] = e
<1>1. PICK i \in DOMAIN throttle : throttle[i].key = k /\ throttle[i] = e
  BY DEF Entry
<1>2. \A j \in DOMAIN throttle : throttle[j].key = k => j = i
  BY <1>1 DEF TableSound, OneEach
<1>3. Entry(k) = {e}
  BY <1>1, <1>2 DEF Entry
<1>4. throttle[i] \in Attempts /\ Lasting(throttle[i])
  BY <1>1 DEF TableSound
<1> QED
  BY <1>1, <1>3, <1>4

LEMMA LesserOf ==
  ASSUME NEW a \in Nat, NEW b \in Nat
  PROVE  Min({a, b}) \in Nat /\ Min({a, b}) \in {a, b} /\ Min({a, b}) <= a /\ Min({a, b}) <= b
<1>1. {a, b} \in SUBSET Nat /\ {a, b} # {}
  OBVIOUS
<1> QED
  BY <1>1, LeastIs

LEMMA GreaterOf ==
  ASSUME NEW a \in Nat
  PROVE  Max({a} \cup {0}) = a /\ Max({} \cup {0}) = 0
<1>1. \A x \in {a} \cup {0} : (\A y \in {a} \cup {0} : x >= y) <=> x = a
  OBVIOUS
<1>2. \E x \in {a} \cup {0} : \A y \in {a} \cup {0} : x >= y
  BY <1>1
<1>3. Max({a} \cup {0}) = a
  BY <1>1, <1>2 DEF Max
<1>4. \A x \in {} \cup {0} : x = 0
  OBVIOUS
<1>5. \E x \in {} \cup {0} : \A y \in {} \cup {0} : x >= y
  OBVIOUS
<1>6. Max({} \cup {0}) = 0
  BY <1>4, <1>5 DEF Max
<1> QED
  BY <1>3, <1>6

LEMMA DelayIs ==
  ASSUME NEW f \in Nat, f >= Threshold
  PROVE  /\ Delay(f) \in Nat /\ Delay(f) <= MaxDelay
         /\ f > Threshold /\ Stall < 2 * BaseDelay => Delay(f) > Stall
<1> DEFINE n == f - Threshold
<1>1. /\ MaxDelay \in Nat /\ BaseDelay \in Nat /\ Threshold \in Nat /\ Stall \in Nat
      /\ Stall < MaxDelay /\ n \in Nat
  BY ThrottleAssumption
<1>2. CASE n >= 6
  BY <1>1, <1>2 DEF Delay
<1>3. CASE ~(n >= 6)
  <2>1. Delay(f) = Min({MaxDelay, BaseDelay * 2 ^ n})
    BY <1>3 DEF Delay
  <2>2. PICK d \in Nat : d = 2 ^ n /\ (n = 0 \/ d >= 2)
    <3>1. n \in {0, 1, 2, 3, 4, 5}
      BY <1>1, <1>3
    <3>2. 2 ^ 0 = 1 /\ 2 ^ 1 = 2 /\ 2 ^ 2 = 4 /\ 2 ^ 3 = 8 /\ 2 ^ 4 = 16 /\ 2 ^ 5 = 32
      OBVIOUS
    <3> HIDE DEF n
    <3>3. CASE n = 0
      BY <3>2, <3>3
    <3>4. CASE n = 1
      BY <3>2, <3>4
    <3>5. CASE n = 2
      BY <3>2, <3>5
    <3>6. CASE n = 3
      BY <3>2, <3>6
    <3>7. CASE n = 4
      BY <3>2, <3>7
    <3>8. CASE n = 5
      BY <3>2, <3>8
    <3> QED
      BY <3>1, <3>3, <3>4, <3>5, <3>6, <3>7, <3>8
  <2>3. BaseDelay * d \in Nat /\ (d >= 2 => BaseDelay * d >= 2 * BaseDelay)
    BY <1>1, <2>2
  <2>4. Delay(f) \in {MaxDelay, BaseDelay * d} /\ Delay(f) <= MaxDelay /\ Delay(f) \in Nat
    BY <1>1, <2>1, <2>2, <2>3, LesserOf
  <2>5. f > Threshold => n # 0
    BY <1>1
  <2> HIDE DEF n
  <2> QED
    BY <1>1, <2>2, <2>3, <2>4, <2>5
<1> QED
  BY <1>2, <1>3

\* One more failure: a second block in a row outlasts any wait for the lock.
LEMMA OnceMoreIs ==
  ASSUME TableSound(throttle), NEW k \in Keys, NEW stamp \in Nat, stamp <= clock
  PROVE  /\ OnceMore(k, stamp) \in Attempts /\ OnceMore(k, stamp).key = k
         /\ OnceMore(k, stamp).seen = stamp /\ Lasting(OnceMore(k, stamp))
         /\ Entry(k) = {} => OnceMore(k, stamp).until = 0
         /\ Stall < 2 * BaseDelay =>
              \A e \in Entry(k) : e.until > 0 => OnceMore(k, stamp).until > stamp + Stall
<1> DEFINE failed == Max({e.failures : e \in Entry(k)} \cup {0})
           before == Max({e.until : e \in Entry(k)} \cup {0})
           more == OnceMore(k, stamp)
<1>1. /\ failed \in Nat /\ before \in Nat
      /\ Entry(k) = {} => failed = 0 /\ before = 0
      /\ before > 0 => failed >= Threshold
      /\ \A e \in Entry(k) : before = e.until
  <2>1. CASE Entry(k) = {}
    <3>1. {e.failures : e \in Entry(k)} = {} /\ {e.until : e \in Entry(k)} = {}
      BY <2>1
    <3>2. failed = 0 /\ before = 0
      BY <3>1, GreaterOf
    <3> QED
      BY <2>1, <3>2
  <2>2. CASE Entry(k) # {}
    <3>1. PICK e \in Entry(k) : TRUE
      BY <2>2
    <3>2. Entry(k) = {e} /\ e \in Attempts /\ Lasting(e)
      BY EntryIs
    <3>3. {x.failures : x \in Entry(k)} = {e.failures} /\ {x.until : x \in Entry(k)} = {e.until}
      BY <3>2
    <3>4. e.failures \in Nat /\ e.until \in Nat
      BY <3>2 DEF Attempts
    <3>5. failed = e.failures /\ before = e.until
      BY <3>3, <3>4, GreaterOf
    <3> HIDE DEF failed, before
    <3> QED
      BY <3>2, <3>4, <3>5 DEF Lasting
  <2> QED
    BY <2>1, <2>2
<1> DEFINE f == 1 + failed
           until == IF f >= Threshold THEN stamp + Delay(f) ELSE before
<1>2. more = [key |-> k, failures |-> f, seen |-> stamp, until |-> until]
  BY DEF OnceMore
<1>3. Threshold \in Nat /\ Threshold >= 2 /\ MaxDelay \in Nat /\ Stall \in Nat
  BY ThrottleAssumption
<1> HIDE DEF failed, before, more
<1>4. f \in Nat /\ (before > 0 => f > Threshold)
  BY <1>1, <1>3
<1>5. f >= Threshold => /\ Delay(f) \in Nat /\ Delay(f) <= MaxDelay
                        /\ f > Threshold /\ Stall < 2 * BaseDelay => Delay(f) > Stall
  BY <1>4, DelayIs
<1>6. ~(f >= Threshold) => before = 0
  BY <1>1, <1>3, <1>4
<1> HIDE DEF f
<1>7. until \in Nat /\ until <= stamp + MaxDelay /\ (until > 0 => f >= Threshold)
  BY <1>1, <1>3, <1>4, <1>5, <1>6
<1>8. Entry(k) = {} => until = 0
  BY <1>1, <1>3, <1>4 DEF f
<1>9. Stall < 2 * BaseDelay => \A e \in Entry(k) : e.until > 0 => until > stamp + Stall
  BY <1>1, <1>3, <1>4, <1>5
<1> HIDE DEF until
<1>10. more \in Attempts /\ more.key = k /\ more.seen = stamp /\ more.until = until /\ more.failures = f
  BY <1>2, <1>4, <1>7 DEF Attempts
<1> QED
  BY <1>7, <1>8, <1>9, <1>10 DEF Lasting, more

\* What is still blocked at the stamp of the newest is younger than what expires.
LEMMA UnexpiredKeeps ==
  ASSUME NEW es, TableSound(es), NEW stamp \in Nat, Len(es) > 0, es[Len(es)].seen = stamp
  PROVE  /\ TableSound(Unexpired(es, stamp))
         /\ Len(Unexpired(es, stamp)) \in 1..Len(es)
         /\ Unexpired(es, stamp)[Len(Unexpired(es, stamp))] = es[Len(es)]
         /\ \A i \in DOMAIN es : es[i].until > stamp =>
              \E j \in DOMAIN Unexpired(es, stamp) : Unexpired(es, stamp)[j] = es[i]
<1> DEFINE young == {i \in DOMAIN es : es[i].seen >= stamp - EntryTtl}
           u == Min(young)
           n == Len(es)
           us == Unexpired(es, stamp)
<1>1. es \in Seq(Attempts) /\ n \in Nat /\ DOMAIN es = 1..n /\ EntryTtl \in Nat /\ MaxDelay \in Nat /\ MaxDelay <= EntryTtl
  BY ThrottleAssumption DEF TableSound
<1>2. n \in young /\ young \in SUBSET (1..n)
  BY <1>1
<1>3. u \in young /\ u \in 1..n /\ \A i \in young : u <= i
  <2> HIDE DEF young
  <2>1. young \in SUBSET Nat /\ young # {}
    BY <1>2
  <2> QED
    BY <1>2, <2>1, LeastIs
<1>4. us = SubSeq(es, u, n)
  BY <1>2 DEF Unexpired
<1>5. \A i \in 1..n : es[i].until > stamp => i \in young
  <2> SUFFICES ASSUME NEW i \in 1..n, es[i].until > stamp PROVE es[i].seen >= stamp - EntryTtl
    BY <1>1
  <2>1. es[i] \in Attempts /\ Lasting(es[i])
    BY <1>1 DEF TableSound
  <2>2. es[i].until \in Nat /\ es[i].seen \in Nat /\ es[i].until <= es[i].seen + MaxDelay
    BY <2>1 DEF Attempts, Lasting
  <2> QED
    BY <1>1, <2>2
<1> HIDE DEF young, u, n, us
<1>6. us \in Seq(Attempts) /\ Len(us) = n - u + 1 /\ \A j \in 1..(n - u + 1) : us[j] = es[u + j - 1]
  <2> DEFINE s == SubSeq(es, u, n)
  <2>1. s \in Seq(Attempts) /\ Len(s) = n - u + 1 /\ \A j \in 1..(n - u + 1) : s[j] = es[u + j - 1]
    BY <1>1, <1>3 DEF n
  <2> QED
    BY <1>4, <2>1
<1>7. DOMAIN us = 1..(n - u + 1)
  BY <1>6
<1>8. OneEach(us)
  <2> SUFFICES ASSUME NEW i \in 1..(n - u + 1), NEW j \in 1..(n - u + 1), us[i].key = us[j].key PROVE i = j
    BY <1>7 DEF OneEach
  <2> DEFINE k == u + i - 1
             l == u + j - 1
  <2>1. k \in 1..n /\ l \in 1..n /\ us[i] = es[k] /\ us[j] = es[l]
    BY <1>1, <1>3, <1>6
  <2> HIDE DEF k, l
  <2>2. k = l
    BY <1>1, <2>1 DEF TableSound, OneEach
  <2> QED
    BY <1>1, <1>3, <2>2 DEF k, l
<1>9. \A i \in DOMAIN us : Lasting(us[i])
  <2> SUFFICES ASSUME NEW i \in 1..(n - u + 1) PROVE Lasting(us[i])
    BY <1>7
  <2> DEFINE k == u + i - 1
  <2>1. k \in 1..n /\ us[i] = es[k]
    BY <1>1, <1>3, <1>6
  <2> HIDE DEF k
  <2> QED
    BY <1>1, <2>1 DEF TableSound
<1>10. \A i \in 1..n : es[i].until > stamp => \E j \in DOMAIN us : us[j] = es[i]
  <2> SUFFICES ASSUME NEW i \in 1..n, es[i].until > stamp PROVE \E j \in DOMAIN us : us[j] = es[i]
    OBVIOUS
  <2> DEFINE k == i - u + 1
  <2>1. u <= i
    BY <1>3, <1>5
  <2>2. k \in 1..(n - u + 1) /\ u + k - 1 = i
    BY <1>1, <1>3, <2>1
  <2> HIDE DEF k
  <2> QED
    BY <1>6, <1>7, <2>2
<1>11. Len(us) \in 1..n /\ us[Len(us)] = es[n]
  <2> DEFINE k == n - u + 1
  <2>1. k \in 1..(n - u + 1) /\ u + k - 1 = n /\ k \in 1..n
    BY <1>1, <1>3
  <2>2. Len(us) = k
    BY <1>6
  <2> HIDE DEF k
  <2> QED
    BY <1>6, <2>1, <2>2
<1> QED
  BY <1>1, <1>6, <1>8, <1>9, <1>10, <1>11 DEF TableSound, us, n

\* One too many at most, and the newest may go: what is blocked stays.
LEMMA EvictedKeeps ==
  ASSUME NEW us, TableSound(us), NEW stamp \in Nat,
         Len(us) <= MaxEntries \/ (Len(us) = MaxEntries + 1 /\ us[Len(us)].until <= stamp)
  PROVE  /\ TableSound(EvictedToCap(us, stamp)) /\ Len(EvictedToCap(us, stamp)) <= MaxEntries
         /\ \A i \in DOMAIN us : us[i].until > stamp =>
              \E j \in DOMAIN EvictedToCap(us, stamp) : EvictedToCap(us, stamp)[j] = us[i]
<1> DEFINE excess == Len(us) - MaxEntries
           free == {i \in DOMAIN us : us[i].until <= stamp}
           out == {i \in free : Cardinality({j \in free : j < i}) < excess}
           ps == DOMAIN us \ out
<1>1. us \in Seq(Attempts) /\ Len(us) \in Nat /\ DOMAIN us = 1..Len(us) /\ MaxEntries \in Nat /\ MaxEntries > 0
  BY ThrottleAssumption DEF TableSound
<1>2. EvictedToCap(us, stamp) = AtPlaces(us, ps) /\ ps \in SUBSET DOMAIN us
  BY DEF EvictedToCap
<1>8. free \in SUBSET Nat /\ \A i \in DOMAIN us : us[i].until \in Nat
  <2> HIDE DEF excess, free, out, ps
  <2>1. \A i \in DOMAIN us : us[i].until \in Nat /\ i \in Nat
    BY TableTyped
  <2> QED
    BY <2>1 DEF free
<1>3. Len(us) > MaxEntries => ps # DOMAIN us
  <2> SUFFICES ASSUME Len(us) > MaxEntries PROVE out # {}
    OBVIOUS
  <2>0. Len(us) = MaxEntries + 1 /\ us[Len(us)].until <= stamp /\ Len(us) \in DOMAIN us
    <3> HIDE DEF excess, free, out, ps
    <3>3. Len(us) \in Nat /\ MaxEntries \in Nat
      BY <1>1
    <3>4. ~(Len(us) <= MaxEntries)
      BY <3>3
    <3>1. Len(us) = MaxEntries + 1 /\ us[Len(us)].until <= stamp
      BY <3>4
    <3>2. Len(us) \in 1..Len(us)
      BY <3>1, <3>3
    <3> QED
      BY <1>1, <3>1, <3>2
  <2>7. Len(us) \in free
    BY <2>0
  <2>6. excess = 1
    <3> HIDE DEF free, out, ps
    <3>1. MaxEntries \in Nat
      BY <1>1
    <3> QED
      BY <2>0, <3>1
  <2>1. excess = 1 /\ Len(us) \in free
    BY <2>6, <2>7
  <2> DEFINE least == Min(free)
  <2> HIDE DEF free
  <2>2. least \in free /\ \A i \in free : least <= i
    BY <1>8, <2>1, LeastIs
  <2> HIDE DEF least
  <2>3. ASSUME NEW j \in free PROVE ~(j < least)
    <3>1. least \in Nat /\ j \in Nat /\ least <= j
      BY <1>8, <2>2
    <3> QED
      BY <3>1
  <2>4. {j \in free : j < least} = {}
    BY <2>3
  <2>5. Cardinality({j \in free : j < least}) = 0
    BY <2>4, FS_EmptySet
  <2> HIDE DEF excess
  <2> QED
    BY <2>1, <2>2, <2>5
<1>4. \A i \in DOMAIN us : us[i].until > stamp => i \in ps
  <2> SUFFICES ASSUME NEW i \in DOMAIN us, us[i].until > stamp PROVE i \notin free
    OBVIOUS
  <2>1. us[i].until \in Nat
    BY <1>8
  <2> QED
    BY <2>1
<1> HIDE DEF ps
<1>5. /\ TableSound(AtPlaces(us, ps))
      /\ Len(AtPlaces(us, ps)) <= Len(us) /\ (ps # DOMAIN us => Len(AtPlaces(us, ps)) < Len(us))
      /\ \A p \in ps : \E i \in DOMAIN AtPlaces(us, ps) : AtPlaces(us, ps)[i] = us[p]
  BY <1>2, PlacedSound
<1>6. Len(AtPlaces(us, ps)) \in Nat
  BY <1>5 DEF TableSound
<1>7. Len(AtPlaces(us, ps)) <= MaxEntries
  <2> DEFINE n == Len(us)
             m == Len(AtPlaces(us, ps))
  <2>1. /\ n \in Nat /\ m \in Nat /\ MaxEntries \in Nat
        /\ m <= n /\ (n <= MaxEntries \/ n = MaxEntries + 1) /\ (n > MaxEntries => m < n)
    BY <1>1, <1>3, <1>5, <1>6
  <2> HIDE DEF n, m
  <2>2. m <= MaxEntries
    BY <2>1
  <2> QED
    BY <2>2 DEF m
<1> QED
  BY <1>2, <1>4, <1>5, <1>7

\* What a recorded failure leaves of the table.
LEMMA RecordedKeeps ==
  ASSUME TableSound(throttle), Len(throttle) <= MaxEntries, NEW k \in Keys, NEW stamp \in Nat, stamp <= clock
  PROVE  /\ TableSound(Recorded(k, stamp)) /\ Len(Recorded(k, stamp)) <= MaxEntries
         /\ \A i \in DOMAIN throttle : throttle[i].key # k /\ throttle[i].until > stamp =>
              \E j \in DOMAIN Recorded(k, stamp) : Recorded(k, stamp)[j] = throttle[i]
         /\ OnceMore(k, stamp).until > stamp =>
              \E j \in DOMAIN Recorded(k, stamp) : Recorded(k, stamp)[j] = OnceMore(k, stamp)
<1> DEFINE more == OnceMore(k, stamp)
           rest == Others(k)
           es == Append(rest, more)
           us == Unexpired(es, stamp)
           n == Len(rest) + 1
<1>1. /\ TableSound(rest) /\ \A i \in DOMAIN rest : rest[i].key # k
      /\ Len(rest) <= Len(throttle) /\ (Entry(k) # {} => Len(rest) < Len(throttle))
      /\ \A i \in DOMAIN throttle : throttle[i].key # k => \E j \in DOMAIN rest : rest[j] = throttle[i]
  BY OthersAre
<1>2. /\ more \in Attempts /\ more.key = k /\ more.seen = stamp /\ Lasting(more)
      /\ Entry(k) = {} => more.until = 0
  BY OnceMoreIs
<1>3. Len(rest) \in Nat /\ Len(throttle) \in Nat /\ MaxEntries \in Nat /\ DOMAIN rest = 1..Len(rest)
  BY <1>1, ThrottleAssumption DEF TableSound
<1> HIDE DEF more, rest
<1>4. /\ TableSound(es) /\ Len(es) = n /\ es[n] = more /\ DOMAIN es = 1..n
      /\ \A i \in DOMAIN rest : es[i] = rest[i]
  BY <1>1, <1>2, OneMoreSound
<1>12. n \in Nat /\ n > 0
  BY <1>3
<1> HIDE DEF es, n
<1>13. Len(es) > 0 /\ es[Len(es)] = more /\ es[Len(es)].seen = stamp
  BY <1>2, <1>4, <1>12
<1>5. /\ TableSound(us) /\ Len(us) \in 1..n /\ us[Len(us)] = more
      /\ \A i \in DOMAIN es : es[i].until > stamp => \E j \in DOMAIN us : us[j] = es[i]
  <2>1. TableSound(es)
    BY <1>4
  <2>2. /\ TableSound(us) /\ Len(us) \in 1..Len(es) /\ us[Len(us)] = es[Len(es)]
        /\ \A i \in DOMAIN es : es[i].until > stamp => \E j \in DOMAIN us : us[j] = es[i]
    BY <1>13, <2>1, UnexpiredKeeps
  <2> QED
    BY <1>4, <1>13, <2>2
<1> HIDE DEF us
<1>6. Len(us) <= MaxEntries \/ (Len(us) = MaxEntries + 1 /\ us[Len(us)].until <= stamp)
  <2>1. CASE Entry(k) = {}
    BY <1>1, <1>2, <1>3, <1>5, <2>1 DEF n
  <2>2. CASE Entry(k) # {}
    BY <1>1, <1>3, <1>5, <2>2 DEF n
  <2> QED
    BY <2>1, <2>2
<1>7. /\ TableSound(EvictedToCap(us, stamp)) /\ Len(EvictedToCap(us, stamp)) <= MaxEntries
      /\ \A i \in DOMAIN us : us[i].until > stamp =>
           \E j \in DOMAIN EvictedToCap(us, stamp) : EvictedToCap(us, stamp)[j] = us[i]
  BY <1>5, <1>6, EvictedKeeps
<1>8. Recorded(k, stamp) = EvictedToCap(us, stamp)
  BY DEF Recorded, us, es, rest, more
<1>9. \A i \in 1..n : es[i].until > stamp => \E j \in DOMAIN Recorded(k, stamp) : Recorded(k, stamp)[j] = es[i]
  BY <1>4, <1>5, <1>7, <1>8
<1>10. \A i \in DOMAIN throttle : throttle[i].key # k => \E j \in 1..n : es[j] = throttle[i]
  BY <1>1, <1>3, <1>4, <1>12 DEF n
<1>11. n \in 1..n
  BY <1>12
<1> QED
  BY <1>4, <1>7, <1>8, <1>9, <1>10, <1>11 DEF more
-----------------------------------------------------------------------------
(* The handlers. *)

Keyed == {"checking", "refusing", "looking", "failing", "recording", "clearing"}
StepSound(step) ==
  /\ step.at \in Steps
  /\ step.at \in Keyed => step.key \in Keys
  /\ step.at = "recording" => step.stamp \in Nat /\ step.stamp <= clock /\ clock <= step.stamp + Stall
HandlersSound == DOMAIN thread = Threads /\ \A t \in Threads : StepSound(thread[t])
Measured == bound \in Bounds /\ clock \in 0..bound.time
ThrottleInv == Measured /\ TableSound(throttle) /\ Len(throttle) <= MaxEntries /\ HandlersSound

LEMMA ClockIsNat == ASSUME Measured PROVE clock \in Nat /\ bound.time \in Nat
BY ThrottleAssumption DEF Measured

LEMMA StepsOn ==
  ASSUME ThrottleInv, NEW t \in Threads, NEW step, Turns(t, step), StepSound(step), UNCHANGED <<bound, clock>>
  PROVE  (Measured /\ HandlersSound)'
<1>1. DOMAIN thread' = Threads /\ \A u \in Threads : thread'[u] = IF u = t THEN step ELSE thread[u]
  BY DEF ThrottleInv, HandlersSound, Turns
<1>2. \A u \in Threads : StepSound(thread'[u])
  BY <1>1 DEF ThrottleInv, HandlersSound
<1>3. \A u \in Threads : StepSound(thread[u])'
  BY <1>2 DEF StepSound
<1> QED
  BY <1>1, <1>3 DEF ThrottleInv, HandlersSound, Measured

LEMMA TableStays ==
  ASSUME ThrottleInv, UNCHANGED <<clock, throttle>>
  PROVE  (TableSound(throttle) /\ Len(throttle) <= MaxEntries)'
BY DEF ThrottleInv, TableSound, OneEach, Lasting

LEMMA IdleIsSound == StepSound(Idle)
BY DEF StepSound, Idle, Steps, Keyed

LEMMA TableBecomes ==
  ASSUME NEW es, TableSound(es), Len(es) <= MaxEntries, throttle' = es, clock' = clock
  PROVE  (TableSound(throttle) /\ Len(throttle) <= MaxEntries)'
BY DEF TableSound, OneEach, Lasting

LEMMA OthersFit == ASSUME ThrottleInv, NEW k PROVE TableSound(Others(k)) /\ Len(Others(k)) <= MaxEntries
<1>1. TableSound(throttle) /\ Len(throttle) <= MaxEntries
  BY DEF ThrottleInv
<1>2. TableSound(Others(k)) /\ Len(Others(k)) <= Len(throttle)
  BY <1>1, OthersAre
<1>3. Len(Others(k)) \in Nat /\ Len(throttle) \in Nat /\ MaxEntries \in Nat
  BY <1>1, <1>2, ThrottleAssumption DEF TableSound
<1> QED
  BY <1>1, <1>2, <1>3

\* A refused attempt moves its entry to the end.
LEMMA RefusedIs ==
  ASSUME ThrottleInv, NEW k, NEW e \in Entry(k)
  PROVE  LET es == Append(Others(k), [e EXCEPT !.seen = clock]) IN
         /\ TableSound(es) /\ Len(es) <= MaxEntries
         /\ \A i \in DOMAIN Others(k) : i \in DOMAIN es /\ es[i] = Others(k)[i]
         /\ Len(es) \in DOMAIN es /\ es[Len(es)] = [e EXCEPT !.seen = clock]
<1> DEFINE new == [e EXCEPT !.seen = clock]
<1>1. TableSound(throttle) /\ Len(throttle) <= MaxEntries /\ clock \in Nat
  BY ClockIsNat DEF ThrottleInv
<1>2. e \in Attempts /\ e.key = k /\ Lasting(e)
  BY <1>1, EntryIs
<1>3. new \in Attempts /\ new.key = k /\ new.until = e.until /\ Lasting(new)
  <2>1. /\ e.seen \in Nat /\ e.until \in Nat /\ e.failures \in Nat /\ MaxDelay \in Nat
        /\ e.seen <= clock /\ e.until <= e.seen + MaxDelay /\ (e.until > 0 => e.failures >= Threshold)
    BY <1>2, ThrottleAssumption DEF Attempts, Lasting
  <2>2. new \in Attempts /\ new.key = k /\ new.seen = clock /\ new.until = e.until /\ new.failures = e.failures
    BY <1>1, <1>2 DEF Attempts
  <2> HIDE DEF new
  <2> QED
    BY <1>1, <2>1, <2>2 DEF Lasting
<1>4. /\ TableSound(Others(k)) /\ \A i \in DOMAIN Others(k) : Others(k)[i].key # k
      /\ Len(Others(k)) < Len(throttle)
  BY <1>1, OthersAre
<1>5. /\ Len(Others(k)) \in Nat /\ Len(throttle) \in Nat /\ MaxEntries \in Nat
      /\ DOMAIN Others(k) = 1..Len(Others(k))
  BY <1>1, <1>4, ThrottleAssumption DEF TableSound
<1> HIDE DEF new
<1>6. /\ TableSound(Append(Others(k), new))
      /\ Len(Append(Others(k), new)) = Len(Others(k)) + 1 /\ Append(Others(k), new)[Len(Others(k)) + 1] = new
      /\ DOMAIN Append(Others(k), new) = 1..(Len(Others(k)) + 1)
      /\ \A i \in DOMAIN Others(k) : Append(Others(k), new)[i] = Others(k)[i]
  BY <1>3, <1>4, OneMoreSound
<1>7. Len(Append(Others(k), new)) <= MaxEntries
  BY <1>1, <1>4, <1>5, <1>6
<1>8. \A i \in DOMAIN Others(k) : i \in DOMAIN Append(Others(k), new)
  BY <1>5, <1>6
<1>9. Len(Others(k)) + 1 \in DOMAIN Append(Others(k), new)
  BY <1>5, <1>6
<1> QED
  BY <1>6, <1>7, <1>8, <1>9 DEF new

LEMMA ThrottleAtFirst == LoginInit => ThrottleInv
<1> SUFFICES ASSUME LoginInit PROVE ThrottleInv
  OBVIOUS
<1>1. Measured
  BY ThrottleAssumption DEF LoginInit, Measured
<1>2. TableSound(throttle) /\ Len(throttle) <= MaxEntries
  BY ThrottleAssumption DEF LoginInit, TableSound, OneEach
<1>3. HandlersSound
  BY IdleIsSound DEF LoginInit, HandlersSound
<1> QED
  BY <1>1, <1>2, <1>3 DEF ThrottleInv

LEMMA ThrottleStep == ThrottleInv /\ [LoginNext]_loginVars => ThrottleInv'
<1> SUFFICES ASSUME ThrottleInv, [LoginNext]_loginVars PROVE ThrottleInv'
  OBVIOUS
<1>1. CASE UNCHANGED loginVars
  BY <1>1 DEF loginVars, ThrottleInv, Measured, TableSound, OneEach, Lasting, HandlersSound, StepSound
<1>2. CASE ResetPassword \/ SetActive
  BY <1>2 DEF ResetPassword, SetActive, ThrottleInv, Measured, TableSound, OneEach, Lasting, HandlersSound, StepSound
<1>3. CASE ClockTick
  <2>1. clock \in Nat /\ bound.time \in Nat /\ Measured
    BY ClockIsNat DEF ThrottleInv
  <2>2. Measured'
    BY <1>3, <2>1 DEF ClockTick, Measured
  <2>3. ASSUME NEW t \in Threads PROVE StepSound(thread[t])'
    <3> DEFINE step == thread[t]
    <3>1. StepSound(step) /\ clock' = clock + 1 /\ (step.at = "recording" => clock' - step.stamp <= Stall)
          /\ thread'[t] = step
      BY <1>3 DEF ClockTick, ThrottleInv, HandlersSound
    <3>2. Stall \in Nat
      BY ThrottleAssumption
    <3> HIDE DEF step
    <3>3. step.at = "recording" => step.stamp \in Nat /\ step.stamp <= clock' /\ clock' <= step.stamp + Stall
      BY <2>1, <3>1, <3>2 DEF StepSound
    <3> QED
      BY <3>1, <3>3 DEF StepSound
  <2>4. HandlersSound'
    BY <1>3, <2>3 DEF ClockTick, ThrottleInv, HandlersSound
  <2>5. \A i \in DOMAIN throttle : Lasting(throttle[i])'
    <3>1. \A i \in DOMAIN throttle : throttle[i] \in Attempts /\ Lasting(throttle[i])
      BY DEF ThrottleInv, TableSound
    <3>2. \A i \in DOMAIN throttle : throttle[i].seen \in Nat
      BY <3>1 DEF Attempts
    <3> QED
      BY <1>3, <2>1, <3>1, <3>2 DEF ClockTick, Lasting
  <2>6. (TableSound(throttle) /\ Len(throttle) <= MaxEntries)'
    BY <1>3, <2>5 DEF ClockTick, ThrottleInv, TableSound, OneEach
  <2> QED
    BY <2>2, <2>4, <2>6 DEF ThrottleInv
<1>4. CASE Restart
  <2>1. Measured' /\ HandlersSound'
    <3>1. \A t \in Threads : thread'[t] = Idle
      BY <1>4 DEF Restart
    <3>2. StepSound(Idle)'
      BY DEF StepSound, Idle, Steps, Keyed
    <3>3. \A t \in Threads : StepSound(thread[t])'
      BY <3>1, <3>2
    <3> QED
      BY <1>4, <3>3 DEF Restart, ThrottleInv, Measured, HandlersSound
  <2>2. (TableSound(throttle) /\ Len(throttle) <= MaxEntries)'
    BY <1>4, ThrottleAssumption DEF Restart, TableSound, OneEach
  <2> QED
    BY <2>1, <2>2 DEF ThrottleInv
<1>5. ASSUME NEW t \in Threads,
             Login(t) \/ Check(t) \/ Refuse(t) \/ Look(t) \/ Stamp(t) \/ RecordFailure(t)
             \/ RecordSuccess(t) \/ Issue(t) \/ ChangePassword(t) \/ Prove(t) \/ Change(t)
      PROVE  ThrottleInv'
  <2>1. StepSound(thread[t]) /\ clock \in Nat /\ Stall \in Nat
    BY ClockIsNat, ThrottleAssumption DEF ThrottleInv, HandlersSound
  <2>2. UNCHANGED <<bound, clock>>
    BY <1>5 DEF Login, Check, Refuse, Look, Stamp, RecordFailure, RecordSuccess, Issue, ChangePassword, Prove, Change
  <2>3. (Measured /\ HandlersSound)'
    <3>1. CASE Login(t)
      <4>1. PICK k \in Keys, guess \in Guesses : Turns(t, [at |-> "checking", key |-> k, guess |-> guess])
        BY <3>1 DEF Login
      <4> QED
        BY <2>2, <4>1, StepsOn DEF StepSound, Steps, Keyed
    <3>2. CASE Check(t)
      <4> DEFINE next == IF Blocked(thread[t].key) THEN "refusing" ELSE "looking"
                 step == [thread[t] EXCEPT !.at = next]
      <4>1. Turns(t, step) /\ thread[t].at = "checking"
        BY <3>2 DEF Check
      <4>2. next \in {"refusing", "looking"}
        OBVIOUS
      <4> HIDE DEF next
      <4>3. step.at = next /\ step.key = thread[t].key
        BY <4>1
      <4>4. StepSound(step)
        BY <2>1, <4>1, <4>2, <4>3 DEF StepSound, Steps, Keyed
      <4> QED
        BY <2>2, <4>1, <4>4, StepsOn
    <3>3. CASE Refuse(t) \/ RecordFailure(t) \/ Issue(t) \/ Change(t)
      BY <2>2, <3>3, StepsOn, IdleIsSound DEF Refuse, RecordFailure, Issue, Change, Returns, Turns
    <3>4. CASE Look(t)
      BY <2>1, <2>2, <3>4, StepsOn DEF Look, StepSound, Steps, Keyed
    <3>5. CASE Stamp(t)
      <4>1. StepSound([at |-> "recording", key |-> thread[t].key, stamp |-> clock])
        BY <2>1, <3>5 DEF Stamp, StepSound, Steps, Keyed
      <4> QED
        BY <2>2, <3>5, <4>1, StepsOn DEF Stamp
    <3>6. CASE RecordSuccess(t)
      BY <2>1, <2>2, <3>6, StepsOn DEF RecordSuccess, StepSound, Steps, Keyed
    <3>7. CASE ChangePassword(t)
      <4>1. PICK guess \in Guesses : Turns(t, [at |-> "proving", guess |-> guess])
        BY <3>7 DEF ChangePassword
      <4> QED
        BY <2>2, <4>1, StepsOn DEF StepSound, Steps, Keyed
    <3>8. CASE Prove(t)
      BY <2>2, <3>8, StepsOn, IdleIsSound DEF Prove, Returns, Turns, StepSound, Steps, Keyed
    <3> QED
      BY <1>5, <3>1, <3>2, <3>3, <3>4, <3>5, <3>6, <3>7, <3>8
  <2>4. (TableSound(throttle) /\ Len(throttle) <= MaxEntries)'
    <3>1. CASE RecordFailure(t)
      <4>1. /\ thread[t].key \in Keys /\ thread[t].stamp \in Nat /\ thread[t].stamp <= clock
            /\ throttle' = Recorded(thread[t].key, thread[t].stamp)
        BY <2>1, <3>1 DEF RecordFailure, StepSound, Keyed
      <4>2. TableSound(Recorded(thread[t].key, thread[t].stamp))
            /\ Len(Recorded(thread[t].key, thread[t].stamp)) <= MaxEntries
        BY <4>1, RecordedKeeps DEF ThrottleInv
      <4> QED
        BY <2>2, <4>1, <4>2, TableBecomes
    <3>2. CASE RecordSuccess(t)
      BY <2>2, <3>2, OthersFit, TableBecomes DEF RecordSuccess
    <3>3. CASE Refuse(t)
      BY <2>2, <3>3, TableStays, RefusedIs, TableBecomes DEF Refuse
    <3>4. CASE UNCHANGED throttle
      BY <2>2, <3>4, TableStays
    <3> QED
      BY <1>5, <3>1, <3>2, <3>3, <3>4 DEF Login, Check, Look, Stamp, Issue, ChangePassword, Prove, Change
  <2> QED
    BY <2>3, <2>4 DEF ThrottleInv
<1> QED
  BY <1>1, <1>2, <1>3, <1>4, <1>5 DEF LoginNext

\* The table never holds more entries than its cap, however many keys are blocked:
\* a table at the cap that takes a new key takes it unblocked, and with a threshold
\* above one that key makes room itself if every other is blocked
\* (auth.py:169-227).  The comment there calls the cap soft.
THEOREM CapStaysHard == LoginSpec => []CapIsHard
<1>1. ThrottleInv => CapIsHard
  BY DEF ThrottleInv, CapIsHard
<1> QED
  BY <1>1, ThrottleAtFirst, ThrottleStep, PTL DEF LoginSpec

Stands(k, entries, time) == \E e \in {entries[i] : i \in DOMAIN entries} : e.key = k /\ e.until > time
Succeeds(k) == \E t \in Threads : thread[t].at = "clearing" /\ thread[t].key = k /\ thread'[t].at = "issuing"

\* A failure of any key leaves what is blocked, provided a second block outlasts
\* the wait for the lock.
LEMMA FailuresLiftNothing ==
  ASSUME Stall < 2 * BaseDelay, ThrottleInv, NEW t \in Threads, RecordFailure(t), NEW k \in Keys, Blocked(k)
  PROVE  Stands(k, throttle', clock)
<1> DEFINE kk == thread[t].key
           stamp == thread[t].stamp
           es == Recorded(kk, stamp)
           more == OnceMore(kk, stamp)
<1>1. /\ kk \in Keys /\ stamp \in Nat /\ stamp <= clock /\ clock <= stamp + Stall /\ throttle' = es
      /\ clock \in Nat /\ Stall \in Nat
  <2>1. StepSound(thread[t]) /\ Measured
    BY DEF ThrottleInv, HandlersSound
  <2>2. thread[t].at = "recording" /\ throttle' = es
    BY DEF RecordFailure
  <2>3. /\ thread[t].key \in Keys /\ thread[t].stamp \in Nat
        /\ thread[t].stamp <= clock /\ clock <= thread[t].stamp + Stall
    BY <2>1, <2>2 DEF StepSound, Keyed
  <2>4. clock \in Nat /\ Stall \in Nat
    BY <2>1, ClockIsNat, ThrottleAssumption
  <2> HIDE DEF es
  <2> QED
    BY <2>2, <2>3, <2>4
<1> HIDE DEF kk, stamp
<1>2. TableSound(throttle) /\ Len(throttle) <= MaxEntries
  BY DEF ThrottleInv
<1>3. PICK e \in Entry(k) : e.until > clock
  BY DEF Blocked
<1>4. /\ Entry(k) = {e} /\ e.key = k /\ e.until \in Nat
      /\ \E i \in DOMAIN throttle : throttle[i] = e
  BY <1>2, EntryIs DEF Attempts
<1>5. /\ \A i \in DOMAIN throttle : throttle[i].key # kk /\ throttle[i].until > stamp =>
           \E j \in DOMAIN es : es[j] = throttle[i]
      /\ more.until > stamp => \E j \in DOMAIN es : es[j] = more
  BY <1>1, <1>2, RecordedKeeps
<1> HIDE DEF es
<1>6. CASE kk # k
  <2>1. e.until > stamp
    BY <1>1, <1>3, <1>4
  <2>2. \E j \in DOMAIN es : es[j] = e
    BY <1>4, <1>5, <1>6, <2>1
  <2> QED
    BY <1>1, <1>3, <1>4, <2>2 DEF Stands
<1>7. CASE kk = k
  <2>1. e.until > 0
    BY <1>1, <1>3, <1>4
  <2>2. more.until > stamp + Stall /\ more.key = k /\ more.until \in Nat
    BY <1>1, <1>2, <1>7, <2>1, OnceMoreIs DEF Attempts
  <2> HIDE DEF more
  <2>3. more.until > stamp /\ more.until > clock
    BY <1>1, <2>2
  <2>4. \E j \in DOMAIN es : es[j] = more
    BY <1>5, <2>3
  <2> QED
    BY <1>1, <2>2, <2>3, <2>4 DEF Stands
<1> QED
  BY <1>6, <1>7

\* What stands in the others' part of the table stands after it was rewritten.
LEMMA OthersStand ==
  ASSUME ThrottleInv, NEW k \in Keys, Blocked(k), NEW kk, kk # k,
         NEW es, \A i \in DOMAIN Others(kk) : i \in DOMAIN es /\ es[i] = Others(kk)[i]
  PROVE  Stands(k, es, clock)
<1>1. PICK e \in Entry(k) : e.until > clock
  BY DEF Blocked
<1>2. PICK i \in DOMAIN throttle : throttle[i] = e /\ throttle[i].key = k
  BY DEF Entry
<1>3. PICK j \in DOMAIN Others(kk) : Others(kk)[j] = throttle[i]
  BY <1>2, OthersAre DEF ThrottleInv
<1> QED
  BY <1>1, <1>2, <1>3 DEF Stands

LEMMA BlocksStandAtEachStep ==
  ASSUME Stall < 2 * BaseDelay, ThrottleInv, LoginNext, NEW k \in Keys, Blocked(k), ~Restart
  PROVE  Stands(k, throttle', clock) \/ Succeeds(k)
<1>1. CASE UNCHANGED throttle
  BY <1>1 DEF Blocked, Entry, Stands
<1>2. ASSUME NEW t \in Threads, RecordFailure(t) PROVE Stands(k, throttle', clock)
  BY <1>2, FailuresLiftNothing
<1>3. ASSUME NEW t \in Threads, RecordSuccess(t) PROVE Stands(k, throttle', clock) \/ Succeeds(k)
  <2>1. CASE thread[t].key = k
    BY <1>3, <2>1 DEF RecordSuccess, Turns, Succeeds, ThrottleInv, HandlersSound
  <2>2. CASE thread[t].key # k
    <3>1. throttle' = Others(thread[t].key)
      BY <1>3 DEF RecordSuccess
    <3> QED
      BY <2>2, <3>1, OthersStand
  <2> QED
    BY <2>1, <2>2
<1>4. ASSUME NEW t \in Threads, Refuse(t) PROVE Stands(k, throttle', clock)
  <2>1. CASE UNCHANGED throttle
    BY <1>1, <2>1 DEF Blocked, Entry, Stands
  <2>2. ASSUME NEW e \in Entry(thread[t].key),
               throttle' = Append(Others(thread[t].key), [e EXCEPT !.seen = clock])
        PROVE  Stands(k, throttle', clock)
    <3> DEFINE kk == thread[t].key
               es == Append(Others(kk), [e EXCEPT !.seen = clock])
    <3>1. /\ \A i \in DOMAIN Others(kk) : i \in DOMAIN es /\ es[i] = Others(kk)[i]
          /\ Len(es) \in DOMAIN es /\ es[Len(es)] = [e EXCEPT !.seen = clock]
      BY <2>2, RefusedIs
    <3>2. throttle' = es
      BY <2>2
    <3>3. CASE kk # k
      <4> HIDE DEF es
      <4> QED
        BY <3>1, <3>2, <3>3, OthersStand
    <3>4. CASE kk = k
      <4>1. Entry(k) = {e} /\ e \in Attempts /\ e.key = k
        BY <2>2, <3>4, EntryIs DEF ThrottleInv
      <4>2. e.until > clock
        BY <4>1 DEF Blocked
      <4> DEFINE new == [e EXCEPT !.seen = clock]
      <4>3. new.key = k /\ new.until = e.until
        BY <4>1 DEF Attempts
      <4>4. es[Len(es)] = new
        BY <3>1
      <4> HIDE DEF es, new
      <4> QED
        BY <3>1, <3>2, <4>2, <4>3, <4>4 DEF Stands
    <3> QED
      BY <3>3, <3>4
  <2> QED
    BY <1>4, <2>1, <2>2 DEF Refuse
<1> QED
  BY <1>1, <1>2, <1>3, <1>4 DEF LoginNext, ResetPassword, SetActive, ClockTick, Login, Check, Look, Stamp, Issue,
     ChangePassword, Prove, Change

\* A block stands until its time is over, a login succeeds or the process restarts:
\* no failure of another key crowds it out, none of its own that was stamped before
\* it cuts it short, and it does not expire (auth.py:88-121, 186-227).  A thread that
\* waits for the lock longer than a second block lasts could cut one short.
THEOREM BlocksStand == ASSUME Stall < 2 * BaseDelay PROVE LoginSpec => BlockStands
<1> DEFINE Standing == \A k \in Keys :
             Blocked(k) /\ clock' = clock /\ ~Restart
             => \/ \E e \in {throttle'[i] : i \in DOMAIN throttle'} : e.key = k /\ e.until > clock
                \/ \E t \in Threads : thread[t].at = "clearing" /\ thread[t].key = k
                                      /\ thread'[t].at = "issuing"
<1>1. ThrottleInv /\ [LoginNext]_loginVars => [Standing]_loginVars
  BY BlocksStandAtEachStep DEF Stands, Succeeds
<1> HIDE DEF Standing
<1>2. LoginSpec => [][Standing]_loginVars
  BY <1>1, ThrottleAtFirst, ThrottleStep, PTL DEF LoginSpec
<1> QED
  BY <1>2 DEF BlockStands, Standing

(* The table of failures stays within its cap, and no block is lifted for it,   *)
(* where a handler waits for less than twice the shortest block.              *)
THEOREM ThrottleHeld == ASSUME Stall < 2 * BaseDelay PROVE LoginSpec => BlocksHold
BY CapStaysHard, BlocksStand DEF BlocksHold

\* The account's row and its number of passwords.
AccountTyped == bound \in Bounds /\ account.password \in 0..bound.changes /\ account.active \in BOOLEAN

LEMMA AccountTypedStep == LoginInv /\ AccountTyped /\ [LoginNext]_loginVars => AccountTyped'
<1> SUFFICES ASSUME LoginInv, AccountTyped, [LoginNext]_loginVars PROVE AccountTyped'
  OBVIOUS
<1>1. account \in [password : Nat, epoch : Nat, active : BOOLEAN] /\ bound.changes \in Nat
  BY ThrottleAssumption DEF LoginInv, AccountPaired, AccountTyped
<1>2. ASSUME SetPassword, UNCHANGED bound PROVE AccountTyped'
  <2>1. account.password < bound.changes /\ account.password \in Nat
        /\ account' = [account EXCEPT !.password = account.password + 1, !.epoch = account.epoch + 1]
    BY <1>1, <1>2 DEF SetPassword
  <2>2. account'.password = account.password + 1 /\ account'.active = account.active
    BY <1>1, <2>1
  <2>3. account.password + 1 \in 0..bound.changes
    BY <1>1, <2>1
  <2> QED
    BY <1>2, <2>2, <2>3 DEF AccountTyped
<1>3. CASE SetActive
  BY <1>1, <1>3 DEF SetActive, AccountTyped
<1>4. CASE UNCHANGED <<bound, account>>
  BY <1>4 DEF AccountTyped
<1> QED
  BY <1>2, <1>3, <1>4 DEF LoginNext, loginVars, ResetPassword, ClockTick, Restart, Login, Check, Refuse, Look, Stamp,
     RecordFailure, RecordSuccess, Issue, ChangePassword, Prove, Change

\* The state of the login has its types: keys in the table, steps of the handlers,
\* passwords of the account.
THEOREM LoginTypeCorrect == LoginSpec => []LoginTypeOK
<1>1. LoginInit => AccountTyped
  BY ThrottleAssumption DEF LoginInit, AccountTyped
<1>2. ThrottleInv /\ AccountTyped => LoginTypeOK
  <2> SUFFICES ASSUME ThrottleInv, AccountTyped PROVE LoginTypeOK
    OBVIOUS
  <2>1. \A i \in DOMAIN throttle : throttle[i] \in Attempts
    BY DEF ThrottleInv, TableSound
  <2>2. \A i \in DOMAIN throttle : throttle[i].key \in Keys /\ throttle[i].failures \in Nat
    BY <2>1 DEF Attempts
  <2> QED
    BY <2>2 DEF ThrottleInv, Measured, HandlersSound, StepSound, AccountTyped, LoginTypeOK, Passwords
<1> QED
  BY <1>1, <1>2, HoldsAtFirst, LoginStep, AccountTypedStep, ThrottleAtFirst, ThrottleStep, PTL DEF LoginSpec
=============================================================================
