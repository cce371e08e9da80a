----------------------- MODULE SessionAndGate_proofs -----------------------
(***************************************************************************)
(* The two ends of a request that costs money.                             *)
(*                                                                         *)
(* The session of the tab that sends it, for every number of tabs, users,    *)
(* sessions and rotations, and every mix of what users do; then the gate it   *)
(* passes: the ledger of runs, its safety for every number of requests, users *)
(* and tiers, every cap, price and clock bound, and the selection of a        *)
(* provider, for every ladder of grants, every allowlist and routing table.   *)
(***************************************************************************)
EXTENDS TabSession, UsageLedger, LlmSelection, FiniteSetTheorems, WellFoundedInduction, TLAPS

-----------------------------------------------------------------------------
(* The session: its inductive invariant. *)

(* A token that is kept somewhere is of a session the provider has begun. *)
Begun(x) == x # None => WhoIs(x) # None

SessionsKnown == \A s \in Sids : sess[s].user = None => sess[s] = Unborn

StorageKnown ==
  /\ storage.token = storage.refresh /\ Begun(storage.token)
  /\ \A t \in Tabs : \A i \in 1..Len(writes[t]) :
       writes[t][i][1] # {"owner"} => Begun(writes[t][i][2])

(* A tab without tokens is nobody's and has no timer; with them it is its     *)
(* user's, and once it has shown a user it restores nothing any more.         *)
PageKnown(p) ==
  /\ Begun(p.token) /\ Begun(p.refresh)
  /\ p.token = None <=> p.refresh = None
  /\ p.user # None => p.token # None /\ WhoIs(p.token) = p.user
  /\ p.token = None => ~p.timer
  /\ p.status = "authenticated" => p.user # None /\ p.restoring = "no" /\ ~p.failed
  /\ p.status = "anonymous" => p.token = None

(* What a request carries and what it is answered. *)
RequestKnown(c) ==
  /\ c.kind # "login" => c.token # None
  /\ c.kind = "login" /\ c.reply = "none" => c.user # None
  /\ Begun(c.token)
  /\ c.reply = "ok" => c.token # None /\ c.user = WhoIs(c.token)

(* What a request that still counts says of its tab. *)
Counts(c, p) ==
  /\ c.kind # "login" => p.token # None
  /\ c.kind = "refresh" /\ c.reply # "ok" => c.token = p.refresh
  /\ c.kind = "me" => p.restoring = "me"

(* At most one refresh and one question for the user count for a tab. *)
CountBoth(c, d) ==
  /\ c.tab \in Tabs /\ c.tab = d.tab /\ c.current /\ d.current
  /\ c.kind = d.kind /\ c.kind \in {"refresh", "me"}

Orderly(cs) == cs \subseteq Calling /\ IsFiniteSet(cs) /\ \A c, d \in cs : c.id = d.id => c = d

RequestsKnown ==
  /\ Orderly(calls)
  /\ \A c, d \in calls : CountBoth(c, d) => c = d
  /\ \A c \in calls : RequestKnown(c)
  /\ \A c \in calls : c.current /\ c.tab \in Tabs => Counts(c, tab[c.tab])

Sound ==
  /\ SessionTypeOK /\ SessionsKnown /\ StorageKnown
  /\ \A t \in Tabs : PageKnown(tab[t])
  /\ RequestsKnown
  /\ AlwaysRenewing

-----------------------------------------------------------------------------
(* Sets of requests. *)

(* Every set of numbers that is not empty has a smallest element. *)
LEMMA Smallest ==
  ASSUME NEW ids \in SUBSET Nat, ids # {}
  PROVE  \E m \in ids : \A i \in ids : ~(i < m)
<1>1. \E m \in ids : \A i \in ids : ~(<<i, m>> \in OpToRel(<, Nat))
  BY NatLessThanWellFounded, WFMin
<1> QED
  BY <1>1 DEF OpToRel

(* The id of a new request is nobody's. *)
LEMMA FreshIsNew ==
  ASSUME NEW cs \in SUBSET Calling, IsFiniteSet(cs)
  PROVE  Fresh(cs) \in Nat /\ \A c \in cs : c.id # Fresh(cs)
<1> DEFINE n == Cardinality(cs)
           free == {i \in 1..(n + 1) : \A c \in cs : c.id # i}
<1>1. n \in Nat /\ IsFiniteSet(1..(n + 1)) /\ Cardinality(1..(n + 1)) = n + 1
  <2>1. n \in Nat
    BY FS_CardinalityType
  <2> HIDE DEF n
  <2> QED
    BY <2>1, FS_Interval
<1>2. free # {}
  <2> SUFFICES ASSUME free = {} PROVE FALSE
    OBVIOUS
  <2> DEFINE f == [i \in 1..(n + 1) |-> CHOOSE c \in cs : c.id = i]
  <2>1. \A i \in 1..(n + 1) : f[i] \in cs /\ f[i].id = i
    OBVIOUS
  <2>2. f \in [1..(n + 1) -> cs]
    BY <2>1
  <2>3. n < n + 1
    BY <1>1
  <2> HIDE DEF f, n
  <2>4. \E x, y \in 1..(n + 1) : x # y /\ f[x] = f[y]
    BY <1>1, <2>2, <2>3, FS_PigeonHole DEF n
  <2> QED
    BY <2>1, <2>4
<1>3. free \in SUBSET Nat
  BY <1>1
<1>4. PICK m \in free : \A i \in free : ~(i < m)
  BY <1>2, <1>3, Smallest
<1>5. \A j \in 1..(m - 1) : \E c \in cs : c.id = j
  BY <1>1, <1>4
<1> QED
  BY <1>1, <1>4, <1>5 DEF Fresh

LEMMA WithOneMore ==
  ASSUME NEW cs, Orderly(cs), NEW c \in Calling
  PROVE  /\ Orderly(With(cs, c))
         /\ \E d \in Calling : /\ With(cs, c) = cs \cup {d} /\ d \notin cs
                               /\ \A e \in cs : e.id # d.id
                               /\ d.tab = c.tab /\ d.kind = c.kind /\ d.token = c.token
                               /\ d.user = c.user /\ d.current = c.current /\ d.reply = c.reply
<1> DEFINE d == [c EXCEPT !.id = Fresh(cs)]
<1>1. Fresh(cs) \in Nat /\ \A e \in cs : e.id # Fresh(cs)
  BY FreshIsNew DEF Orderly
<1>2. /\ d \in Calling /\ d.id = Fresh(cs)
      /\ d.tab = c.tab /\ d.kind = c.kind /\ d.token = c.token
      /\ d.user = c.user /\ d.current = c.current /\ d.reply = c.reply
  BY <1>1 DEF Calling
<1>3. With(cs, c) = cs \cup {d}
  BY DEF With
<1> HIDE DEF d
<1>4. \A e \in cs : e.id # d.id
  BY <1>1, <1>2
<1>5. IsFiniteSet(cs \cup {d})
  BY FS_AddElement DEF Orderly
<1> QED
  BY <1>2, <1>3, <1>4, <1>5 DEF Orderly

LEMMA WithoutOne ==
  ASSUME NEW cs, Orderly(cs), NEW c
  PROVE  Orderly(cs \ {c})
BY FS_RemoveElement DEF Orderly

(* What becomes of requests one by one leaves them in order if it leaves them *)
(* their ids.                                                                 *)
LEMMA OneByOne ==
  ASSUME NEW cs, Orderly(cs), NEW f \in [cs -> Calling], \A c \in cs : f[c].id = c.id
  PROVE  Orderly({f[c] : c \in cs})
<1> DEFINE ds == {f[c] : c \in cs}
<1>1. f \in Surjection(cs, ds)
  BY DEF Surjection
<1>2. IsFiniteSet(ds)
  BY <1>1, FS_Surjection DEF Orderly
<1> QED
  BY <1>2 DEF Orderly

(* A request that does not count any more. *)
Idle(c) == [c EXCEPT !.current = FALSE]

LEMMA IdleKeeps ==
  ASSUME NEW c \in Calling
  PROVE  /\ Idle(c) \in Calling /\ ~Idle(c).current /\ Idle(c).id = c.id
         /\ Idle(c).tab = c.tab /\ Idle(c).kind = c.kind /\ Idle(c).token = c.token
         /\ Idle(c).user = c.user /\ Idle(c).reply = c.reply
BY DEF Idle, Calling

LEMMA SupersededIdle ==
  ASSUME NEW cs, Orderly(cs), NEW t
  PROVE  /\ Orderly(Superseded(t, cs))
         /\ \A d \in Superseded(t, cs) : \E c \in cs : d = IF c.tab = t THEN Idle(c) ELSE c
         /\ \A c \in cs : c.tab # t => c \in Superseded(t, cs)
         /\ \A c \in cs : c.tab = t => Idle(c) \in Superseded(t, cs)
<1> DEFINE f == [c \in cs |-> IF c.tab = t THEN Idle(c) ELSE c]
<1>1. f \in [cs -> Calling] /\ \A c \in cs : f[c].id = c.id
  BY IdleKeeps DEF Orderly
<1>2. Superseded(t, cs) = {f[c] : c \in cs}
  BY DEF Superseded, Idle
<1>3. \A c \in cs : f[c] = IF c.tab = t THEN Idle(c) ELSE c
  OBVIOUS
<1> HIDE DEF f
<1> QED
  BY <1>1, <1>2, <1>3, OneByOne

-----------------------------------------------------------------------------
(* What a step of a tab has to show. *)

(* The requests a tab leaves behind, beside its page p: its own are sound and *)
(* speak for p, the other tabs' are as they were.                             *)
Leaves(t, p, cs) ==
  /\ Orderly(cs)
  /\ \A c \in cs : c.tab \in Tabs /\ c.tab # t => c \in calls
  /\ \A c \in calls : c.tab \in Tabs /\ c.tab # t => c \in cs
  /\ \A c \in cs : RequestKnown(c)
  /\ \A c \in cs : c.tab = t /\ c.current => Counts(c, p)
  /\ \A c, d \in cs : c.tab = t /\ CountBoth(c, d) => c = d
  /\ p.status = "authenticated" /\ p.refresh # None =>
       p.timer \/ \E c \in cs : c.tab = t /\ c.kind = "refresh" /\ c.current

LEMMA TabStep ==
  ASSUME Sound, NEW t \in Tabs, NEW p \in Page, PageKnown(p), Leaves(t, p, calls'),
         tab' = [tab EXCEPT ![t] = p], sess' = sess
  PROVE  /\ tab' \in [Tabs -> Page] /\ calls' \subseteq Calling
         /\ SessionsKnown'
         /\ \A u \in Tabs : PageKnown(tab[u])'
         /\ RequestsKnown' /\ AlwaysRenewing'
<1>1. /\ tab \in [Tabs -> Page] /\ tab' \in [Tabs -> Page] /\ tab'[t] = p
      /\ \A u \in Tabs \ {t} : tab'[u] = tab[u]
  BY DEF Sound, SessionTypeOK
<1>2. \A x : Begun(x)' <=> Begun(x)
  BY DEF Begun, WhoIs
<1>3. \A q : PageKnown(q)' <=> PageKnown(q)
  BY <1>2 DEF PageKnown, WhoIs
<1>4. \A u \in Tabs : PageKnown(tab'[u])
  BY <1>1 DEF Sound
<1>5. \A u \in Tabs : PageKnown(tab[u])'
  BY <1>2, <1>4 DEF PageKnown, WhoIs
<1>6. \A c \in calls' : RequestKnown(c)'
  BY <1>2 DEF Leaves, RequestKnown, WhoIs
<1>7. \A c \in calls' : c.current /\ c.tab \in Tabs => Counts(c, tab'[c.tab])
  <2> SUFFICES ASSUME NEW c \in calls', c.current, c.tab \in Tabs PROVE Counts(c, tab'[c.tab])
    OBVIOUS
  <2>1. CASE c.tab = t
    BY <1>1, <2>1 DEF Leaves
  <2>2. CASE c.tab # t
    BY <1>1, <2>2 DEF Leaves, Sound, RequestsKnown
  <2> QED
    BY <2>1, <2>2
<1>8. \A c, d \in calls' : CountBoth(c, d) => c = d
  BY DEF Leaves, Sound, RequestsKnown, CountBoth
<1>9. RequestsKnown'
  BY <1>6, <1>7, <1>8 DEF RequestsKnown, Leaves, Counts, CountBoth, Orderly
<1>10. AlwaysRenewing'
  <2> SUFFICES ASSUME NEW u \in Tabs, tab'[u].status = "authenticated", tab'[u].refresh # None,
                      ~tab'[u].timer
               PROVE  \E c \in calls' : c.tab = u /\ c.kind = "refresh" /\ c.current
    BY DEF AlwaysRenewing, InFlight, Of
  <2>1. CASE u = t
    BY <1>1, <2>1 DEF Leaves
  <2>2. CASE u # t
    BY <1>1, <2>2 DEF Leaves, Sound, AlwaysRenewing, InFlight, Of
  <2> QED
    BY <2>1, <2>2
<1>11. SessionsKnown'
  BY DEF Sound, SessionsKnown
<1>12. calls' \subseteq Calling
  BY DEF Leaves, Orderly
<1> QED
  BY <1>1, <1>5, <1>9, <1>10, <1>11, <1>12

(* Writes that erase, or that store tokens the provider knows. *)
LEMMA WritesKnown ==
  ASSUME Sound, NEW t \in Tabs, NEW x \in Tokens \cup {None}, Begun(x),
         NEW u \in Users \cup {None}, NEW ws \in {Erasing, Storing(x, u)},
         writes' = [writes EXCEPT ![t] = ws], sess' = sess, storage' = storage
  PROVE  writes' \in [Tabs -> Seq(Writing)] /\ StorageKnown'
<1>1. Begun(None)
  BY DEF Begun
<1>2. ws \in Seq(Writing) /\ \A i \in 1..Len(ws) : ws[i][1] # {"owner"} => Begun(ws[i][2])
  <2>1. CASE ws = Erasing
    BY <1>1, <2>1 DEF Erasing, Writing
  <2>2. CASE ws = Storing(x, u)
    <3>1. CASE u = None
      <4>1. ws = <<<<{"token", "refresh"}, x>>>>
        BY <2>2, <3>1 DEF Storing
      <4> QED
        BY <4>1 DEF Writing
    <3>2. CASE u # None
      <4>1. ws = <<<<{"token", "refresh"}, x>>, <<{"owner"}, u>>>>
        BY <2>2, <3>2 DEF Storing
      <4> QED
        BY <4>1 DEF Writing
    <3> QED
      BY <3>1, <3>2
  <2> QED
    BY <2>1, <2>2
<1>3. writes' \in [Tabs -> Seq(Writing)]
  BY <1>2 DEF Sound, SessionTypeOK
<1>4. \A y : Begun(y)' <=> Begun(y)
  BY DEF Begun, WhoIs
<1>5. \A v \in Tabs : \A i \in 1..Len(writes'[v]) :
         writes'[v][i][1] # {"owner"} => Begun(writes'[v][i][2])
  BY <1>2 DEF Sound, SessionTypeOK, StorageKnown
<1> QED
  BY <1>3, <1>4, <1>5 DEF Sound, StorageKnown, Begun, WhoIs

LEMMA WritesKept ==
  ASSUME Sound, UNCHANGED <<sess, storage, writes>>
  PROVE  writes' \in [Tabs -> Seq(Writing)] /\ StorageKnown'
BY DEF Sound, SessionTypeOK, StorageKnown, Begun, WhoIs

(* The requests that remain when a tab is done with some of its own. *)
Remain(t, cs) ==
  /\ Orderly(cs) /\ cs \subseteq calls
  /\ \A c \in calls : c.tab \in Tabs /\ c.tab # t => c \in cs

LEMMA RemainAll ==
  ASSUME Sound, NEW t
  PROVE  Remain(t, calls)
BY DEF Remain, Sound, RequestsKnown

LEMMA RemainBut ==
  ASSUME Sound, NEW t, NEW c, c.tab = t
  PROVE  Remain(t, calls \ {c})
BY WithoutOne DEF Remain, Sound, RequestsKnown

(* The page renews if it did, or has a timer, or is not signed in. *)
Renews(t, p, cs) ==
  p.status = "authenticated" /\ p.refresh # None =>
    p.timer \/ \E c \in cs : c.tab = t /\ c.kind = "refresh" /\ c.current

LEMMA LeavesRemaining ==
  ASSUME Sound, NEW t \in Tabs, NEW p, NEW cs, Remain(t, cs), Renews(t, p, cs),
         \A c \in cs : c.tab = t /\ c.current => Counts(c, p)
  PROVE  Leaves(t, p, cs)
BY DEF Leaves, Remain, Renews, Sound, RequestsKnown

LEMMA LeavesOneMore ==
  ASSUME Sound, NEW t \in Tabs, NEW p, NEW cs, Remain(t, cs), NEW new \in Calling,
         new.tab = t, RequestKnown(new), Counts(new, p),
         Renews(t, p, cs) \/ (new.kind = "refresh" /\ new.current),
         \A c \in cs : c.tab = t /\ c.current => Counts(c, p),
         \A c \in cs : ~CountBoth(c, new)
  PROVE  Leaves(t, p, With(cs, new))
<1>1. Orderly(With(cs, new))
  BY WithOneMore DEF Remain
<1>2. PICK d \in Calling : /\ With(cs, new) = cs \cup {d} /\ d \notin cs
                           /\ \A e \in cs : e.id # d.id
                           /\ d.tab = new.tab /\ d.kind = new.kind /\ d.token = new.token
                           /\ d.user = new.user /\ d.current = new.current /\ d.reply = new.reply
  BY WithOneMore DEF Remain
<1>3. RequestKnown(d) /\ Counts(d, p) /\ \A c \in cs : ~CountBoth(c, d) /\ ~CountBoth(d, c)
  BY <1>2 DEF RequestKnown, Counts, CountBoth
<1>4. \A c \in cs : RequestKnown(c)
  BY DEF Remain, Sound, RequestsKnown
<1>5. \A c, e \in With(cs, new) : c.tab = t /\ CountBoth(c, e) => c = e
  BY <1>2, <1>3 DEF Remain, Sound, RequestsKnown
<1>6. Renews(t, p, With(cs, new))
  BY <1>2 DEF Renews
<1>7. /\ \A c \in With(cs, new) : c.tab \in Tabs /\ c.tab # t => c \in calls
      /\ \A c \in calls : c.tab \in Tabs /\ c.tab # t => c \in With(cs, new)
  BY <1>2 DEF Remain
<1>8. /\ \A c \in With(cs, new) : RequestKnown(c)
      /\ \A c \in With(cs, new) : c.tab = t /\ c.current => Counts(c, p)
  BY <1>2, <1>3, <1>4
<1> QED
  BY <1>1, <1>5, <1>6, <1>7, <1>8 DEF Leaves, Renews

(* A generation ends: none of the tab's requests counts any more. *)
LEMMA LeavesIdle ==
  ASSUME Sound, NEW t \in Tabs, NEW p, NEW cs, Orderly(cs),
         \A c \in cs : RequestKnown(c),
         \A c \in cs : c.tab \in Tabs /\ c.tab # t => c \in calls,
         \A c \in calls : c.tab \in Tabs /\ c.tab # t => c \in cs,
         Renews(t, p, {})
  PROVE  Leaves(t, p, Superseded(t, cs))
<1> DEFINE ds == Superseded(t, cs)
<1>1. /\ Orderly(ds)
      /\ \A d \in ds : \E c \in cs : d = IF c.tab = t THEN Idle(c) ELSE c
      /\ \A c \in cs : c.tab # t => c \in ds
  BY SupersededIdle
<1> HIDE DEF ds
<1>2. \A d \in ds : /\ RequestKnown(d) /\ (d.tab = t => ~d.current)
                    /\ (d.tab # t => d \in cs)
  <2> SUFFICES ASSUME NEW d \in ds
               PROVE  RequestKnown(d) /\ (d.tab = t => ~d.current) /\ (d.tab # t => d \in cs)
    OBVIOUS
  <2>1. PICK c \in cs : d = IF c.tab = t THEN Idle(c) ELSE c
    BY <1>1
  <2>2. c \in Calling /\ RequestKnown(c)
    BY DEF Orderly
  <2>3. CASE c.tab = t
    BY <2>1, <2>2, <2>3, IdleKeeps DEF RequestKnown
  <2>4. CASE c.tab # t
    BY <2>1, <2>2, <2>4
  <2> QED
    BY <2>3, <2>4
<1>3. Leaves(t, p, ds)
  BY <1>1, <1>2 DEF Leaves, Renews, CountBoth
<1> QED
  BY <1>3 DEF ds

-----------------------------------------------------------------------------
(* One lemma per action. *)

LEMMA TabActs ==
  ASSUME Sound, NEW t \in Tabs, NEW p \in Page, PageKnown(p), Leaves(t, p, calls'),
         tab' = [tab EXCEPT ![t] = p], UNCHANGED <<sess, storage, load>>,
         writes' \in [Tabs -> Seq(Writing)], StorageKnown', moves' \in 0..load.moves
  PROVE  Sound'
<1>1. /\ tab' \in [Tabs -> Page] /\ calls' \subseteq Calling
      /\ SessionsKnown'
      /\ \A u \in Tabs : PageKnown(tab[u])'
      /\ RequestsKnown' /\ AlwaysRenewing'
  BY TabStep
<1>2. SessionTypeOK'
  BY <1>1 DEF Sound, SessionTypeOK
<1> QED
  BY <1>1, <1>2 DEF Sound

LEMMA MovesOn ==
  ASSUME Sound, NEW act, Moving(act)
  PROVE  moves' \in 0..load.moves /\ load' = load
BY CountsAssumption DEF Sound, SessionTypeOK, Moving

LEMMA SignedOutKnown == SignedOut \in Page /\ PageKnown(SignedOut) /\ \A t : Renews(t, SignedOut, {})
BY DEF SignedOut, Page, Statuses, Restorings, PageKnown, Begun, Renews

LEMMA EndsSound ==
  ASSUME Sound, NEW t \in Tabs, NEW cs, Orderly(cs), Ends(t, cs),
         \A c \in cs : RequestKnown(c),
         \A c \in cs : c.tab \in Tabs /\ c.tab # t => c \in calls,
         \A c \in calls : c.tab \in Tabs /\ c.tab # t => c \in cs,
         UNCHANGED <<sess, storage, load>>, moves' \in 0..load.moves
  PROVE  Sound'
<1>1. Leaves(t, SignedOut, calls')
  BY SignedOutKnown, LeavesIdle DEF Ends
<1>2. writes' \in [Tabs -> Seq(Writing)] /\ StorageKnown'
  <2>1. Begun(None) /\ writes' = [writes EXCEPT ![t] = Erasing]
    BY DEF Begun, Ends
  <2> QED
    BY <2>1, WritesKnown
<1> QED
  BY <1>1, <1>2, SignedOutKnown, TabActs DEF Ends

LEMMA EndsRemaining ==
  ASSUME Sound, NEW t \in Tabs, NEW c, c.tab = t, Ends(t, calls \ {c}),
         UNCHANGED <<sess, storage, load, moves>>
  PROVE  Sound'
<1>1. Remain(t, calls \ {c})
  BY RemainBut
<1>2. \A d \in calls \ {c} : RequestKnown(d)
  BY DEF Sound, RequestsKnown
<1> QED
  BY <1>1, <1>2, EndsSound DEF Remain, Sound, SessionTypeOK

LEMMA CallOf ==
  ASSUME NEW t \in Tabs, NEW kind \in Kinds, NEW x \in Tokens \cup {None}
  PROVE  LET c == [Call(t, kind) EXCEPT !.token = x] IN
         /\ c \in Calling /\ c.tab = t /\ c.kind = kind /\ c.token = x
         /\ c.current /\ c.reply = "none"
BY DEF Call, Calling

LEMMA PageOf ==
  ASSUME Sound, NEW t \in Tabs
  PROVE  /\ tab[t] \in Page /\ PageKnown(tab[t])
         /\ tab[t].token \in Tokens \cup {None} /\ tab[t].refresh \in Tokens \cup {None}
BY DEF Sound, SessionTypeOK, Page

LEMMA LogoutSound ==
  ASSUME Sound, NEW t \in Tabs, Logout(t)
  PROVE  Sound'
<1> DEFINE new == [Call(t, "logout") EXCEPT !.token = tab[t].token]
           cs == With(calls, new)
<1>1. tab[t].status = "authenticated" /\ tab[t].token # None /\ Begun(tab[t].token)
  BY PageOf DEF Logout, PageKnown
<1>2. new \in Calling /\ new.tab = t /\ new.kind = "logout" /\ new.token = tab[t].token
      /\ new.reply = "none"
  BY PageOf, CallOf DEF Kinds
<1>3. RequestKnown(new)
  BY <1>1, <1>2 DEF RequestKnown
<1> HIDE DEF new
<1>4. /\ Orderly(cs)
      /\ \E d \in Calling : /\ cs = calls \cup {d} /\ d \notin calls
                            /\ \A e \in calls : e.id # d.id
                            /\ d.tab = new.tab /\ d.kind = new.kind /\ d.token = new.token
                            /\ d.user = new.user /\ d.current = new.current /\ d.reply = new.reply
  BY <1>2, WithOneMore DEF Sound, RequestsKnown
<1>5. PICK d \in Calling : /\ cs = calls \cup {d}
                           /\ d.tab = t /\ RequestKnown(d)
  BY <1>2, <1>3, <1>4 DEF RequestKnown
<1>6. Ends(t, cs)
  BY DEF Logout, new
<1> HIDE DEF cs
<1>7. /\ \A c \in cs : RequestKnown(c)
      /\ \A c \in cs : c.tab \in Tabs /\ c.tab # t => c \in calls
      /\ \A c \in calls : c.tab \in Tabs /\ c.tab # t => c \in cs
  BY <1>5 DEF Sound, RequestsKnown
<1>8. moves' \in 0..load.moves /\ UNCHANGED <<sess, storage, load>>
  BY MovesOn DEF Logout
<1> QED
  BY <1>4, <1>6, <1>7, <1>8, EndsSound

(* doRefresh: the token that is sent is the one the page keeps. *)
LEMMA RefreshesSound ==
  ASSUME Sound, NEW t \in Tabs, NEW next \in Page, PageKnown(next), Refreshes(t, next),
         tab[t].token # None, next.token = tab[t].token, next.refresh = tab[t].refresh,
         next.user = tab[t].user,
         \A c \in calls : c.tab = t /\ c.current /\ c.kind = "me" => next.restoring = "me",
         UNCHANGED <<sess, storage, writes, load>>, moves' \in 0..load.moves
  PROVE  Sound'
<1> DEFINE p == [next EXCEPT !.refresh = IF InFlight(t) THEN @ ELSE Renewing(t)]
           new == [Call(t, "refresh") EXCEPT !.token = Renewing(t)]
<1>1. /\ Renewing(t) \in Tokens \cup {None} /\ Renewing(t) # None /\ Begun(Renewing(t))
      /\ tab[t].refresh # None
  BY PageOf DEF Renewing, Sound, SessionTypeOK, StorageKnown, PageKnown
<1>2. tab' = [tab EXCEPT ![t] = p]
  BY DEF Refreshes
<1>3. /\ p \in Page /\ p.token = next.token /\ p.user = next.user /\ p.status = next.status
      /\ p.timer = next.timer /\ p.failed = next.failed /\ p.restoring = next.restoring
      /\ p.refresh = IF InFlight(t) THEN tab[t].refresh ELSE Renewing(t)
  BY <1>1 DEF Page
<1> HIDE DEF p
<1>4. PageKnown(p)
  BY <1>1, <1>3 DEF PageKnown
<1>5. \A c \in calls : c.tab = t /\ c.current => Counts(c, p)
  <2> SUFFICES ASSUME NEW c \in calls, c.tab = t, c.current PROVE Counts(c, p)
    OBVIOUS
  <2>1. Counts(c, tab[t])
    BY DEF Sound, RequestsKnown
  <2>2. c.kind = "refresh" => InFlight(t)
    BY DEF InFlight, Of
  <2> QED
    BY <1>3, <2>1, <2>2 DEF Counts
<1>6. Leaves(t, p, calls')
  <2>1. CASE InFlight(t)
    <3>1. calls' = calls /\ Renews(t, p, calls)
      BY <2>1 DEF Refreshes, Renews, InFlight, Of
    <3> QED
      BY <1>5, <3>1, LeavesRemaining, RemainAll
  <2>2. CASE ~InFlight(t)
    <3>1. /\ new \in Calling /\ new.tab = t /\ new.kind = "refresh" /\ new.token = Renewing(t)
          /\ new.current /\ new.reply = "none"
      BY <1>1, CallOf DEF Kinds
    <3>2. calls' = With(calls, new)
      BY <2>2 DEF Refreshes
    <3> HIDE DEF new
    <3>3. RequestKnown(new) /\ Counts(new, p)
      BY <1>1, <1>3, <2>2, <3>1 DEF RequestKnown, Counts
    <3>4. \A c \in calls : ~CountBoth(c, new)
      BY <2>2, <3>1 DEF CountBoth, InFlight, Of
    <3> QED
      BY <1>5, <3>1, <3>2, <3>3, <3>4, LeavesOneMore, RemainAll
  <2> QED
    BY <2>1, <2>2
<1> QED
  BY <1>2, <1>3, <1>4, <1>6, WritesKept, TabActs

LEMMA TimerSound ==
  ASSUME Sound, NEW t \in Tabs, TimerFires(t)
  PROVE  Sound'
<1> DEFINE next == [tab[t] EXCEPT !.timer = FALSE]
<1>1. tab[t] \in Page /\ PageKnown(tab[t]) /\ tab[t].timer
  BY PageOf DEF TimerFires
<1>2. /\ next \in Page /\ next.token = tab[t].token /\ next.refresh = tab[t].refresh
      /\ next.user = tab[t].user /\ next.restoring = tab[t].restoring
      /\ next.status = tab[t].status /\ next.failed = tab[t].failed
      /\ ~next.timer
  BY <1>1 DEF Page
<1>3. Refreshes(t, next)
  BY DEF TimerFires
<1> HIDE DEF next
<1>4. PageKnown(next) /\ tab[t].token # None
  BY <1>1, <1>2 DEF PageKnown
<1>5. \A c \in calls : c.tab = t /\ c.current /\ c.kind = "me" => next.restoring = "me"
  BY <1>2 DEF Sound, RequestsKnown, Counts
<1> QED
  BY <1>2, <1>3, <1>4, <1>5, RefreshesSound DEF TimerFires, Sound, SessionTypeOK

(* runRestore: whoever has no token is nobody, whoever has one asks. *)
LEMMA AsksWhoSound ==
  ASSUME Sound, NEW t \in Tabs, NEW next \in Page, PageKnown(next),
         NEW cs, Remain(t, cs), AsksWho(next, t, cs),
         next.status # "authenticated",
         \A c \in cs : c.tab = t /\ c.current => c.kind # "me" /\ Counts(c, next),
         UNCHANGED <<sess, storage, load>>, moves' \in 0..load.moves,
         writes' \in [Tabs -> Seq(Writing)], StorageKnown'
  PROVE  Sound'
<1>1. CASE next.token = None
  <2> DEFINE p == [next EXCEPT !.user = None, !.status = "anonymous", !.failed = FALSE,
                               !.restoring = "no"]
  <2>1. /\ p \in Page /\ p.token = None /\ p.refresh = next.refresh /\ p.timer = next.timer
        /\ p.user = None /\ p.status = "anonymous" /\ p.restoring = "no" /\ ~p.failed
    BY <1>1 DEF Page, Statuses, Restorings
  <2>2. tab' = [tab EXCEPT ![t] = p] /\ calls' = cs
    BY <1>1 DEF AsksWho
  <2> HIDE DEF p
  <2>3. PageKnown(p) /\ Renews(t, p, cs)
    BY <1>1, <2>1 DEF PageKnown, Renews
  <2>4. \A c \in cs : c.tab = t /\ c.current => Counts(c, p)
    BY <1>1, <2>1 DEF Counts
  <2> QED
    BY <2>1, <2>2, <2>3, <2>4, LeavesRemaining, TabActs
<1>2. CASE next.token # None
  <2> DEFINE p == [next EXCEPT !.restoring = "me"]
             new == [Call(t, "me") EXCEPT !.token = next.token]
  <2>1. /\ p \in Page /\ p.token = next.token /\ p.refresh = next.refresh /\ p.timer = next.timer
        /\ p.user = next.user /\ p.status = next.status /\ p.restoring = "me"
    BY DEF Page, Restorings
  <2>2. tab' = [tab EXCEPT ![t] = p] /\ calls' = With(cs, new)
    BY <1>2 DEF AsksWho
  <2>3. /\ new \in Calling /\ new.tab = t /\ new.kind = "me" /\ new.token = next.token
        /\ new.current /\ new.reply = "none"
    BY CallOf DEF Kinds, Page
  <2> HIDE DEF p, new
  <2>4. PageKnown(p) /\ Renews(t, p, cs)
    BY <2>1 DEF PageKnown, Renews
  <2>5. \A c \in cs : c.tab = t /\ c.current => Counts(c, p)
    BY <1>2, <2>1 DEF Counts
  <2>6. RequestKnown(new) /\ Counts(new, p) /\ \A c \in cs : ~CountBoth(c, new)
    BY <1>2, <2>1, <2>3 DEF RequestKnown, Counts, PageKnown, CountBoth
  <2> QED
    BY <2>1, <2>2, <2>3, <2>4, <2>5, <2>6, LeavesOneMore, TabActs
<1> QED
  BY <1>1, <1>2

LEMMA RestoresSound ==
  ASSUME Sound, NEW t \in Tabs, Restores(t), tab[t].restoring \in {"mount", "no"},
         tab[t].status # "authenticated",
         UNCHANGED <<sess, storage, writes, load>>, moves' \in 0..load.moves
  PROVE  Sound'
<1>1. tab[t] \in Page /\ PageKnown(tab[t])
  BY PageOf
<1>2. \A c \in calls : c.tab = t /\ c.current => c.kind # "me" /\ Counts(c, tab[t])
  BY DEF Sound, RequestsKnown, Counts
<1>3. CASE tab[t].refresh # None
           /\ Refreshes(t, [tab[t] EXCEPT !.restoring = "refresh", !.expiring = TRUE])
  <2> DEFINE next == [tab[t] EXCEPT !.restoring = "refresh", !.expiring = TRUE]
  <2>1. /\ next \in Page /\ next.token = tab[t].token /\ next.refresh = tab[t].refresh
        /\ next.user = tab[t].user /\ next.status = tab[t].status /\ next.timer = tab[t].timer
    BY <1>1 DEF Page, Restorings
  <2> HIDE DEF next
  <2>2. PageKnown(next) /\ tab[t].token # None
    BY <1>1, <1>3, <2>1 DEF PageKnown
  <2>3. Refreshes(t, next)
    BY <1>3 DEF next
  <2> QED
    BY <1>2, <2>1, <2>2, <2>3, RefreshesSound
<1>4. CASE AsksWho(tab[t], t, calls)
  BY <1>1, <1>2, <1>4, RemainAll, WritesKept, AsksWhoSound
<1> QED
  BY <1>3, <1>4 DEF Restores

LEMMA MountSound ==
  ASSUME Sound, NEW t \in Tabs, Mount(t) \/ Retry(t)
  PROVE  Sound'
<1>1. /\ Restores(t) /\ tab[t].restoring \in {"mount", "no"} /\ tab[t].status # "authenticated"
      /\ UNCHANGED <<sess, storage, writes>>
  BY PageOf DEF Mount, Retry, PageKnown
<1>2. load' = load /\ moves' \in 0..load.moves
  BY MovesOn DEF Mount, Retry, Sound, SessionTypeOK
<1> QED
  BY <1>1, <1>2, RestoresSound

(* doRefresh, once it is answered. *)
LEMMA RenewedSound ==
  ASSUME Sound, NEW t \in Tabs, Renewed(t)
  PROVE  Sound'
<1>1. PICK c \in Of(t, "refresh") :
        LET cs == calls \ {c}
            renewed == [tab[t] EXCEPT !.token = c.token, !.refresh = c.token, !.timer = TRUE,
                                      !.expiring = FALSE]
        IN
        /\ Free(t) /\ c.reply # "none"
        /\ CASE ~Commits(c) -> calls' = cs /\ UNCHANGED <<tab, writes>>
             [] Commits(c) /\ c.reply = "ok" /\ ~Foreign(t, c) ->
                  /\ writes' = [writes EXCEPT ![t] = Storing(c.token, tab[t].user)]
                  /\ IF tab[t].restoring = "refresh" THEN AsksWho(renewed, t, cs)
                     ELSE tab' = [tab EXCEPT ![t] = renewed] /\ calls' = cs
             [] Commits(c) /\ c.reply = "ok" /\ Foreign(t, c) -> Ends(t, cs)
             [] Commits(c) /\ c.reply = "refused" -> Ends(t, cs)
             [] Commits(c) /\ c.reply = "failed" ->
                  /\ tab' = [tab EXCEPT ![t].timer = TRUE,
                               ![t].failed = @ \/ tab[t].restoring = "refresh",
                               ![t].restoring = IF @ = "refresh" THEN "no" ELSE @]
                  /\ calls' = cs /\ UNCHANGED writes
        /\ UNCHANGED <<sess, storage, load, moves>>
  BY DEF Renewed
<1> DEFINE cs == calls \ {c}
           renewed == [tab[t] EXCEPT !.token = c.token, !.refresh = c.token, !.timer = TRUE,
                                     !.expiring = FALSE]
<1>2. /\ c \in Calling /\ RequestKnown(c) /\ tab[t] \in Page /\ PageKnown(tab[t])
      /\ c \in calls /\ c.tab = t /\ c.kind = "refresh" /\ c.token \in Tokens \cup {None}
      /\ c.current \in BOOLEAN /\ c.reply \in {"ok", "refused", "failed"}
      /\ (c.current => Counts(c, tab[t]))
  BY <1>1, PageOf DEF Sound, SessionTypeOK, RequestsKnown, Calling, Of
<1>3. Remain(t, cs)
  BY <1>2, RemainBut
<1>4. \A d \in cs : d.tab = t /\ d.current => Counts(d, tab[t]) /\ (c.current => d.kind # "refresh")
  BY <1>2 DEF Sound, RequestsKnown, CountBoth
<1>5. UNCHANGED <<sess, storage, load, moves>> /\ moves \in 0..load.moves
  BY <1>1 DEF Sound, SessionTypeOK
<1>6. CASE ~c.current /\ calls' = cs /\ UNCHANGED <<tab, writes>>
  <2>1. Renews(t, tab[t], cs)
    BY <1>6 DEF Sound, AlwaysRenewing, InFlight, Of, Renews
  <2>2. Leaves(t, tab[t], calls')
    BY <1>3, <1>4, <1>6, <2>1, LeavesRemaining
  <2>3. tab' = [tab EXCEPT ![t] = tab[t]]
    BY <1>6 DEF Sound, SessionTypeOK
  <2> QED
    BY <1>2, <1>5, <1>6, <2>2, <2>3, WritesKept, TabActs
<1>7. CASE /\ c.current /\ c.reply = "ok" /\ ~Foreign(t, c)
           /\ writes' = [writes EXCEPT ![t] = Storing(c.token, tab[t].user)]
           /\ \/ tab[t].restoring = "refresh" /\ AsksWho(renewed, t, cs)
              \/ tab[t].restoring # "refresh" /\ tab' = [tab EXCEPT ![t] = renewed] /\ calls' = cs
  <2>1. c.token # None /\ c.user = WhoIs(c.token) /\ Begun(c.token)
    BY <1>7, <1>2 DEF RequestKnown
  <2>2. /\ renewed \in Page /\ renewed.token = c.token /\ renewed.refresh = c.token
        /\ renewed.timer /\ renewed.user = tab[t].user /\ renewed.status = tab[t].status
        /\ renewed.restoring = tab[t].restoring /\ renewed.failed = tab[t].failed
    BY <1>2 DEF Page
  <2> HIDE DEF renewed
  <2>3. PageKnown(renewed)
    BY <1>2, <1>7, <2>1, <2>2 DEF PageKnown, Foreign, Counts
  <2>4. writes' \in [Tabs -> Seq(Writing)] /\ StorageKnown'
    <3>1. tab[t].user \in Users \cup {None}
      BY <1>2 DEF Page
    <3> QED
      BY <1>2, <1>5, <1>7, <2>1, <3>1, WritesKnown
  <2>5. \A d \in cs : d.tab = t /\ d.current => Counts(d, renewed)
    BY <1>4, <1>7, <2>1, <2>2 DEF Counts
  <2>6. CASE tab[t].restoring = "refresh" /\ AsksWho(renewed, t, cs)
    <3>1. \A d \in cs : d.tab = t /\ d.current => d.kind # "me" /\ Counts(d, renewed)
      BY <1>4, <2>5, <2>6 DEF Counts
    <3>2. renewed.status # "authenticated"
      BY <1>2, <2>2, <2>6 DEF PageKnown
    <3> QED
      BY <1>3, <1>5, <2>2, <2>3, <2>4, <2>6, <3>1, <3>2, AsksWhoSound
  <2>7. CASE tab' = [tab EXCEPT ![t] = renewed] /\ calls' = cs
    <3>1. Renews(t, renewed, cs)
      BY <2>2 DEF Renews
    <3>2. Leaves(t, renewed, calls')
      BY <1>3, <2>5, <2>7, <3>1, LeavesRemaining
    <3> QED
      BY <1>5, <2>2, <2>3, <2>4, <2>7, <3>2, TabActs
  <2> QED
    BY <1>7, <2>6, <2>7
<1>8. CASE Ends(t, cs)
  BY <1>2, <1>5, <1>8, EndsRemaining
<1>9. CASE /\ c.current /\ c.reply = "failed"
           /\ tab' = [tab EXCEPT ![t].timer = TRUE,
                        ![t].failed = @ \/ tab[t].restoring = "refresh",
                        ![t].restoring = IF @ = "refresh" THEN "no" ELSE @]
           /\ calls' = cs /\ UNCHANGED writes
  <2> DEFINE p == [tab[t] EXCEPT !.timer = TRUE, !.failed = @ \/ tab[t].restoring = "refresh",
                                 !.restoring = IF @ = "refresh" THEN "no" ELSE @]
  <2>1. tab' = [tab EXCEPT ![t] = p]
    BY <1>9 DEF Sound, SessionTypeOK
  <2>2. /\ p.token = tab[t].token /\ p.refresh = tab[t].refresh /\ p.timer
        /\ p.user = tab[t].user /\ p.status = tab[t].status /\ p.expiring = tab[t].expiring
        /\ p.restoring = (IF tab[t].restoring = "refresh" THEN "no" ELSE tab[t].restoring)
        /\ p.failed = (tab[t].failed \/ tab[t].restoring = "refresh")
    BY <1>2 DEF Page
  <2>3. p \in Page
    BY <1>2 DEF Page, Restorings
  <2> HIDE DEF p
  <2>4. c.kind # "login" => tab[t].token # None
    BY <1>2, <1>9 DEF Counts
  <2>5. PageKnown(p)
    BY <1>2, <2>2, <2>4 DEF PageKnown
  <2>6. Renews(t, p, cs) /\ \A d \in cs : d.tab = t /\ d.current => Counts(d, p)
    BY <1>4, <2>2 DEF Renews, Counts
  <2>7. Leaves(t, p, calls')
    BY <1>3, <1>9, <2>6, LeavesRemaining
  <2> QED
    BY <1>5, <1>9, <2>1, <2>3, <2>5, <2>7, WritesKept, TabActs
<1> QED
  BY <1>1, <1>2, <1>6, <1>7, <1>8, <1>9 DEF Commits

LEMMA ReloadSound ==
  ASSUME Sound, NEW t \in Tabs, Reload(t)
  PROVE  Sound'
<1> DEFINE gone == Of(t, "login") \cup Of(t, "refresh") \cup Of(t, "logout")
           others == {c \in calls : c.tab # t}
           f == [c \in others \cup gone |-> IF c.tab = t THEN [c EXCEPT !.tab = None] ELSE c]
           p == Loaded(storage)
<1>1. Orderly(others \cup gone) /\ others \cup gone \subseteq calls
  <2>1. others \cup gone \in SUBSET calls
    BY DEF Of
  <2> QED
    BY <2>1, FS_Subset DEF Orderly, Sound, RequestsKnown
<1>2. f \in [others \cup gone -> Calling] /\ \A c \in others \cup gone : f[c].id = c.id
  BY <1>1 DEF Orderly, Calling
<1>3. calls' = {f[c] : c \in others \cup gone}
  BY DEF Reload, Of
<1>4. \A c \in others \cup gone : /\ RequestKnown(f[c])
                                  /\ c.tab = t => f[c].tab = None
                                  /\ c.tab # t => f[c] = c
  BY <1>1 DEF Sound, RequestsKnown, RequestKnown, Orderly, Calling
<1> HIDE DEF f, others, gone
<1>5. Orderly(calls')
  BY <1>1, <1>2, <1>3, OneByOne
<1>6. /\ \A c \in calls' : RequestKnown(c) /\ (c.tab \in Tabs => c \in calls /\ c.tab # t)
      /\ \A c \in calls : c.tab \in Tabs /\ c.tab # t => c \in calls'
  BY <1>1, <1>3, <1>4, TabsAssumption DEF others
<1>7. p \in Page /\ PageKnown(p) /\ p.status = "unknown"
  BY DEF Loaded, Page, Statuses, Restorings, PageKnown, Sound, SessionTypeOK, StorageKnown
<1>8. Leaves(t, p, calls')
  BY <1>5, <1>6, <1>7 DEF Leaves, CountBoth
<1> QED
  BY <1>7, <1>8, MovesOn, WritesKept, TabActs DEF Reload

(* getMe of runRestore, once it is answered. *)
LEMMA RestoredSound ==
  ASSUME Sound, NEW t \in Tabs, Restored(t)
  PROVE  Sound'
<1>1. PICK c \in Of(t, "me"), reply \in Answers :
        /\ LET cs == calls \ {c} IN
           CASE reply = "refused" /\ (Unauthorized(t, c) \/ c.current) -> Ends(t, cs)
             [] reply = "ok" /\ c.current ->
                  /\ tab' = [tab EXCEPT ![t] =
                       [tab[t] EXCEPT !.token = c.token, !.user = WhoIs(c.token), !.status = "authenticated",
                                 !.failed = FALSE, !.restoring = "no", !.timer = @ \/ tab[t].refresh # None]]
                  /\ calls' = cs /\ UNCHANGED writes
             [] reply = "failed" /\ c.current ->
                  /\ tab' = [tab EXCEPT ![t].failed = TRUE, ![t].restoring = "no"]
                  /\ calls' = cs /\ UNCHANGED writes
             [] OTHER -> calls' = cs /\ UNCHANGED <<tab, writes>>
        /\ UNCHANGED <<sess, storage, load, moves>>
  BY DEF Restored
<1> DEFINE cs == calls \ {c}
<1>2. /\ c \in Calling /\ RequestKnown(c) /\ tab[t] \in Page /\ PageKnown(tab[t])
      /\ c \in calls /\ c.tab = t /\ c.kind = "me" /\ c.token \in Tokens \cup {None}
      /\ (c.current => Counts(c, tab[t]))
  BY PageOf DEF Sound, SessionTypeOK, RequestsKnown, Calling, Of
<1>3. Remain(t, cs)
  BY <1>2, RemainBut
<1>4. \A d \in cs : d.tab = t /\ d.current => Counts(d, tab[t]) /\ (c.current => d.kind # "me")
  BY <1>2 DEF Sound, RequestsKnown, CountBoth
<1>5. UNCHANGED <<sess, storage, load, moves>> /\ moves \in 0..load.moves
  BY <1>1 DEF Sound, SessionTypeOK
<1>6. CASE Ends(t, cs)
  BY <1>2, <1>5, <1>6, EndsRemaining
<1>7. CASE /\ c.current
           /\ tab' = [tab EXCEPT ![t] =
                [tab[t] EXCEPT !.token = c.token, !.user = WhoIs(c.token), !.status = "authenticated",
                          !.failed = FALSE, !.restoring = "no", !.timer = @ \/ tab[t].refresh # None]]
           /\ calls' = cs /\ UNCHANGED writes
  <2> DEFINE p == [tab[t] EXCEPT !.token = c.token, !.user = WhoIs(c.token), !.status = "authenticated",
                          !.failed = FALSE, !.restoring = "no", !.timer = @ \/ tab[t].refresh # None]
  <2>1. tab' = [tab EXCEPT ![t] = p]
    BY <1>7
  <2>2. c.token # None /\ c.token \in Tokens /\ WhoIs(c.token) # None
        /\ WhoIs(c.token) \in Users \cup {None} /\ tab[t].token # None
    BY <1>2, <1>7 DEF RequestKnown, Begun, Counts, WhoIs, Sound, SessionTypeOK, Tokens
  <2>3. /\ p \in Page /\ p.token = c.token /\ p.refresh = tab[t].refresh /\ p.user = WhoIs(c.token)
        /\ p.status = "authenticated" /\ p.restoring = "no" /\ ~p.failed
        /\ p.timer = (tab[t].timer \/ tab[t].refresh # None)
    BY <1>2, <2>2 DEF Page, Statuses, Restorings
  <2> HIDE DEF p
  <2>4. PageKnown(p) /\ Renews(t, p, cs)
    BY <1>2, <2>2, <2>3 DEF PageKnown, Renews, Begun
  <2>5. \A d \in cs : d.tab = t /\ d.current => Counts(d, p)
    BY <1>4, <1>7, <2>2, <2>3 DEF Counts
  <2>6. Leaves(t, p, calls')
    BY <1>3, <1>7, <2>4, <2>5, LeavesRemaining
  <2> QED
    BY <1>5, <1>7, <2>1, <2>3, <2>4, <2>6, WritesKept, TabActs
<1>8. CASE /\ c.current /\ tab' = [tab EXCEPT ![t].failed = TRUE, ![t].restoring = "no"]
           /\ calls' = cs /\ UNCHANGED writes
  <2> DEFINE p == [tab[t] EXCEPT !.failed = TRUE, !.restoring = "no"]
  <2>1. tab' = [tab EXCEPT ![t] = p]
    BY <1>8 DEF Sound, SessionTypeOK
  <2>2. /\ p \in Page /\ p.token = tab[t].token /\ p.refresh = tab[t].refresh /\ p.user = tab[t].user
        /\ p.status = tab[t].status /\ p.restoring = "no" /\ p.timer = tab[t].timer
    BY <1>2 DEF Page, Restorings
  <2> HIDE DEF p
  <2>3. tab[t].restoring = "me"
    BY <1>2, <1>8 DEF Counts
  <2>4. PageKnown(p) /\ Renews(t, p, cs)
    BY <1>2, <2>2, <2>3 DEF PageKnown, Renews
  <2>5. \A d \in cs : d.tab = t /\ d.current => Counts(d, p)
    BY <1>4, <1>8, <2>2 DEF Counts
  <2>6. Leaves(t, p, calls')
    BY <1>3, <1>8, <2>4, <2>5, LeavesRemaining
  <2> QED
    BY <1>5, <1>8, <2>1, <2>2, <2>4, <2>6, WritesKept, TabActs
<1>9. CASE calls' = cs /\ UNCHANGED <<tab, writes>>
  <2>1. Renews(t, tab[t], cs)
    BY <1>2, <1>9 DEF Sound, AlwaysRenewing, InFlight, Of, Renews
  <2>2. Leaves(t, tab[t], calls') /\ tab' = [tab EXCEPT ![t] = tab[t]]
    BY <1>3, <1>4, <1>9, <2>1, LeavesRemaining DEF Sound, SessionTypeOK
  <2> QED
    BY <1>2, <1>5, <1>9, <2>2, WritesKept, TabActs
<1> QED
  BY <1>1, <1>6, <1>7, <1>8, <1>9

LEMMA LoginSound ==
  ASSUME Sound, NEW t \in Tabs, Login(t)
  PROVE  Sound'
<1>1. PICK u \in Users : calls' = With(calls, [Call(t, "login") EXCEPT !.user = u])
  BY DEF Login
<1> DEFINE new == [Call(t, "login") EXCEPT !.user = u]
<1>2. /\ new \in Calling /\ new.tab = t /\ new.kind = "login" /\ new.token = None
      /\ new.reply = "none" /\ new.user # None
  BY TabsAssumption DEF Call, Calling, Kinds
<1>3. calls' = With(calls, new)
  BY <1>1
<1> HIDE DEF new
<1>4. /\ tab[t] \in Page /\ PageKnown(tab[t]) /\ tab' = [tab EXCEPT ![t] = tab[t]]
      /\ UNCHANGED <<sess, storage, writes>>
  BY PageOf DEF Login, Sound, SessionTypeOK
<1>5. RequestKnown(new) /\ Counts(new, tab[t]) /\ \A c \in calls : ~CountBoth(c, new)
  BY <1>2 DEF RequestKnown, Begun, Counts, CountBoth
<1>6. Renews(t, tab[t], calls) /\ \A c \in calls : c.tab = t /\ c.current => Counts(c, tab[t])
  BY DEF Renews, Sound, AlwaysRenewing, InFlight, Of, RequestsKnown
<1>7. Leaves(t, tab[t], calls')
  BY <1>2, <1>3, <1>5, <1>6, RemainAll, LeavesOneMore
<1> QED
  BY <1>4, <1>7, MovesOn, WritesKept, TabActs DEF Login

LEMMA LoggedInSound ==
  ASSUME Sound, NEW t \in Tabs, LoggedIn(t)
  PROVE  Sound'
<1>1. PICK c \in Of(t, "login") :
        LET cs == calls \ {c} IN
        /\ Free(t) /\ c.reply # "none"
        /\ IF c.reply = "ok" /\ c.current
             THEN /\ tab' = [tab EXCEPT ![t] = [SignedOut EXCEPT !.token = c.token, !.refresh = c.token,
                                         !.user = c.user, !.status = "authenticated", !.timer = TRUE]]
                  /\ writes' = [writes EXCEPT ![t] = Storing(c.token, c.user)]
                  /\ calls' = Superseded(t, cs)
             ELSE calls' = cs /\ UNCHANGED <<tab, writes>>
        /\ UNCHANGED <<sess, storage, load, moves>>
  BY DEF LoggedIn
<1> DEFINE cs == calls \ {c}
<1>2. /\ c \in Calling /\ RequestKnown(c) /\ tab[t] \in Page /\ PageKnown(tab[t])
      /\ c \in calls /\ c.tab = t /\ c.kind = "login"
      /\ c.token \in Tokens \cup {None} /\ c.user \in Users \cup {None}
  BY PageOf DEF Sound, SessionTypeOK, RequestsKnown, Calling, Of
<1>3. Remain(t, cs)
  BY <1>2, RemainBut
<1>4. UNCHANGED <<sess, storage, load, moves>> /\ moves \in 0..load.moves
  BY <1>1 DEF Sound, SessionTypeOK
<1>5. CASE c.reply = "ok" /\ c.current
  <2> DEFINE p == [SignedOut EXCEPT !.token = c.token, !.refresh = c.token,
                                    !.user = c.user, !.status = "authenticated", !.timer = TRUE]
  <2>1. /\ p \in Page /\ p.token = c.token /\ p.refresh = c.token /\ p.user = c.user
        /\ p.status = "authenticated" /\ p.timer /\ ~p.failed /\ p.restoring = "no"
    BY <1>2 DEF SignedOut, Page, Statuses, Restorings
  <2>2. tab' = [tab EXCEPT ![t] = p] /\ calls' = Superseded(t, cs)
        /\ writes' = [writes EXCEPT ![t] = Storing(c.token, c.user)]
    BY <1>1, <1>5
  <2> HIDE DEF p
  <2>3. c.token # None /\ Begun(c.token) /\ c.user = WhoIs(c.token) /\ c.user # None
    BY <1>2, <1>5 DEF RequestKnown, Begun
  <2>4. PageKnown(p) /\ Renews(t, p, {})
    BY <2>1, <2>3 DEF PageKnown, Renews
  <2>5. \A d \in cs : RequestKnown(d)
    BY DEF Sound, RequestsKnown
  <2>6. Leaves(t, p, calls')
    BY <1>3, <2>2, <2>4, <2>5, LeavesIdle DEF Remain
  <2>7. writes' \in [Tabs -> Seq(Writing)] /\ StorageKnown'
    BY <1>2, <1>4, <2>2, <2>3, WritesKnown
  <2> QED
    BY <1>4, <2>1, <2>2, <2>4, <2>6, <2>7, TabActs
<1>6. CASE ~(c.reply = "ok" /\ c.current)
  <2>1. Renews(t, tab[t], cs) /\ \A d \in cs : d.tab = t /\ d.current => Counts(d, tab[t])
    BY <1>2 DEF Sound, AlwaysRenewing, InFlight, Of, Renews, RequestsKnown
  <2>2. Leaves(t, tab[t], calls') /\ tab' = [tab EXCEPT ![t] = tab[t]]
    BY <1>1, <1>3, <1>6, <2>1, LeavesRemaining DEF Sound, SessionTypeOK
  <2> QED
    BY <1>1, <1>2, <1>4, <1>6, <2>2, WritesKept, TabActs
<1> QED
  BY <1>5, <1>6

LEMMA WorkSound ==
  ASSUME Sound, NEW t \in Tabs, Work(t)
  PROVE  Sound'
<1> DEFINE f == [c \in calls |-> IF c \in Of(t, "user") THEN [c EXCEPT !.current = FALSE] ELSE c]
           cs == {f[c] : c \in calls}
           new == [Call(t, "user") EXCEPT !.token = tab[t].token]
<1>1. /\ tab[t] \in Page /\ PageKnown(tab[t]) /\ tab[t].token # None
      /\ tab' = [tab EXCEPT ![t] = tab[t]]
      /\ UNCHANGED <<sess, storage, writes>>
  BY PageOf DEF Work, Sound, SessionTypeOK, PageKnown
<1>2. calls' = With(cs, new)
  BY DEF Work
<1>3. calls \subseteq Calling /\ Orderly(calls)
  BY DEF Sound, SessionTypeOK, RequestsKnown
<1>4. \A c \in calls : f[c] = IF c \in Of(t, "user") THEN Idle(c) ELSE c
  BY DEF Idle
<1>5. f \in [calls -> Calling] /\ \A c \in calls : f[c].id = c.id
  BY <1>3, IdleKeeps DEF Idle
<1> HIDE DEF f
<1>6. Orderly(cs)
  BY <1>3, <1>5, OneByOne
<1>7. \A d \in cs : \E c \in calls : d = IF c \in Of(t, "user") THEN Idle(c) ELSE c
  BY <1>4
<1>8. \A c \in calls : c.tab # t \/ c.kind # "user" => c \in cs
  BY <1>4 DEF Of
<1> HIDE DEF cs
<1>9. \A d \in cs : /\ RequestKnown(d)
                    /\ d \in calls \/ (d.tab = t /\ d.kind = "user" /\ ~d.current)
  <2> SUFFICES ASSUME NEW d \in cs
               PROVE  RequestKnown(d) /\ (d \in calls \/ (d.tab = t /\ d.kind = "user" /\ ~d.current))
    OBVIOUS
  <2>1. PICK c \in calls : d = IF c \in Of(t, "user") THEN Idle(c) ELSE c
    BY <1>7
  <2>2. c \in Calling /\ RequestKnown(c)
    BY <1>3 DEF Sound, RequestsKnown
  <2> QED
    BY <2>1, <2>2, IdleKeeps DEF RequestKnown, Of
<1>10. /\ new \in Calling /\ new.tab = t /\ new.kind = "user" /\ new.token = tab[t].token
       /\ new.reply = "none"
  BY PageOf, CallOf DEF Kinds
<1> HIDE DEF new
<1>11. RequestKnown(new)
  BY <1>1, <1>10 DEF RequestKnown, PageKnown
<1>12. PICK d \in Calling : /\ With(cs, new) = cs \cup {d} /\ d \notin cs
                            /\ \A e \in cs : e.id # d.id
                            /\ d.tab = new.tab /\ d.kind = new.kind /\ d.token = new.token
                            /\ d.user = new.user /\ d.current = new.current /\ d.reply = new.reply
  BY <1>6, <1>10, WithOneMore
<1>13. Orderly(calls') /\ calls' = cs \cup {d}
  BY <1>2, <1>6, <1>10, <1>12, WithOneMore
<1>14. RequestKnown(d) /\ Counts(d, tab[t]) /\ d.tab = t /\ d.kind = "user"
  BY <1>1, <1>10, <1>11, <1>12 DEF RequestKnown, Counts
<1>15. Leaves(t, tab[t], calls')
  <2>1. \A c \in calls' : RequestKnown(c)
    BY <1>9, <1>13, <1>14
  <2>2. \A c \in calls' : c.tab = t /\ c.current => Counts(c, tab[t])
    BY <1>9, <1>13, <1>14 DEF Sound, RequestsKnown
  <2>3. \A c, e \in calls' : CountBoth(c, e) => c = e
    BY <1>9, <1>13, <1>14 DEF Sound, RequestsKnown, CountBoth
  <2>4. Renews(t, tab[t], calls')
    BY <1>8, <1>13 DEF Renews, Sound, AlwaysRenewing, InFlight, Of
  <2>5. /\ \A c \in calls' : c.tab \in Tabs /\ c.tab # t => c \in calls
        /\ \A c \in calls : c.tab \in Tabs /\ c.tab # t => c \in calls'
    BY <1>8, <1>9, <1>13, <1>14
  <2> QED
    BY <1>13, <2>1, <2>2, <2>3, <2>4, <2>5 DEF Leaves, Renews
<1> QED
  BY <1>1, <1>15, MovesOn, WritesKept, TabActs DEF Work

LEMMA WorkedSound ==
  ASSUME Sound, NEW t \in Tabs, Worked(t)
  PROVE  Sound'
<1>1. PICK c \in Of(t, "user"), reply \in Answers :
        /\ LET cs == calls \ {c} IN
           CASE reply = "refused" /\ Unauthorized(t, c) -> Ends(t, cs)
             [] reply = "ok" /\ c.current /\ tab[t].token = c.token ->
                  /\ tab' = [tab EXCEPT ![t].user = WhoIs(c.token)]
                  /\ calls' = cs /\ UNCHANGED writes
             [] OTHER -> calls' = cs /\ UNCHANGED <<tab, writes>>
        /\ UNCHANGED <<sess, storage, load, moves>>
  BY DEF Worked
<1> DEFINE cs == calls \ {c}
<1>2. /\ c \in Calling /\ RequestKnown(c) /\ tab[t] \in Page /\ PageKnown(tab[t])
      /\ c \in calls /\ c.tab = t /\ c.kind = "user" /\ c.token \in Tokens \cup {None}
      /\ (c.current => Counts(c, tab[t]))
  BY PageOf DEF Sound, SessionTypeOK, RequestsKnown, Calling, Of
<1>3. Remain(t, cs)
  BY <1>2, RemainBut
<1>4. \A d \in cs : d.tab = t /\ d.current => Counts(d, tab[t])
  BY DEF Sound, RequestsKnown
<1>5. UNCHANGED <<sess, storage, load, moves>> /\ moves \in 0..load.moves
  BY <1>1 DEF Sound, SessionTypeOK
<1>6. Renews(t, tab[t], cs)
  BY <1>2 DEF Sound, AlwaysRenewing, InFlight, Of, Renews
<1>7. CASE Ends(t, cs)
  BY <1>2, <1>5, <1>7, EndsRemaining
<1>8. CASE /\ c.current /\ tab[t].token = c.token
           /\ tab' = [tab EXCEPT ![t].user = WhoIs(c.token)] /\ calls' = cs /\ UNCHANGED writes
  <2> DEFINE p == [tab[t] EXCEPT !.user = WhoIs(c.token)]
  <2>1. tab' = [tab EXCEPT ![t] = p]
    BY <1>8
  <2>2. c.token # None /\ c.token \in Tokens /\ WhoIs(c.token) # None
        /\ WhoIs(c.token) \in Users \cup {None}
    BY <1>2 DEF RequestKnown, Begun, WhoIs, Sound, SessionTypeOK, Tokens
  <2>3. /\ p \in Page /\ p.token = tab[t].token /\ p.refresh = tab[t].refresh /\ p.user = WhoIs(c.token)
        /\ p.status = tab[t].status /\ p.restoring = tab[t].restoring /\ p.failed = tab[t].failed
        /\ p.timer = tab[t].timer
    BY <1>2, <2>2 DEF Page
  <2> HIDE DEF p
  <2>4. PageKnown(p)
    BY <1>2, <1>8, <2>2, <2>3 DEF PageKnown
  <2>5. Renews(t, p, cs) /\ \A d \in cs : d.tab = t /\ d.current => Counts(d, p)
    BY <1>4, <1>6, <2>3 DEF Renews, Counts
  <2>6. Leaves(t, p, calls')
    BY <1>3, <1>8, <2>5, LeavesRemaining
  <2> QED
    BY <1>5, <1>8, <2>1, <2>3, <2>4, <2>6, WritesKept, TabActs
<1>9. CASE calls' = cs /\ UNCHANGED <<tab, writes>>
  <2>1. Leaves(t, tab[t], calls') /\ tab' = [tab EXCEPT ![t] = tab[t]]
    BY <1>3, <1>4, <1>6, <1>9, LeavesRemaining DEF Sound, SessionTypeOK
  <2> QED
    BY <1>2, <1>5, <1>9, <2>1, WritesKept, TabActs
<1> QED
  BY <1>1, <1>7, <1>8, <1>9

(* An answer nobody acts on. *)
LEMMA UnheardSound ==
  ASSUME Sound, NEW c \in calls, Unheard(c)
  PROVE  Sound'
<1>1. c \in Calling /\ UNCHANGED <<sess, storage, load, moves>>
      /\ (c.tab = None \/ (c.tab \in Tabs /\ c.kind = "logout"))
  BY DEF Sound, SessionTypeOK, Calling, Unheard
<1>2. CASE c.tab \in Tabs /\ Ends(c.tab, calls \ {c})
  BY <1>1, <1>2, EndsRemaining
<1>3. CASE calls' = calls \ {c} /\ UNCHANGED <<tab, writes>>
  <2>1. Orderly(calls')
    BY <1>3, WithoutOne DEF Sound, RequestsKnown
  <2>2. RequestsKnown'
    BY <1>1, <1>3, <2>1
       DEF Sound, RequestsKnown, Orderly, CountBoth, RequestKnown, Begun, WhoIs, Counts
  <2>3. AlwaysRenewing'
    BY <1>1, <1>3, TabsAssumption DEF Sound, AlwaysRenewing, InFlight, Of
  <2>4. /\ SessionTypeOK' /\ SessionsKnown' /\ StorageKnown'
        /\ \A t \in Tabs : PageKnown(tab[t])'
    BY <1>1, <1>3 DEF Sound, SessionTypeOK, SessionsKnown, StorageKnown, PageKnown, Begun, WhoIs
  <2> QED
    BY <2>2, <2>3, <2>4 DEF Sound
<1>4. c.tab # None \/ (calls' = calls \ {c} /\ UNCHANGED <<tab, writes>>)
  BY DEF Unheard
<1> QED
  BY <1>1, <1>2, <1>3, <1>4 DEF Unheard

LEMMA WriteSound ==
  ASSUME Sound, NEW t \in Tabs, Write(t)
  PROVE  Sound'
<1> DEFINE ws == writes[t]
           w == Head(ws)
<1>1. ws \in Seq(Writing) /\ ws # <<>>
  BY DEF Write, Sound, SessionTypeOK
<1>2. /\ w \in Writing /\ w = ws[1] /\ 1 \in 1..Len(ws) /\ Tail(ws) \in Seq(Writing)
      /\ \A i \in 1..Len(Tail(ws)) : i + 1 \in 1..Len(ws) /\ Tail(ws)[i] = ws[i + 1]
  BY <1>1
<1>3. \A i \in 1..Len(ws) : ws[i][1] # {"owner"} => Begun(ws[i][2])
  BY DEF Sound, StorageKnown
<1>4. /\ writes' = [writes EXCEPT ![t] = Tail(ws)]
      /\ storage' = [token   |-> IF "token" \in w[1] THEN w[2] ELSE storage.token,
                     refresh |-> IF "refresh" \in w[1] THEN w[2] ELSE storage.refresh,
                     owner   |-> IF "owner" \in w[1] THEN w[2] ELSE storage.owner]
      /\ UNCHANGED <<sess, tab, calls, load, moves>>
  BY DEF Write
<1> HIDE DEF ws, w
<1>5. \/ /\ w[1] = {"token", "refresh"} /\ w[2] \in Tokens \cup {None} /\ Begun(w[2])
         /\ storage' = [token |-> w[2], refresh |-> w[2], owner |-> storage.owner]
      \/ /\ w[1] = {"owner"} /\ w[2] \in Users \cup {None}
         /\ storage' = [token |-> storage.token, refresh |-> storage.refresh, owner |-> w[2]]
  <2>1. CASE w[1] = {"token", "refresh"} /\ w[2] \in Tokens \cup {None}
    <3>1. {"token", "refresh"} # {"owner"}
      OBVIOUS
    <3>2. Begun(w[2])
      BY <1>2, <1>3, <2>1, <3>1
    <3> QED
      BY <1>4, <2>1, <3>2
  <2>2. CASE w[1] = {"owner"} /\ w[2] \in Users \cup {None}
    BY <1>4, <2>2
  <2>3. \/ w[1] = {"token", "refresh"} /\ w[2] \in Tokens \cup {None}
        \/ w[1] = {"owner"} /\ w[2] \in Users \cup {None}
    BY <1>2 DEF Writing
  <2> QED
    BY <2>1, <2>2, <2>3
<1>6. /\ storage' \in [token : Tokens \cup {None}, refresh : Tokens \cup {None},
                       owner : Users \cup {None}]
      /\ storage'.token = storage'.refresh /\ Begun(storage'.token)
  BY <1>5 DEF Sound, SessionTypeOK, StorageKnown
<1>7. /\ writes' \in [Tabs -> Seq(Writing)]
      /\ \A u \in Tabs : \A i \in 1..Len(writes'[u]) :
           writes'[u][i][1] # {"owner"} => Begun(writes'[u][i][2])
  BY <1>2, <1>3, <1>4 DEF Sound, SessionTypeOK, StorageKnown
<1>8. StorageKnown'
  BY <1>4, <1>6, <1>7 DEF StorageKnown, Begun, WhoIs
<1>9. /\ SessionsKnown' /\ AlwaysRenewing' /\ \A u \in Tabs : PageKnown(tab[u])'
      /\ RequestsKnown'
  BY <1>4 DEF Sound, SessionsKnown, AlwaysRenewing, InFlight, Of, PageKnown, Begun, WhoIs,
     RequestsKnown, Orderly, RequestKnown, CountBoth, Counts
<1>10. SessionTypeOK'
  BY <1>4, <1>6, <1>7 DEF Sound, SessionTypeOK
<1> QED
  BY <1>8, <1>9, <1>10 DEF Sound

-----------------------------------------------------------------------------
(* The provider. *)

LEMMA ReplyOf ==
  ASSUME Sound, NEW c \in calls, NEW r \in {"ok", "refused", "failed"},
         NEW x \in Tokens \cup {None}, NEW u \in Users \cup {None}, Replies(c, r, x, u)
  PROVE  \E d \in Calling :
           /\ calls' = (calls \ {c}) \cup {d}
           /\ d.id = c.id /\ d.tab = c.tab /\ d.kind = c.kind /\ d.current = c.current
           /\ d.reply = r /\ d.token = x /\ d.user = u
<1> DEFINE d == [c EXCEPT !.reply = r, !.token = x, !.user = u]
<1>1. c \in Calling
  BY DEF Sound, SessionTypeOK
<1>2. /\ d \in Calling
      /\ d.id = c.id /\ d.tab = c.tab /\ d.kind = c.kind /\ d.current = c.current
      /\ d.reply = r /\ d.token = x /\ d.user = u
  BY <1>1 DEF Calling
<1> QED
  BY <1>2 DEF Replies

(* What an answer may say, given what it leaves of the sessions. *)
LEMMA AnswerSound ==
  ASSUME Sound, NEW c \in calls, NEW r \in {"ok", "refused", "failed"},
         NEW x \in Tokens \cup {None}, NEW u \in Users \cup {None}, Replies(c, r, x, u),
         r = "ok" => x # None /\ u = sess'[x.sid].user /\ u # None,
         r # "ok" => x = c.token,
         sess' \in [Sids -> [user : Users \cup {None}, n : 0..MaxRotations, alive : BOOLEAN]],
         \A s \in Sids : sess[s].user # None => sess'[s].user = sess[s].user,
         \A s \in Sids : sess'[s].user = None => sess'[s] = Unborn,
         UNCHANGED <<storage, tab, writes, load, moves>>, c.reply = "none"
  PROVE  Sound'
<1>1. PICK d \in Calling :
           /\ calls' = (calls \ {c}) \cup {d}
           /\ d.id = c.id /\ d.tab = c.tab /\ d.kind = c.kind /\ d.current = c.current
           /\ d.reply = r /\ d.token = x /\ d.user = u
  BY ReplyOf
<1>2. \A y \in Tokens \cup {None} :
        Begun(y) => Begun(y)' /\ (y # None => sess'[y.sid].user = sess[y.sid].user)
  BY DEF Begun, WhoIs, Tokens
<1>3. calls \subseteq Calling /\ Orderly(calls)
  BY DEF Sound, SessionTypeOK, RequestsKnown
<1>4. \A e \in Calling : RequestKnown(e) => RequestKnown(e)'
  BY <1>2 DEF RequestKnown, WhoIs, Calling
<1>5. RequestKnown(d)'
  <2>1. RequestKnown(c) /\ c.token \in Tokens \cup {None}
    BY <1>3 DEF Sound, RequestsKnown, Calling
  <2>2. CASE r = "ok"
    BY <1>1, <2>2 DEF RequestKnown, Begun, WhoIs
  <2>3. CASE r # "ok"
    BY <1>1, <1>2, <2>1, <2>3 DEF RequestKnown
  <2> QED
    BY <2>2, <2>3
<1>6. Orderly(calls')
  <2>1. IsFiniteSet((calls \ {c}) \cup {d})
    BY <1>3, FS_RemoveElement, FS_AddElement DEF Orderly
  <2> QED
    BY <1>1, <1>3, <2>1 DEF Orderly
<1>7. RequestsKnown'
  <2>1. \A e, g \in calls' : CountBoth(e, g) => e = g
    BY <1>1 DEF Sound, RequestsKnown, CountBoth
  <2>2. \A e \in calls' : e.current /\ e.tab \in Tabs => Counts(e, tab[e.tab])
    <3>1. c.current /\ c.tab \in Tabs => Counts(d, tab[c.tab])
      <4> SUFFICES ASSUME c.current, c.tab \in Tabs PROVE Counts(d, tab[c.tab])
        OBVIOUS
      <4>1. Counts(c, tab[c.tab])
        BY DEF Sound, RequestsKnown
      <4>2. d.reply # "ok" => d.token = c.token
        BY <1>1
      <4> QED
        BY <1>1, <4>1, <4>2 DEF Counts
    <3> QED
      BY <1>1, <3>1 DEF Sound, RequestsKnown
  <2>3. \A e \in calls' : RequestKnown(e)'
    BY <1>1, <1>3, <1>4, <1>5 DEF Sound, RequestsKnown
  <2> QED
    BY <1>6, <2>1, <2>2, <2>3 DEF RequestsKnown, CountBoth, Counts, Orderly
<1>8. AlwaysRenewing'
  BY <1>1 DEF Sound, AlwaysRenewing, InFlight, Of
<1>9. \A t \in Tabs : PageKnown(tab[t])'
  <2> SUFFICES ASSUME NEW t \in Tabs PROVE PageKnown(tab[t])'
    OBVIOUS
  <2> QED
    BY <1>2, PageOf DEF PageKnown, WhoIs
<1>10. StorageKnown'
  <2>1. storage.token \in Tokens \cup {None}
    BY DEF Sound, SessionTypeOK
  <2>2. \A t \in Tabs : \A i \in 1..Len(writes[t]) :
          writes[t][i][1] # {"owner"} => writes[t][i][2] \in Tokens \cup {None}
    BY DEF Sound, SessionTypeOK, Writing
  <2> QED
    BY <1>2, <2>1, <2>2 DEF Sound, StorageKnown
<1>11. SessionTypeOK' /\ SessionsKnown'
  BY <1>6 DEF Sound, SessionTypeOK, SessionsKnown, Orderly
<1> QED
  BY <1>7, <1>8, <1>9, <1>10, <1>11 DEF Sound

LEMMA ServeSound ==
  ASSUME Sound, NEW c \in calls, Serve(c)
  PROVE  Sound'
<1>1. /\ c \in Calling /\ RequestKnown(c) /\ c.reply = "none"
      /\ c.token \in Tokens \cup {None} /\ c.user \in Users \cup {None}
      /\ UNCHANGED <<storage, tab, writes, load, moves>>
  BY DEF Sound, SessionTypeOK, RequestsKnown, Calling, Serve
<1>2. sess \in [Sids -> [user : Users \cup {None}, n : 0..MaxRotations, alive : BOOLEAN]]
      /\ \A s \in Sids : sess[s].user = None => sess[s] = Unborn
  BY DEF Sound, SessionTypeOK, SessionsKnown
<1>3. None \in Users \cup {None} /\ 0 \in 0..MaxRotations
  BY CountsAssumption
<1>4. ASSUME sess' = sess, Fails(c) \/ Refuses(c) PROVE Sound'
  BY <1>1, <1>2, <1>3, <1>4, AnswerSound DEF Fails, Refuses
<1>5. ASSUME c.kind = "login", LogsIn(c) PROVE Sound'
  <2>1. CASE Fails(c) /\ UNCHANGED sess
    BY <1>4, <2>1
  <2>2. ASSUME NEW s \in Sids, sess[s] = Unborn,
               sess' = [sess EXCEPT ![s] = [user |-> c.user, n |-> 0, alive |-> TRUE]],
               Replies(c, "ok", [sid |-> s, n |-> 0], c.user) \/ Fails(c)
        PROVE  Sound'
    <3>1. c.user # None
      BY <1>1, <1>5 DEF RequestKnown
    <3>2. /\ sess' \in [Sids -> [user : Users \cup {None}, n : 0..MaxRotations, alive : BOOLEAN]]
          /\ \A x \in Sids : sess[x].user # None => sess'[x].user = sess[x].user
          /\ \A x \in Sids : sess'[x].user = None => sess'[x] = Unborn
          /\ sess'[s].user = c.user
      <4> DEFINE new == [user |-> c.user, n |-> 0, alive |-> TRUE]
      <4>1. new \in [user : Users \cup {None}, n : 0..MaxRotations, alive : BOOLEAN]
            /\ new.user = c.user
        BY <1>1, <1>3
      <4>2. sess[s].user = None
        BY <2>2 DEF Unborn
      <4>3. sess' = [sess EXCEPT ![s] = new]
        BY <2>2
      <4> HIDE DEF new
      <4> QED
        BY <1>2, <3>1, <4>1, <4>2, <4>3
    <3>3. [sid |-> s, n |-> 0] \in Tokens
      BY <1>3 DEF Tokens
    <3>4. CASE Fails(c)
      BY <1>1, <1>3, <3>2, <3>4, AnswerSound DEF Fails
    <3>5. CASE Replies(c, "ok", [sid |-> s, n |-> 0], c.user)
      BY <1>1, <3>1, <3>2, <3>3, <3>5, TokensAssumption, AnswerSound
    <3> QED
      BY <2>2, <3>4, <3>5
  <2> QED
    BY <1>5, <2>1, <2>2 DEF LogsIn
<1>6. ASSUME c.kind = "refresh", Rotates(c) PROVE Sound'
  <2> DEFINE s == c.token.sid
  <2>1. s \in Sids /\ sess[s].user # None /\ c.token # None
    BY <1>1, <1>6 DEF RequestKnown, Begun, WhoIs, Tokens
  <2>2. CASE /\ sess[s].alive /\ sess[s].n < MaxRotations
             /\ sess' = [sess EXCEPT ![s].n = @ + 1]
             /\ Replies(c, "ok", [sid |-> s, n |-> sess[s].n + 1], sess[s].user) \/ Fails(c)
    <3>1. sess[s].n + 1 \in 0..MaxRotations
      BY <1>2, <2>1, <2>2, CountsAssumption
    <3> DEFINE new == [sess[s] EXCEPT !.n = sess[s].n + 1]
    <3>2. new.user = sess[s].user
          /\ new \in [user : Users \cup {None}, n : 0..MaxRotations, alive : BOOLEAN]
      BY <1>2, <2>1, <3>1, ZenonT(30)
    <3>3. sess' = [sess EXCEPT ![s] = new]
      BY <2>2
    <3> HIDE DEF new
    <3>4. /\ sess' \in [Sids -> [user : Users \cup {None}, n : 0..MaxRotations, alive : BOOLEAN]]
          /\ \A x \in Sids : sess[x].user # None => sess'[x].user = sess[x].user
          /\ \A x \in Sids : sess'[x].user = None => sess'[x] = Unborn
          /\ sess'[s].user = sess[s].user
      BY <1>2, <2>1, <3>2, <3>3
    <3>5. [sid |-> s, n |-> sess[s].n + 1] \in Tokens
      BY <2>1, <3>1 DEF Tokens
    <3>6. sess[s].user \in Users \cup {None}
      BY <1>2, <2>1
    <3> HIDE DEF s
    <3>7. CASE Fails(c)
      BY <1>1, <1>3, <3>4, <3>7, AnswerSound DEF Fails
    <3>8. CASE Replies(c, "ok", [sid |-> s, n |-> sess[s].n + 1], sess[s].user)
      BY <1>1, <2>1, <3>4, <3>5, <3>6, <3>8, TokensAssumption, AnswerSound
    <3> QED
      BY <2>2, <3>7, <3>8
  <2>3. CASE sess' = [sess EXCEPT ![s].alive = FALSE] /\ Refuses(c)
    <3>1. /\ sess' \in [Sids -> [user : Users \cup {None}, n : 0..MaxRotations, alive : BOOLEAN]]
          /\ \A x \in Sids : sess[x].user # None => sess'[x].user = sess[x].user
          /\ \A x \in Sids : sess'[x].user = None => sess'[x] = Unborn
      BY <1>2, <2>1, <2>3
    <3> QED
      BY <1>1, <1>3, <2>3, <3>1, AnswerSound DEF Refuses
  <2> QED
    BY <1>4, <1>6, <2>2, <2>3 DEF Rotates
<1>7. ASSUME c.kind = "logout", sess' = [sess EXCEPT ![c.token.sid].alive = FALSE], Refuses(c)
      PROVE  Sound'
  <2>1. c.token.sid \in Sids /\ sess[c.token.sid].user # None
    BY <1>1, <1>7 DEF RequestKnown, Begun, WhoIs, Tokens
  <2>2. /\ sess' \in [Sids -> [user : Users \cup {None}, n : 0..MaxRotations, alive : BOOLEAN]]
        /\ \A x \in Sids : sess[x].user # None => sess'[x].user = sess[x].user
        /\ \A x \in Sids : sess'[x].user = None => sess'[x] = Unborn
    BY <1>2, <1>7, <2>1
  <2> QED
    BY <1>1, <1>3, <1>7, <2>2, AnswerSound DEF Refuses
<1> QED
  BY <1>4, <1>5, <1>6, <1>7 DEF Serve

-----------------------------------------------------------------------------
(* The theorems. *)

LEMMA SoundAtFirst == SessionInit => Sound
<1> SUFFICES ASSUME SessionInit PROVE Sound
  OBVIOUS
<1>1. load \in Loads /\ load.owner \in Users \cup {None} /\ load.moves \in Nat
  BY CountsAssumption DEF SessionInit
<1>2. 1 \in Sids /\ 0 \in 0..MaxRotations /\ [sid |-> 1, n |-> 0] \in Tokens
  BY CountsAssumption DEF Sids, Tokens
<1>3. /\ storage.token = (IF load.owner = None THEN None ELSE [sid |-> 1, n |-> 0])
      /\ storage.refresh = storage.token /\ storage.owner = load.owner
      /\ storage \in [token : Tokens \cup {None}, refresh : Tokens \cup {None},
                      owner : Users \cup {None}]
  BY <1>1, <1>2 DEF SessionInit, Stored
<1>4. /\ sess \in [Sids -> [user : Users \cup {None}, n : 0..MaxRotations, alive : BOOLEAN]]
      /\ \A s \in Sids : sess[s].user = None => sess[s] = Unborn
      /\ load.owner # None => sess[1].user = load.owner
  BY <1>1, <1>2 DEF SessionInit, Unborn
<1>5. Begun(storage.token) /\ Begun(None)
  BY <1>2, <1>3, <1>4 DEF Begun, WhoIs
<1>6. Loaded(storage) \in Page /\ PageKnown(Loaded(storage)) /\ Loaded(storage).status = "unknown"
  BY <1>3, <1>5 DEF Loaded, Page, Statuses, Restorings, PageKnown
<1>7. /\ tab \in [Tabs -> Page] /\ \A t \in Tabs : PageKnown(tab[t]) /\ tab[t].status = "unknown"
  BY <1>6 DEF SessionInit
<1>8. writes \in [Tabs -> Seq(Writing)] /\ \A t \in Tabs : Len(writes[t]) = 0
  <2>1. <<>> \in Seq(Writing) /\ Len(<<>>) = 0
    OBVIOUS
  <2> QED
    BY <2>1 DEF SessionInit
<1>9. StorageKnown
  BY <1>3, <1>5, <1>8 DEF StorageKnown
<1>10. RequestsKnown
  BY FS_EmptySet DEF SessionInit, RequestsKnown, Orderly
<1>11. AlwaysRenewing
  BY <1>7 DEF AlwaysRenewing
<1>12. SessionTypeOK
  BY <1>1, <1>3, <1>4, <1>7, <1>8 DEF SessionInit, SessionTypeOK
<1> QED
  BY <1>4, <1>7, <1>9, <1>10, <1>11, <1>12 DEF Sound, SessionsKnown

LEMMA SoundStep == Sound /\ [SessionNext]_sessionVars => Sound'
<1> SUFFICES ASSUME Sound, [SessionNext]_sessionVars PROVE Sound'
  OBVIOUS
<1>1. ASSUME NEW t \in Tabs, Hears(t) PROVE Sound'
  BY <1>1, RenewedSound, RestoredSound, LoggedInSound, WorkedSound DEF Hears
<1>2. ASSUME NEW t \in Tabs, Write(t) \/ Mount(t) \/ TimerFires(t) PROVE Sound'
  BY <1>2, WriteSound, MountSound, TimerSound
<1>3. ASSUME NEW t \in Tabs, Reload(t) \/ Retry(t) \/ Login(t) \/ Logout(t) \/ Work(t)
      PROVE  Sound'
  BY <1>3, ReloadSound, MountSound, LoginSound, LogoutSound, WorkSound
<1>4. ASSUME NEW c \in calls, Serve(c) \/ Unheard(c) PROVE Sound'
  BY <1>4, ServeSound, UnheardSound
<1>5. CASE UNCHANGED sessionVars
  <2>1. SessionTypeOK' /\ SessionsKnown' /\ AlwaysRenewing'
    BY <1>5 DEF sessionVars, Sound, SessionTypeOK, SessionsKnown, AlwaysRenewing, InFlight, Of
  <2>2. \A x : Begun(x)' <=> Begun(x)
    BY <1>5 DEF sessionVars, Begun, WhoIs
  <2>3. StorageKnown' /\ \A t \in Tabs : PageKnown(tab[t])'
    BY <1>5, <2>2 DEF sessionVars, Sound, StorageKnown, PageKnown, WhoIs
  <2>4. RequestsKnown'
    BY <1>5, <2>2 DEF sessionVars, Sound, RequestsKnown, Orderly, RequestKnown, WhoIs, CountBoth, Counts
  <2> QED
    BY <2>1, <2>3, <2>4 DEF Sound
<1> QED
  BY <1>1, <1>2, <1>3, <1>4, <1>5 DEF SessionNext

LEMMA AlwaysSound == SessionSpec => []Sound
<1> QED
  BY SoundAtFirst, SoundStep, PTL DEF SessionSpec

(* Type correctness of the provider's sessions, the storage and the tabs. *)
THEOREM SessionTypeCorrect == SessionSpec => []SessionTypeOK
<1>1. Sound => SessionTypeOK
  BY DEF Sound
<1> QED
  BY <1>1, AlwaysSound, PTL

(* Requests go out under the user the tab shows, whatever the other tabs have *)
(* stored in between.                                                         *)
THEOREM BearerKnown == SessionSpec => []BearerIsUser
<1>1. Sound => BearerIsUser
  BY DEF Sound, PageKnown, WhoIs, BearerIsUser
<1> QED
  BY <1>1, AlwaysSound, PTL

(* A signed-in tab never stops to renew its tokens. *)
THEOREM RenewsForever == SessionSpec => []AlwaysRenewing
<1>1. Sound => AlwaysRenewing
  BY DEF Sound
<1> QED
  BY <1>1, AlwaysSound, PTL

(* Nothing that was asked in a session that ended brings it back. *)
THEOREM SilentOnceSignedOut == SessionSpec => []SignedOutIsSilent
<1>1. Sound => SignedOutIsSilent
  <2> SUFFICES ASSUME Sound, NEW t \in Tabs, tab[t].status = "anonymous"
               PROVE  /\ tab[t].token = None /\ tab[t].user = None /\ ~tab[t].timer
                      /\ \A c \in calls : c.tab = t /\ c.current => c.kind = "login"
    BY DEF SignedOutIsSilent
  <2>1. PageKnown(tab[t])
    BY DEF Sound
  <2> QED
    BY <2>1 DEF PageKnown, Sound, RequestsKnown, Counts
<1> QED
  BY <1>1, AlwaysSound, PTL

(* A tab that is signed in is so as its user and for good, and one that is     *)
(* not keeps still, whatever the other tabs do.                               *)
THEOREM SessionHeld == SessionSpec => []SessionHolds
BY BearerKnown, RenewsForever, SilentOnceSignedOut, PTL DEF SessionHolds

-----------------------------------------------------------------------------
(* How a session ends. *)

(* The answer that ends a session is gone with it. *)
LEMMA AnswerIsGone ==
  ASSUME Sound, NEW t, NEW c \in calls
  PROVE  c \notin Superseded(t, calls \ {c})
<1>1. Orderly(calls \ {c})
  BY WithoutOne DEF Sound, RequestsKnown
<1>2. ASSUME NEW d \in Superseded(t, calls \ {c}) PROVE d # c
  <2>1. PICK e \in calls \ {c} : d = IF e.tab = t THEN Idle(e) ELSE e
    BY <1>1, <1>2, SupersededIdle
  <2>2. d.id = e.id
    BY <2>1, IdleKeeps DEF Sound, SessionTypeOK
  <2> QED
    BY <2>1, <2>2 DEF Sound, RequestsKnown, Orderly
<1> QED
  BY <1>2

LEMMA LogoutIsAsked ==
  ASSUME Sound, NEW t \in Tabs, Logout(t)
  PROVE  \E c \in calls' \ calls : c.kind = "logout"
<1> DEFINE new == [Call(t, "logout") EXCEPT !.token = tab[t].token]
           cs == With(calls, new)
<1>1. new \in Calling /\ new.tab = t /\ new.kind = "logout"
  BY PageOf, CallOf DEF Kinds
<1>2. calls' = Superseded(t, cs)
  BY DEF Logout, Ends
<1> HIDE DEF new
<1>3. /\ Orderly(cs)
      /\ \E d \in Calling : /\ cs = calls \cup {d} /\ d \notin calls
                            /\ \A e \in calls : e.id # d.id
                            /\ d.tab = new.tab /\ d.kind = new.kind /\ d.token = new.token
                            /\ d.user = new.user /\ d.current = new.current /\ d.reply = new.reply
  BY <1>1, WithOneMore DEF Sound, RequestsKnown
<1>4. PICK d \in Calling : /\ cs = calls \cup {d} /\ \A e \in calls : e.id # d.id
                           /\ d.tab = t /\ d.kind = "logout"
  BY <1>1, <1>3
<1> HIDE DEF cs
<1>5. Idle(d) \in calls'
  BY <1>2, <1>3, <1>4, SupersededIdle
<1>6. Idle(d).id = d.id /\ Idle(d).kind = "logout"
  BY <1>4, IdleKeeps
<1> QED
  BY <1>4, <1>5, <1>6

(* What ended a session: a logout, or the answer c. *)
Ended(t, c) ==
  /\ c \in calls /\ c \notin calls' /\ c.tab = t
  /\ \/ c.token.sid \in {tab[t].token.sid, tab[t].refresh.sid}
     \/ c.user \notin {None, tab[t].user}

LEMMA OwnAnswerEnds ==
  ASSUME Sound, NEW t \in Tabs, Hears(t), tab[t].status = "authenticated",
         tab'[t].status = "anonymous"
  PROVE  \E c \in calls : Ended(t, c)
<1>1. /\ tab[t] \in Page /\ PageKnown(tab[t]) /\ tab \in [Tabs -> Page]
      /\ tab[t].user # None /\ tab[t].restoring = "no"
  BY PageOf DEF PageKnown, Sound, SessionTypeOK
<1>2. ASSUME NEW c \in calls, c.tab = t, Ends(t, calls \ {c}),
             \/ c.token.sid \in {tab[t].token.sid, tab[t].refresh.sid}
             \/ c.user \notin {None, tab[t].user}
      PROVE  Ended(t, c)
  BY <1>2, AnswerIsGone DEF Ended, Ends
<1>3. CASE Renewed(t)
  <2>1. PICK c \in Of(t, "refresh") :
          LET cs == calls \ {c}
              renewed == [tab[t] EXCEPT !.token = c.token, !.refresh = c.token, !.timer = TRUE,
                                        !.expiring = FALSE]
          IN
          /\ Free(t) /\ c.reply # "none"
          /\ CASE ~Commits(c) -> calls' = cs /\ UNCHANGED <<tab, writes>>
               [] Commits(c) /\ c.reply = "ok" /\ ~Foreign(t, c) ->
                    /\ writes' = [writes EXCEPT ![t] = Storing(c.token, tab[t].user)]
                    /\ IF tab[t].restoring = "refresh" THEN AsksWho(renewed, t, cs)
                       ELSE tab' = [tab EXCEPT ![t] = renewed] /\ calls' = cs
               [] Commits(c) /\ c.reply = "ok" /\ Foreign(t, c) -> Ends(t, cs)
               [] Commits(c) /\ c.reply = "refused" -> Ends(t, cs)
               [] Commits(c) /\ c.reply = "failed" ->
                    /\ tab' = [tab EXCEPT ![t].timer = TRUE,
                                 ![t].failed = @ \/ tab[t].restoring = "refresh",
                                 ![t].restoring = IF @ = "refresh" THEN "no" ELSE @]
                    /\ calls' = cs /\ UNCHANGED writes
          /\ UNCHANGED <<sess, storage, load, moves>>
    BY <1>3 DEF Renewed
  <2>2. /\ c \in calls /\ c \in Calling /\ c.tab = t /\ c.kind = "refresh" /\ RequestKnown(c)
        /\ c.current \in BOOLEAN /\ c.reply \in {"ok", "refused", "failed"}
        /\ (c.current => Counts(c, tab[t]))
    BY <2>1 DEF Of, Sound, SessionTypeOK, RequestsKnown, Calling
  <2>3. CASE ~c.current
    BY <1>1, <2>1, <2>3 DEF Commits
  <2>4. CASE c.current /\ c.reply = "ok" /\ ~Foreign(t, c)
    <3> DEFINE renewed == [tab[t] EXCEPT !.token = c.token, !.refresh = c.token, !.timer = TRUE,
                                         !.expiring = FALSE]
    <3>1. tab' = [tab EXCEPT ![t] = renewed]
      BY <1>1, <2>1, <2>4 DEF Commits
    <3>2. renewed.status = "authenticated"
      BY <1>1 DEF Page
    <3> QED
      BY <1>1, <3>1, <3>2
  <2>5. CASE c.current /\ c.reply = "ok" /\ Foreign(t, c)
    <3>1. Ends(t, calls \ {c})
      BY <2>1, <2>5 DEF Commits
    <3>2. c.user \notin {None, tab[t].user}
      BY <2>2, <2>5 DEF Foreign, RequestKnown, Begun
    <3> QED
      BY <1>2, <2>2, <3>1, <3>2
  <2>6. CASE c.current /\ c.reply = "refused"
    <3>1. Ends(t, calls \ {c})
      BY <2>1, <2>6 DEF Commits
    <3>2. c.token = tab[t].refresh
      BY <2>2, <2>6 DEF Counts
    <3> QED
      BY <1>2, <2>2, <3>1, <3>2
  <2>7. CASE c.current /\ c.reply = "failed"
    <3>1. tab' = [tab EXCEPT ![t].timer = TRUE,
                                 ![t].failed = @ \/ tab[t].restoring = "refresh",
                                 ![t].restoring = IF @ = "refresh" THEN "no" ELSE @]
      BY <2>1, <2>7 DEF Commits
    <3> QED
      BY <1>1, <3>1 DEF Page
  <2> QED
    BY <2>2, <2>3, <2>4, <2>5, <2>6, <2>7
<1>4. CASE Restored(t)
  <2>1. PICK c \in Of(t, "me"), reply \in Answers :
          LET cs == calls \ {c} IN
             CASE reply = "refused" /\ (Unauthorized(t, c) \/ c.current) -> Ends(t, cs)
               [] reply = "ok" /\ c.current ->
                    /\ tab' = [tab EXCEPT ![t] =
                         [tab[t] EXCEPT !.token = c.token, !.user = WhoIs(c.token), !.status = "authenticated",
                                        !.failed = FALSE, !.restoring = "no", !.timer = @ \/ tab[t].refresh # None]]
                    /\ calls' = cs /\ UNCHANGED writes
               [] reply = "failed" /\ c.current ->
                    /\ tab' = [tab EXCEPT ![t].failed = TRUE, ![t].restoring = "no"]
                    /\ calls' = cs /\ UNCHANGED writes
               [] OTHER -> calls' = cs /\ UNCHANGED <<tab, writes>>
    BY <1>4 DEF Restored
  <2>2. c \in calls /\ c.tab = t /\ ~c.current
    BY <1>1, <2>1 DEF Of, Sound, RequestsKnown, Counts
  <2>3. CASE reply = "refused" /\ Unauthorized(t, c)
    <3>1. Ends(t, calls \ {c}) /\ c.token = tab[t].token
      BY <2>1, <2>3 DEF Unauthorized
    <3> QED
      BY <1>2, <2>2, <3>1
  <2>4. CASE ~(reply = "refused" /\ Unauthorized(t, c))
    BY <1>1, <2>1, <2>2, <2>4
  <2> QED
    BY <2>3, <2>4
<1>5. CASE LoggedIn(t)
  <2>1. CASE UNCHANGED tab
    BY <1>1, <2>1
  <2>2. ASSUME NEW c, tab' = [tab EXCEPT ![t] = [SignedOut EXCEPT !.token = c.token, !.refresh = c.token,
                                         !.user = c.user, !.status = "authenticated", !.timer = TRUE]]
        PROVE  FALSE
    BY <1>1, <2>2 DEF SignedOut
  <2> QED
    BY <1>5, <2>1, <2>2 DEF LoggedIn
<1>6. CASE Worked(t)
  <2>1. PICK c \in Of(t, "user"), reply \in Answers :
          LET cs == calls \ {c} IN
             CASE reply = "refused" /\ Unauthorized(t, c) -> Ends(t, cs)
               [] reply = "ok" /\ c.current /\ tab[t].token = c.token ->
                    /\ tab' = [tab EXCEPT ![t].user = WhoIs(c.token)]
                    /\ calls' = cs /\ UNCHANGED writes
               [] OTHER -> calls' = cs /\ UNCHANGED <<tab, writes>>
    BY <1>6 DEF Worked
  <2>2. c \in calls /\ c.tab = t
    BY <2>1 DEF Of
  <2>3. CASE reply = "refused" /\ Unauthorized(t, c)
    <3>1. Ends(t, calls \ {c}) /\ c.token = tab[t].token
      BY <2>1, <2>3 DEF Unauthorized
    <3> QED
      BY <1>2, <2>2, <3>1
  <2>4. CASE reply = "ok" /\ c.current /\ tab[t].token = c.token
    <3>1. tab' = [tab EXCEPT ![t].user = WhoIs(c.token)]
      BY <2>1, <2>4
    <3> QED
      BY <1>1, <3>1 DEF Page
  <2>5. CASE UNCHANGED tab
    BY <1>1, <2>5
  <2> QED
    BY <2>1, <2>3, <2>4, <2>5
<1> QED
  BY <1>3, <1>4, <1>5, <1>6 DEF Hears

(* Each step changes the page of one tab at most, and only the answers and a  *)
(* logout end a session that has begun.                                       *)
LEMMA OthersStay ==
  ASSUME NEW u, NEW t, u # t, tab \in [Tabs -> Page], calls \subseteq Calling,
         \/ Write(u) \/ Mount(u) \/ TimerFires(u) \/ Hears(u)
         \/ Reload(u) \/ Retry(u) \/ Login(u) \/ Logout(u) \/ Work(u),
         t \in Tabs
  PROVE  tab'[t] = tab[t]
<1>1. ASSUME \E p : tab' = [tab EXCEPT ![u] = p] PROVE tab'[t] = tab[t]
  BY <1>1
<1>2. ASSUME NEW next, NEW cs, AsksWho(next, u, cs) PROVE tab'[t] = tab[t]
  BY <1>2 DEF AsksWho
<1>3. ASSUME NEW next, Refreshes(u, next) PROVE tab'[t] = tab[t]
  BY <1>3 DEF Refreshes
<1>4. ASSUME NEW cs, Ends(u, cs) PROVE tab'[t] = tab[t]
  BY <1>4 DEF Ends
<1>5. CASE Write(u) \/ Login(u) \/ Work(u)
  BY <1>5 DEF Write, Login, Work
<1>6. CASE Mount(u) \/ Retry(u)
  BY <1>2, <1>3, <1>6 DEF Mount, Retry, Restores
<1>7. CASE TimerFires(u)
  BY <1>3, <1>7 DEF TimerFires
<1>8. CASE Reload(u)
  BY <1>8 DEF Reload
<1>9. CASE Logout(u)
  BY <1>4, <1>9 DEF Logout
<1>10. CASE LoggedIn(u)
  BY <1>10 DEF LoggedIn
<1>11. CASE Worked(u)
  <2>1. \/ \E cs : Ends(u, cs)
        \/ \E c : tab' = [tab EXCEPT ![u].user = WhoIs(c.token)]
        \/ UNCHANGED tab
    BY <1>11 DEF Worked
  <2> QED
    BY <1>4, <2>1
<1>12. CASE Restored(u)
  <2>1. \/ \E cs : Ends(u, cs)
        \/ \E c : tab' = [tab EXCEPT ![u] =
                         [tab[u] EXCEPT !.token = c.token, !.user = WhoIs(c.token), !.status = "authenticated",
                                        !.failed = FALSE, !.restoring = "no", !.timer = @ \/ tab[u].refresh # None]]
        \/ tab' = [tab EXCEPT ![u].failed = TRUE, ![u].restoring = "no"]
        \/ UNCHANGED tab
    BY <1>12 DEF Restored
  <2> QED
    BY <1>4, <2>1
<1>13. CASE Renewed(u)
  <2>1. \/ \E cs : Ends(u, cs)
        \/ \E next, cs : AsksWho(next, u, cs)
        \/ \E p : tab' = [tab EXCEPT ![u] = p]
        \/ tab' = [tab EXCEPT ![u].timer = TRUE,
                           ![u].failed = @ \/ tab[u].restoring = "refresh",
                           ![u].restoring = IF @ = "refresh" THEN "no" ELSE @]
        \/ UNCHANGED tab
    BY <1>13 DEF Renewed, Of, Calling
  <2> QED
    BY <1>2, <1>4, <2>1
<1> QED
  BY <1>5, <1>6, <1>7, <1>8, <1>9, <1>10, <1>11, <1>12, <1>13 DEF Hears

(* A session ends unasked only for a token of its own. *)
THEOREM EndsOnlyForItsOwn == SessionSpec => EndsForItsOwn
<1> DEFINE Fair(t) ==
      tab[t].status = "authenticated" /\ tab'[t].status = "anonymous" =>
        \/ \E c \in calls' \ calls : c.kind = "logout"
        \/ \E c \in calls \ calls' : /\ c.tab = t
                                    /\ \/ c.token.sid \in {tab[t].token.sid, tab[t].refresh.sid}
                                       \/ c.user \notin {None, tab[t].user}
<1>1. Sound /\ [SessionNext]_sessionVars => \A t \in Tabs : Fair(t)
  <2> SUFFICES ASSUME Sound, [SessionNext]_sessionVars, NEW t \in Tabs,
                      tab[t].status = "authenticated", tab'[t].status = "anonymous"
               PROVE  (\E c \in calls' \ calls : c.kind = "logout") \/ \E c \in calls : Ended(t, c)
    BY DEF Ended
  <2>1. /\ tab[t] \in Page /\ PageKnown(tab[t]) /\ tab \in [Tabs -> Page] /\ calls \subseteq Calling
        /\ tab[t].restoring = "no" /\ ~tab[t].failed
    BY PageOf DEF PageKnown, Sound, SessionTypeOK
  <2>2. tab'[t] # tab[t]
    BY <2>1
  <2>3. ASSUME NEW u \in Tabs,
               \/ Write(u) \/ Mount(u) \/ TimerFires(u) \/ Hears(u)
               \/ Reload(u) \/ Retry(u) \/ Login(u) \/ Logout(u) \/ Work(u)
        PROVE  (\E c \in calls' \ calls : c.kind = "logout") \/ \E c \in calls : Ended(t, c)
    <3>1. u = t
      BY <2>1, <2>2, <2>3, OthersStay
    <3>2. CASE Hears(t)
      BY <3>2, OwnAnswerEnds
    <3>3. CASE Logout(t)
      BY <3>3, LogoutIsAsked
    <3>4. ~(Write(t) \/ Login(t) \/ Work(t))
      BY <2>2 DEF Write, Login, Work
    <3>5. ~(Mount(t) \/ Retry(t))
      BY <2>1 DEF Mount, Retry
    <3>6. ~TimerFires(t)
      BY <2>1 DEF TimerFires, Refreshes, Page
    <3>7. ~Reload(t)
      BY <2>1 DEF Reload, Loaded
    <3> QED
      BY <2>3, <3>1, <3>2, <3>3, <3>4, <3>5, <3>6, <3>7
  <2>4. ASSUME NEW c \in calls, Serve(c) \/ Unheard(c) PROVE \E d \in calls : Ended(t, d)
    <3>1. c.tab # None /\ c.reply = "refused" /\ Unauthorized(c.tab, c) /\ Ends(c.tab, calls \ {c})
      BY <2>2, <2>4 DEF Serve, Unheard
    <3>2. c.tab = t
      BY <2>1, <2>2, <3>1 DEF Ends
    <3> QED
      BY <3>1, <3>2, AnswerIsGone DEF Ended, Ends, Unauthorized
  <2>5. ~UNCHANGED sessionVars
    BY <2>2 DEF sessionVars
  <2> QED
    BY <2>3, <2>4, <2>5 DEF SessionNext
<1> QED
  BY <1>1, AlwaysSound, PTL DEF SessionSpec, EndsForItsOwn

-----------------------------------------------------------------------------
(* The gate: the ledger of runs. *)

LEMMA SettledCreditsType ==
  ASSUME NEW status, NEW cost \in Costs \cup {Unreported}, NEW held \in Nat
  PROVE  SettledCredits(status, cost, held) \in Nat
BY PriceAssumption DEF SettledCredits

LEMMA SweepType ==
  ASSUME NEW stale, row \in [Runs -> Row]
  PROVE  SweepOf(row, stale) \in [Runs -> Row]
BY DEF SweepOf, Row, Terminal, IsStarted

LEMMA ReservedType ==
  ASSUME TypeOK, NEW r \in Runs, phase[r] = "reserving"
  PROVE  Reserved(r) \in [Runs -> Row]
<1> DEFINE swept == SweepOf(row, {x \in Runs : row[x].created < asked[r].moment - MaxAge})
           mine == [status |-> "started", user |-> asked[r].user,
                    created |-> asked[r].moment, credits |-> Estimate]
<1>1. swept \in [Runs -> Row]
  BY SweepType DEF TypeOK
<1>2. mine \in Row
  BY PriceAssumption DEF TypeOK, Row, Frame
<1>3. Reserved(r) = [swept EXCEPT ![r] = mine]
  BY DEF Reserved
<1> QED
  BY <1>1, <1>2, <1>3

(* Type correctness of the ledger, its requests and their frames. *)
THEOREM TypeCorrect == Spec => []TypeOK
<1>1. Init => TypeOK
  BY TimeAssumption DEF Init, TypeOK, NoRow, Row, Phase, NotAsked, Frame, NoOutcome,
     Settled, Terminal
<1>2. TypeOK /\ [Next]_vars => TypeOK'
  <2> SUFFICES ASSUME TypeOK, [Next]_vars PROVE TypeOK'
    OBVIOUS
  <2> USE DEF TypeOK, Phase
  <2>1. CASE Tick
    BY <2>1, TimeAssumption DEF Tick
  <2>2. CASE Crash
    <3>1. phase' \in [Runs -> Phase]
      BY <2>2 DEF Crash
    <3>2. NotAsked \in Frame /\ NoOutcome \in [status : Settled, credits : Nat]
      BY TimeAssumption DEF NotAsked, Frame, NoOutcome, Settled, Terminal
    <3> QED
      BY <2>2, <3>1, <3>2 DEF Crash
  <2>3. CASE Start
    BY <2>3, SweepType DEF Start
  <2>4. ASSUME NEW u \in Callers, NEW t \in Tiers, SetTier(u, t) PROVE TypeOK'
    BY <2>4 DEF SetTier
  <2>5. ASSUME NEW r \in Runs, NEW u \in Callers, Request(r, u) PROVE TypeOK'
    BY <2>5 DEF Request, Frame
  <2>6. ASSUME NEW r \in Runs, Exhaust(r) \/ Throttle(r) PROVE TypeOK'
    <3>1. NotAsked \in Frame
      BY TimeAssumption DEF NotAsked, Frame
    <3> QED
      BY <2>6, <3>1 DEF Exhaust, Throttle
  <2>7. ASSUME NEW r \in Runs, Admit(r) PROVE TypeOK'
    BY <2>7, ReservedType, TimeAssumption DEF Admit, NotAsked, Frame
  <2>8. ASSUME NEW r \in Runs, FinishRead(r) PROVE TypeOK'
    <3>1. row[r].credits \in Nat
      BY DEF Row
    <3> QED
      BY <2>8, <3>1, SettledCreditsType DEF FinishRead
  <2>9. ASSUME NEW r \in Runs, FinishWrite(r) PROVE TypeOK'
    <3> DEFINE settled == [row[r] EXCEPT !.status = outcome[r].status,
                                         !.credits = outcome[r].credits]
    <3>1. settled \in Row
      <4>1. row[r] \in Row /\ outcome[r] \in [status : Settled, credits : Nat]
        OBVIOUS
      <4>2. outcome[r].status \in Terminal /\ outcome[r].credits \in Nat
        BY <4>1 DEF Settled
      <4> HIDE DEF TypeOK
      <4> QED
        BY <4>1, <4>2 DEF Row
    <3>2. Written(r) = IF IsStarted(row, r) THEN [row EXCEPT ![r] = settled] ELSE row
      BY DEF Written
    <3> HIDE DEF settled
    <3>3. Written(r) \in [Runs -> Row]
      BY <3>1, <3>2
    <3> QED
      BY <2>9, <3>3 DEF FinishWrite, NoOutcome, Settled, Terminal
  <2>10. ASSUME NEW r \in Runs, FinishFails(r) PROVE TypeOK'
    BY <2>10 DEF FinishFails, NoOutcome, Settled, Terminal
  <2>11. CASE UNCHANGED vars
    BY <2>11 DEF vars
  <2> QED
    BY <2>1, <2>2, <2>3, <2>4, <2>5, <2>6, <2>7, <2>8, <2>9, <2>10, <2>11 DEF Next
<1> QED
  BY <1>1, <1>2, PTL DEF Spec

-----------------------------------------------------------------------------
(* No step but an admission adds a row to those that hold a slot. *)
LEMMA StartedShrinks ==
  ASSUME TypeOK, [Next]_vars, \A r \in Runs : ~Admit(r)
  PROVE  StartedRows(row') \subseteq StartedRows(row)
<1> SUFFICES ASSUME NEW r \in Runs, row'[r].status = "started"
             PROVE  row[r].status = "started"
  BY DEF StartedRows, IsStarted
<1>1. CASE UNCHANGED row
  BY <1>1
<1>2. CASE Start
  BY <1>2 DEF Start, SweepOf, IsStarted
<1>3. ASSUME NEW q \in Runs, FinishWrite(q) PROVE row[r].status = "started"
  BY <1>3 DEF FinishWrite, Written, IsStarted, TypeOK, Settled, Terminal
<1> QED
  BY <1>1, <1>2, <1>3 DEF Next, vars, Tick, Crash, SetTier, Request, Exhaust, Throttle,
     FinishRead, FinishFails

LEMMA StartedFinite ==
  ASSUME NEW rows PROVE IsFiniteSet(StartedRows(rows))
BY RunsAssumption, FS_Subset DEF StartedRows

(* The rows that hold a slot never outnumber the server's cap: an admission  *)
(* counts its own row before it commits, and nothing else adds one.          *)
THEOREM ServerCapHolds == Spec => []ServerCapRespected
<1>1. Init => ServerCapRespected
  <2> SUFFICES ASSUME Init PROVE ServerCapRespected
    OBVIOUS
  <2>1. StartedRows(row) = {}
    BY DEF Init, NoRow, StartedRows, IsStarted
  <2> QED
    BY <2>1, FS_EmptySet, CapAssumption DEF ServerCapRespected
<1>2. TypeOK /\ ServerCapRespected /\ [Next]_vars => ServerCapRespected'
  <2> SUFFICES ASSUME TypeOK, ServerCapRespected, [Next]_vars
               PROVE  Cardinality(StartedRows(row')) <= ServerCap
    BY DEF ServerCapRespected
  <2>1. ASSUME NEW r \in Runs, Admit(r)
        PROVE  Cardinality(StartedRows(row')) <= ServerCap
    <3>1. Cardinality(StartedRows(row')) \in Nat
      BY StartedFinite, FS_CardinalityType
    <3> QED
      BY <2>1, <3>1, CapAssumption DEF Admit, OverServerCap
  <2>2. CASE \A r \in Runs : ~Admit(r)
    <3>1. StartedRows(row') \subseteq StartedRows(row)
      BY <2>2, StartedShrinks
    <3>2. Cardinality(StartedRows(row')) <= Cardinality(StartedRows(row))
      BY <3>1, StartedFinite, FS_Subset
    <3>3. /\ Cardinality(StartedRows(row')) \in Nat
          /\ Cardinality(StartedRows(row)) \in Nat
      BY StartedFinite, FS_CardinalityType
    <3> QED
      BY <3>2, <3>3, CapAssumption DEF ServerCapRespected
  <2> QED
    BY <2>1, <2>2
<1> QED
  BY <1>1, <1>2, TypeCorrect, PTL DEF Spec

-----------------------------------------------------------------------------
(* What ties a request to its row: a request that was not admitted has none,  *)
(* a moment was read in the past, a dead process serves nobody, and, with one *)
(* process at a time, a call as young as llm_run_max_age holds its slot.      *)
Serving == {"calling", "settling"}
RowsFollowRequests ==
  \A r \in Runs :
    /\ phase[r] \in {"idle", "reserving", "exhausted", "throttled"} => row[r].status = "none"
    /\ asked[r].moment <= now
    /\ phase[r] = "reserving" => asked[r].tier \in Tiers
    /\ phase[r] \in InMemory => up
    /\ ~Overlap /\ phase[r] \in Serving /\ row[r].created >= now - MaxAge
         => IsStarted(row, r)

LEMMA RequestsInit == Init => RowsFollowRequests
BY DEF Init, RowsFollowRequests, NoRow, NotAsked, InMemory, Serving

LEMMA RequestsStep ==
  TypeOK /\ RowsFollowRequests /\ [Next]_vars => RowsFollowRequests'
<1> SUFFICES ASSUME TypeOK, RowsFollowRequests, [Next]_vars PROVE RowsFollowRequests'
  OBVIOUS
<1> USE TimeAssumption DEF InMemory, Serving, IsStarted
<1>1. CASE Tick
  <2>1. \A r \in Runs : row[r].created \in Int /\ asked[r].moment \in Int
    BY DEF TypeOK, Row, Frame
  <2> QED
    BY <1>1, <2>1 DEF Tick, TypeOK, RowsFollowRequests
<1>2. CASE Crash
  BY <1>2 DEF Crash, TypeOK, RowsFollowRequests, NotAsked
<1>3. CASE Start
  BY <1>3, OverlapAssumption DEF Start, SweepOf, TypeOK, Row, RowsFollowRequests
<1>4. ASSUME NEW u \in Callers, NEW t \in Tiers, SetTier(u, t) PROVE RowsFollowRequests'
  BY <1>4 DEF SetTier, RowsFollowRequests
<1>5. ASSUME NEW r \in Runs, NEW u \in Callers, Request(r, u) PROVE RowsFollowRequests'
  BY <1>5 DEF Request, TypeOK, RowsFollowRequests
<1>6. ASSUME NEW r \in Runs, Exhaust(r) \/ Throttle(r) PROVE RowsFollowRequests'
  BY <1>6 DEF Exhaust, Throttle, TypeOK, RowsFollowRequests, NotAsked
<1>7. ASSUME NEW r \in Runs, Admit(r) PROVE RowsFollowRequests'
  <2>1. ASSUME NEW q \in Runs, q # r
        PROVE  /\ row'[q].created = row[q].created
               /\ \/ row'[q] = row[q]
                  \/ row[q].status = "started" /\ row[q].created < asked[r].moment - MaxAge
    BY <1>7, <2>1 DEF Admit, Reserved, SweepOf, TypeOK, Row
  <2>2. row'[r].status = "started"
    BY <1>7 DEF Admit, Reserved, SweepOf
  <2>3. asked[r].moment \in Int /\ asked[r].moment <= now /\ now \in Nat
    BY DEF TypeOK, Frame, RowsFollowRequests
  <2>4. ASSUME NEW q \in Runs, q # r PROVE row[q].created \in Int
    BY DEF TypeOK, Row
  <2>5. /\ phase' = [phase EXCEPT ![r] = "calling"]
        /\ asked' = [asked EXCEPT ![r] = NotAsked]
        /\ now' = now /\ up' = up /\ up
    BY <1>7 DEF Admit
  <2>6. ASSUME NEW q \in Runs, q # r
        PROVE  /\ phase'[q] = phase[q] /\ asked'[q] = asked[q]
               /\ phase[q] \in {"idle", "reserving", "exhausted", "throttled"}
                    => row'[q] = row[q]
               /\ ~Overlap /\ phase[q] \in Serving /\ row'[q].created >= now - MaxAge
                    => row'[q].status = "started"
    <3>1. phase'[q] = phase[q] /\ asked'[q] = asked[q]
      BY <2>5, <2>6
    <3>2. phase[q] \in {"idle", "reserving", "exhausted", "throttled"} => row'[q] = row[q]
      BY <2>1, <2>6 DEF RowsFollowRequests
    <3>3. ASSUME ~Overlap, phase[q] \in Serving, row'[q].created >= now - MaxAge
          PROVE  row'[q].status = "started"
      BY <2>1, <2>3, <2>4, <2>6, <3>3 DEF RowsFollowRequests
    <3> QED
      BY <3>1, <3>2, <3>3
  <2>7. phase'[r] = "calling" /\ asked'[r] = NotAsked
    BY <2>5 DEF TypeOK
  <2>8. now' \in Nat
    BY <2>3, <2>5
  <2> QED
    BY <2>2, <2>5, <2>6, <2>7, <2>8 DEF RowsFollowRequests, NotAsked
<1>8. ASSUME NEW r \in Runs, FinishRead(r) PROVE RowsFollowRequests'
  BY <1>8 DEF FinishRead, TypeOK, RowsFollowRequests
<1>9. ASSUME NEW r \in Runs, FinishWrite(r) PROVE RowsFollowRequests'
  BY <1>9 DEF FinishWrite, Written, TypeOK, RowsFollowRequests
<1>10. ASSUME NEW r \in Runs, FinishFails(r) PROVE RowsFollowRequests'
  BY <1>10 DEF FinishFails, TypeOK, RowsFollowRequests
<1>11. CASE UNCHANGED vars
  BY <1>11 DEF vars, RowsFollowRequests
<1> QED
  BY <1>1, <1>2, <1>3, <1>4, <1>5, <1>6, <1>7, <1>8, <1>9, <1>10, <1>11 DEF Next

(* A request that was not admitted has no row, and a young call's row is     *)
(* started (the inductive invariant).                                      *)
THEOREM RequestsInvariant == Spec => []RowsFollowRequests
BY RequestsInit, RequestsStep, TypeCorrect, PTL DEF Spec

(* A run younger than llm_run_max_age that a living process serves holds its *)
(* slot: no sweep takes it early.                                            *)
THEOREM LiveRunsHold == Spec => []LiveRunsHoldSlots
<1>1. RowsFollowRequests => LiveRunsHoldSlots
  BY DEF RowsFollowRequests, LiveRunsHoldSlots, LiveAndFresh, StartedRows, Serving
<1> QED
  BY <1>1, RequestsInvariant, PTL

(* No step but an admission of her own adds a row that holds a slot of a user. *)
LEMMA OwnStartedShrinks ==
  ASSUME TypeOK, [Next]_vars, NEW u \in Callers, \A r \in Runs : Admit(r) => asked[r].user # u
  PROVE  StartedRowsOf(row', u) \subseteq StartedRowsOf(row, u)
<1> SUFFICES ASSUME NEW r \in Runs, row'[r].status = "started", row'[r].user = u
             PROVE  row[r].status = "started" /\ row[r].user = u
  BY DEF StartedRowsOf, StartedRows, IsStarted
<1>1. CASE UNCHANGED row
  BY <1>1
<1>2. CASE Start
  <2>1. row' = SweepOf(row, Runs) /\ row[r] \in Row
    BY <1>2 DEF Start, TypeOK
  <2>2. row'[r] = IF row[r].status = "started" THEN [row[r] EXCEPT !.status = "abandoned"] ELSE row[r]
    BY <2>1 DEF SweepOf, IsStarted
  <2>3. row[r].status # "started"
    BY <2>1, <2>2 DEF Row
  <2> QED
    BY <2>2, <2>3
<1>3. ASSUME NEW q \in Runs, FinishWrite(q) PROVE row[r].status = "started" /\ row[r].user = u
  BY <1>3 DEF FinishWrite, Written, IsStarted, TypeOK, Row, Settled, Terminal
<1>4. ASSUME NEW q \in Runs, Admit(q) PROVE row[r].status = "started" /\ row[r].user = u
  <2>1. row' = Reserved(q) /\ asked[q].user # u
    BY <1>4 DEF Admit
  <2>2. r # q
    BY <2>1 DEF Reserved, SweepOf, TypeOK
  <2>3. row[r] \in Row
    BY DEF TypeOK
  <2>4. row'[r] = row[r] \/ row'[r] = [row[r] EXCEPT !.status = "abandoned"]
    BY <2>1, <2>2 DEF Reserved, SweepOf
  <2>5. row'[r] = row[r]
    BY <2>3, <2>4 DEF Row
  <2> QED
    BY <2>5
<1> QED
  BY <1>1, <1>2, <1>3, <1>4 DEF Next, vars, Tick, Crash, SetTier, Request, Exhaust, Throttle,
     FinishRead, FinishFails

(* A user never holds more slots than the largest cap of a tier allows: what   *)
(* is counted at an admission is her own, and judged by the tier it was read   *)
(* with.                                                                       *)
THEOREM CallerCapsHold == Spec => []CallerCapsRespected
<1>1. ASSUME NEW rows, NEW u
      PROVE  IsFiniteSet(StartedRowsOf(rows, u)) /\ Cardinality(StartedRowsOf(rows, u)) \in Nat
  <2>1. IsFiniteSet(StartedRowsOf(rows, u))
    BY StartedFinite, FS_Subset DEF StartedRowsOf
  <2> QED
    BY <2>1, FS_CardinalityType
<1>2. Init => CallerCapsRespected
  <2> SUFFICES ASSUME Init, NEW u \in Callers
               PROVE  \E t \in Tiers : Cardinality(StartedRowsOf(row, u)) <= UserCap[t]
    BY DEF CallerCapsRespected
  <2>1. StartedRowsOf(row, u) = {}
    BY DEF Init, NoRow, StartedRowsOf, StartedRows, IsStarted
  <2>2. tier[u] \in Tiers /\ UserCap[tier[u]] \in Nat
    BY CapAssumption DEF Init
  <2> QED
    BY <2>1, <2>2, FS_EmptySet
<1>3. TypeOK /\ RowsFollowRequests /\ CallerCapsRespected /\ [Next]_vars => CallerCapsRespected'
  <2> SUFFICES ASSUME TypeOK, RowsFollowRequests, CallerCapsRespected, [Next]_vars, NEW u \in Callers
               PROVE  \E t \in Tiers : Cardinality(StartedRowsOf(row', u)) <= UserCap[t]
    BY DEF CallerCapsRespected
  <2>1. ASSUME NEW r \in Runs, Admit(r), asked[r].user = u
        PROVE  \E t \in Tiers : Cardinality(StartedRowsOf(row', u)) <= UserCap[t]
    <3>1. asked[r].tier \in Tiers
      BY <2>1 DEF Admit, RowsFollowRequests
    <3>2. ~(Cardinality(StartedRowsOf(row', u)) > UserCap[asked[r].tier])
      BY <2>1 DEF Admit, OverUserCap
    <3>3. Cardinality(StartedRowsOf(row', u)) \in Nat /\ UserCap[asked[r].tier] \in Nat
      BY <1>1, <3>1, CapAssumption
    <3> QED
      BY <3>1, <3>2, <3>3
  <2>2. CASE \A r \in Runs : Admit(r) => asked[r].user # u
    <3>1. PICK t \in Tiers : Cardinality(StartedRowsOf(row, u)) <= UserCap[t]
      BY DEF CallerCapsRespected
    <3>2. Cardinality(StartedRowsOf(row', u)) <= Cardinality(StartedRowsOf(row, u))
      BY <1>1, <2>2, OwnStartedShrinks, FS_Subset
    <3>3. Cardinality(StartedRowsOf(row', u)) \in Nat /\ Cardinality(StartedRowsOf(row, u)) \in Nat
          /\ UserCap[t] \in Nat
      BY <1>1, CapAssumption
    <3> QED
      BY <3>1, <3>2, <3>3
  <2> QED
    BY <2>1, <2>2
<1> QED
  BY <1>2, <1>3, TypeCorrect, RequestsInvariant, PTL DEF Spec

(* The server's cap and the callers' hold, and they count every run that is     *)
(* still at work and not too old, where one process serves at a time.           *)
THEOREM SlotsHeld == Spec => []SlotsAreHeld
BY ServerCapHolds, CallerCapsHold, LiveRunsHold, PTL DEF SlotsAreHeld

-----------------------------------------------------------------------------
(* A terminal row is never written again, in any order of sweeps, settlements, *)
(* admissions and restarts.                                                    *)
THEOREM TerminalRowsStay == Spec => TerminalIsFinal
<1> DEFINE Stays == \A r \in Runs : row[r].status \in Terminal => row'[r] = row[r]
<1>1. TypeOK /\ RowsFollowRequests /\ [Next]_vars => Stays
  <2> SUFFICES ASSUME TypeOK, RowsFollowRequests, [Next]_vars,
                      NEW r \in Runs, row[r].status \in Terminal
               PROVE  row'[r] = row[r]
    OBVIOUS
  <2> USE DEF Terminal
  <2>1. CASE UNCHANGED row
    BY <2>1
  <2>2. CASE Start
    BY <2>2 DEF Start, SweepOf, IsStarted
  <2>3. ASSUME NEW q \in Runs, Admit(q) PROVE row'[r] = row[r]
    <3>1. r # q
      BY <2>3 DEF Admit, RowsFollowRequests
    <3> QED
      BY <2>3, <3>1 DEF Admit, Reserved, SweepOf, IsStarted
  <2>4. ASSUME NEW q \in Runs, FinishWrite(q) PROVE row'[r] = row[r]
    BY <2>4 DEF FinishWrite, Written, IsStarted, TypeOK
  <2> QED
    BY <2>1, <2>2, <2>3, <2>4 DEF Next, vars, Tick, Crash, SetTier, Request, Exhaust,
       Throttle, FinishRead, FinishFails
<1>2. Spec => [][Stays]_vars
  BY <1>1, TypeCorrect, RequestsInvariant, PTL DEF Spec
<1> QED
  BY <1>2 DEF TerminalIsFinal

-----------------------------------------------------------------------------
(* What the reservation transaction counts: the rows young enough to survive *)
(* its sweep, and its own.                                                   *)
LEMMA ReservedStarted ==
  ASSUME TypeOK, RowsFollowRequests, NEW r \in Runs, phase[r] = "reserving"
  PROVE  /\ StartedRows(Reserved(r)) = FreshStarted(asked[r].moment) \cup {r}
         /\ r \notin FreshStarted(asked[r].moment)
         /\ Reserved(r)[r].user = asked[r].user
         /\ \A x \in Runs : x # r => Reserved(r)[x].user = row[x].user
<1>1. row[r].status = "none"
  BY DEF RowsFollowRequests
<1>2. Reserved(r)[r].status = "started" /\ Reserved(r)[r].user = asked[r].user
  BY DEF Reserved, SweepOf
<1>3. ASSUME NEW x \in Runs, x # r
      PROVE  /\ Reserved(r)[x].user = row[x].user
             /\ Reserved(r)[x].status = "started"
                  <=> row[x].status = "started" /\ row[x].created >= asked[r].moment - MaxAge
  <2>1. /\ row[x].created \in Int /\ asked[r].moment \in Int /\ MaxAge \in Int
        /\ row[x] \in Row
    BY TimeAssumption DEF TypeOK, Row, Frame
  <2>2. Reserved(r)[x] =
          IF row[x].status = "started" /\ row[x].created < asked[r].moment - MaxAge
            THEN [row[x] EXCEPT !.status = "abandoned"] ELSE row[x]
    BY <1>3 DEF Reserved, SweepOf, IsStarted
  <2> QED
    BY <2>1, <2>2 DEF Row
<1> QED
  BY <1>1, <1>2, <1>3 DEF StartedRows, FreshStarted, IsStarted

(* Only runs younger than llm_run_max_age ever cost a request its admission. *)
THEOREM FreshRunsThrottle == Spec => OnlyFreshRunsThrottle
<1> DEFINE Justified(r) ==
      LET fresh == FreshStarted(asked[r].moment)
          own == {x \in fresh : row[x].user = asked[r].user}
      IN  \/ Cardinality(own) >= UserCap[asked[r].tier]
          \/ Cardinality(fresh) >= ServerCap
    OnlyFresh == \A r \in Runs :
      phase[r] = "reserving" /\ phase'[r] = "throttled" => Justified(r)
<1>1. TypeOK /\ RowsFollowRequests /\ [Next]_vars => OnlyFresh
  <2> SUFFICES ASSUME TypeOK, RowsFollowRequests, [Next]_vars, NEW r \in Runs,
                      phase[r] = "reserving", phase'[r] = "throttled"
               PROVE  Justified(r)
    OBVIOUS
  <2>1. Throttle(r)
    BY DEF Next, vars, Tick, Crash, Start, SetTier, Request, Exhaust, Throttle, Admit,
       FinishRead, FinishWrite, FinishFails, TypeOK, InMemory
  <2> DEFINE fresh == FreshStarted(asked[r].moment)
             own == {x \in fresh : row[x].user = asked[r].user}
             after == StartedRows(Reserved(r))
  <2>2. after = fresh \cup {r} /\ r \notin fresh
    BY ReservedStarted
  <2>3. StartedRowsOf(Reserved(r), asked[r].user) = own \cup {r} /\ r \notin own
    BY ReservedStarted DEF StartedRowsOf, FreshStarted, StartedRows
  <2>4. IsFiniteSet(fresh) /\ IsFiniteSet(own)
    BY StartedFinite, FS_Subset DEF FreshStarted
  <2>5. /\ Cardinality(fresh \cup {r}) = Cardinality(fresh) + 1
        /\ Cardinality(own \cup {r}) = Cardinality(own) + 1
        /\ Cardinality(fresh) \in Nat /\ Cardinality(own) \in Nat
    BY <2>2, <2>3, <2>4, FS_AddElement, FS_CardinalityType
  <2>6. CASE OverServerCap(r)
    BY <2>2, <2>5, <2>6, CapAssumption DEF OverServerCap
  <2>7. CASE OverUserCap(r)
    <3>1. Cardinality(own) + 1 > UserCap[asked[r].tier]
      BY <2>3, <2>5, <2>7 DEF OverUserCap
    <3>2. asked[r].tier \in Tiers
      BY DEF TypeOK, RowsFollowRequests
    <3>3. UserCap[asked[r].tier] \in Nat
      BY <3>2, CapAssumption
    <3> QED
      BY <3>1, <3>3, <2>5
  <2> QED
    BY <2>1, <2>6, <2>7 DEF Throttle
<1>2. Spec => [][OnlyFresh]_vars
  BY <1>1, TypeCorrect, RequestsInvariant, PTL DEF Spec
<1> QED
  BY <1>2, PTL DEF OnlyFreshRunsThrottle

-----------------------------------------------------------------------------
(* The selection. *)

(* The nearest rung of a set: it is one of the set, and none is nearer. *)
LEMMA LowestRung ==
  ASSUME NEW S \in SUBSET Rungs, S # {}
  PROVE  Min(S) \in S /\ \A t \in S : Min(S) <= t
<1>1. \A y \in S : y = 1 \/ y = 2 \/ y = 3 \/ y = 4
  BY DEF Rungs
<1>2. \E x \in S : \A y \in S : x <= y
  <2>1. CASE 1 \in S
    BY <2>1, <1>1
  <2>2. CASE 1 \notin S /\ 2 \in S
    BY <2>2, <1>1
  <2>3. CASE 1 \notin S /\ 2 \notin S /\ 3 \in S
    BY <2>3, <1>1
  <2>4. CASE 1 \notin S /\ 2 \notin S /\ 3 \notin S
    BY <2>4, <1>1
  <2> QED BY <2>1, <2>2, <2>3, <2>4
<1> QED BY <1>2 DEF Min

LEMMA HighestRung ==
  ASSUME NEW S \in SUBSET Rungs, S # {}
  PROVE  Max(S) \in S /\ \A t \in S : Max(S) >= t
<1>1. \A y \in S : y = 1 \/ y = 2 \/ y = 3 \/ y = 4
  BY DEF Rungs
<1>2. \E x \in S : \A y \in S : x >= y
  <2>1. CASE 4 \in S
    BY <2>1, <1>1
  <2>2. CASE 4 \notin S /\ 3 \in S
    BY <2>2, <1>1
  <2>3. CASE 4 \notin S /\ 3 \notin S /\ 2 \in S
    BY <2>3, <1>1
  <2>4. CASE 4 \notin S /\ 3 \notin S /\ 2 \notin S
    BY <2>4, <1>1
  <2> QED BY <2>1, <2>2, <2>3, <2>4
<1> QED BY <1>2 DEF Max

-----------------------------------------------------------------------------
(* What every answer of the resolution has: it is within the policy, and a   *)
(* provider is missing exactly when a reason is given.                       *)
Answer(policy, language, e) ==
  /\ WithinPolicy(policy, language, e)
  /\ e.provider \in Providers \cup {Unset}
  /\ e.provider = Unset => e.skipped = "llm_unavailable"
  /\ e.provider # Unset => e.skipped = Unset

(* A routed tier gives its entry or nothing.                                *)
LEMMA RoutedAnswers ==
  ASSUME NEW policy \in Policy, NEW language \in Languages,
         NEW t \in policy.tiers, NEW degraded \in BOOLEAN
  PROVE  /\ Answer(policy, language, Routed(t, language, degraded))
         /\ Routed(t, language, degraded).tier = t
         /\ Routed(t, language, degraded).degraded = degraded
<1> DEFINE entry == Routing[language][t]
           e == Routed(t, language, degraded)
<1>1. t \in Rungs
  BY DEF Policy
<1>2. entry \in Route \cup {Unset}
  BY <1>1, ConfigurationAssumption DEF RoutingTable
<1>3. CASE entry = Unset
  <2>1. e = [tier |-> t, provider |-> Unset, model |-> Unset, degraded |-> degraded,
             skipped |-> "llm_unavailable"]
    BY <1>3 DEF Routed, Skipped, Selected
  <2> QED BY <2>1 DEF Answer, WithinPolicy
<1>4. CASE entry # Unset
  <2>1. entry \in Route
    BY <1>2, <1>4
  <2>2. entry.provider \in Providers /\ entry = [provider |-> entry.provider, model |-> entry.model]
    BY <2>1 DEF Route
  <2>3. e = [tier |-> t, provider |-> entry.provider, model |-> entry.model,
             degraded |-> degraded, skipped |-> Unset]
    BY <1>4 DEF Routed, Selected
  <2> QED BY <2>2, <2>3, UnsetAssumption DEF Answer, WithinPolicy
<1> QED BY <1>3, <1>4

(* The fallback under an empty tier list keeps to the list of providers and *)
(* to the allowlist of the one it picks.                                    *)
LEMMA FallbackAnswers ==
  ASSUME NEW policy \in Policy, NEW language \in Languages
  PROVE  /\ Answer(policy, language, DirectFallback(policy))
         /\ DirectFallback(policy).tier = Unset
         /\ \/ DirectFallback(policy).degraded
            \/ DirectFallback(policy).provider = Unset
<1> DEFINE p == Substitute(policy)
           e == DirectFallback(policy)
           m == IF policy.models[p] # <<>> THEN policy.models[p][1] ELSE DefaultModel[p]
<1>1. /\ policy.providers \in Seq(Providers) \cup {Unset}
      /\ policy.models \in [Providers -> Seq(Models)]
  BY DEF Policy
<1>2. CASE p = Unset
  <2>1. e = [tier |-> Unset, provider |-> Unset, model |-> Unset, degraded |-> FALSE,
             skipped |-> "llm_unavailable"]
    BY <1>2 DEF DirectFallback, Skipped, Selected
  <2> QED BY <2>1 DEF Answer, WithinPolicy
<1>3. CASE p # Unset
  <2>1. p \in Providers /\ Offers(policy, p)
    <3>1. CASE policy.providers = Unset
      BY <3>1, ConfigurationAssumption DEF Substitute, Offers
    <3>2. CASE policy.providers # Unset
      <4>1. policy.providers \in Seq(Providers) /\ policy.providers # <<>>
        BY <1>1, <1>3, <3>2 DEF Substitute
      <4>2. 1 \in 1..Len(policy.providers) /\ policy.providers[1] \in Providers
        BY <4>1
      <4>3. p = policy.providers[1]
        BY <3>2, <4>1 DEF Substitute
      <4> QED BY <4>2, <4>3 DEF Offers
    <3> QED BY <3>1, <3>2
  <2>2. policy.models[p] \in Seq(Models)
    BY <1>1, <2>1
  <2>3. Permits(policy, p, m)
    <3>1. CASE policy.models[p] = <<>>
      BY <3>1 DEF Permits
    <3>2. CASE policy.models[p] # <<>>
      <4>1. 1 \in 1..Len(policy.models[p])
        BY <2>2, <3>2
      <4> QED BY <3>2, <4>1 DEF Permits
    <3> QED BY <3>1, <3>2
  <2>4. e = [tier |-> Unset, provider |-> p, model |-> m, degraded |-> TRUE, skipped |-> Unset]
    BY <1>3 DEF DirectFallback, Selected
  <2> HIDE DEF p, m
  <2> QED BY <2>1, <2>3, <2>4, UnsetAssumption DEF Answer, WithinPolicy
<1> QED BY <1>2, <1>3

-----------------------------------------------------------------------------
(* A request for a quality tier.                                            *)
LEMMA TierAnswers ==
  ASSUME NEW policy \in Policy, NEW language \in Languages, NEW rung \in Rungs
  PROVE  LET e == ResolveTier(policy, rung, language) IN
         /\ Answer(policy, language, e)
         /\ rung \in policy.tiers => ~e.degraded /\ e.tier = rung
         /\ rung \notin policy.tiers => e.degraded \/ e.provider = Unset
         /\ e.tier # Unset /\ e.tier < rung => \A t \in policy.tiers : t < rung
<1> DEFINE e == ResolveTier(policy, rung, language)
           below == Below(policy, rung)
           above == Above(policy, rung)
<1>1. policy.tiers \in SUBSET Rungs
  BY DEF Policy
<1>2. below \in SUBSET Rungs /\ above \in SUBSET Rungs
  BY <1>1 DEF Below, Above
<1>3. \A t \in Rungs : t \in Int
  BY DEF Rungs
<1>4. CASE rung \in policy.tiers
  <2>1. e = Routed(rung, language, FALSE)
    BY <1>4 DEF ResolveTier
  <2>2. /\ Answer(policy, language, e) /\ e.tier = rung /\ e.degraded = FALSE
    <3>1. FALSE \in BOOLEAN
      OBVIOUS
    <3> HIDE DEF e
    <3> QED BY <1>4, <2>1, <3>1, RoutedAnswers
  <2>3. ~(e.tier < rung)
    BY <2>2, <1>3
  <2> QED BY <1>4, <2>2, <2>3
<1>5. CASE rung \notin policy.tiers /\ below # {}
  <2>1. Min(below) \in below
    BY <1>2, <1>5, LowestRung
  <2>2. Min(below) \in policy.tiers /\ Min(below) > rung
    BY <2>1 DEF Below
  <2>3. e = Routed(Min(below), language, TRUE)
    BY <1>5 DEF ResolveTier
  <2>4. Answer(policy, language, e) /\ e.tier = Min(below) /\ e.degraded = TRUE
    BY <2>2, <2>3, RoutedAnswers
  <2>5. ~(e.tier < rung)
    BY <2>2, <2>4, <1>1, <1>3
  <2> QED BY <1>5, <2>4, <2>5
<1>6. CASE rung \notin policy.tiers /\ below = {} /\ above # {}
  <2>1. Max(above) \in above
    BY <1>2, <1>6, HighestRung
  <2>2. Max(above) \in policy.tiers
    BY <2>1 DEF Above
  <2>3. e = Routed(Max(above), language, TRUE)
    BY <1>6 DEF ResolveTier
  <2>4. Answer(policy, language, e) /\ e.degraded = TRUE
    BY <2>2, <2>3, RoutedAnswers
  <2>5. \A t \in policy.tiers : t < rung
    BY <1>1, <1>3, <1>6 DEF Below
  <2> QED BY <1>6, <2>4, <2>5
<1>7. CASE rung \notin policy.tiers /\ below = {} /\ above = {}
  <2>1. e = DirectFallback(policy)
    BY <1>7 DEF ResolveTier
  <2>2. /\ Answer(policy, language, e) /\ e.tier = Unset
        /\ e.degraded \/ e.provider = Unset
    BY <2>1, FallbackAnswers
  <2> QED BY <1>7, <2>2
<1> QED BY <1>4, <1>5, <1>6, <1>7

(* A request for a provider and perhaps a model.                            *)
LEMMA DirectAnswers ==
  ASSUME NEW policy \in Policy, NEW language \in Languages,
         NEW p \in Providers, NEW model \in Models \cup {Unset}
  PROVE  LET e == ResolveDirect(policy, p, model, language)
             granted == Offers(policy, p) /\ Permits(policy, p, Wanted(p, model))
         IN
         /\ Answer(policy, language, e)
         /\ granted => ~e.degraded /\ e.tier = Unset /\ e.provider = p /\ e.model = Wanted(p, model)
         /\ ~granted => e.degraded \/ e.provider = Unset
<1> DEFINE e == ResolveDirect(policy, p, model, language)
           want == Wanted(p, model)
<1>1. policy.tiers \in SUBSET Rungs /\ policy.models[p] \in Seq(Models)
  BY DEF Policy
<1>2. CASE Offers(policy, p) /\ Permits(policy, p, want)
  <2>1. e = [tier |-> Unset, provider |-> p, model |-> want, degraded |-> FALSE, skipped |-> Unset]
    BY <1>2 DEF ResolveDirect, Selected
  <2> HIDE DEF want
  <2>2. Answer(policy, language, e)
    BY <1>2, <2>1, UnsetAssumption DEF Answer, WithinPolicy
  <2> USE DEF want
  <2> QED BY <1>2, <2>1, <2>2
<1>3. CASE Offers(policy, p) /\ ~Permits(policy, p, want)
  <2> DEFINE first == policy.models[p][1]
  <2>1. e = [tier |-> Unset, provider |-> p, model |-> first, degraded |-> TRUE, skipped |-> Unset]
    BY <1>3 DEF ResolveDirect, Selected
  <2>2. Permits(policy, p, first)
    <3>1. policy.models[p] # <<>>
      BY <1>3 DEF Permits
    <3>2. 1 \in 1..Len(policy.models[p])
      BY <1>1, <3>1
    <3> QED BY <3>2 DEF Permits
  <2>3. Answer(policy, language, e)
    <3> HIDE DEF first
    <3> QED BY <1>3, <2>1, <2>2, UnsetAssumption DEF Answer, WithinPolicy
  <2> QED BY <1>3, <2>1, <2>3
<1>4. CASE ~Offers(policy, p) /\ policy.tiers # {}
  <2>1. Min(policy.tiers) \in policy.tiers
    BY <1>1, <1>4, LowestRung
  <2>2. e = Routed(Min(policy.tiers), language, TRUE)
    BY <1>4 DEF ResolveDirect
  <2>3. Answer(policy, language, e) /\ e.degraded = TRUE
    BY <2>1, <2>2, RoutedAnswers
  <2> QED BY <1>4, <2>3
<1>5. CASE ~Offers(policy, p) /\ policy.tiers = {}
  <2>1. e = DirectFallback(policy)
    BY <1>5 DEF ResolveDirect
  <2>2. Answer(policy, language, e) /\ (e.degraded \/ e.provider = Unset)
    BY <2>1, FallbackAnswers
  <2> QED BY <1>5, <2>2
<1> QED BY <1>2, <1>3, <1>4, <1>5

-----------------------------------------------------------------------------
LEMMA PolicyIsOne ==
  ASSUME NEW who \in Caller
  PROVE  PolicyFor(who) \in Policy
<1>1. NoModels \in [Providers -> Seq(Models)]
  BY DEF NoModels
<1>2. FullPolicy \in Policy
  BY <1>1 DEF FullPolicy, Policy
<1>3. NoLlmPolicy \in Policy
  <2>1. <<>> \in Seq(Providers)
    OBVIOUS
  <2> QED BY <1>1, <2>1 DEF NoLlmPolicy, Policy
<1> QED BY <1>2, <1>3, ConfigurationAssumption DEF PolicyFor, Plan

(* For every policy, request and language of a valid configuration, the     *)
(* selection is within the policy.                                          *)
LEMMA ResolveAnswers ==
  ASSUME NEW policy \in Policy, NEW ask \in Ask, NEW language \in Languages
  PROVE  LET e == Resolve(policy, ask, language) IN
         /\ Answer(policy, language, e)
         /\ SaysSo(policy, ask, e)
         /\ NeverBetterThanNeeded(policy, ask, e)
<1> DEFINE e == Resolve(policy, ask, language)
<1>1. /\ ask.tier \in Rungs \cup {Unset}
      /\ ask.provider \in Providers \cup {Unset}
      /\ ask.model \in Models \cup {Unset}
  BY DEF Ask
<1>2. CASE ask.tier # Unset
  <2>1. ask.tier \in Rungs
    BY <1>1, <1>2
  <2>2. e = ResolveTier(policy, ask.tier, language)
    BY <1>2 DEF Resolve
  <2>3. /\ Answer(policy, language, e)
        /\ ask.tier \in policy.tiers => ~e.degraded /\ e.tier = ask.tier
        /\ ask.tier \notin policy.tiers => e.degraded \/ e.provider = Unset
        /\ e.tier # Unset /\ e.tier < ask.tier => \A t \in policy.tiers : t < ask.tier
    BY <2>1, <2>2, TierAnswers
  <2> QED BY <1>2, <2>3 DEF SaysSo, Grants, AsAsked, Answer, NeverBetterThanNeeded
<1>3. CASE ask.tier = Unset
  <2> DEFINE p == AskedProvider(ask)
  <2>1. p \in Providers
    BY <1>1, ConfigurationAssumption DEF AskedProvider
  <2>2. e = ResolveDirect(policy, p, ask.model, language)
    BY <1>3 DEF Resolve
  <2>3. /\ Answer(policy, language, e)
        /\ Grants(policy, ask) => ~e.degraded /\ AsAsked(ask, e)
        /\ ~Grants(policy, ask) => e.degraded \/ e.provider = Unset
    BY <1>1, <1>3, <2>1, <2>2, DirectAnswers DEF Grants, AsAsked
  <2> QED BY <1>3, <2>3 DEF SaysSo, Answer, NeverBetterThanNeeded
<1> QED BY <1>2, <1>3

(* Whatever the gate lets through to the reservation is granted by the       *)
(* caller's plan, is a provider this server can construct, and fits the     *)
(* plan's size; an administrator passes for the plan that grants everything *)
(* (llm_gate.py:167-205).                                                   *)
THEOREM GateAdmitsWhatIsGranted ==
  ASSUME NEW who \in Caller, NEW ask \in Ask, NEW language \in Languages, NEW chars \in Nat,
         Reserves(Gate(who, ask, language, chars))
  PROVE  LET e == Gate(who, ask, language, chars) IN
         /\ WithinPolicy(PolicyFor(who), language, e)
         /\ SaysSo(PolicyFor(who), ask, e)
         /\ NeverBetterThanNeeded(PolicyFor(who), ask, e)
         /\ e.provider \in Known
         /\ chars <= CharsFor(who)
<1> DEFINE policy == PolicyFor(who)
           e == Resolve(policy, ask, language)
           g == Gate(who, ask, language, chars)
<1>1. policy \in Policy
  BY PolicyIsOne
<1>2. /\ Answer(policy, language, e)
      /\ SaysSo(policy, ask, e)
      /\ NeverBetterThanNeeded(policy, ask, e)
  BY <1>1, ResolveAnswers
<1>3. CharsFor(who) \in Nat
  BY ConfigurationAssumption DEF CharsFor, Plan
<1>4. \A why : Skipped(Unset, FALSE, why).provider = Unset
  BY DEF Skipped, Selected
<1> DEFINE stranger == ask.tier = Unset /\ ask.provider # Unset /\ ~Constructible(ask.provider)
           unbuilt == e.provider # Unset /\ ~Constructible(e.provider)
<1>5. ~stranger
  <2>1. SUFFICES ASSUME stranger PROVE FALSE
    OBVIOUS
  <2>2. g = Skipped(Unset, FALSE, "unknown_provider")
    BY <2>1 DEF Gate
  <2> QED BY <1>4, <2>2 DEF Reserves
<1>6. ~(chars > CharsFor(who))
  <2>1. SUFFICES ASSUME chars > CharsFor(who) PROVE FALSE
    OBVIOUS
  <2>2. g = Skipped(Unset, FALSE, "document_too_large")
    BY <1>5, <2>1 DEF Gate
  <2> QED BY <1>4, <2>2 DEF Reserves
<1>7. e = [tier |-> e.tier, provider |-> e.provider, model |-> e.model,
           degraded |-> e.degraded, skipped |-> e.skipped]
  BY <1>1 DEF Resolve, ResolveTier, ResolveDirect, DirectFallback, Routed, Skipped, Selected
<1>8. ~unbuilt
  <2>1. SUFFICES ASSUME unbuilt PROVE FALSE
    OBVIOUS
  <2>2. g = [e EXCEPT !.skipped = "llm_unavailable"]
    BY <1>5, <1>6, <2>1 DEF Gate
  <2>3. g.skipped = "llm_unavailable"
    <3> HIDE DEF e, g
    <3> QED BY <1>7, <2>2
  <2> QED BY <2>3, UnsetAssumption DEF Reserves, Reasons
<1>9. g = e
  BY <1>5, <1>6, <1>8 DEF Gate
<1>10. g.provider # Unset
  BY DEF Reserves
<1>11. chars <= CharsFor(who)
  BY <1>3, <1>6
<1>12. e.provider \in Known
  BY <1>8, <1>9, <1>10 DEF Constructible
<1> QED BY <1>2, <1>9, <1>11, <1>12 DEF Answer

(* A user whose plan is not configured gets no LLM, whatever she asks for,   *)
(* although her limits are then an administrator's (permissions.py:117-118). *)
THEOREM UnknownPlanReservesNothing ==
  ASSUME NEW who \in Caller, ~Unrestricted(who), who.plan \notin DOMAIN Plans,
         NEW ask \in Ask, NEW language \in Languages, NEW chars \in Nat
  PROVE  ~Reserves(Gate(who, ask, language, chars))
<1> DEFINE e == Resolve(NoLlmPolicy, ask, language)
<1>1. PolicyFor(who) = NoLlmPolicy
  BY DEF PolicyFor
<1>2. Substitute(NoLlmPolicy) = Unset
  BY UnsetAssumption DEF Substitute, NoLlmPolicy
<1>3. \A rung, degraded, why : Skipped(rung, degraded, why).provider = Unset
  BY DEF Skipped, Selected
<1>4. DirectFallback(NoLlmPolicy).provider = Unset
  BY <1>2, <1>3 DEF DirectFallback
<1>5. e = DirectFallback(NoLlmPolicy)
  <2>1. NoLlmPolicy.tiers = {} /\ NoLlmPolicy.providers = <<>>
    BY DEF NoLlmPolicy
  <2>2. \A p : ~Offers(NoLlmPolicy, p)
    BY <2>1, UnsetAssumption DEF Offers
  <2>3. \A rung : Below(NoLlmPolicy, rung) = {} /\ Above(NoLlmPolicy, rung) = {}
    BY <2>1 DEF Below, Above
  <2> QED BY <2>1, <2>2, <2>3 DEF Resolve, ResolveTier, ResolveDirect
<1> QED BY <1>1, <1>3, <1>4, <1>5 DEF Gate, Reserves

=============================================================================
