----------------------------- MODULE TabSession -----------------------------
(***************************************************************************)
(* The session of a browser tab, beside other tabs of the same browser.     *)
(*                                                                         *)
(* A tab keeps an access token, a rotating refresh token and its user; the  *)
(* three are also stored, key by key, where all tabs of the browser read     *)
(* and overwrite them.  A timer renews the tokens; page loads restore them;   *)
(* a refused token ends the session; and every answer may come after the      *)
(* session that asked has ended.                                            *)
(*                                                                         *)
(* frontend/src/auth/{session.ts,LoginGate.tsx}, api/client.ts.  With an     *)
(* identity provider (without one there is no refresh token and no timer).  *)
(***************************************************************************)
EXTENDS Naturals, Sequences, FiniteSets

CONSTANTS
  Tabs, Users, None,
  MaxSessions, MaxRotations,
  Loads     \* the mixes tried: who was signed in, what users do, how often

Acts == {"login", "logout", "reload", "retry", "work", "fail", "late"}

ASSUME TabsAssumption == Tabs # {} /\ None \notin Tabs \cup Users
ASSUME CountsAssumption ==
  /\ MaxSessions \in Nat \ {0} /\ MaxRotations \in Nat
  /\ \A l \in Loads : l.owner \in Users \cup {None} /\ l.acts \subseteq Acts /\ l.moves \in Nat

VARIABLES
  sess,    \* the provider's sessions: whose, how often rotated, alive
  storage, \* localStorage: token and refresh (with its expiry, by the model at once), owner
  tab,     \* the store and the timer of each tab
  writes,  \* what the tab's current task has yet to write into the storage
  calls,   \* requests under way
  load, moves \* the mix; what users did

sessionVars == <<sess, storage, tab, writes, calls, load, moves>>

Sids == 1..MaxSessions
Tokens == [sid : Sids, n : 0..MaxRotations]
ASSUME TokensAssumption == None \notin Tokens

Unborn == [user |-> None, n |-> 0, alive |-> FALSE]
\* A page that has just read the storage.
Loaded(s) == [token |-> s.token, refresh |-> s.refresh, user |-> None, status |-> "unknown",
              failed |-> FALSE, timer |-> FALSE, expiring |-> FALSE, restoring |-> "mount"]
Call(t, kind) == [tab |-> t, kind |-> kind, token |-> None, user |-> None,
                  current |-> TRUE,    \* the generation it was started under, and the last refreshUser
                  reply |-> "none", id |-> 0]

Statuses == {"unknown", "anonymous", "authenticated"}
Restorings == {"no", "mount", "refresh", "me"}
Kinds == {"login", "refresh", "me", "user", "logout"}
Page == [token : Tokens \cup {None}, refresh : Tokens \cup {None}, user : Users \cup {None},
         status : Statuses, failed : BOOLEAN, timer : BOOLEAN, expiring : BOOLEAN,
         restoring : Restorings]
Calling == [tab : Tabs \cup {None}, kind : Kinds, token : Tokens \cup {None},
            user : Users \cup {None}, current : BOOLEAN,
            reply : {"none", "ok", "refused", "failed"}, id : Nat]
\* A write of the storage: both tokens, or the owner.
Writing == ({{"token", "refresh"}} \X (Tokens \cup {None})) \cup ({{"owner"}} \X (Users \cup {None}))

SessionTypeOK ==
  /\ sess \in [Sids -> [user : Users \cup {None}, n : 0..MaxRotations, alive : BOOLEAN]]
  /\ storage \in [token : Tokens \cup {None}, refresh : Tokens \cup {None}, owner : Users \cup {None}]
  /\ tab \in [Tabs -> Page]
  /\ writes \in [Tabs -> Seq(Writing)]
  /\ calls \subseteq Calling
  /\ load \in Loads /\ moves \in 0..load.moves

\* The pages load, with or without the tokens of an earlier visit.
Stored(user) == LET token == IF user = None THEN None ELSE [sid |-> 1, n |-> 0]
                IN [token |-> token, refresh |-> token, owner |-> user]
SessionInit ==
  /\ load \in Loads
  /\ sess = [s \in Sids |-> IF s = 1 /\ load.owner # None
                              THEN [user |-> load.owner, n |-> 0, alive |-> TRUE] ELSE Unborn]
  /\ storage = Stored(load.owner)
  /\ tab = [t \in Tabs |-> Loaded(storage)]
  /\ writes = [t \in Tabs |-> <<>>]
  /\ calls = {} /\ moves = 0

Moving(act) == act \in load.acts /\ moves < load.moves /\ moves' = moves + 1 /\ UNCHANGED load
\* A task runs to its end before the tab does anything else.
Free(t) == writes[t] = <<>>

-----------------------------------------------------------------------------
(* Requests. *)

Fresh(cs) == CHOOSE i \in 1..(Cardinality(cs) + 1) :
               (\A c \in cs : c.id # i) /\ \A j \in 1..(i - 1) : \E c \in cs : c.id = j
With(cs, c) == cs \cup {[c EXCEPT !.id = Fresh(cs)]}
Of(t, kind) == {c \in calls : c.tab = t /\ c.kind = kind}
\* generation++.
Superseded(t, cs) == {IF c.tab = t THEN [c EXCEPT !.current = FALSE] ELSE c : c \in cs}

-----------------------------------------------------------------------------
(* What the identity provider and the server answer.  A refresh token that was *)
(* rotated is accepted within the reuse interval, and afterwards ends its      *)
(* session.  What is asked with an access token changes nothing at the server *)
(* and is answered when it is heard: the token may have expired at any time.   *)

Replies(c, r, token, user) ==
  calls' = (calls \ {c}) \cup {[c EXCEPT !.reply = r, !.token = token, !.user = user]}
Refuses(c) == Replies(c, "refused", c.token, None)
\* The answer is lost, or an error of the network or the server.
Fails(c) == "fail" \in load.acts /\ Replies(c, "failed", c.token, None)

LogsIn(c) ==
  \/ \E s \in Sids :
       /\ sess[s] = Unborn /\ \A x \in 1..(s - 1) : sess[x] # Unborn
       /\ sess' = [sess EXCEPT ![s] = [user |-> c.user, n |-> 0, alive |-> TRUE]]
       /\ Replies(c, "ok", [sid |-> s, n |-> 0], c.user) \/ Fails(c)
  \/ Fails(c) /\ UNCHANGED sess
Rotates(c) ==
  LET s == c.token.sid IN
  \/ /\ sess[s].alive /\ sess[s].n < MaxRotations
     /\ sess' = [sess EXCEPT ![s].n = @ + 1]
     /\ Replies(c, "ok", [sid |-> s, n |-> sess[s].n + 1], sess[s].user) \/ Fails(c)
  \/ /\ ~sess[s].alive \/ c.token.n < sess[s].n
     /\ sess' = [sess EXCEPT ![s].alive = FALSE]
     /\ Refuses(c)
  \/ Fails(c) /\ UNCHANGED sess
Answers == {"ok", "refused"} \cup (IF "fail" \in load.acts THEN {"failed"} ELSE {})
WhoIs(token) == sess[token.sid].user

Serve(c) ==
  /\ c.reply = "none" /\ c.kind \in {"login", "refresh", "logout"}
  /\ CASE c.kind = "login" -> LogsIn(c)
       [] c.kind = "refresh" -> Rotates(c)
       [] c.kind = "logout" -> /\ sess' = [sess EXCEPT ![c.token.sid].alive = FALSE] \/ UNCHANGED sess
                               /\ Refuses(c)
  /\ UNCHANGED <<storage, tab, writes, load, moves>>

-----------------------------------------------------------------------------
(* The storage: tabs write in any order, the owner after the tokens. *)

Write(t) ==
  /\ writes[t] # <<>>
  /\ LET written == Head(writes[t])
         After(k) == IF k \in written[1] THEN written[2] ELSE storage[k]
     IN  storage' = [token |-> After("token"), refresh |-> After("refresh"), owner |-> After("owner")]
  /\ writes' = [writes EXCEPT ![t] = Tail(@)]
  /\ UNCHANGED <<sess, tab, calls, load, moves>>

Erasing == <<<<{"token", "refresh"}, None>>, <<{"owner"}, None>>>>
Storing(token, user) ==
  LET both == <<{"token", "refresh"}, token>>
  IN  IF user = None THEN <<both>> ELSE <<both, <<{"owner"}, user>>>>

-----------------------------------------------------------------------------
(* The end of a session: logout, expireSession. *)

SignedOut == [token |-> None, refresh |-> None, user |-> None, status |-> "anonymous",
              failed |-> FALSE, timer |-> FALSE, expiring |-> FALSE, restoring |-> "no"]
\* cs: the requests that remain when the one that is answered is done.
Ends(t, cs) ==
  /\ tab' = [tab EXCEPT ![t] = SignedOut]
  /\ writes' = [writes EXCEPT ![t] = Erasing]
  /\ calls' = Superseded(t, cs)

Logout(t) ==
  /\ Free(t) /\ tab[t].status = "authenticated" /\ Moving("logout")
  /\ Ends(t, With(calls, [Call(t, "logout") EXCEPT !.token = tab[t].token]))
  /\ UNCHANGED <<sess, storage>>

UnauthorizedAtAll(t, c) == tab[t].token # None
\* handleUnauthorized: the token that was refused must still be the tab's.
Unauthorized(t, c) == tab[t].token = c.token

-----------------------------------------------------------------------------
(* Renewal: refreshSession, doRefresh. *)

\* One in flight per generation.
InFlight(t) == \E c \in Of(t, "refresh") : c.current

\* Another tab's token is taken over unless it is another user's.
Renewing(t) ==
  IF /\ storage.refresh # None
     /\ tab[t].user = None \/ storage.owner = tab[t].user
    THEN storage.refresh ELSE tab[t].refresh
Refreshes(t, next) ==
  /\ calls' = IF InFlight(t) THEN calls ELSE With(calls, [Call(t, "refresh") EXCEPT !.token = Renewing(t)])
  /\ tab' = [tab EXCEPT ![t] =
       [next EXCEPT !.refresh = IF InFlight(t) \/ tab[t].token = None THEN @ ELSE Renewing(t)]]

TimerFires(t) ==
  /\ Free(t) /\ tab[t].timer
  /\ Refreshes(t, [tab[t] EXCEPT !.timer = FALSE])
  /\ UNCHANGED <<sess, storage, writes, load, moves>>

\* getMe, once the tokens are fresh; without a token nobody is signed in.
AsksWho(next, t, cs) ==
  IF next.token = None
    THEN /\ tab' = [tab EXCEPT ![t] = [next EXCEPT !.user = None, !.status = "anonymous",
                                                   !.failed = FALSE, !.restoring = "no"]]
         /\ calls' = cs
    ELSE /\ tab' = [tab EXCEPT ![t] = [next EXCEPT !.restoring = "me"]]
         /\ calls' = With(cs, [Call(t, "me") EXCEPT !.token = next.token])

\* The tokens are not this user's.
Foreign(t, c) == tab[t].user # None /\ c.user # tab[t].user

CommitsLate(c) == TRUE
Commits(c) == c.current

Renewed(t) ==
  \E c \in Of(t, "refresh") :
    LET cs == calls \ {c}
        renewed == [tab[t] EXCEPT !.token = c.token, !.refresh = c.token, !.timer = TRUE, !.expiring = FALSE]
    IN
    /\ Free(t) /\ c.reply # "none"
    /\ CASE ~Commits(c) -> calls' = cs /\ UNCHANGED <<tab, writes>>
         [] Commits(c) /\ c.reply = "ok" /\ ~Foreign(t, c) ->
              /\ writes' = [writes EXCEPT ![t] = Storing(c.token, tab[t].user)]
              /\ IF tab[t].restoring = "refresh" THEN AsksWho(renewed, t, cs)
                 ELSE tab' = [tab EXCEPT ![t] = renewed] /\ calls' = cs
         [] Commits(c) /\ c.reply = "ok" /\ Foreign(t, c) -> Ends(t, cs)
         [] Commits(c) /\ c.reply = "refused" -> Ends(t, cs)
         [] Commits(c) /\ c.reply = "failed" ->
              /\ tab' = [tab EXCEPT ![t].timer = TRUE,
                           ![t].failed = @ \/ tab[t].restoring = "refresh",
                           ![t].restoring = IF @ = "refresh" THEN "no" ELSE @]
              /\ calls' = cs /\ UNCHANGED writes
    /\ UNCHANGED <<sess, storage, load, moves>>

-----------------------------------------------------------------------------
(* A page load: restoreSession, runRestore; the button after a failure. *)

Reload(t) ==
  /\ Free(t) /\ Moving("reload")
  /\ tab' = [tab EXCEPT ![t] = Loaded(storage)]
  /\ calls' = {c \in calls : c.tab # t}
                \cup {[c EXCEPT !.tab = None] : c \in Of(t, "login") \cup Of(t, "refresh") \cup Of(t, "logout")}
  /\ UNCHANGED <<sess, storage, writes>>

\* By the clock the token is about to expire, or not; once it is, it stays so.
Restores(t) ==
  \/ /\ "late" \in load.acts /\ tab[t].refresh # None
     /\ Refreshes(t, [tab[t] EXCEPT !.restoring = "refresh", !.expiring = TRUE])
  \/ ~tab[t].expiring /\ AsksWho(tab[t], t, calls)
Mount(t) ==
  /\ Free(t) /\ tab[t].restoring = "mount"
  /\ Restores(t)
  /\ UNCHANGED <<sess, storage, writes, load, moves>>
Retry(t) ==
  /\ Free(t) /\ tab[t].failed /\ tab[t].restoring = "no" /\ Moving("retry")
  /\ Restores(t)
  /\ UNCHANGED <<sess, storage, writes>>

Restored(t) ==
  \E c \in Of(t, "me"), reply \in Answers :
    /\ Free(t)
    /\ LET cs == calls \ {c} IN
       CASE reply = "refused" /\ (Unauthorized(t, c) \/ c.current) -> Ends(t, cs)
         [] reply = "ok" /\ c.current ->
              /\ tab' = [tab EXCEPT ![t] =
                   [tab[t] EXCEPT !.token = c.token, !.user = WhoIs(c.token), !.status = "authenticated",
                                  !.failed = FALSE, !.restoring = "no", !.timer = @ \/ tab[t].refresh # None]]
              /\ calls' = cs /\ UNCHANGED writes
         [] reply = "failed" /\ c.current ->
              /\ tab' = [tab EXCEPT ![t].failed = TRUE, ![t].restoring = "no"]
              /\ calls' = cs /\ UNCHANGED writes
         [] OTHER -> calls' = cs /\ UNCHANGED <<tab, writes>>
    /\ UNCHANGED <<sess, storage, load, moves>>

-----------------------------------------------------------------------------
(* Signing in.  The form forgets a request under way when it is left. *)

Login(t) ==
  /\ Free(t) /\ tab[t].status = "anonymous" /\ Moving("login")
  /\ \E u \in Users : calls' = With(calls, [Call(t, "login") EXCEPT !.user = u])
  /\ UNCHANGED <<sess, storage, tab, writes>>

LoggedIn(t) ==
  \E c \in Of(t, "login") :
    LET cs == calls \ {c} IN
    /\ Free(t) /\ c.reply # "none"
    /\ IF c.reply = "ok" /\ c.current
         THEN /\ tab' = [tab EXCEPT ![t] = [SignedOut EXCEPT !.token = c.token, !.refresh = c.token,
                                     !.user = c.user, !.status = "authenticated", !.timer = TRUE]]
              /\ writes' = [writes EXCEPT ![t] = Storing(c.token, c.user)]
              /\ calls' = Superseded(t, cs)
         ELSE calls' = cs /\ UNCHANGED <<tab, writes>>
    /\ UNCHANGED <<sess, storage, load, moves>>

-----------------------------------------------------------------------------
(* refreshUser, for every request of a signed-in tab: the last one counts,      *)
(* and it must still speak for the tab's token.                             *)

Work(t) ==
  /\ Free(t) /\ tab[t].status = "authenticated" /\ Moving("work")
  /\ calls' = With({IF c \in Of(t, "user") THEN [c EXCEPT !.current = FALSE] ELSE c : c \in calls},
                   [Call(t, "user") EXCEPT !.token = tab[t].token])
  /\ UNCHANGED <<sess, storage, tab, writes>>

Worked(t) ==
  \E c \in Of(t, "user"), reply \in Answers :
    LET cs == calls \ {c} IN
    /\ Free(t)
    /\ CASE reply = "refused" /\ Unauthorized(t, c) -> Ends(t, cs)
         [] reply = "ok" /\ c.current /\ tab[t].token = c.token ->
              /\ tab' = [tab EXCEPT ![t].user = WhoIs(c.token)]
              /\ calls' = cs /\ UNCHANGED writes
         [] OTHER -> calls' = cs /\ UNCHANGED <<tab, writes>>
    /\ UNCHANGED <<sess, storage, load, moves>>

\* Answers nobody acts on: of a logout, or to a page that is gone.
Unheard(c) ==
  /\ c.reply # "none"
  /\ c.tab # None => c.kind = "logout" /\ Free(c.tab)
  /\ IF c.tab # None /\ c.reply = "refused" /\ Unauthorized(c.tab, c)
       THEN Ends(c.tab, calls \ {c})
       ELSE calls' = calls \ {c} /\ UNCHANGED <<tab, writes>>
  /\ UNCHANGED <<sess, storage, load, moves>>

-----------------------------------------------------------------------------
Hears(t) == Renewed(t) \/ Restored(t) \/ LoggedIn(t) \/ Worked(t)
SessionNext ==
  \/ \E t \in Tabs : \/ Write(t) \/ Mount(t) \/ TimerFires(t) \/ Hears(t)
                     \/ Reload(t) \/ Retry(t) \/ Login(t) \/ Logout(t) \/ Work(t)
  \/ \E c \in calls : Serve(c) \/ Unheard(c)

SessionSpec == SessionInit /\ [][SessionNext]_sessionVars

-----------------------------------------------------------------------------
(* Properties *)

\* Requests go out under the user the tab shows, whatever tokens of other users
\* the other tabs store in between, key by key (session.ts:261-330).
BearerIsUser ==
  \A t \in Tabs : tab[t].user # None => sess[tab[t].token.sid].user = tab[t].user

\* A signed-in tab with a refresh token always has a timer or a refresh that will
\* set one, however often sessions ended while refreshes were under way
\* (session.ts:205-259).
AlwaysRenewing ==
  \A t \in Tabs : tab[t].status = "authenticated" /\ tab[t].refresh # None => tab[t].timer \/ InFlight(t)

\* Nothing that was asked in a session that ended brings it back: no token, no user,
\* no timer, no request that still counts (session.ts:116-175, 298, 332, 408).
SignedOutIsSilent ==
  \A t \in Tabs : tab[t].status = "anonymous" =>
    /\ tab[t].token = None /\ tab[t].user = None /\ ~tab[t].timer
    /\ \A c \in calls : c.tab = t /\ c.current => c.kind = "login"

\* A tab that is signed in is so as its user and for good; one that is not keeps still.
SessionHolds == BearerIsUser /\ AlwaysRenewing /\ SignedOutIsSilent

\* A session ends unasked only for a token of its own: refused, or of another user.
\* The late refusal of an earlier session's request ends nothing
\* (client.ts:110-128, session.ts:298-340).
EndsForItsOwn ==
  [][\A t \in Tabs :
       tab[t].status = "authenticated" /\ tab'[t].status = "anonymous" =>
         \/ \E c \in calls' \ calls : c.kind = "logout"
         \/ \E c \in calls \ calls' : /\ c.tab = t
                                     /\ \/ c.token.sid \in {tab[t].token.sid, tab[t].refresh.sid}
                                        \/ c.user \notin {None, tab[t].user}]_sessionVars
=============================================================================
