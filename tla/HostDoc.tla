------------------------------ MODULE HostDoc ------------------------------
(***************************************************************************)
(* The embedded panel and the page that holds it.                          *)
(*                                                                         *)
(* The host page owns the text of its fields; the embed keeps a copy of the *)
(* connected one, tracks the findings of its checks in it, and asks the host *)
(* to replace what a finding is about.  Each side posts messages that arrive *)
(* in order, while either goes on: users type, connect, click, sign in and   *)
(* out, requests time out, the embed's frame reloads.                      *)
(*                                                                         *)
(* frontend/src/embed/{hostDoc,bridge,EmbedApp}, frontend/src/simulator/     *)
(* {main,textareaAdapter,contentEditableAdapter}.ts, and what session.ts and *)
(* controller.ts do to them.                                               *)
(***************************************************************************)
EXTENDS TextSplice

CONSTANTS
  Fields, Rich,   \* the fields of the page; those with a contentEditable adapter
  Users, None,
  Typed,          \* what one keystroke inserts
  Inserts,        \* what a suggestion or a rewrite puts in
  Originals,      \* sentences of which a rewrite was fetched
  Flagged,        \* the unit the checkers object to
  MaxLen, MaxRequests,
  Loads           \* the mixes tried: what fields hold, what happens, how often

Acts == {"type", "connect", "leave", "click", "rewrite", "sign", "reload", "full", "astray"}

ASSUME FieldsAssumption == Rich \subseteq Fields /\ None \notin Fields \cup Users
ASSUME BoundsAssumption ==
  /\ MaxLen \in Nat /\ MaxRequests \in Nat
  /\ \A l \in Loads : /\ l.acts \subseteq Acts /\ {l.moves, l.runs} \subseteq Nat /\ l.requests \in 0..MaxRequests
                      /\ l.owner \in Users \cup {None} /\ l.field \in Fields \cup {None}

Texts == {t \in Seq(STRING) : Len(t) <= MaxLen}
ASSUME TextsAssumption ==
  /\ Typed \cup Inserts \cup Originals \subseteq Seq(STRING)
  /\ \A l \in Loads : l.page \in [Fields -> Texts]

VARIABLES
  loading, ready,  \* the frame's load event is due; the embed has answered
  active,          \* the field the host has connected
  forgotten,       \* history: the frame's load event came after it had connected one
                   \* there, and it has connected none since
  page, marks,     \* the text of each field; what is marked in the active one
  toEmbed, toHost, \* messages under way
  pinned,          \* bridge.ts knows its host
  field, buffer,   \* hostDoc.ts: the connected field, the copy of its text
  items, selected, \* the tracked findings, the selected one
  publishing,      \* sessionActive
  ask,             \* the replacements asked for, and what became of them
  user, account,   \* who is signed in; whose tokens are stored
  connected, shown,  \* the store: connectedField, tracked
  check, effect,   \* the check in flight; EmbedApp has yet to react
  load, moves, runs

hostVars == <<loading, ready, active, forgotten, page, marks>>
docVars == <<field, buffer, items, selected, publishing>>
userVars == <<user, account>>
storeVars == <<connected, shown>>
checkVars == <<check, effect>>
bounds == <<load, moves, runs>>
vars == <<hostVars, toEmbed, toHost, pinned, docVars, ask, userVars, storeVars, checkVars, bounds>>

Requests == 1..MaxRequests
\* Of a request, history: met, the host found the text it was told to expect;
\* applied, what it was asked for is what came of it.
NoRequest == [state |-> "none", id |-> None, field |-> None, said |-> <<>>,
              met |-> FALSE, applied |-> FALSE]
Nothing == [todo |-> {}, text |-> <<>>, user |-> None]
Sources == {"rule", "llm"}
Id == Nat \X Sources \X (0..MaxLen)

TypeOK ==
  /\ {loading, ready, forgotten, pinned, publishing, effect} \subseteq BOOLEAN
  /\ active \in Fields \cup {None} /\ field \in Fields \cup {None} /\ connected \in Fields \cup {None}
  /\ page \in [Fields -> Texts] /\ buffer \in Texts
  /\ \A item \in items : item.from < item.to /\ item.id \in Id
  /\ selected \in Id \cup {None}
  /\ user \in Users \cup {None} /\ account \in Users \cup {None}

\* Before anything happened, or with one user signed in and one field connected.
Init ==
  /\ load \in Loads
  /\ loading = (load.field = None) /\ ready = ~loading /\ pinned = ~loading
  /\ active = load.field /\ field = active /\ connected = active /\ effect = ~loading
  /\ forgotten = FALSE /\ marks = {}
  /\ page = load.page /\ buffer = IF active = None THEN <<>> ELSE page[active]
  /\ toEmbed = <<>> /\ toHost = <<>>
  /\ items = {} /\ shown = {} /\ selected = None /\ publishing = TRUE
  /\ ask = [r \in Requests |-> NoRequest]
  /\ account = load.owner /\ user = IF loading THEN None ELSE account
  /\ check = Nothing
  /\ moves = 0 /\ runs = 0

Acting(act) == act \in load.acts /\ moves < load.moves /\ moves' = moves + 1 /\ UNCHANGED <<load, runs>>
Running == UNCHANGED bounds

-----------------------------------------------------------------------------
(* The host: simulator/main.ts. *)

Hello == [type |-> "hello"]
ConnectedMsg(f, t) == [type |-> "fieldConnected", field |-> f, text |-> t]
DisconnectedMsg(f) == [type |-> "fieldDisconnected", field |-> f]
ChangedMsg(f, t) == [type |-> "textChanged", field |-> f, text |-> t]
ClickedMsg(f, id) == [type |-> "markingClicked", field |-> f, id |-> id]
ResultMsg(r, f, ok, t) == [type |-> "replaceResult", request |-> r, field |-> f, ok |-> ok, text |-> t]

Posts(ms) == toEmbed' = toEmbed \o ms
EmbedRests == UNCHANGED <<pinned, docVars, ask, userVars, storeVars, checkVars>>

\* By the model, after all that the last page has said.
FrameLoads ==
  /\ loading /\ toHost = <<>>
  /\ loading' = FALSE /\ ready' = FALSE /\ active' = None /\ marks' = {}
  /\ forgotten' = (active # None /\ pinned)
  /\ Posts(<<Hello>>)
  /\ Running /\ EmbedRests /\ UNCHANGED <<page, toHost>>

\* Every 250 ms until the embed is ready; by the model, not while one is under way.
HelloAgain ==
  /\ ~ready /\ toHost = <<>> /\ \A i \in DOMAIN toEmbed : toEmbed[i] # Hello
  /\ Posts(<<Hello>>)
  /\ Running /\ EmbedRests /\ UNCHANGED <<hostVars, toHost>>

Connect(f) ==
  /\ ready
  /\ active' = f /\ marks' = {} /\ forgotten' = FALSE
  /\ Posts(<<ConnectedMsg(f, page[f])>>)
  /\ Acting("connect") /\ EmbedRests /\ UNCHANGED <<loading, ready, page, toHost>>

Leave ==
  /\ active # None
  /\ active' = None /\ marks' = {}
  /\ Posts(<<DisconnectedMsg(active)>>)
  /\ Acting("leave") /\ EmbedRests /\ UNCHANGED <<loading, ready, forgotten, page, toHost>>

\* A keystroke; a character of two units goes as one.
Edits(t) ==
  {Replaced(t, u, u, c) : u \in {i \in 0..Len(t) : Boundary(t, i)}, c \in Typed}
  \cup {Replaced(t, x.from, x.to, <<>>) : x \in {y \in [from : 0..Len(t), to : 0..Len(t)] :
          /\ y.from < y.to /\ Boundary(t, y.from) /\ Boundary(t, y.to)
          /\ CodePoints(Slice(t, y.from, y.to)) = 1}}
Fitting(texts) == {t \in texts : Len(t) <= MaxLen}

\* The adapters: an input event, or the observer's sync at the end of the task.
Changes(f, t) == IF active = f /\ page[f] # t THEN <<ChangedMsg(f, t)>> ELSE <<>>
Type(f) ==
  /\ \E t \in Fitting(Edits(page[f])) : page' = [page EXCEPT ![f] = t] /\ Posts(Changes(f, t))
  /\ Acting("type") /\ EmbedRests /\ UNCHANGED <<loading, ready, active, forgotten, marks, toHost>>

Click ==
  /\ active # None
  /\ \E mark \in marks : Posts(<<ClickedMsg(active, mark.id)>>)
  /\ Acting("click") /\ EmbedRests /\ UNCHANGED <<hostVars, toHost>>

\* What applyReplacement makes of a field's text: the answer, the text, and the
\* text an input event tells of meanwhile.  The page may rewrite what was put in
\* (maxlength, an input handler): a plain field answers `ok' all the same, before
\* or after its page has, a rich one looks again, and may refuse a span.
Unchecked(t, m) == m.to <= Len(t)
Judged(t, m) == m.to <= Len(t) /\ Slice(t, m.from, m.to) = m.expected
Put(t, m) == Replaced(t, m.from, m.to, m.insert)
Rewritten(t, m) ==
  IF "astray" \in load.acts THEN {x \in Fitting(Edits(Put(t, m))) : x # Put(t, m)} ELSE {}
Outcome(ok, t) == [ok |-> ok, text |-> t, seen |-> t]
Unverified(t, m) ==
  UNION {[ok : {TRUE}, text : {x}, seen : {x} \cup Fitting({Put(t, m)})] : x \in {Put(t, m)} \cup Rewritten(t, m)}
Verified(t, m) ==
  {Outcome(TRUE, Put(t, m))}
  \cup (IF m.from = m.to /\ m.insert = <<>> THEN {}
        ELSE {Outcome(FALSE, t)} \cup {Outcome(FALSE, x) : x \in Rewritten(t, m)})
OutcomesUnverified(f, t, m) ==
  IF ~Judged(t, m) THEN {Outcome(FALSE, t)} ELSE Unverified(t, m)
Outcomes(f, t, m) ==
  IF ~Judged(t, m) THEN {Outcome(FALSE, t)}
  ELSE IF f \in Rich THEN Verified(t, m) ELSE Unverified(t, m)

\* A textarea says what changed before the answer, a rich field after it.
Answering(f, m, o) ==
  LET answer == <<ResultMsg(m.request, f, o.ok, o.text)>>
  IN IF f \in Rich THEN answer \o Changes(f, o.text) ELSE Changes(f, o.seen) \o answer

\* History: a request the embed still knows meets its text, and is applied.
Carried(m, o) ==
  LET t == page[active] IN
  IF ask[m.request].state = "none" THEN ask
  ELSE [ask EXCEPT ![m.request].met = @ \/ Judged(t, m),
                   ![m.request].applied = @ \/ ((o.ok \/ o.text # t) /\ o.text = Put(t, m))]

Marked(f, spans) == IF active = f THEN spans ELSE marks

HostHears ==
  /\ toHost # <<>>
  /\ LET m == Head(toHost) IN
     CASE m.type = "ready" ->
            ready' = TRUE /\ UNCHANGED <<loading, active, forgotten, page, marks, toEmbed, ask>>
       [] m.type = "findings" ->
            /\ marks' = Marked(m.field, m.spans)
            /\ UNCHANGED <<loading, ready, active, forgotten, page, toEmbed, ask>>
       [] m.type = "applyReplacement" /\ active # m.field ->
            /\ Posts(<<ResultMsg(m.request, m.field, FALSE,
                                 IF active = None THEN page[m.field] ELSE <<>>)>>)
            /\ UNCHANGED <<hostVars, ask>>
       [] m.type = "applyReplacement" /\ active = m.field ->
            \E o \in Outcomes(active, page[active], m) :
              /\ Len(o.text) <= MaxLen
              /\ page' = [page EXCEPT ![active] = o.text]
              /\ Posts(Answering(active, m, o))
              /\ ask' = Carried(m, o)
              /\ UNCHANGED <<loading, ready, active, forgotten, marks>>
  /\ toHost' = Tail(toHost)
  /\ Running /\ UNCHANGED <<pinned, docVars, userVars, storeVars, checkVars>>

-----------------------------------------------------------------------------
(* The embed: hostDoc.ts behind bridge.ts. *)

Ready == [type |-> "ready"]
FindingsMsg(f, its) ==
  [type |-> "findings", field |-> f, spans |-> {[id |-> i.id, from |-> i.from, to |-> i.to] : i \in its}]
Says(f, its) == IF f = None THEN <<>> ELSE <<FindingsMsg(f, its)>>
SendsAfter(ms) == toHost' = toHost \o ms
HostRests == UNCHANGED <<hostVars, toEmbed>>

Settled(r, answer) == [ask EXCEPT ![r].state = IF @ = "waiting" THEN answer ELSE @]
AllGivenUp == [r \in Requests |->
                 IF ask[r].state = "waiting" THEN [ask[r] EXCEPT !.state = "gaveUp"] ELSE ask[r]]

\* resetConnectionState.
ResetConnection ==
  /\ items' = {} /\ selected' = None /\ shown' = {}
  /\ SendsAfter(Says(field, {}))
  /\ ask' = AllGivenUp

\* syncBuffer.
Remapped(t) == MapThrough(items, DeriveSplice(buffer, t))
Sync(t) ==
  IF t = buffer THEN UNCHANGED <<buffer, items, shown, toHost>>
  ELSE /\ buffer' = t
       /\ items' = Remapped(t)
       /\ IF publishing THEN shown' = items' /\ SendsAfter(Says(field, items'))
          ELSE UNCHANGED <<shown, toHost>>

OnConnected(m) ==
  /\ ResetConnection
  /\ field' = m.field /\ buffer' = m.text /\ publishing' = TRUE
  /\ connected' = m.field
  /\ effect' = TRUE
  /\ UNCHANGED check
OnDisconnected(m) ==
  IF m.field # field THEN UNCHANGED <<docVars, storeVars, toHost, ask, checkVars>>
  ELSE /\ ResetConnection
       /\ field' = None /\ buffer' = <<>>
       /\ connected' = None
       /\ effect' = TRUE
       /\ UNCHANGED <<publishing, check>>
OnChanged(m) ==
  /\ IF m.field = field THEN Sync(m.text) ELSE UNCHANGED <<buffer, items, shown, toHost>>
  /\ UNCHANGED <<field, selected, publishing, connected, ask, checkVars>>
OnResult(m) ==
  /\ IF m.field = field
       THEN ask' = Settled(m.request, IF m.ok THEN "ok" ELSE "refused") /\ Sync(m.text)
       ELSE UNCHANGED <<ask, buffer, items, shown, toHost>>
  /\ UNCHANGED <<field, selected, publishing, connected, checkVars>>
OnClicked(m) ==
  /\ selected' = IF m.field = field /\ \E i \in items : i.id = m.id THEN m.id ELSE selected
  /\ UNCHANGED <<field, buffer, items, publishing, storeVars, toHost, ask, checkVars>>

\* bridge.ts: until a hello has come from the parent nothing else is heard.
EmbedHears ==
  /\ toEmbed # <<>>
  /\ LET m == Head(toEmbed) IN
     CASE m.type = "hello" ->
            /\ pinned' = TRUE /\ SendsAfter(<<Ready>>)
            /\ UNCHANGED <<docVars, storeVars, ask, checkVars>>
       [] m.type # "hello" /\ ~pinned ->
            UNCHANGED <<pinned, docVars, storeVars, ask, checkVars, toHost>>
       [] m.type = "fieldConnected" /\ pinned -> OnConnected(m) /\ UNCHANGED pinned
       [] m.type = "fieldDisconnected" /\ pinned -> OnDisconnected(m) /\ UNCHANGED pinned
       [] m.type = "textChanged" /\ pinned -> OnChanged(m) /\ UNCHANGED pinned
       [] m.type = "replaceResult" /\ pinned -> OnResult(m) /\ UNCHANGED pinned
       [] m.type = "markingClicked" /\ pinned -> OnClicked(m) /\ UNCHANGED pinned
  /\ toEmbed' = Tail(toEmbed)
  /\ Running /\ UNCHANGED <<hostVars, userVars>>

-----------------------------------------------------------------------------
(* What the user does in the panel. *)

Select ==
  /\ user # None
  /\ \E i \in shown : selected' = (IF selected = i.id THEN None ELSE i.id)
  /\ Acting("click") /\ HostRests
  /\ UNCHANGED <<field, buffer, items, publishing, toHost, pinned, ask, userVars, storeVars, checkVars>>

\* Sidebar.tsx's applyPending: one request of a finding at a time.
Applying(id) == \E r \in Requests : ask[r].state = "waiting" /\ ask[r].id = id
Fresh == {r \in 1..load.requests : ask[r].state = "none"}

\* sendReplace: numbered in the order they are sent.
SendReplace(item, from, to, insert) ==
  LET r == Min(Fresh)
      said == Slice(buffer, from, to)
  IN /\ field # None
     /\ Fresh # {}
     /\ ask' = [ask EXCEPT ![r] = [state |-> "waiting", id |-> item.id, field |-> field,
                                   said |-> said, met |-> FALSE, applied |-> FALSE]]
     /\ SendsAfter(<<[type |-> "applyReplacement", request |-> r, field |-> field,
                      from |-> from, to |-> to, insert |-> insert, expected |-> said]>>)

\* A finding shows its suggestions while it is open: the user opens it first.
Offered == {i \in shown \cap items : ~Applying(i.id)}
Opened(i) == selected' = i.id /\ UNCHANGED <<field, buffer, items, publishing>>
ApplySuggestion ==
  /\ user # None
  /\ \E i \in Offered, insert \in Inserts : SendReplace(i, i.from, i.to, insert) /\ Opened(i)
  /\ Running /\ HostRests /\ UNCHANGED <<pinned, userVars, storeVars, checkVars>>

\* The occurrences of a sentence that overlap the finding; the first one counts.
Around(item, original) ==
  {u \in 0..(Len(buffer) - Len(original)) :
     /\ Slice(buffer, u, u + Len(original)) = original
     /\ u < item.to /\ item.from < u + Len(original)}
ApplyRewrite ==
  /\ user # None /\ "rewrite" \in load.acts
  /\ \E i \in Offered, insert \in Inserts, original \in Originals :
       /\ Around(i, original) # {}
       /\ LET u == Min(Around(i, original))
          IN SendReplace(i, u, u + Len(original), insert)
       /\ Opened(i)
  /\ Running /\ HostRests /\ UNCHANGED <<pinned, userVars, storeVars, checkVars>>

\* Two seconds without an answer.
Timeout(r) ==
  /\ ask[r].state = "waiting"
  /\ ask' = [ask EXCEPT ![r].state = "gaveUp"]
  /\ Running /\ HostRests
  /\ UNCHANGED <<docVars, toHost, pinned, userVars, storeVars, checkVars>>

-----------------------------------------------------------------------------
(* Checks: controller.ts, started by EmbedApp. *)

\* The check in flight is aborted where a session begins or ends and where the
\* panel has no field any more (controller.ts:32-49, session.ts:70-90, 123, 161).
StillRunning == check
Aborted == Nothing

\* What the server finds, in characters: each flagged one by itself and, by the
\* model, all from the first to the last.
At(t, i) == CodePoints(Slice(t, 0, i - 1))
FlaggedAt(t) == {i \in DOMAIN t : t[i] = Flagged}
Span(source, t, i, j) == [source |-> source, start |-> At(t, i), end |-> At(t, j) + 1,
                          said |-> SubSeq(t, i, j)]
Found(source, t) ==
  IF source = "rule" THEN {Span("rule", t, i, i) : i \in FlaggedAt(t)}
  ELSE IF Cardinality(FlaggedAt(t)) < 2 THEN {}
  ELSE {Span("llm", t, Min(FlaggedAt(t)), Max(FlaggedAt(t)))}

\* mergeFindings: the tracked items of the sources are replaced, the selection
\* moves on to what is equivalent.
Tracked(f) == [id |-> <<runs, f.source, f.from>>, from |-> f.from, to |-> f.to, said |-> f.said,
               source |-> f.source, user |-> check.user]
Merge(sources, found) ==
  LET old == {i \in items : i.id = selected}
      new == {i \in items : i.source \notin sources} \cup {Tracked(f) : f \in Converted(buffer, found)}
      heirs == UNION {Nearest(new, o) : o \in old}
  IN /\ items' = new /\ shown' = new
     /\ selected' = IF \E i \in new : i.id = selected THEN selected
                    ELSE IF heirs = {} THEN None ELSE (CHOOSE h \in heirs : TRUE).id
     /\ SendsAfter(Says(field, new))

RunCheck(sources) ==
  /\ runs < load.runs /\ runs' = runs + 1 /\ UNCHANGED <<load, moves>>
  /\ IF buffer = <<>>
       THEN Merge(Sources, {}) /\ check' = Nothing
       ELSE /\ check' = [todo |-> sources, text |-> buffer, user |-> user]
            /\ UNCHANGED <<items, selected, shown, toHost>>

\* The button, or a timer that the last input armed.
Check ==
  /\ user # None /\ connected # None
  /\ \E sources \in {{"rule"}} \cup (IF "full" \in load.acts THEN {Sources} ELSE {}) : RunCheck(sources)
  /\ HostRests
  /\ UNCHANGED <<field, buffer, publishing, pinned, ask, userVars, connected, effect>>

\* The effect on connectedField, once rendered: what is in flight is cancelled.
Effects ==
  /\ effect /\ user # None
  /\ effect' = FALSE
  /\ IF connected = None
       THEN check' = Aborted /\ Running /\ UNCHANGED <<items, selected, shown, toHost>>
       ELSE RunCheck({"rule"})
  /\ HostRests
  /\ UNCHANGED <<field, buffer, publishing, pinned, ask, userVars, connected>>

\* applyFindings: only onto the text that was checked.
Answer ==
  /\ check # Nothing
  /\ LET s == IF "rule" \in check.todo THEN "rule" ELSE "llm"
         rest == check.todo \ {s}
     IN /\ IF buffer = check.text THEN Merge({s}, Found(s, check.text))
           ELSE UNCHANGED <<items, selected, shown, toHost>>
        /\ check' = IF rest = {} THEN Nothing ELSE [check EXCEPT !.todo = rest]
  /\ Running /\ HostRests
  /\ UNCHANGED <<field, buffer, publishing, pinned, ask, userVars, connected, effect>>

-----------------------------------------------------------------------------
(* Signing in and out inside the panel, and reloading it. *)

\* login: resetSessionState, then activateSession, which clears and publishes.
SignIn(u) ==
  /\ user = None /\ account = None
  /\ user' = u /\ account' = u
  /\ check' = Aborted
  /\ ResetConnection
  /\ publishing' = TRUE
  /\ connected' = field /\ effect' = TRUE
  /\ Acting("sign") /\ HostRests /\ UNCHANGED <<field, buffer, pinned>>

\* runRestore finds the tokens of the last page.
Restore ==
  /\ user = None /\ account # None
  /\ user' = account /\ effect' = TRUE
  /\ Running /\ HostRests
  /\ UNCHANGED <<account, docVars, toHost, pinned, ask, storeVars, check>>

\* logout and expireSession: the store is reset, hostDoc keeps its field.
SignOut ==
  /\ user # None
  /\ user' = None /\ account' = None
  /\ check' = Aborted /\ effect' = FALSE
  /\ ResetConnection
  /\ publishing' = FALSE
  /\ connected' = None
  /\ Acting("sign") /\ HostRests /\ UNCHANGED <<field, buffer, pinned>>

\* Messages to the old page are gone with it.
Reload ==
  /\ ~loading
  /\ loading' = TRUE
  /\ pinned' = FALSE
  /\ field' = None /\ buffer' = <<>> /\ items' = {} /\ selected' = None /\ publishing' = TRUE
  /\ ask' = [r \in Requests |-> NoRequest]
  /\ user' = None
  /\ connected' = None /\ shown' = {}
  /\ check' = Nothing /\ effect' = FALSE
  /\ toEmbed' = <<>>
  /\ Acting("reload") /\ UNCHANGED <<ready, active, forgotten, page, marks, toHost, account>>

Next ==
  \/ FrameLoads \/ HelloAgain \/ Leave \/ Click \/ HostHears \/ EmbedHears
  \/ \E f \in Fields : Connect(f) \/ Type(f)
  \/ Select \/ ApplySuggestion \/ ApplyRewrite \/ \E r \in Requests : Timeout(r)
  \/ Check \/ Effects \/ Answer
  \/ \E u \in Users : SignIn(u)
  \/ Restore \/ SignOut \/ Reload

Spec == Init /\ [][Next]_vars

-----------------------------------------------------------------------------
(* Properties *)

Fits(item) == item.to <= Len(buffer) /\ Slice(buffer, item.from, item.to) = item.said

\* A tracked finding stands over the very text it was found in, through every edit
\* of the host, known only as a whole text before and after.  When nothing is under
\* way, the two sides agree on the field, on its text and on what is marked in it,
\* whatever was refused, timed out, rewritten by the page, or sent to a field or a
\* frame that had gone.  Only a host that is greeted, and connects a field, before
\* its frame's load event forgets that field where the embed does not, until it
\* connects one again (hostDoc.ts:145-190, 297-336, 435-486, offsets.ts:30-44,
\* main.ts:120-360).
Quiet == toEmbed = <<>> /\ toHost = <<>> /\ ~loading /\ ready
InStep ==
  /\ \A item \in items : Fits(item)
  /\ Quiet => /\ field = active \/ forgotten
              /\ active = None => marks = {}
              /\ active # None => /\ buffer = page[active]
                                  /\ marks = {[id |-> i.id, from |-> i.from, to |-> i.to] : i \in items}

\* The panel of a signed-in user shows the field the embed is connected to and
\* the findings it tracks there, all of them of checks this user started: what
\* answers after the users have changed is not shown.  Nobody signed in, no finding
\* is tracked and no replacement awaited (hostDoc.ts:279-320, 379-390,
\* session.ts:70-165, controller.ts:165-200).
PanelIsOwn ==
  /\ \A item \in items \cup shown : item.user = user
  /\ user = None => ~\E r \in Requests : ask[r].state = "waiting"
  /\ user # None => connected = field /\ shown = items

\* `ok' is said only where the host found the text the panel had shown; of a rich
\* field, moreover, only of exactly what was put in.  A refusal is said of what was
\* not put in, by a plain field without having touched it.  Only a request that was
\* given up may have been honoured all the same (hostDoc.ts:254-277, 338-365,
\* 473-477).  A plain field vouches for no more: its page may have made something
\* else of the replacement, and the embed learns what from the echoed text.
AnswersAreTrue ==
  \A r \in Requests :
    /\ ask[r].state = "ok" => ask[r].met /\ (ask[r].field \in Rich => ask[r].applied)
    /\ ask[r].state = "refused" => ~ask[r].applied /\ (ask[r].field \notin Rich => ~ask[r].met)

\* A replacement changes nothing of a field but a place that holds the text the
\* panel showed (textareaAdapter.ts:640-665, contentEditableAdapter.ts:146-260).
OnlyWhatWasShown ==
  [][\A r \in Requests : ~ask[r].applied /\ ask'[r].applied =>
       \E insert \in Inserts : LET f == ask[r].field IN
       \E u \in 0..(Len(page[f]) - Len(ask[r].said)) :
         /\ Slice(page[f], u, u + Len(ask[r].said)) = ask[r].said
         /\ page' = [page EXCEPT ![f] = Replaced(@, u, u + Len(ask[r].said), insert)]]_vars
=============================================================================
