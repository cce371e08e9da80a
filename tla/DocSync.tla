------------------------------ MODULE DocSync ------------------------------
(***************************************************************************)
(* One browser tab that keeps the document it edits in step with the       *)
(* server: the write-through buffer, the debounced save, the recovery from *)
(* a conflict, switching, creating and removing documents, start-up after  *)
(* a reload, and the end of a session with requests still in flight.       *)
(*                                                                         *)
(* The tab is a set of asynchronous functions.  Each is a frame with a pc  *)
(* that names the await it stands at; everything between two awaits is one *)
(* step.  A request that changes the server is served and answered in two  *)
(* steps, and either can be lost.  A text is the set of edits it descends  *)
(* from, a settings change is an edit outside TextEdits.                   *)
(*                                                                         *)
(* frontend/src/documents/{autosave,buffer,hydration,documents}.ts,        *)
(* frontend/src/auth/session.ts, backend/app/services/documents.py.        *)
(***************************************************************************)
EXTENDS Integers, FiniteSets, FiniteSetsExt

CONSTANTS
  Users, Nobody,
  Edits, TextEdits,       \* all edits; those that change the text
  Docs,                   \* document ids, an interval from 1
  MaxFaults,              \* bound on what goes wrong in any scene: a lost request, a dead
                          \* tab, a write of another device, an ended session
  Scenes                  \* what may happen besides, tried one scene after another

\* The user opens, creates, renames and removes documents, has a check
\* completed, presses the retry button of a failed start-up, types on while a
\* switch is under way, opens another one meanwhile, ends the session; another
\* device writes and deletes.
Acts == {"open", "overlap", "create", "rename", "remove", "check", "retry", "typeAhead",
         "session", "device"}
\* docs: how many exist at the start; moves: bound on what the user does besides
\* typing; faults: bound on what goes wrong; tooLarge: the contents the server
\* refuses with 413.
Scene == [acts : SUBSET Acts, moves : Nat, faults : 0..MaxFaults, docs : Docs,
          edits : SUBSET Edits, tooLarge : SUBSET SUBSET Edits]

ASSUME SetsAssumption ==
  /\ Nobody \notin Users /\ Users # {}
  /\ TextEdits \subseteq Edits
  /\ IsFiniteSet(Edits)
  /\ IsFiniteSet(Docs) /\ Docs = 1..Cardinality(Docs)
ASSUME BoundsAssumption ==
  /\ MaxFaults \in Nat
  /\ \A s \in Scenes : s \in Scene

VARIABLES
  scene,
  server,    \* the documents table
  user,      \* who is signed in
  gen,       \* the generation counter of autosave.ts
  tab,       \* store, editor, buffer, timers and coordination flags of the tab
  frames,    \* the asynchronous functions that have not returned
  strays,    \* requests that outlived their tab
  author,    \* who made an edit
  forgone,   \* edits given up in a documented way
  removed,   \* documents the user removed or renamed in this tab
  copies,    \* the documents a recovered copy was made of
  exposed,   \* unsaved edits the code let out of its hands: typed during a
             \* navigation, newer than the snapshot of a recovery that met them,
             \* not saved when the start-up went on, or on the screen only when
             \* the tab closed or the session expired
  moves,     \* how often the user did something else than typing
  faults     \* how much went wrong so far

vars == <<scene, server, user, gen, tab, frames, strays, author, forgone, removed, copies, exposed, moves, faults>>

NoDoc == 0
NoMeta == [id |-> NoDoc, rev |-> 0]
NoSnap == [doc |-> NoDoc, rev |-> 0, dirty |-> FALSE, content |-> {}, owner |-> Nobody]
NoReply == [kind |-> "none", id |-> NoDoc, rev |-> 0, content |-> {}]
NoPayload == [id |-> NoDoc, rev |-> 0, content |-> {}]

\* A frame: where it stands, whose token it carries, the snapshot it pushes or
\* recovers, the document it is going to show, the recovered copy it falls back
\* on, what follows a recovery, and the answer to its request.  bare: what the
\* code took out of the buffer while the screen still shows it.
Idle == [pc |-> "idle", by |-> Nobody, snap |-> NoSnap, doc |-> NoPayload,
         alt |-> NoPayload, skip |-> FALSE, next |-> "end", reply |-> NoReply]
EmptyTab == [meta |-> NoMeta, editor |-> {}, buffer |-> NoSnap,
             listed |-> FALSE, listError |-> FALSE,
             timer |-> FALSE, retry |-> FALSE, saving |-> FALSE, pending |-> FALSE,
             bare |-> {}]

\* Each generation runs at most one chain of saves (the saving flag), one
\* navigation (a session starts with one) with one opening that overtakes it or
\* is overtaken, and one renaming.
Generations == 0..(2 * MaxFaults)
Frames == {"save", "nav", "also", "name"} \X Generations
Save == <<"save", gen>>
Nav == <<"nav", gen>>
Navs == {Nav, <<"also", gen>>}
Name == <<"name", gen>>

Puts == {"put", "replay", "initPut"}
Names == {"getNamed", "putName"}
Posts == {"recPost", "post"}
Gets == {"recGet", "recGet2", "get"}
Served == Puts \cup Posts \cup Gets \cup Names \cup {"delete"}
Recovering == {"recGet", "recPost", "recList", "recGet2", "replay"}

TextOf(content) == content \cap TextEdits
LiveDocs(u) == {d \in Docs : server[d].status = "live" /\ server[d].owner = u}
Unborn == {d \in Docs : server[d].status = "unborn"}
OnServer == UNION {server[d].content : d \in Docs}
\* The next request of a frame carries the token of the moment it is sent.
At(fr, pc) == [fr EXCEPT !.pc = pc, !.by = user, !.reply = NoReply]
Result(t, fr) == [tab |-> t, frame |-> fr]

-----------------------------------------------------------------------------
(* autosave.ts: a function of the tab's state returns the new state and, of *)
(* the frame that runs it, what remains to be done.                         *)

HasDoc(t) == t.meta.id # NoDoc /\ user # Nobody
Collect(t) == [doc |-> t.meta.id, rev |-> t.meta.rev, dirty |-> TRUE,
               content |-> t.editor, owner |-> user]
UpToDate(t) == t.buffer = [Collect(t) EXCEPT !.dirty = FALSE]
NeedsPush(t) == ~t.saving /\ HasDoc(t) /\ ~UpToDate(t)
Buffered(t) == [t EXCEPT !.buffer = Collect(t), !.bare = {}]

\* noteChange: the buffer is written at once, the save is debounced.
NotedLater(t) == [t EXCEPT !.timer = TRUE]
Noted(t) == [Buffered(t) EXCEPT !.timer = TRUE]

Flush(t, frame) ==
  IF NeedsPush(t)
    THEN Result([Buffered(t) EXCEPT !.timer = FALSE, !.saving = TRUE],
                [At(Idle, "put") EXCEPT !.snap = Collect(t)])
    ELSE Result([t EXCEPT !.timer = FALSE, !.pending = @ \/ t.saving], frame)

\* The finally block of push().  resend: a save refused for its size, and the
\* text has changed since.
Released(t) == [t EXCEPT !.saving = FALSE, !.pending = FALSE]

EndPush(t, succeeded, resend) ==
  IF t.pending /\ succeeded THEN Flush(Released(t), Idle)
  ELSE Result([Released(t) EXCEPT !.timer = @ \/ (t.pending /\ resend)], Idle)

\* A confirmed save: the new revision, and the buffer is what was pushed, whatever
\* was typed since.
Confirmed(t, snap, rev) ==
  IF t.meta.id # snap.doc THEN [t EXCEPT !.retry = FALSE]
  ELSE [t EXCEPT !.meta.rev = rev, !.retry = FALSE,
                 !.buffer = [snap EXCEPT !.rev = rev, !.dirty = FALSE],
                 !.bare = t.editor \ snap.content]

-----------------------------------------------------------------------------
(* hydration.ts.                                                            *)

\* A frame is done with a recovery or a document: a save releases the chain,
\* the start-up goes on with the list.
Leave(f, t, fr) ==
  IF f[1] = "save" THEN EndPush(t, FALSE, FALSE)
  ELSE Result(t, IF fr.next = "list" THEN At(Idle, "list") ELSE Idle)

\* Store, editor and a clean buffer for the document p.
Show(f, t, fr, p) ==
  Leave(f, [t EXCEPT !.meta = [id |-> p.id, rev |-> p.rev], !.editor = p.content, !.bare = {},
                     !.buffer = [doc |-> p.id, rev |-> p.rev, dirty |-> FALSE,
                                 content |-> p.content, owner |-> user]], fr)

IsOrphan(t, p) == t.buffer.dirty /\ t.buffer.doc # p.id
Replays(t, p) == IsOrphan(t, p)

\* hydrateFromDocument: what the buffer holds of another document goes first.
Hydrate(f, t, fr, p) ==
  IF Replays(t, p)
    THEN Result([t EXCEPT !.retry = FALSE],
                [At(fr, "replay") EXCEPT !.snap = t.buffer, !.doc = p, !.skip = TRUE])
    ELSE Show(f, t, fr, p)

\* A recovery throws: into the catch around the hydration of the original, into
\* the catch of push(), or out of the operation the user started.
Throw(f, t, fr) ==
  IF fr.alt # NoPayload THEN Hydrate(f, t, [fr EXCEPT !.alt = NoPayload], fr.alt)
  ELSE IF f[1] = "save" THEN EndPush(t, FALSE, FALSE) ELSE Result(t, Idle)

-----------------------------------------------------------------------------
Init ==
  \E u \in Users :
    /\ scene \in Scenes
    /\ user = u
    /\ server = [d \in Docs |->
         IF d <= scene.docs THEN [status |-> "live", owner |-> u, rev |-> 1, content |-> {}]
         ELSE [status |-> "unborn", owner |-> Nobody, rev |-> 0, content |-> {}]]
    /\ gen = 0
    /\ tab = [EmptyTab EXCEPT
         !.meta = [id |-> 1, rev |-> 1], !.listed = TRUE,
         !.buffer = [doc |-> 1, rev |-> 1, dirty |-> FALSE, content |-> {}, owner |-> u]]
    /\ frames = [f \in Frames |-> Idle]
    /\ strays = {}
    /\ author = [e \in Edits |-> Nobody]
    /\ forgone = {} /\ removed = {} /\ copies = {} /\ exposed = {}
    /\ moves = 0 /\ faults = 0

Settled == \A f \in Navs : frames[f].pc = "idle"
(* The update listener of the editor. *)
Type(e) ==
  /\ author[e] = Nobody /\ e \in scene.edits /\ HasDoc(tab)
  /\ Settled \/ "typeAhead" \in scene.acts
  /\ author' = [author EXCEPT ![e] = user]
  /\ tab' = Noted([tab EXCEPT !.editor = @ \cup {e}])
  /\ exposed' = IF Settled THEN exposed ELSE exposed \cup {e}
  /\ UNCHANGED <<scene, server, user, gen, frames, strays, forgone, removed, copies, moves, faults>>

\* The step of a tab that only moves frame f on.
GoOn(f, r) ==
  /\ tab' = r.tab
  /\ frames' = [frames EXCEPT ![f] = r.frame]
  /\ UNCHANGED <<scene, server, user, gen, strays, author, removed, copies, faults>>
Go(f, r) ==
  /\ GoOn(f, r)
  /\ exposed' = exposed \cup
       CASE frames[f].pc \in Recovering ->
              (tab.editor \cup tab.buffer.content) \ (frames[f].snap.content \cup OnServer)
         [] frames[f].pc = "list" -> (tab.editor \cup tab.buffer.content) \ OnServer
         [] OTHER -> {}
  /\ UNCHANGED moves
Move(act) == act \in scene.acts /\ moves < scene.moves /\ moves' = moves + 1

(* flush() started by the debounce, the backoff retry or a completed check. *)
FlushBy(cause) ==
  /\ \/ cause = "timer" /\ tab.timer /\ UNCHANGED moves
     \/ cause = "retry" /\ tab.retry /\ UNCHANGED moves
     \/ cause = "check" /\ NeedsPush(tab) /\ Move("check")
  /\ GoOn(Save, Flush([tab EXCEPT !.retry = @ /\ cause # "retry"], frames[Save]))
  /\ UNCHANGED <<forgone, exposed>>

-----------------------------------------------------------------------------
(* The server: services/documents.py behind api/documents.py.              *)

Current(d, by, rev) == d \in LiveDocs(by) /\ server[d].rev = rev
AnyRevision(d, by, rev) == d \in LiveDocs(by)
Accepts(d, by, rev) == Current(d, by, rev)

PutReply(by, snap) ==
  IF snap.content \in scene.tooLarge THEN "toolarge"
  ELSE IF snap.doc \notin LiveDocs(by) THEN "missing"
  ELSE IF Accepts(snap.doc, by, snap.rev) THEN "ok" ELSE "conflict"
Put(by, snap) ==
  server' = IF PutReply(by, snap) = "ok"
              THEN [server EXCEPT ![snap.doc].rev = @ + 1, ![snap.doc].content = snap.content]
              ELSE server
Post(by, content) ==
  server' = [server EXCEPT ![Min(Unborn)] =
    [status |-> "live", owner |-> by, rev |-> 1, content |-> content]]
Delete(by, d) ==
  /\ server' = IF d \in LiveDocs(by)
       THEN [server EXCEPT ![d] =
              [status |-> "gone", owner |-> Nobody, rev |-> server[d].rev, content |-> {}]]
       ELSE server
  /\ forgone' = IF d \in LiveDocs(by) THEN forgone \cup server[d].content ELSE forgone

\* What serving the request of a frame, or of a closed tab, does to the server.
Effect(r) ==
  CASE r.pc \in Puts -> Put(r.by, r.snap) /\ UNCHANGED <<forgone, removed, copies>>
    [] r.pc \in Posts -> /\ Unborn # {} /\ Post(r.by, r.snap.content)
                         /\ copies' = copies \cup {r.snap.doc : x \in {r.pc} \cap {"recPost"}}
                         /\ UNCHANGED <<forgone, removed>>
    [] r.pc = "delete" -> /\ Delete(r.by, r.doc.id)
                          /\ removed' = removed \cup ({r.doc.id} \cap LiveDocs(r.by))
                          /\ UNCHANGED copies
    [] r.pc = "putName" -> /\ server' = IF Accepts(r.doc.id, r.by, r.doc.rev)
                                          THEN [server EXCEPT ![r.doc.id].rev = @ + 1] ELSE server
                           /\ removed' = removed \cup ({r.doc.id} \cap LiveDocs(r.by))
                           /\ UNCHANGED <<forgone, copies>>
    [] OTHER -> UNCHANGED <<server, forgone, removed, copies>>

Answer(r) ==
  LET Reply(kind, d, rev, content) == [kind |-> kind, id |-> d, rev |-> rev, content |-> content]
      Read(d) == IF d \in LiveDocs(r.by) THEN Reply("ok", d, server[d].rev, server[d].content)
                 ELSE Reply("missing", NoDoc, 0, {})
  IN CASE r.pc \in Puts -> Reply(PutReply(r.by, r.snap), r.snap.doc, r.snap.rev + 1, {})
       [] r.pc \in Posts -> Reply("ok", Min(Unborn), 1, r.snap.content)
       [] r.pc = "putName" -> Reply(IF Accepts(r.doc.id, r.by, r.doc.rev) THEN "ok" ELSE "conflict",
                                    r.doc.id, r.doc.rev + 1, {})
       [] r.pc \in {"get", "getNamed"} -> Read(r.doc.id)
       [] r.pc \in {"recGet", "recGet2"} -> Read(r.snap.doc)
       [] r.pc = "delete" -> Reply(IF r.doc.id \in LiveDocs(r.by) THEN "ok" ELSE "missing",
                                   r.doc.id, 0, {})

Serve(f) ==
  /\ frames[f].pc \in Served /\ frames[f].reply = NoReply
  /\ Effect(frames[f])
  /\ frames' = [frames EXCEPT ![f].reply = Answer(frames[f])]
  /\ UNCHANGED <<scene, user, gen, tab, strays, author, exposed, moves, faults>>

(* The request is lost, or what the server answered is. *)
Lose(f) ==
  /\ faults < scene.faults
  /\ frames[f].pc \in Served \cup {"list"} /\ frames[f].reply.kind # "fail"
  /\ frames' = [frames EXCEPT ![f].reply = [NoReply EXCEPT !.kind = "fail"]]
  /\ faults' = faults + 1
  /\ UNCHANGED <<scene, server, user, gen, tab, strays, author, forgone, removed, copies, exposed, moves>>

(* A request whose tab is gone still reaches the server, or does not. *)
ServeStray(r) ==
  /\ strays' = strays \ {r}
  /\ Effect(r) \/ UNCHANGED <<server, forgone, removed, copies>>
  /\ UNCHANGED <<scene, user, gen, tab, frames, author, exposed, moves, faults>>

-----------------------------------------------------------------------------
(* What the frames of the current generation do with their answers.        *)

Speaks(f) == f[2] = gen
IsCurrent(f) == Speaks(f)

Answered(f, pc) == IsCurrent(f) /\ frames[f].pc = pc /\ frames[f].reply # NoReply
Got(f) == frames[f].reply.kind
Payload(f) == [id |-> frames[f].reply.id, rev |-> frames[f].reply.rev,
               content |-> frames[f].reply.content]
Gone(f) == Got(f) \in {"conflict", "missing"}

(* push() after updateDocument: confirmed, and perhaps a title to fetch;   *)
(* conflict handler; too large for good; or a retry with backoff.          *)
PushAnswered ==
  LET fr == frames[Save]
      confirmed == Confirmed(tab, fr.snap, fr.reply.rev)
  IN
  /\ Answered(Save, "put")
  /\ \/ Got(Save) = "ok" /\ Go(Save, EndPush(confirmed, TRUE, FALSE))
     \/ Got(Save) = "ok" /\ tab.meta.id = fr.snap.doc /\ Go(Save, Result(confirmed, At(fr, "title")))
     \/ Gone(Save) /\ Go(Save, Result(tab, At(fr, "recGet")))
     \/ /\ Got(Save) = "toolarge"
        /\ Go(Save, EndPush(tab, FALSE, tab.buffer # NoSnap /\ tab.buffer.content # fr.snap.content))
     \/ Got(Save) = "fail" /\ Go(Save, EndPush([tab EXCEPT !.retry = TRUE], FALSE, FALSE))
  /\ UNCHANGED forgone

TitleAnswered ==
  /\ frames[Save].pc = "title"
  /\ Go(Save, EndPush(tab, TRUE, FALSE))
  /\ UNCHANGED forgone

(* replayOrphanedSnapshot: whatever happens but a conflict, the target of  *)
(* the switch is shown next and takes the buffer.                          *)
Replayed(f) ==
  LET fr == frames[f] IN
  /\ Answered(f, "replay")
  /\ IF Gone(f) THEN Go(f, Result(tab, At(fr, "recGet"))) /\ UNCHANGED forgone
     ELSE /\ Go(f, Show(f, tab, fr, fr.doc))
          /\ forgone' = IF Got(f) = "ok" THEN forgone ELSE forgone \cup (fr.snap.content \ OnServer)

(* recoverSnapshot: is the conflict our own write?  If not, make a copy.   *)
SameText(f) == Got(f) = "ok" /\ TextOf(frames[f].reply.content) = TextOf(frames[f].snap.content)
OwnWrite(f) == SameText(f)

RecoveryRead(f) ==
  LET fr == frames[f]
      target == IF fr.skip THEN fr.doc ELSE Payload(f)
  IN
  /\ Answered(f, "recGet")
  /\ IF Got(f) = "fail" THEN Go(f, Throw(f, tab, fr))
     ELSE IF OwnWrite(f)
       THEN Go(f, Result([tab EXCEPT !.buffer = NoSnap], [At(fr, "recList") EXCEPT !.doc = target]))
       ELSE Go(f, Result(tab, At(fr, "recPost")))
  /\ UNCHANGED forgone

RecoveryCopied(f) ==
  LET fr == frames[f]
      copy == IF fr.skip THEN fr.alt ELSE Payload(f)
  IN
  /\ Answered(f, "recPost")
  /\ IF Got(f) = "fail" THEN Go(f, Throw(f, tab, fr))
     ELSE Go(f, Result([tab EXCEPT !.buffer = NoSnap], [At(fr, "recList") EXCEPT !.alt = copy]))
  /\ UNCHANGED forgone

RecoveryListed(f) ==
  LET fr == frames[f]
      t == [tab EXCEPT !.listed = TRUE]
  IN
  /\ IsCurrent(f) /\ fr.pc = "recList"
  /\ Go(f, IF fr.skip THEN Show(f, t, fr, fr.doc)
           ELSE IF t.meta.id # fr.snap.doc THEN Leave(f, t, fr)
           ELSE IF fr.alt = NoPayload THEN Hydrate(f, t, fr, fr.doc)
           ELSE Result(t, At(fr, "recGet2")))
  /\ UNCHANGED forgone

RecoveryReread(f) ==
  LET fr == frames[f] IN
  /\ Answered(f, "recGet2")
  /\ Go(f, IF Got(f) = "ok" THEN Hydrate(f, tab, fr, Payload(f)) ELSE Throw(f, tab, fr))
  /\ UNCHANGED forgone

-----------------------------------------------------------------------------
(* documents.ts.                                                            *)

\* The operations that save first: the flush, and a navigation that waits.
FlushThen(f, fr) ==
  LET r == Flush(tab, frames[Save]) IN
  /\ tab' = r.tab
  /\ frames' = [frames EXCEPT ![Save] = r.frame, ![f] = fr]
  /\ UNCHANGED <<scene, server, user, gen, strays, author, forgone, removed, copies, faults>>
NavFrame(pc, d) == [At(Idle, pc) EXCEPT !.doc.id = d]
NavIdle == user # Nobody /\ Settled

\* Nothing keeps two openings apart.
Open(d) ==
  /\ user # Nobody /\ tab.listed /\ d \in LiveDocs(user) \ {tab.meta.id} /\ Move("open")
  /\ \E f \in Navs : /\ frames[f].pc = "idle"
                     /\ f # Nav => frames[Nav].pc # "idle"
                     /\ Settled \/ "overlap" \in scene.acts
                     /\ FlushThen(f, NavFrame("waitOpen", d))
  /\ UNCHANGED exposed
Create ==
  /\ NavIdle /\ Unborn # {} /\ Move("create")
  /\ FlushThen(Nav, NavFrame("waitPost", NoDoc))
  /\ UNCHANGED exposed

Drained == frames[Save].pc = "idle"
Undrained == TRUE
SaveLanded == Drained

FlushWaited(f) ==
  LET fr == frames[f] IN
  /\ fr.pc \in {"waitOpen", "waitPost"} /\ SaveLanded
  /\ Go(f, Result(tab, At(fr, IF fr.pc = "waitOpen" THEN "get" ELSE "post")))
  /\ UNCHANGED forgone

(* openDocument, createNewDocument and runInit: the document has arrived. *)
DocumentArrived(f) ==
  LET t == [tab EXCEPT !.listed = TRUE] IN
  /\ Answered(f, "get") \/ Answered(f, "post")
  /\ Go(f, IF Got(f) = "ok" THEN Hydrate(f, t, frames[f], Payload(f))
             ELSE Result(tab, Idle))
  /\ UNCHANGED forgone

\* The buffer of a document that is being removed goes before the request.
Unbuffered(t) == [t EXCEPT !.retry = FALSE, !.buffer = NoSnap, !.bare = t.editor]

Remove(d) ==
  /\ NavIdle /\ tab.listed /\ d \in LiveDocs(user) /\ Move("remove")
  /\ GoOn(Nav, Result(IF tab.buffer.doc = d THEN Unbuffered(tab) ELSE tab, NavFrame("delete", d)))
  /\ forgone' = IF tab.buffer.doc = d /\ tab.meta.id # d
                  THEN forgone \cup (tab.buffer.content \ OnServer) ELSE forgone
  /\ UNCHANGED exposed

\* removeDocument past the request, in whatever generation it comes back.
Removed(f) ==
  LET d == frames[f].doc.id
      rest == LiveDocs(user) \ {d}
  IN
  /\ frames[f].pc = "delete" /\ frames[f].reply # NoReply
  /\ IF Got(f) # "ok" \/ tab.meta.id # d
       THEN Go(f, Result(tab, Idle)) /\ UNCHANGED forgone
     ELSE
       /\ forgone' = forgone \cup (tab.editor \ OnServer)
       /\ \/ rest # {} /\ f # Nav /\ Go(f, Result(tab, Idle))
          \/ \E r \in rest : f = Nav /\ Go(f, Result(tab, NavFrame("get", r)))
          \/ /\ rest = {}
             /\ Go(f, Result([tab EXCEPT !.meta = NoMeta, !.timer = FALSE,
                                         !.pending = (f = Nav /\ tab.saving) \/ @],
                             IF f = Nav THEN NavFrame("waitPost", NoDoc) ELSE Idle))

(* renameDocument: the revision of the open document is known, that of another *)
(* one is asked for; saves and navigations go on meanwhile, sessions too.  *)
Rename(d) ==
  /\ user # Nobody /\ frames[Name].pc = "idle" /\ tab.listed /\ d \in LiveDocs(user) /\ Move("rename")
  /\ GoOn(Name, Result(tab, [At(Idle, IF tab.meta.id = d THEN "putName" ELSE "getNamed")
                               EXCEPT !.doc = [NoPayload EXCEPT !.id = d, !.rev = tab.meta.rev]]))
  /\ UNCHANGED <<forgone, exposed>>
NameTaken(t, f) ==
  IF t.meta.id = frames[f].doc.id THEN [t EXCEPT !.meta.rev = frames[f].reply.rev] ELSE t
Renamed(f) ==
  LET fr == frames[f] IN
  /\ fr.pc \in Names /\ fr.reply # NoReply
  /\ Go(f, IF Got(f) # "ok" THEN Result(tab, Idle)
           ELSE IF fr.pc = "getNamed"
             THEN Result(tab, [At(fr, "putName") EXCEPT !.doc.rev = fr.reply.rev])
           ELSE Result(NameTaken(tab, f), Idle))
  /\ UNCHANGED forgone

(* runInit: the dirty buffer, then the list, then a document. *)
InitFrame(t, u) == IF t.buffer.dirty
  THEN [Idle EXCEPT !.pc = "initPut", !.by = u, !.snap = t.buffer, !.next = "list"]
  ELSE [Idle EXCEPT !.pc = "list", !.by = u]

RetryInit ==
  /\ NavIdle /\ tab.listError /\ Move("retry")
  /\ GoOn(Nav, Result(tab, InitFrame(tab, user)))
  /\ UNCHANGED <<forgone, exposed>>

BufferPushed ==
  LET fr == frames[Nav]
      clean == [fr.snap EXCEPT !.rev = fr.reply.rev, !.dirty = FALSE]
  IN
  /\ Answered(Nav, "initPut")
  /\ Go(Nav, IF Got(Nav) = "ok" THEN Leave(Nav, [tab EXCEPT !.buffer = clean], fr)
             ELSE IF Gone(Nav) THEN Result(tab, At(fr, "recGet"))
             ELSE Leave(Nav, tab, fr))
  /\ UNCHANGED forgone

Listed ==
  /\ frames[Nav].pc = "list" /\ frames[Nav].reply = NoReply
  /\ \/ \E d \in LiveDocs(user) :
          /\ Go(Nav, Result([tab EXCEPT !.listed = TRUE, !.listError = FALSE], NavFrame("get", d)))
          /\ UNCHANGED forgone
     \/ /\ LiveDocs(user) = {} /\ FlushThen(Nav, NavFrame("waitPost", NoDoc))
        /\ exposed' = exposed \cup ((tab.editor \cup tab.buffer.content) \ OnServer)
        /\ UNCHANGED moves

\* hydrateFromBuffer: the buffered document without a backend, and a flush.
ListFailed ==
  LET b == tab.buffer
      shown == [tab EXCEPT !.listError = TRUE, !.meta = [id |-> b.doc, rev |-> b.rev],
                           !.editor = b.content, !.bare = {}]
      r == Flush(shown, frames[Save])
  IN
  /\ Answered(Nav, "list")
  /\ IF b = NoSnap THEN Go(Nav, Result([tab EXCEPT !.listError = TRUE], Idle))
     ELSE /\ tab' = r.tab
          /\ frames' = [frames EXCEPT ![Save] = r.frame, ![Nav] = Idle]
          /\ UNCHANGED <<scene, server, user, gen, strays, author, removed, copies, exposed, moves, faults>>
  /\ UNCHANGED forgone

(* A frame of an earlier generation comes to its next check of the counter. *)
Abandon(f) ==
  /\ f[2] # gen /\ frames[f].pc \notin {"idle", "delete"} \cup Names
  /\ frames[f].pc \in Served => frames[f].reply # NoReply
  /\ Go(f, Result(tab, Idle))
  /\ UNCHANGED forgone

-----------------------------------------------------------------------------
(* What happens to the tab and around it.                                  *)

Unserved == {frames[f] : f \in {g \in Frames :
  frames[g].pc \in (Served \ (Gets \cup {"getNamed"})) /\ frames[g].reply = NoReply}}

(* The tab closes or reloads, with its beforeunload flush or without, and  *)
(* the page that comes up has the stored session and the buffer: what only  *)
(* the screen had is gone.                                                 *)
Close(graceful) ==
  LET r == IF graceful THEN Flush(tab, Idle) ELSE Result(tab, Idle)
      next == [EmptyTab EXCEPT !.buffer = r.tab.buffer]
  IN
  /\ faults < scene.faults /\ user # Nobody
  /\ faults' = faults + 1
  /\ gen' = gen + 1
  /\ tab' = next
  /\ frames' = [f \in Frames |-> IF f = <<"nav", gen + 1>> THEN InitFrame(next, user) ELSE Idle]
  /\ strays' = strays \cup Unserved \cup ({r.frame} \ {Idle})
  /\ exposed' = exposed \cup r.tab.bare
  /\ UNCHANGED <<scene, server, user, author, forgone, removed, copies, moves>>

(* The server side of another device of whoever owns the document. *)
ForeignPut(d, e) ==
  /\ "device" \in scene.acts /\ faults < scene.faults /\ server[d].status = "live" /\ author[e] = Nobody
  /\ e \in scene.edits
  /\ author' = [author EXCEPT ![e] = server[d].owner]
  /\ server' = [server EXCEPT ![d].rev = @ + 1, ![d].content = @ \cup {e}]
  /\ faults' = faults + 1
  /\ UNCHANGED <<scene, user, gen, tab, frames, strays, forgone, removed, copies, exposed, moves>>
ForeignDelete(d) ==
  /\ "device" \in scene.acts /\ faults < scene.faults /\ server[d].status = "live"
  /\ Delete(server[d].owner, d)
  /\ faults' = faults + 1
  /\ UNCHANGED <<scene, user, gen, tab, frames, strays, author, removed, copies, exposed, moves>>

(* session.ts.  A logout gives up what is not saved, an expired token only  *)
(* what the buffer does not hold.                                          *)
EndSession(buffer) ==
  /\ "session" \in scene.acts /\ faults < scene.faults /\ user # Nobody
  /\ user' = Nobody
  /\ gen' = gen + 1
  /\ tab' = [EmptyTab EXCEPT !.buffer = buffer]
  /\ faults' = faults + 1
  /\ UNCHANGED <<scene, server, frames, strays, author, removed, copies, moves>>
Logout ==
  /\ EndSession(NoSnap)
  /\ forgone' = forgone \cup ((tab.editor \cup tab.buffer.content) \ OnServer)
  /\ UNCHANGED exposed
ExpireSession ==
  /\ EndSession(tab.buffer)
  /\ exposed' = exposed \cup tab.bare
  /\ UNCHANGED forgone

Own(buffer, u) == IF buffer.owner = u THEN buffer ELSE NoSnap
Anyones(buffer, u) == buffer
KeptBuffer(buffer, u) == Own(buffer, u)

Login(u) ==
  LET t == [EmptyTab EXCEPT !.buffer = KeptBuffer(tab.buffer, u)] IN
  /\ user = Nobody
  /\ user' = u
  /\ gen' = gen + 1
  /\ tab' = t
  /\ frames' = [frames EXCEPT ![<<"nav", gen + 1>>] = InitFrame(t, u)]
  /\ forgone' = forgone \cup (tab.buffer.content \ (t.buffer.content \cup OnServer))
  /\ UNCHANGED <<scene, server, strays, author, removed, copies, exposed, moves, faults>>

-----------------------------------------------------------------------------
TabSteps ==
  \/ PushAnswered \/ TitleAnswered
  \/ \E f \in Navs : FlushWaited(f) \/ DocumentArrived(f)
  \/ BufferPushed \/ Listed \/ ListFailed
  \/ \E f \in Frames : \/ Replayed(f) \/ RecoveryRead(f) \/ RecoveryCopied(f)
                       \/ RecoveryListed(f) \/ RecoveryReread(f)
                       \/ Removed(f) \/ Renamed(f) \/ Abandon(f)
Timers == FlushBy("timer") \/ FlushBy("retry")
Network == (\E f \in Frames : Serve(f)) \/ (\E r \in strays : ServeStray(r))
UserSteps ==
  \/ \E e \in Edits : Type(e)
  \/ \E d \in Docs : Open(d) \/ Rename(d) \/ Remove(d)
  \/ Create \/ RetryInit \/ FlushBy("check")
Environment ==
  \/ \E f \in Frames : Lose(f)
  \/ \E graceful \in BOOLEAN : Close(graceful)
  \/ \E d \in Docs : ForeignDelete(d) \/ \E e \in Edits : ForeignPut(d, e)
  \/ Logout \/ ExpireSession \/ \E u \in Users : Login(u)

Next == TabSteps \/ Timers \/ Network \/ UserSteps \/ Environment
Spec == Init /\ [][Next]_vars

-----------------------------------------------------------------------------
Steps == {"idle", "title", "list", "waitOpen", "waitPost"} \cup Served \cup Recovering
Row == [status : {"unborn", "live", "gone"}, owner : Users \cup {Nobody},
        rev : Nat, content : SUBSET Edits]
Snapshots == [doc : Docs \cup {NoDoc}, rev : Nat, dirty : BOOLEAN,
              content : SUBSET Edits, owner : Users \cup {Nobody}]
Payloads == [id : Docs \cup {NoDoc}, rev : Nat, content : SUBSET Edits]
Replies == [kind : {"none", "ok", "missing", "conflict", "toolarge", "fail"},
            id : Docs \cup {NoDoc}, rev : Nat, content : SUBSET Edits]
Frame == [pc : Steps, by : Users \cup {Nobody}, snap : Snapshots, doc : Payloads, alt : Payloads,
          skip : BOOLEAN, next : {"end", "list"}, reply : Replies]
Tab == [meta : [id : Docs \cup {NoDoc}, rev : Nat], editor : SUBSET Edits, buffer : Snapshots,
        listed : BOOLEAN, listError : BOOLEAN, timer : BOOLEAN, retry : BOOLEAN,
        saving : BOOLEAN, pending : BOOLEAN, bare : SUBSET Edits]

(* The shape of every variable, and the lock of the save chain: it is held  *)
(* exactly while a save of the current generation is under way, so that no *)
(* two saves overlap and no end of a session leaves it locked.             *)
TypeOK ==
  /\ scene \in Scenes
  /\ server \in [Docs -> Row]
  /\ user \in Users \cup {Nobody} /\ gen \in Generations
  /\ tab \in Tab /\ frames \in [Frames -> Frame] /\ strays \subseteq Frame
  /\ tab.saving <=> frames[Save].pc # "idle"
  /\ author \in [Edits -> Users \cup {Nobody}]
  /\ forgone \subseteq Edits /\ removed \subseteq Docs /\ copies \subseteq Docs
  /\ exposed \subseteq Edits
  /\ moves \in 0..scene.moves /\ faults \in 0..scene.faults

(* Whatever is lost, late or concurrent, an accepted write never undoes one *)
(* accepted before it: the store implements its abstract specification.    *)
History == INSTANCE DocHistory WITH
  docs <- [d \in Docs |-> [status |-> server[d].status, owner |-> server[d].owner,
                           content |-> server[d].content]]
ImplementsHistory == History!Spec

\* An edit that was not given up in one of the documented ways is lost when
\* neither the screen nor the buffer nor the server has it any more.
Lost == {e \in Edits : author[e] # Nobody} \
        (forgone \cup tab.editor \cup tab.buffer.content \cup OnServer)

\* What a confirmed save took out of the buffer is on its way into the next one:
\* the debounce runs, or a save is queued behind the one under way.  (A removal
\* that failed leaves a text without a buffer and without either.)
BareTextGoesOn ==
  tab.bare \ OnServer # {} /\ tab.buffer # NoSnap => tab.timer \/ (tab.saving /\ tab.pending)

(* Saves, retries, switches, removals, start-ups, closed tabs and ended     *)
(* sessions lose nothing, however they overlap, and a recovery keeps the   *)
(* snapshot it was given: only the exposed edits are at risk.  A closed tab *)
(* and an expired session lose at most what the screen alone had because a *)
(* confirmed save, or a removal, had taken it out of the buffer; and such a *)
(* text is never left lying about.                                         *)
OnlyExposedEditsAreLost == Lost \subseteq exposed /\ BareTextGoesOn

(* A tab that is closed in an orderly way, with its beforeunload flush,     *)
(* takes no typed text with it.  docs/frontend-architecture.md: a save is  *)
(* attempted at once when a tab closes, and the buffer bridges the close   *)
(* until the backend has confirmed the write (buffer.ts:9-12).             *)
ClosingKeepsText == [][Close(TRUE) => Lost' \subseteq Lost]_vars

(* As long as nothing fails, no other device writes and nobody types while *)
(* a document is being opened, the tab never conflicts with itself: no     *)
(* recovered copy, however saves, switches and start-ups overlap, except   *)
(* of a document that was renamed or removed meanwhile.                    *)
(* hydration.ts:176-181.                                                   *)
NoPhantomCopy == faults = 0 /\ "typeAhead" \notin scene.acts => copies \subseteq removed

(* No edit ever reaches a document of somebody who did not make it, even   *)
(* through requests and buffers that outlive a session.                    *)
NoCrossUserLeak ==
  \A d \in Docs : server[d].status = "live" =>
    \A e \in server[d].content : author[e] = server[d].owner
=============================================================================
