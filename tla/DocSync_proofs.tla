--------------------------- MODULE DocSync_proofs ---------------------------
(***************************************************************************)
(* For any users, documents, edits and scenes: the variables keep their    *)
(* shape, the save chain is locked exactly while a save runs, and no edit  *)
(* reaches a document of somebody who did not make it.                     *)
(*                                                                         *)
(* What carries it is that everything that holds a text says whose it is:  *)
(* the buffer by its owner, a request by the token it carries, the editor  *)
(* by the session; and that a frame of this generation carries the token   *)
(* of this session.  The names of documents are changed across sessions,   *)
(* but those frames hold no text.                                          *)
(***************************************************************************)
EXTENDS DocSync, FiniteSetTheorems, WellFoundedInduction, TLAPS

By(a, content, u) == \A e \in content : a[e] = u /\ u # Nobody

\* The tab of the user u: her text, and a buffer that says whose it is.
OwnTab(a, u, t) ==
  /\ By(a, t.editor, u) /\ By(a, t.buffer.content, t.buffer.owner)
  /\ u # Nobody /\ t.buffer.content # {} => t.buffer.owner = u
  /\ t.buffer.dirty => t.buffer.doc # NoDoc
GoodTab(a, u, t) == t \in Tab /\ OwnTab(a, u, t)

\* What a frame holds was made by the user whose token it carries.
Held(a, fr, u) ==
  /\ By(a, fr.snap.content, u) /\ By(a, fr.snap.content, fr.snap.owner)
  /\ By(a, fr.doc.content, u) /\ By(a, fr.alt.content, u) /\ By(a, fr.reply.content, u)
OwnFrame(a, fr) ==
  /\ Held(a, fr, fr.by)
  /\ fr.pc \in Puts \cup Recovering => fr.snap.doc # NoDoc
  /\ fr.pc \in Posts => fr.by # Nobody
  /\ fr.pc \in Names => fr.snap.content = {} /\ fr.doc.content = {} /\ fr.alt.content = {}

\* The frame f in generation g, the session of user u.
SaveSteps == {"idle", "put", "title"} \cup Recovering
Carries(f, fr, g, u) ==
  /\ f[2] = g /\ fr.pc # "idle" /\ fr.pc \notin Names => fr.by = u /\ u # Nobody
  /\ f[2] > g => fr.pc = "idle"
  /\ f[1] = "save" => fr.pc \in SaveSteps
GoodFrame(a, f, fr, g, u) == fr \in Frame /\ OwnFrame(a, fr) /\ Carries(f, fr, g, u)

Lock(t, fr) == t.saving <=> fr.pc # "idle"
\* Each session begins once and, but for the one that goes on, ends by a fault.
Counted == gen + (IF user = Nobody THEN 1 ELSE 0) <= 2 * faults

Plain ==
  /\ scene \in Scenes
  /\ user \in Users \cup {Nobody} /\ gen \in Generations
  /\ author \in [Edits -> Users \cup {Nobody}]
  /\ forgone \subseteq Edits /\ removed \subseteq Docs /\ copies \subseteq Docs
  /\ exposed \subseteq Edits
  /\ moves \in 0..scene.moves /\ faults \in 0..scene.faults
OwnRow(a, row) == By(a, row.content, row.owner) /\ (row.status = "live" => row.owner # Nobody)
RowsOwn == \A d \in Docs : OwnRow(author, server[d])
FramesOwn == \A f \in Frames : GoodFrame(author, f, frames[f], gen, user)
StraysOwn == \A r \in strays : r \in Frame /\ OwnFrame(author, r)

Inv == /\ Plain /\ Counted
       /\ server \in [Docs -> Row] /\ RowsOwn
       /\ GoodTab(author, user, tab)
       /\ frames \in [Frames -> Frame] /\ FramesOwn
       /\ StraysOwn
       /\ Lock(tab, frames[Save])

-----------------------------------------------------------------------------
(* The parts of the state.                                                  *)

(* What the shape of a scene says. *)
LEMMA SceneBounds ==
  ASSUME scene \in Scenes
  PROVE  /\ scene.moves \in Nat /\ scene.faults \in 0..MaxFaults /\ scene.docs \in Docs
         /\ scene.edits \subseteq Edits /\ MaxFaults \in Nat
<1>1. scene \in Scene
  BY BoundsAssumption
<1> QED
  BY <1>1, BoundsAssumption DEF Scene

(* The frames by their names. *)
LEMMA FrameNames ==
  ASSUME gen \in Generations
  PROVE  /\ Save \in Frames /\ Nav \in Frames /\ Name \in Frames /\ Navs \subseteq Frames
         /\ \A f \in Frames : /\ f[2] \in Generations
                              /\ f = Save <=> f[1] = "save" /\ f[2] = gen
                              /\ f = Nav <=> f[1] = "nav" /\ f[2] = gen
                              /\ f = Name <=> f[1] = "name" /\ f[2] = gen
         /\ Save[1] = "save" /\ Save[2] = gen /\ Nav[1] = "nav" /\ Nav[2] = gen
         /\ Name[1] = "name" /\ Name[2] = gen
         /\ \A f \in Navs : f[2] = gen /\ f[1] # "save"
  BY DEF Frames, Save, Nav, Name, Navs

LEMMA DocsNat == Docs \subseteq Nat \ {0} /\ NoDoc \notin Docs
  BY SetsAssumption, FS_CardinalityType DEF NoDoc

(* The constant records are of their sets. *)
LEMMA Constants ==
  /\ NoSnap \in Snapshots /\ NoPayload \in Payloads /\ NoReply \in Replies
  /\ Idle \in Frame /\ EmptyTab \in Tab
  /\ NoMeta \in [id : Docs \cup {NoDoc}, rev : Nat]
<1>1. NoSnap \in Snapshots /\ NoPayload \in Payloads /\ NoReply \in Replies
      /\ NoMeta \in [id : Docs \cup {NoDoc}, rev : Nat]
  BY DEF NoSnap, Snapshots, NoPayload, Payloads, NoReply, Replies, NoMeta
<1>2. Idle \in Frame
  BY <1>1 DEF Idle, Frame, Steps
<1>3. EmptyTab \in Tab
  BY <1>1 DEF EmptyTab, Tab
<1> QED
  BY <1>1, <1>2, <1>3

LEMMA IdleGood ==
  ASSUME NEW a, NEW f, NEW g, NEW u
  PROVE  GoodFrame(a, f, Idle, g, u)
<1>1. OwnFrame(a, Idle)
  BY DEF OwnFrame, Posts, Held, By, Idle, NoSnap, NoPayload, NoReply, Puts, Recovering, Names
<1>2. Carries(f, Idle, g, u)
  BY DEF Carries, Idle, SaveSteps
<1> QED
  BY <1>1, <1>2, Constants DEF GoodFrame

LEMMA NoSnapOwn ==
  ASSUME NEW a, NEW u, NEW t \in Tab, t.editor = {}, t.buffer = NoSnap
  PROVE  OwnTab(a, u, t)
  BY DEF OwnTab, By, NoSnap

(* The smallest document that does not exist yet. *)
LEMMA NextBorn ==
  ASSUME Unborn # {}
  PROVE  Min(Unborn) \in Unborn /\ Min(Unborn) \in Docs
<1>1. Unborn \subseteq Nat
  BY DocsNat DEF Unborn
<1>2. \E m \in Unborn : \A i \in Unborn : ~(<<i, m>> \in OpToRel(<, Nat))
  BY <1>1, NatLessThanWellFounded, WFMin
<1>2a. PICK m \in Unborn : \A i \in Unborn : ~(<<i, m>> \in OpToRel(<, Nat))
  BY <1>2
<1>2b. \A i \in Unborn : ~(i < m)
  BY <1>2a, <1>1 DEF OpToRel
<1>3. \A i \in Unborn : m <= i
  BY <1>2b, <1>1
<1> QED
  BY <1>3 DEF Min, Unborn

(* Whoever made an edit made it for good. *)
LEMMA ByStays ==
  ASSUME NEW a \in [Edits -> Users \cup {Nobody}], NEW e \in Edits, a[e] = Nobody,
         NEW w, NEW content \in SUBSET Edits, NEW u, By(a, content, u)
  PROVE  By([a EXCEPT ![e] = w], content, u)
  BY DEF By

-----------------------------------------------------------------------------
(* The functions of the tab: what each returns fits the frame that called it. *)

Fit(f, r) ==
  /\ GoodTab(author, user, r.tab) /\ GoodFrame(author, f, r.frame, gen, user)
  /\ IF f[1] = "save" THEN Lock(r.tab, r.frame) ELSE r.tab.saving = tab.saving

(* A frame of the current session that goes on to its next request. *)
LEMMA AtGood ==
  ASSUME NEW f \in Frames, NEW fr \in Frame, OwnFrame(author, fr), fr.by = user,
         user \in Users, NEW pc \in Steps, f[2] = gen, gen \in Generations,
         pc \in Puts \cup Recovering => fr.snap.doc # NoDoc, pc \notin Names,
         f[1] = "save" => pc \in SaveSteps
  PROVE  GoodFrame(author, f, At(fr, pc), gen, user)
<1>1. At(fr, pc) \in Frame
  BY Constants DEF At, Frame
<1>2. /\ At(fr, pc).pc = pc /\ At(fr, pc).by = user /\ At(fr, pc).reply = NoReply
      /\ At(fr, pc).snap = fr.snap /\ At(fr, pc).doc = fr.doc /\ At(fr, pc).alt = fr.alt
  BY DEF At, Frame
<1>3. By(author, NoReply.content, user)
  BY DEF By, NoReply
<1>4. user # Nobody
  BY SetsAssumption
<1>5. OwnFrame(author, At(fr, pc))
  BY <1>2, <1>3, <1>4 DEF OwnFrame, Posts, Held
<1>6. Carries(f, At(fr, pc), gen, user)
  BY <1>2, <1>4 DEF Carries, Generations
<1> QED
  BY <1>1, <1>5, <1>6 DEF GoodFrame

(* The text of the tab, collected for the buffer. *)
LEMMA CollectGood ==
  ASSUME NEW t, GoodTab(author, user, t), HasDoc(t), user \in Users
  PROVE  /\ Collect(t) \in Snapshots /\ Collect(t).doc = t.meta.id /\ Collect(t).doc # NoDoc
         /\ Collect(t).content = t.editor /\ Collect(t).owner = user
         /\ By(author, Collect(t).content, user)
  BY DEF GoodTab, OwnTab, Tab, Collect, Snapshots, HasDoc

(* The buffer of a signed-in tab holds the text of its user. *)
LEMMA BufferOwn ==
  ASSUME NEW u \in Users, NEW t, GoodTab(author, u, t)
  PROVE  By(author, t.buffer.content, u)
  BY SetsAssumption DEF GoodTab, OwnTab, By

LEMMA FlushFits ==
  ASSUME NEW t, GoodTab(author, user, t), NEW fr, GoodFrame(author, Save, fr, gen, user),
         Lock(t, fr), user \in Users \cup {Nobody}, gen \in Generations
  PROVE  Fit(Save, Flush(t, fr))
<1>1. CASE NeedsPush(t)
  <2> DEFINE nt == [Buffered(t) EXCEPT !.timer = FALSE, !.saving = TRUE]
             nf == [At(Idle, "put") EXCEPT !.snap = Collect(t)]
  <2>1. Flush(t, fr) = [tab |-> nt, frame |-> nf]
    BY <1>1 DEF Flush, Result
  <2>2. user \in Users /\ HasDoc(t)
    BY <1>1 DEF NeedsPush, HasDoc
  <2>3. /\ Collect(t) \in Snapshots /\ Collect(t).doc # NoDoc /\ Collect(t).owner = user
        /\ By(author, Collect(t).content, user)
    BY <2>2, CollectGood
  <2>4. nt \in Tab /\ nt.editor = t.editor /\ nt.buffer = Collect(t) /\ nt.saving = TRUE
    BY <2>3 DEF Buffered, GoodTab, Tab
  <2>5. GoodTab(author, user, nt)
    BY <2>3, <2>4 DEF GoodTab, OwnTab
  <2>6. /\ nf \in Frame /\ nf.pc = "put" /\ nf.by = user /\ nf.snap = Collect(t)
        /\ nf.doc = NoPayload /\ nf.alt = NoPayload /\ nf.reply = NoReply
    BY <2>2, <2>3, Constants DEF At, Idle, Frame, Steps, Served, Puts
  <2>7. OwnFrame(author, nf)
    BY <2>3, <2>6 DEF OwnFrame, Posts, Held, By, NoPayload, NoReply, Names
  <2>8. user # Nobody /\ gen \in Nat
    BY <2>2, SetsAssumption DEF Generations
  <2>9. Carries(Save, nf, gen, user)
    BY <2>6, <2>8 DEF Carries, SaveSteps, Save
  <2> HIDE DEF nt, nf
  <2> QED
    BY <2>1, <2>4, <2>5, <2>6, <2>7, <2>9 DEF Fit, GoodFrame, Lock, Save
<1>2. CASE ~NeedsPush(t)
  <2> DEFINE nt == [t EXCEPT !.timer = FALSE, !.pending = @ \/ t.saving]
  <2>1. Flush(t, fr) = [tab |-> nt, frame |-> fr]
    BY <1>2 DEF Flush, Result
  <2>2. nt \in Tab /\ nt.editor = t.editor /\ nt.buffer = t.buffer /\ nt.saving = t.saving
    BY DEF GoodTab, Tab
  <2> HIDE DEF nt
  <2>3. GoodTab(author, user, nt)
    BY <2>2 DEF GoodTab, OwnTab
  <2> QED
    BY <2>1, <2>2, <2>3 DEF Fit, Lock, Save
<1> QED
  BY <1>1, <1>2

LEMMA EndPushFits ==
  ASSUME NEW t, GoodTab(author, user, t), NEW succeeded \in BOOLEAN, NEW resend \in BOOLEAN,
         user \in Users \cup {Nobody}, gen \in Generations
  PROVE  Fit(Save, EndPush(t, succeeded, resend))
<1> DEFINE free == Released(t)
<1>1. free \in Tab /\ free.editor = t.editor /\ free.buffer = t.buffer /\ free.saving = FALSE
      /\ free.timer = t.timer
  BY DEF GoodTab, Tab, Released
<1>2. GoodTab(author, user, free)
  BY <1>1 DEF GoodTab, OwnTab
<1>3. GoodFrame(author, Save, Idle, gen, user) /\ Idle.pc = "idle"
  BY IdleGood DEF Idle
<1>4. CASE t.pending /\ succeeded
  <2>1. EndPush(t, succeeded, resend) = Flush(free, Idle)
    BY <1>4 DEF EndPush
  <2>2. Lock(free, Idle)
    BY <1>1, <1>3 DEF Lock
  <2> QED
    BY <2>1, <2>2, <1>2, <1>3, FlushFits
<1>5. CASE ~(t.pending /\ succeeded)
  <2> DEFINE nt == [free EXCEPT !.timer = @ \/ (t.pending /\ resend)]
  <2>1. EndPush(t, succeeded, resend) = [tab |-> nt, frame |-> Idle]
    BY <1>5 DEF EndPush, Result
  <2> HIDE DEF free
  <2>2. nt \in Tab /\ nt.editor = free.editor /\ nt.buffer = free.buffer /\ nt.saving = FALSE
    BY <1>1 DEF Tab
  <2> HIDE DEF nt
  <2>3. GoodTab(author, user, nt)
    BY <1>2, <2>2 DEF GoodTab, OwnTab
  <2> QED
    BY <2>1, <2>2, <2>3, <1>3 DEF Fit, Lock, Save
<1> QED
  BY <1>4, <1>5

\* The frame f runs in the current session, on a tab whose lock it has or respects.
Runs(f, t) ==
  /\ f \in Frames /\ f[2] = gen /\ gen \in Generations /\ user \in Users
  /\ GoodTab(author, user, t) /\ (IF f[1] = "save" THEN t.saving ELSE t.saving = tab.saving)

LEMMA LeaveFits ==
  ASSUME NEW f, NEW t, Runs(f, t), NEW fr \in Frame
  PROVE  Fit(f, Leave(f, t, fr))
<1>1. CASE f[1] = "save"
  <2>1. f = Save
    BY <1>1, FrameNames DEF Runs
  <2> QED
    BY <1>1, <2>1, EndPushFits DEF Leave, Runs
<1>2. CASE f[1] # "save"
  <2> DEFINE nf == IF fr.next = "list" THEN At(Idle, "list") ELSE Idle
  <2>1. Leave(f, t, fr) = [tab |-> t, frame |-> nf]
    BY <1>2 DEF Leave, Result
  <2>2. GoodFrame(author, f, At(Idle, "list"), gen, user)
    <3>2. /\ At(Idle, "list") \in Frame /\ At(Idle, "list").pc = "list" /\ At(Idle, "list").by = user
          /\ At(Idle, "list").snap = NoSnap /\ At(Idle, "list").doc = NoPayload
          /\ At(Idle, "list").alt = NoPayload /\ At(Idle, "list").reply = NoReply
      BY Constants DEF At, Idle, Frame, Steps, Runs
    <3>3. OwnFrame(author, At(Idle, "list"))
      BY <3>2 DEF OwnFrame, Posts, Held, By, NoSnap, NoPayload, NoReply, Names, Puts, Recovering
    <3>4. Carries(f, At(Idle, "list"), gen, user)
      BY <3>2, <1>2, SetsAssumption DEF Carries, Runs, Generations
    <3> QED
      BY <3>2, <3>3, <3>4 DEF GoodFrame
  <2>3. GoodFrame(author, f, nf, gen, user)
    BY <2>2, IdleGood
  <2> HIDE DEF nf
  <2> QED
    BY <1>2, <2>1, <2>3 DEF Fit, Runs
<1> QED
  BY <1>1, <1>2

LEMMA ShowFits ==
  ASSUME NEW f, NEW t, Runs(f, t), NEW fr \in Frame, NEW p \in Payloads, By(author, p.content, user)
  PROVE  Fit(f, Show(f, t, fr, p))
<1> DEFINE b == [doc |-> p.id, rev |-> p.rev, dirty |-> FALSE, content |-> p.content, owner |-> user]
           nt == [t EXCEPT !.meta = [id |-> p.id, rev |-> p.rev], !.editor = p.content, !.bare = {},
                        !.buffer = b]
<1>1. Show(f, t, fr, p) = Leave(f, nt, fr)
  BY DEF Show
<1>2. b \in Snapshots /\ b.content = p.content /\ b.owner = user /\ b.dirty = FALSE
  BY DEF Payloads, Snapshots, Runs
<1> HIDE DEF b
<1>3. nt \in Tab /\ nt.editor = p.content /\ nt.buffer = b /\ nt.saving = t.saving
  BY <1>2 DEF Payloads, Tab, Runs, GoodTab
<1> HIDE DEF nt
<1>4. GoodTab(author, user, nt)
  BY <1>2, <1>3 DEF GoodTab, OwnTab
<1>5. Runs(f, nt)
  BY <1>3, <1>4 DEF Runs
<1> QED
  BY <1>1, <1>5, LeaveFits

LEMMA HydrateFits ==
  ASSUME NEW f, NEW t, Runs(f, t), NEW fr \in Frame, OwnFrame(author, fr), fr.by = user,
         NEW p \in Payloads, By(author, p.content, user)
  PROVE  Fit(f, Hydrate(f, t, fr, p))
<1>1. CASE Replays(t, p)
  <2> DEFINE nt == [t EXCEPT !.retry = FALSE]
             nf == [At(fr, "replay") EXCEPT !.snap = t.buffer, !.doc = p, !.skip = TRUE]
  <2>1. Hydrate(f, t, fr, p) = [tab |-> nt, frame |-> nf]
    BY <1>1 DEF Hydrate, Result
  <2>2. t \in Tab /\ t.buffer \in Snapshots /\ t.buffer.doc # NoDoc
    BY <1>1 DEF Runs, GoodTab, OwnTab, Tab, Replays, IsOrphan
  <2>3. By(author, t.buffer.content, user)
    BY BufferOwn DEF Runs
  <2>4. nt \in Tab /\ nt.editor = t.editor /\ nt.buffer = t.buffer /\ nt.saving = t.saving
    BY <2>2 DEF Tab
  <2>5. /\ nf \in Frame /\ nf.pc = "replay" /\ nf.by = user /\ nf.snap = t.buffer
        /\ nf.doc = p /\ nf.alt = fr.alt /\ nf.reply = NoReply
    BY <2>2, Constants DEF At, Frame, Steps, Served, Recovering, Runs
  <2> HIDE DEF nt, nf
  <2>6. GoodTab(author, user, nt)
    BY <2>4 DEF GoodTab, OwnTab, Runs
  <2>7. By(author, t.buffer.content, t.buffer.owner) /\ By(author, NoReply.content, user)
    BY DEF Runs, GoodTab, OwnTab, By, NoReply
  <2>8. OwnFrame(author, nf)
    BY <2>2, <2>3, <2>5, <2>7 DEF OwnFrame, Posts, Held, Names
  <2>9. Carries(f, nf, gen, user)
    BY <2>5, SetsAssumption DEF Carries, Runs, SaveSteps, Recovering, Generations
  <2> QED
    BY <2>1, <2>4, <2>5, <2>6, <2>8, <2>9 DEF Fit, GoodFrame, Lock, Runs
<1>2. CASE ~Replays(t, p)
  BY <1>2, ShowFits DEF Hydrate
<1> QED
  BY <1>1, <1>2

LEMMA ThrowFits ==
  ASSUME NEW f, NEW t, Runs(f, t), NEW fr \in Frame, OwnFrame(author, fr), fr.by = user,
         fr.pc \notin Names
  PROVE  Fit(f, Throw(f, t, fr))
<1>1. CASE fr.alt # NoPayload
  <2> DEFINE nf == [fr EXCEPT !.alt = NoPayload]
  <2>1. Throw(f, t, fr) = Hydrate(f, t, nf, fr.alt)
    BY <1>1 DEF Throw
  <2>2. /\ nf \in Frame /\ nf.pc = fr.pc /\ nf.by = fr.by /\ nf.snap = fr.snap /\ nf.doc = fr.doc
        /\ nf.alt = NoPayload /\ nf.reply = fr.reply
    BY Constants DEF Frame
  <2> HIDE DEF nf
  <2>3. OwnFrame(author, nf)
    BY <2>2 DEF OwnFrame, Posts, Held, By, NoPayload
  <2>4. fr.alt \in Payloads /\ By(author, fr.alt.content, user)
    BY DEF OwnFrame, Posts, Held, Frame
  <2> QED
    BY <2>1, <2>2, <2>3, <2>4, HydrateFits
<1>2. CASE fr.alt = NoPayload /\ f[1] = "save"
  <2>1. f = Save
    BY <1>2, FrameNames DEF Runs
  <2> QED
    BY <1>2, <2>1, EndPushFits DEF Throw, Runs
<1>3. CASE fr.alt = NoPayload /\ f[1] # "save"
  BY <1>3, IdleGood DEF Throw, Result, Fit, Runs
<1> QED
  BY <1>1, <1>2, <1>3

-----------------------------------------------------------------------------
(* Steps of the tab.                                                        *)

(* A step of the tab alone keeps everything when what it leaves is good. *)
LEMMA CalmKeeps ==
  ASSUME Inv, NEW frs \in [Frames -> Frame], frames' = frs,
         UNCHANGED <<scene, server, user, gen, strays, author, removed, copies, faults>>,
         NEW t, tab' = t, GoodTab(author, user, t), Lock(t, frs[Save]),
         \A g \in Frames : GoodFrame(author, g, frs[g], gen, user),
         forgone' \subseteq Edits, exposed' \subseteq Edits, moves' \in 0..scene.moves
  PROVE  Inv'
<1>1. Plain' /\ Counted'
  BY DEF Inv, Plain, Counted
<1>2. server' \in [Docs -> Row] /\ RowsOwn' /\ StraysOwn'
  BY DEF Inv, RowsOwn, OwnRow, StraysOwn
<1>3. GoodTab(author, user, tab)'
  BY DEF GoodTab, OwnTab, By
<1>4. FramesOwn'
  BY DEF FramesOwn, GoodFrame, OwnFrame, Posts, Held, By, Carries
<1>5. Lock(tab, frames[Save])'
  BY DEF Lock, Save
<1> QED
  BY <1>1, <1>2, <1>3, <1>4, <1>5 DEF Inv

(* A step that moves one frame on, and the tab with it. *)
LEMMA StepKeeps ==
  ASSUME Inv, NEW f \in Frames, NEW r, GoOn(f, r),
         GoodTab(author, user, r.tab), GoodFrame(author, f, r.frame, gen, user),
         IF f = Save THEN Lock(r.tab, r.frame) ELSE r.tab.saving = tab.saving,
         forgone' \subseteq Edits, exposed' \subseteq Edits, moves' \in 0..scene.moves
  PROVE  Inv'
<1> DEFINE frs == [frames EXCEPT ![f] = r.frame]
<1>1. frs \in [Frames -> Frame] /\ frs[f] = r.frame /\ \A g \in Frames \ {f} : frs[g] = frames[g]
  BY DEF Inv, GoodFrame
<1>2. Save \in Frames
  BY FrameNames DEF Inv, Plain
<1> HIDE DEF frs
<1>3. \A g \in Frames : GoodFrame(author, g, frs[g], gen, user)
  BY <1>1 DEF Inv, FramesOwn
<1>4. Lock(r.tab, frs[Save])
  BY <1>1, <1>2 DEF Inv, Lock
<1> QED
  BY <1>1, <1>3, <1>4, CalmKeeps DEF GoOn, frs

(* A step that moves a frame on, and the chain of saves. *)
LEMMA PairKeeps ==
  ASSUME Inv, NEW f \in Frames, f # Save, NEW r, Fit(Save, r), tab' = r.tab,
         NEW fr, GoodFrame(author, f, fr, gen, user),
         frames' = [frames EXCEPT ![Save] = r.frame, ![f] = fr],
         UNCHANGED <<scene, server, user, gen, strays, author, removed, copies, faults>>,
         forgone' \subseteq Edits, exposed' \subseteq Edits, moves' \in 0..scene.moves
  PROVE  Inv'
<1> DEFINE frs == [frames EXCEPT ![Save] = r.frame, ![f] = fr]
<1>1. Save \in Frames /\ Save[1] = "save"
  BY FrameNames DEF Inv, Plain
<1>2. GoodFrame(author, Save, r.frame, gen, user) /\ GoodTab(author, user, r.tab) /\ Lock(r.tab, r.frame)
  BY <1>1 DEF Fit
<1>3. /\ frs \in [Frames -> Frame] /\ frs[f] = fr /\ frs[Save] = r.frame
      /\ \A g \in Frames \ {f, Save} : frs[g] = frames[g]
  BY <1>1, <1>2 DEF Inv, GoodFrame
<1> HIDE DEF frs
<1>4. \A g \in Frames : GoodFrame(author, g, frs[g], gen, user)
  BY <1>2, <1>3 DEF Inv, FramesOwn
<1> QED
  BY <1>2, <1>3, <1>4, CalmKeeps DEF frs

(* What a step exposes is text. *)
LEMMA GoExposes ==
  ASSUME Inv, NEW f \in Frames, NEW r, Go(f, r)
  PROVE  GoOn(f, r) /\ exposed' \subseteq Edits /\ moves' \in 0..scene.moves
<1>1. tab.editor \subseteq Edits /\ tab.buffer.content \subseteq Edits
  BY DEF Inv, GoodTab, Tab, Snapshots
<1>2. exposed \subseteq Edits /\ moves \in 0..scene.moves
  BY DEF Inv, Plain
<1>3. CASE frames[f].pc \in Recovering
  BY <1>1, <1>2, <1>3 DEF Go
<1>4. CASE frames[f].pc \notin Recovering /\ frames[f].pc = "list"
  BY <1>1, <1>2, <1>4 DEF Go
<1>5. CASE frames[f].pc \notin Recovering /\ frames[f].pc # "list"
  BY <1>2, <1>5 DEF Go
<1> QED
  BY <1>3, <1>4, <1>5 DEF Go

(* A step of the current session whose result fits. *)
LEMMA FittingStep ==
  ASSUME Inv, NEW f \in Frames, f[2] = gen, NEW r, Fit(f, r), GoOn(f, r),
         forgone' \subseteq Edits, exposed' \subseteq Edits, moves' \in 0..scene.moves
  PROVE  Inv'
<1>1. IF f = Save THEN Lock(r.tab, r.frame) ELSE r.tab.saving = tab.saving
  BY FrameNames DEF Fit, Inv, Plain
<1> QED
  BY <1>1, StepKeeps DEF Fit

LEMMA FittingGo ==
  ASSUME Inv, NEW f \in Frames, f[2] = gen, NEW r, Fit(f, r), Go(f, r), forgone' \subseteq Edits
  PROVE  Inv'
  BY GoExposes, FittingStep

(* A frame that stands at a request in the current session. *)
LEMMA Standing ==
  ASSUME Inv, NEW f \in Frames, f[2] = gen, frames[f].pc # "idle", frames[f].pc \notin Names
  PROVE  /\ frames[f] \in Frame /\ OwnFrame(author, frames[f]) /\ frames[f].by = user
         /\ user \in Users /\ Runs(f, tab)
<1>1. GoodFrame(author, f, frames[f], gen, user)
  BY DEF Inv, FramesOwn
<1>2. frames[f].by = user /\ user # Nobody
  BY <1>1 DEF GoodFrame, Carries
<1>3. user \in Users
  BY <1>2 DEF Inv, Plain
<1>4. f[1] = "save" => tab.saving
  <2> SUFFICES ASSUME f[1] = "save" PROVE tab.saving
    OBVIOUS
  <2>1. f = Save
    BY FrameNames DEF Inv, Plain
  <2> QED
    BY <2>1 DEF Inv, Lock
<1> QED
  BY <1>1, <1>2, <1>3, <1>4 DEF GoodFrame, Runs, Inv, Plain

(* The answer a frame of the current session has, as a document. *)
LEMMA PayloadOwn ==
  ASSUME NEW f \in Frames, frames[f] \in Frame, OwnFrame(author, frames[f]), frames[f].by = user
  PROVE  Payload(f) \in Payloads /\ By(author, Payload(f).content, user)
  BY DEF Payload, Payloads, Frame, Replies, OwnFrame, Posts, Held

(* The next request of a frame, the tab as it is. *)
LEMMA AtFits ==
  ASSUME NEW f, NEW t, Runs(f, t), NEW fr \in Frame, OwnFrame(author, fr), fr.by = user,
         NEW pc \in Steps, pc \notin Names, pc # "idle",
         pc \in Puts \cup Recovering => fr.snap.doc # NoDoc, f[1] = "save" => pc \in SaveSteps
  PROVE  Fit(f, Result(t, At(fr, pc)))
<1>1. GoodFrame(author, f, At(fr, pc), gen, user)
  BY AtGood DEF Runs
<1>2. At(fr, pc).pc = pc
  BY DEF At, Frame
<1>3. Result(t, At(fr, pc)).tab = t /\ Result(t, At(fr, pc)).frame = At(fr, pc)
  BY DEF Result
<1> QED
  BY <1>1, <1>2, <1>3 DEF Fit, Runs, Lock

LEMMA RecoveringSteps ==
  /\ Recovering \subseteq Steps /\ Recovering \subseteq SaveSteps /\ Recovering \cap Names = {}
  /\ "idle" \notin Recovering
  /\ "title" \in Steps /\ "title" \in SaveSteps /\ "title" \notin Puts \cup Recovering \cup Names
  BY DEF Recovering, Steps, SaveSteps, Names, Puts

(* push() when its answer is there. *)
LEMMA PushAnsweredKeeps == ASSUME Inv, PushAnswered PROVE Inv'
<1> DEFINE fr == frames[Save]
           confirmed == Confirmed(tab, fr.snap, fr.reply.rev)
<1>1. Save \in Frames /\ Save[2] = gen /\ Save[1] = "save"
  BY FrameNames DEF Inv, Plain
<1>2. fr.pc = "put"
  BY DEF PushAnswered, Answered
<1>3. /\ fr \in Frame /\ OwnFrame(author, fr) /\ fr.by = user /\ user \in Users
      /\ Runs(Save, tab) /\ fr.snap.doc # NoDoc
  BY <1>1, <1>2, Standing DEF OwnFrame, Posts, Puts, Names
<1>4. Runs(Save, confirmed)
  <2> DEFINE nb == [fr.snap EXCEPT !.rev = fr.reply.rev, !.dirty = FALSE]
  <2>1. fr.snap \in Snapshots /\ fr.reply.rev \in Nat
    BY <1>3 DEF Frame, Replies
  <2>2. nb \in Snapshots /\ nb.content = fr.snap.content /\ nb.owner = fr.snap.owner /\ nb.dirty = FALSE
    BY <2>1 DEF Snapshots
  <2>3. By(author, nb.content, user) /\ By(author, nb.content, nb.owner)
    BY <2>2, <1>3 DEF OwnFrame, Posts, Held
  <2>4. nb.content # {} => nb.owner = user
    BY <2>3 DEF By
  <2> HIDE DEF nb
  <2>5. tab \in Tab /\ OwnTab(author, user, tab) /\ tab.saving
    BY <1>1, <1>3 DEF Runs, GoodTab
  <2>6. CASE tab.meta.id # fr.snap.doc
    <3>1. confirmed = [tab EXCEPT !.retry = FALSE]
      BY <2>6 DEF Confirmed
    <3>2. /\ confirmed \in Tab /\ confirmed.editor = tab.editor /\ confirmed.buffer = tab.buffer
          /\ confirmed.saving = tab.saving
      BY <2>5, <3>1 DEF Tab
    <3> QED
      BY <3>2, <2>5, <1>3, <1>1 DEF Runs, GoodTab, OwnTab
  <2>7. CASE tab.meta.id = fr.snap.doc
    <3>1. confirmed = [tab EXCEPT !.meta.rev = fr.reply.rev, !.retry = FALSE, !.buffer = nb,
                                   !.bare = tab.editor \ fr.snap.content]
      BY <2>7 DEF Confirmed, nb
    <3>2. /\ confirmed \in Tab /\ confirmed.editor = tab.editor /\ confirmed.buffer = nb
          /\ confirmed.saving = tab.saving
      BY <2>1, <2>2, <2>5, <3>1 DEF Tab
    <3> HIDE DEF confirmed
    <3>3. OwnTab(author, user, confirmed)
      BY <3>2, <2>2, <2>3, <2>4, <2>5 DEF OwnTab
    <3> QED
      BY <3>2, <3>3, <2>5, <1>3, <1>1 DEF Runs, GoodTab
  <2> QED
    BY <2>6, <2>7
<1>5. forgone' \subseteq Edits
  BY DEF PushAnswered, Inv, Plain
<1> HIDE DEF confirmed
<1>6. ASSUME Go(Save, EndPush(confirmed, TRUE, FALSE)) PROVE Inv'
  BY <1>1, <1>3, <1>4, <1>5, <1>6, EndPushFits, FittingGo DEF Runs
<1>7. ASSUME Go(Save, Result(confirmed, At(fr, "title"))) PROVE Inv'
  <2>1. Fit(Save, Result(confirmed, At(fr, "title")))
    BY <1>1, <1>3, <1>4, AtFits, RecoveringSteps
  <2> QED
    BY <2>1, <1>1, <1>5, <1>7, FittingGo
<1>8. ASSUME Go(Save, Result(tab, At(fr, "recGet"))) PROVE Inv'
  <2>1. Fit(Save, Result(tab, At(fr, "recGet")))
    BY <1>1, <1>3, AtFits, RecoveringSteps DEF Recovering
  <2> QED
    BY <2>1, <1>1, <1>5, <1>8, FittingGo
<1>9. ASSUME NEW resend \in BOOLEAN, Go(Save, EndPush(tab, FALSE, resend)) PROVE Inv'
  BY <1>1, <1>3, <1>5, <1>9, EndPushFits, FittingGo DEF Runs
<1>10. ASSUME Go(Save, EndPush([tab EXCEPT !.retry = TRUE], FALSE, FALSE)) PROVE Inv'
  <2> DEFINE nt == [tab EXCEPT !.retry = TRUE]
  <2>1. nt \in Tab /\ nt.editor = tab.editor /\ nt.buffer = tab.buffer
    BY DEF Inv, GoodTab, Tab
  <2> HIDE DEF nt
  <2>2. GoodTab(author, user, nt)
    BY <2>1 DEF Inv, GoodTab, OwnTab
  <2>3. Fit(Save, EndPush(nt, FALSE, FALSE))
    BY <2>2, <1>3, EndPushFits DEF Runs
  <2> QED
    BY <2>3, <1>1, <1>5, <1>10, FittingGo DEF nt
<1> QED
  BY <1>6, <1>7, <1>8, <1>9, <1>10 DEF PushAnswered, confirmed

LEMMA TitleAnsweredKeeps == ASSUME Inv, TitleAnswered PROVE Inv'
<1>1. Save \in Frames /\ Save[2] = gen
  BY FrameNames DEF Inv, Plain
<1>2. Fit(Save, EndPush(tab, TRUE, FALSE))
  BY EndPushFits DEF Inv, Plain
<1> QED
  BY <1>1, <1>2, FittingGo DEF TitleAnswered, Inv, Plain

LEMMA ReplayedKeeps == ASSUME Inv, NEW f \in Frames, Replayed(f) PROVE Inv'
<1> DEFINE fr == frames[f]
<1>1. f[2] = gen /\ fr.pc = "replay"
  BY DEF Replayed, Answered, IsCurrent, Speaks
<1>2. /\ fr \in Frame /\ OwnFrame(author, fr) /\ fr.by = user /\ Runs(f, tab)
      /\ fr.snap.doc # NoDoc
  BY <1>1, Standing DEF OwnFrame, Posts, Names, Recovering
<1>3. CASE Gone(f)
  <2>1. Fit(f, Result(tab, At(fr, "recGet")))
    BY <1>2, AtFits, RecoveringSteps DEF Recovering
  <2> QED
    BY <2>1, <1>1, <1>3, FittingGo DEF Replayed, Inv, Plain
<1>4. CASE ~Gone(f)
  <2>1. fr.doc \in Payloads /\ By(author, fr.doc.content, user) /\ fr.snap.content \subseteq Edits
    BY <1>2 DEF OwnFrame, Posts, Held, Frame, Snapshots
  <2>2. Fit(f, Show(f, tab, fr, fr.doc))
    BY <2>1, <1>2, ShowFits
  <2>3. Go(f, Show(f, tab, fr, fr.doc)) /\ forgone' \subseteq Edits
    BY <2>1, <1>4 DEF Replayed, Inv, Plain
  <2> QED
    BY <2>2, <2>3, <1>1, FittingGo
<1> QED
  BY <1>3, <1>4

\* The frame that goes on in a recovery with the document or the copy it found.
LEMMA BufferGoneFits ==
  ASSUME NEW f, Runs(f, tab), NEW fr \in Frame, OwnFrame(author, fr), fr.by = user,
         fr.snap.doc # NoDoc, NEW p \in Payloads, By(author, p.content, user)
  PROVE  LET t == [tab EXCEPT !.buffer = NoSnap]
         IN  /\ Fit(f, Result(t, [At(fr, "recList") EXCEPT !.doc = p]))
             /\ Fit(f, Result(t, [At(fr, "recList") EXCEPT !.alt = p]))
<1> DEFINE t == [tab EXCEPT !.buffer = NoSnap]
           onDoc == [At(fr, "recList") EXCEPT !.doc = p]
           onCopy == [At(fr, "recList") EXCEPT !.alt = p]
<1>1. t \in Tab /\ t.editor = tab.editor /\ t.buffer = NoSnap /\ t.saving = tab.saving
  BY Constants DEF Runs, GoodTab, Tab
<1>2. GoodTab(author, user, t)
  BY <1>1 DEF Runs, GoodTab, OwnTab, By, NoSnap
<1>3. At(fr, "recList") \in Frame /\ GoodFrame(author, f, At(fr, "recList"), gen, user)
  BY AtGood, RecoveringSteps DEF Runs, GoodFrame, Recovering
<1>4. At(fr, "recList").pc = "recList" /\ At(fr, "recList").by = user
  BY DEF At, Frame
<1>5. /\ onDoc \in Frame /\ onDoc.pc = "recList" /\ onDoc.by = user /\ onDoc.doc = p
      /\ onDoc.snap = At(fr, "recList").snap /\ onDoc.alt = At(fr, "recList").alt
      /\ onDoc.reply = At(fr, "recList").reply
  BY <1>3, <1>4 DEF Frame
<1>6. /\ onCopy \in Frame /\ onCopy.pc = "recList" /\ onCopy.by = user /\ onCopy.alt = p
      /\ onCopy.snap = At(fr, "recList").snap /\ onCopy.doc = At(fr, "recList").doc
      /\ onCopy.reply = At(fr, "recList").reply
  BY <1>3, <1>4 DEF Frame
<1> HIDE DEF onDoc, onCopy, t
<1>7. GoodFrame(author, f, onDoc, gen, user)
  BY <1>3, <1>4, <1>5 DEF GoodFrame, OwnFrame, Posts, Held, Carries, Names
<1>8. GoodFrame(author, f, onCopy, gen, user)
  BY <1>3, <1>4, <1>6 DEF GoodFrame, OwnFrame, Posts, Held, Carries, Names
<1>9. Fit(f, Result(t, onDoc)) /\ Fit(f, Result(t, onCopy))
  BY <1>1, <1>2, <1>5, <1>6, <1>7, <1>8 DEF Fit, Result, Lock, Runs
<1> QED
  BY <1>9 DEF onDoc, onCopy, t

LEMMA RecoveryReadKeeps == ASSUME Inv, NEW f \in Frames, RecoveryRead(f) PROVE Inv'
<1> DEFINE fr == frames[f]
           target == IF fr.skip THEN fr.doc ELSE Payload(f)
<1>1. f[2] = gen /\ fr.pc = "recGet" /\ fr.pc \notin Names
  BY DEF RecoveryRead, Answered, IsCurrent, Speaks, Names
<1>2. /\ fr \in Frame /\ OwnFrame(author, fr) /\ fr.by = user /\ Runs(f, tab)
      /\ fr.snap.doc # NoDoc
  BY <1>1, Standing DEF OwnFrame, Posts, Names, Recovering
<1>3. target \in Payloads /\ By(author, target.content, user)
  BY <1>2, PayloadOwn DEF OwnFrame, Posts, Held, Frame
<1>4. forgone' \subseteq Edits
  BY DEF RecoveryRead, Inv, Plain
<1>5. CASE Got(f) = "fail"
  <2>1. Fit(f, Throw(f, tab, fr))
    BY <1>1, <1>2, ThrowFits
  <2> QED
    BY <2>1, <1>1, <1>4, <1>5, FittingGo DEF RecoveryRead
<1>6. CASE Got(f) # "fail" /\ OwnWrite(f)
  <2> HIDE DEF target
  <2>1. Fit(f, Result([tab EXCEPT !.buffer = NoSnap], [At(fr, "recList") EXCEPT !.doc = target]))
    BY <1>2, <1>3, BufferGoneFits
  <2>2. Go(f, Result([tab EXCEPT !.buffer = NoSnap], [At(fr, "recList") EXCEPT !.doc = target]))
    BY <1>6 DEF RecoveryRead, target
  <2> QED
    BY <2>1, <2>2, <1>1, <1>4, FittingGo
<1>7. CASE Got(f) # "fail" /\ ~OwnWrite(f)
  <2>1. Fit(f, Result(tab, At(fr, "recPost")))
    BY <1>2, AtFits, RecoveringSteps DEF Recovering
  <2> QED
    BY <2>1, <1>1, <1>4, <1>7, FittingGo DEF RecoveryRead
<1> QED
  BY <1>5, <1>6, <1>7

LEMMA RecoveryCopiedKeeps == ASSUME Inv, NEW f \in Frames, RecoveryCopied(f) PROVE Inv'
<1> DEFINE fr == frames[f]
           copy == IF fr.skip THEN fr.alt ELSE Payload(f)
<1>1. f[2] = gen /\ fr.pc = "recPost" /\ fr.pc \notin Names
  BY DEF RecoveryCopied, Answered, IsCurrent, Speaks, Names
<1>2. /\ fr \in Frame /\ OwnFrame(author, fr) /\ fr.by = user /\ Runs(f, tab)
      /\ fr.snap.doc # NoDoc
  BY <1>1, Standing DEF OwnFrame, Posts, Names, Recovering
<1>3. copy \in Payloads /\ By(author, copy.content, user)
  BY <1>2, PayloadOwn DEF OwnFrame, Posts, Held, Frame
<1>4. forgone' \subseteq Edits
  BY DEF RecoveryCopied, Inv, Plain
<1>5. CASE Got(f) = "fail"
  <2>1. Fit(f, Throw(f, tab, fr))
    BY <1>1, <1>2, ThrowFits
  <2> QED
    BY <2>1, <1>1, <1>4, <1>5, FittingGo DEF RecoveryCopied
<1>6. CASE Got(f) # "fail"
  <2> HIDE DEF copy
  <2>1. Fit(f, Result([tab EXCEPT !.buffer = NoSnap], [At(fr, "recList") EXCEPT !.alt = copy]))
    BY <1>2, <1>3, BufferGoneFits
  <2>2. Go(f, Result([tab EXCEPT !.buffer = NoSnap], [At(fr, "recList") EXCEPT !.alt = copy]))
    BY <1>6 DEF RecoveryCopied, copy
  <2> QED
    BY <2>1, <2>2, <1>1, <1>4, FittingGo
<1> QED
  BY <1>5, <1>6

\* The list of documents has arrived.
LEMMA ListedRuns ==
  ASSUME NEW f, Runs(f, tab)
  PROVE  Runs(f, [tab EXCEPT !.listed = TRUE])
<1> DEFINE t == [tab EXCEPT !.listed = TRUE]
<1>1. t \in Tab /\ t.editor = tab.editor /\ t.buffer = tab.buffer /\ t.saving = tab.saving
  BY DEF Runs, GoodTab, Tab
<1> HIDE DEF t
<1>2. Runs(f, t)
  BY <1>1 DEF Runs, GoodTab, OwnTab
<1> QED
  BY <1>2 DEF t

LEMMA RecoveryListedKeeps == ASSUME Inv, NEW f \in Frames, RecoveryListed(f) PROVE Inv'
<1> DEFINE fr == frames[f]
           t == [tab EXCEPT !.listed = TRUE]
           r == IF fr.skip THEN Show(f, t, fr, fr.doc)
                ELSE IF t.meta.id # fr.snap.doc THEN Leave(f, t, fr)
                ELSE IF fr.alt = NoPayload THEN Hydrate(f, t, fr, fr.doc)
                ELSE Result(t, At(fr, "recGet2"))
<1>1. f[2] = gen /\ fr.pc = "recList"
  BY DEF RecoveryListed, IsCurrent, Speaks
<1>2. /\ fr \in Frame /\ OwnFrame(author, fr) /\ fr.by = user /\ Runs(f, tab)
      /\ fr.snap.doc # NoDoc
  BY <1>1, Standing DEF OwnFrame, Posts, Names, Recovering
<1>3. Runs(f, t)
  BY <1>2, ListedRuns
<1>4. fr.doc \in Payloads /\ By(author, fr.doc.content, user)
  BY <1>2 DEF OwnFrame, Posts, Held, Frame
<1> HIDE DEF t
<1>5. Fit(f, Show(f, t, fr, fr.doc))
  BY <1>2, <1>3, <1>4, ShowFits
<1>6. Fit(f, Leave(f, t, fr))
  BY <1>2, <1>3, LeaveFits
<1>7. Fit(f, Hydrate(f, t, fr, fr.doc))
  BY <1>2, <1>3, <1>4, HydrateFits
<1>8. Fit(f, Result(t, At(fr, "recGet2")))
  BY <1>2, <1>3, AtFits, RecoveringSteps DEF Recovering
<1>9. Fit(f, r)
  BY <1>5, <1>6, <1>7, <1>8
<1>10. Go(f, r) /\ forgone' \subseteq Edits
  BY DEF RecoveryListed, Inv, Plain, t
<1> HIDE DEF r
<1> QED
  BY <1>1, <1>9, <1>10, FittingGo

LEMMA RecoveryRereadKeeps == ASSUME Inv, NEW f \in Frames, RecoveryReread(f) PROVE Inv'
<1> DEFINE fr == frames[f]
           r == IF Got(f) = "ok" THEN Hydrate(f, tab, fr, Payload(f)) ELSE Throw(f, tab, fr)
<1>1. f[2] = gen /\ fr.pc = "recGet2" /\ fr.pc \notin Names
  BY DEF RecoveryReread, Answered, IsCurrent, Speaks, Names
<1>2. fr \in Frame /\ OwnFrame(author, fr) /\ fr.by = user /\ Runs(f, tab)
  BY <1>1, Standing
<1>3. Payload(f) \in Payloads /\ By(author, Payload(f).content, user)
  BY <1>2, PayloadOwn
<1>4. Fit(f, r)
  BY <1>1, <1>2, <1>3, HydrateFits, ThrowFits
<1>5. Go(f, r) /\ forgone' \subseteq Edits
  BY DEF RecoveryReread, Inv, Plain
<1> HIDE DEF r
<1> QED
  BY <1>1, <1>4, <1>5, FittingGo

-----------------------------------------------------------------------------
(* The operations of documents.ts.                                          *)

NavSteps == {"waitOpen", "waitPost", "get", "delete"}
LEMMA NavFrameGood ==
  ASSUME NEW f \in Frames, f[1] # "save", f[2] = gen, gen \in Generations, user \in Users,
         NEW pc \in NavSteps, NEW d \in Docs \cup {NoDoc}
  PROVE  GoodFrame(author, f, NavFrame(pc, d), gen, user)
<1> DEFINE nf == NavFrame(pc, d)
<1>1. nf.doc = [id |-> d, rev |-> 0, content |-> {}]
  BY DEF NavFrame, At, Idle, NoPayload
<1>2. nf \in Frame
  <2>1. pc \in Steps
    BY DEF NavSteps, Steps, Served, Gets
  <2>2. At(Idle, pc) \in Frame /\ At(Idle, pc).doc = NoPayload
    BY <2>1, Constants DEF At, Idle, Frame
  <2>3. [At(Idle, pc).doc EXCEPT !.id = d] \in Payloads
    BY <2>2, Constants DEF Payloads
  <2>4. nf = [At(Idle, pc) EXCEPT !.doc = [At(Idle, pc).doc EXCEPT !.id = d]]
    BY <2>2 DEF NavFrame
  <2> QED
    BY <2>2, <2>3, <2>4 DEF Frame
<1>3. /\ nf.pc = pc /\ nf.by = user /\ nf.snap = NoSnap /\ nf.alt = NoPayload /\ nf.reply = NoReply
  BY DEF NavFrame, At, Idle
<1> HIDE DEF nf
<1>4. OwnFrame(author, nf)
  BY <1>1, <1>3 DEF OwnFrame, Posts, Held, By, NoSnap, NoPayload, NoReply, NavSteps, Puts, Recovering, Names
<1>5. Carries(f, nf, gen, user)
  BY <1>3, SetsAssumption DEF Carries, Generations
<1> QED
  BY <1>2, <1>4, <1>5 DEF GoodFrame, nf

LEMMA FlushTabFits ==
  ASSUME Inv
  PROVE  Fit(Save, Flush(tab, frames[Save]))
<1>1. Save \in Frames
  BY FrameNames DEF Inv, Plain
<1> QED
  BY <1>1, FlushFits DEF Inv, Plain, FramesOwn

(* A navigation that saves first. *)
LEMMA FlushThenKeeps ==
  ASSUME Inv, NEW f \in Navs, user \in Users, NEW pc \in NavSteps, NEW d \in Docs \cup {NoDoc},
         FlushThen(f, NavFrame(pc, d)), exposed' \subseteq Edits, moves' \in 0..scene.moves
  PROVE  Inv'
<1>1. f \in Frames /\ f[1] # "save" /\ f[2] = gen /\ f # Save /\ gen \in Generations
  BY FrameNames DEF Inv, Plain
<1>2. GoodFrame(author, f, NavFrame(pc, d), gen, user)
  BY <1>1, NavFrameGood
<1>3. forgone' \subseteq Edits
  BY DEF FlushThen, Inv, Plain
<1> QED
  BY <1>1, <1>2, <1>3, FlushTabFits, PairKeeps DEF FlushThen

(* The user moves within the bound. *)
LEMMA MoveBound ==
  ASSUME Inv, NEW act, Move(act)
  PROVE  moves' \in 0..scene.moves
  BY SceneBounds DEF Move, Inv, Plain

LEMMA OpenKeeps == ASSUME Inv, NEW d \in Docs, Open(d) PROVE Inv'
<1>1. user \in Users /\ exposed' \subseteq Edits /\ moves' \in 0..scene.moves
  BY MoveBound DEF Open, Inv, Plain
<1>2. PICK f \in Navs : FlushThen(f, NavFrame("waitOpen", d))
  BY DEF Open
<1> QED
  BY <1>1, <1>2, FlushThenKeeps DEF NavSteps

LEMMA CreateKeeps == ASSUME Inv, Create PROVE Inv'
<1>1. user \in Users /\ exposed' \subseteq Edits /\ moves' \in 0..scene.moves
  BY MoveBound DEF Create, NavIdle, Inv, Plain
<1>2. Nav \in Navs /\ FlushThen(Nav, NavFrame("waitPost", NoDoc))
  BY DEF Create, Navs
<1> QED
  BY <1>1, <1>2, FlushThenKeeps DEF NavSteps

LEMMA FlushWaitedKeeps == ASSUME Inv, NEW f \in Navs, FlushWaited(f) PROVE Inv'
<1> DEFINE pc == IF frames[f].pc = "waitOpen" THEN "get" ELSE "post"
<1>1. f \in Frames /\ f[1] # "save" /\ f[2] = gen
  BY FrameNames DEF Inv, Plain
<1>2. frames[f].pc \in {"waitOpen", "waitPost"} /\ Go(f, Result(tab, At(frames[f], pc)))
      /\ forgone' \subseteq Edits
  BY DEF FlushWaited, Inv, Plain
<1>3. frames[f] \in Frame /\ OwnFrame(author, frames[f]) /\ frames[f].by = user /\ Runs(f, tab)
  BY <1>1, <1>2, Standing DEF Names
<1>4. pc \in Steps /\ pc # "idle" /\ pc \notin Names /\ pc \notin Puts \cup Recovering
  BY DEF Steps, Names, Puts, Recovering, Served, Gets, Posts
<1> HIDE DEF pc
<1>5. Fit(f, Result(tab, At(frames[f], pc)))
  BY <1>1, <1>3, <1>4, AtFits
<1> QED
  BY <1>1, <1>2, <1>5, FittingGo

LEMMA DocumentArrivedKeeps == ASSUME Inv, NEW f \in Navs, DocumentArrived(f) PROVE Inv'
<1> DEFINE t == [tab EXCEPT !.listed = TRUE]
           r == IF Got(f) = "ok" THEN Hydrate(f, t, frames[f], Payload(f)) ELSE Result(tab, Idle)
<1>1. f \in Frames /\ f[1] # "save" /\ f[2] = gen
  BY FrameNames DEF Inv, Plain
<1>2. frames[f].pc \in {"get", "post"} /\ Go(f, r) /\ forgone' \subseteq Edits
  BY DEF DocumentArrived, Answered, Inv, Plain
<1>3. frames[f] \in Frame /\ OwnFrame(author, frames[f]) /\ frames[f].by = user /\ Runs(f, tab)
  BY <1>1, <1>2, Standing DEF Names
<1>4. Runs(f, t)
  BY <1>3, ListedRuns
<1>5. Payload(f) \in Payloads /\ By(author, Payload(f).content, user)
  BY <1>1, <1>3, PayloadOwn
<1> HIDE DEF t
<1>6. Fit(f, Hydrate(f, t, frames[f], Payload(f)))
  BY <1>3, <1>4, <1>5, HydrateFits
<1>7. Fit(f, Result(tab, Idle))
  BY <1>1, <1>3, IdleGood DEF Fit, Result, Runs
<1>8. Fit(f, r)
  BY <1>6, <1>7
<1> HIDE DEF r
<1> QED
  BY <1>1, <1>2, <1>8, FittingGo

\* A tab with the same text, or none of it buffered, and the same lock.
Resembles(t, old) ==
  /\ t \in Tab /\ t.editor = old.editor /\ t.saving = old.saving
  /\ t.buffer = old.buffer \/ t.buffer = NoSnap
LEMMA ResemblingGood ==
  ASSUME Inv, NEW t, Resembles(t, tab)
  PROVE  GoodTab(author, user, t) /\ t.saving = tab.saving
  BY DEF Resembles, Inv, GoodTab, OwnTab, By, NoSnap

LEMMA RemoveKeeps == ASSUME Inv, NEW d \in Docs, Remove(d) PROVE Inv'
<1> DEFINE t == IF tab.buffer.doc = d THEN Unbuffered(tab) ELSE tab
           r == Result(t, NavFrame("delete", d))
<1>1. user \in Users /\ exposed' \subseteq Edits /\ moves' \in 0..scene.moves
  BY MoveBound DEF Remove, NavIdle, Inv, Plain
<1>2. Nav \in Frames /\ Nav # Save /\ Nav[1] # "save" /\ Nav[2] = gen /\ gen \in Generations
  BY FrameNames DEF Inv, Plain
<1>3. Resembles(t, tab)
  BY Constants DEF Resembles, Unbuffered, Inv, GoodTab, Tab
<1>4. GoodFrame(author, Nav, NavFrame("delete", d), gen, user)
  BY <1>1, <1>2, NavFrameGood DEF NavSteps
<1>5. tab.buffer.content \subseteq Edits /\ forgone \subseteq Edits
  BY DEF Inv, GoodTab, Tab, Snapshots, Plain
<1>6. GoOn(Nav, r) /\ forgone' \subseteq Edits
  BY <1>5 DEF Remove
<1> HIDE DEF t
<1>7. r.tab = t /\ r.frame = NavFrame("delete", d)
  BY DEF Result
<1> HIDE DEF r
<1> QED
  BY <1>1, <1>2, <1>3, <1>4, <1>6, <1>7, ResemblingGood, StepKeeps

(* A frame that leaves without a further request. *)
LEMMA IdleKeeps ==
  ASSUME Inv, NEW f \in Frames, f # Save, NEW t, Resembles(t, tab), Go(f, Result(t, Idle)),
         forgone' \subseteq Edits
  PROVE  Inv'
<1>1. Result(t, Idle).tab = t /\ Result(t, Idle).frame = Idle
  BY DEF Result
<1> QED
  BY <1>1, ResemblingGood, IdleGood, GoExposes, StepKeeps

LEMMA SameResembles == ASSUME Inv PROVE Resembles(tab, tab)
  BY DEF Resembles, Inv, GoodTab

LEMMA RemovedKeeps == ASSUME Inv, NEW f \in Frames, Removed(f) PROVE Inv'
<1> DEFINE d == frames[f].doc.id
           rest == LiveDocs(user) \ {d}
<1>1. frames[f].pc = "delete"
  BY DEF Removed
<1>2. f # Save
  <2>1. GoodFrame(author, f, frames[f], gen, user)
    BY DEF Inv, FramesOwn
  <2> QED
    BY <1>1, <2>1 DEF GoodFrame, Carries, SaveSteps, Recovering, Save
<1>3. tab.editor \subseteq Edits /\ forgone \subseteq Edits
  BY DEF Inv, GoodTab, Tab, Plain
<1>4. forgone' \subseteq Edits
  BY <1>3 DEF Removed
<1>5. f = Nav => user \in Users /\ f[1] # "save" /\ f[2] = gen /\ gen \in Generations
  <2> SUFFICES ASSUME f = Nav PROVE user \in Users /\ f[1] # "save" /\ f[2] = gen /\ gen \in Generations
    OBVIOUS
  <2>1. f[1] = "nav" /\ f[2] = gen /\ gen \in Generations
    BY FrameNames DEF Inv, Plain
  <2> QED
    BY <2>1, <1>1, Standing DEF Names
<1>6. ASSUME Go(f, Result(tab, Idle)) PROVE Inv'
  BY <1>2, <1>4, <1>6, IdleKeeps, SameResembles
<1>7. ASSUME NEW x \in rest, f = Nav, Go(f, Result(tab, NavFrame("get", x))) PROVE Inv'
  <2>1. x \in Docs
    BY DEF LiveDocs
  <2>2. GoodFrame(author, f, NavFrame("get", x), gen, user)
    BY <1>5, <1>7, <2>1, NavFrameGood DEF NavSteps
  <2>3. /\ Result(tab, NavFrame("get", x)).tab = tab
        /\ Result(tab, NavFrame("get", x)).frame = NavFrame("get", x)
    BY DEF Result
  <2> QED
    BY <1>2, <1>4, <1>7, <2>2, <2>3, GoExposes, StepKeeps, SameResembles, ResemblingGood
<1>8. ASSUME NEW t, Resembles(t, tab), NEW fr, Go(f, Result(t, fr)),
             fr = IF f = Nav THEN NavFrame("waitPost", NoDoc) ELSE Idle
      PROVE  Inv'
  <2>1. CASE f # Nav
    BY <2>1, <1>2, <1>4, <1>8, IdleKeeps
  <2>2. CASE f = Nav
    <3>1. GoodFrame(author, f, fr, gen, user)
      BY <1>5, <1>8, <2>2, NavFrameGood DEF NavSteps
    <3>2. Result(t, fr).tab = t /\ Result(t, fr).frame = fr
      BY DEF Result
    <3> QED
      BY <1>2, <1>4, <1>8, <3>1, <3>2, GoExposes, StepKeeps, ResemblingGood
  <2> QED
    BY <2>1, <2>2
<1>9. Resembles([tab EXCEPT !.meta = NoMeta, !.timer = FALSE,
                            !.pending = (f = Nav /\ tab.saving) \/ @], tab)
  BY Constants DEF Resembles, Inv, GoodTab, Tab
<1> QED
  BY <1>6, <1>7, <1>8, <1>9 DEF Removed

LEMMA RenameKeeps == ASSUME Inv, NEW d \in Docs, Rename(d) PROVE Inv'
<1> DEFINE pc == IF tab.meta.id = d THEN "putName" ELSE "getNamed"
           p == [NoPayload EXCEPT !.id = d, !.rev = tab.meta.rev]
           nf == [At(Idle, pc) EXCEPT !.doc = p]
<1>1. Name \in Frames /\ Name # Save /\ Name[1] # "save" /\ Name[2] = gen /\ gen \in Nat
  BY FrameNames DEF Inv, Plain, Generations
<1>2. exposed' \subseteq Edits /\ forgone' \subseteq Edits /\ moves' \in 0..scene.moves
  BY MoveBound DEF Rename, Inv, Plain
<1>3. p \in Payloads /\ p.content = {}
  BY Constants DEF Payloads, NoPayload, Inv, GoodTab, Tab
<1>4. pc \in Names /\ pc \in Steps /\ pc \notin Puts \cup Recovering \cup Posts
  BY DEF Names, Steps, Served, Puts, Recovering, Posts
<1>5. user \in Users \cup {Nobody}
  BY DEF Inv, Plain
<1> HIDE DEF p, pc
<1>6. /\ nf \in Frame /\ nf.pc = pc /\ nf.snap = NoSnap /\ nf.alt = NoPayload
      /\ nf.doc = p /\ nf.reply = NoReply
  BY <1>3, <1>4, <1>5, Constants DEF At, Idle, Frame
<1>7. GoOn(Name, Result(tab, nf))
  BY DEF Rename, p, pc
<1> HIDE DEF nf
<1>8. OwnFrame(author, nf)
  BY <1>3, <1>4, <1>6 DEF OwnFrame, Posts, Held, By, NoSnap, NoPayload, NoReply
<1>9. GoodFrame(author, Name, nf, gen, user)
  BY <1>1, <1>4, <1>6, <1>8 DEF GoodFrame, Carries
<1>10. Result(tab, nf).tab = tab /\ Result(tab, nf).frame = nf
  BY DEF Result
<1> QED
  BY <1>1, <1>2, <1>7, <1>9, <1>10, SameResembles, ResemblingGood, StepKeeps

LEMMA RenamedKeeps == ASSUME Inv, NEW f \in Frames, Renamed(f) PROVE Inv'
<1> DEFINE fr == frames[f]
           nf == [At(fr, "putName") EXCEPT !.doc.rev = fr.reply.rev]
<1>1. fr.pc \in Names /\ GoodFrame(author, f, fr, gen, user) /\ gen \in Nat /\ f[2] \in Nat
  BY FrameNames DEF Renamed, Inv, FramesOwn, Plain, Generations
<1>2. f # Save
  BY <1>1 DEF GoodFrame, Carries, SaveSteps, Recovering, Names, Save
<1>3. forgone' \subseteq Edits
  BY DEF Renamed, Inv, Plain
<1>4. ASSUME Go(f, Result(tab, Idle)) PROVE Inv'
  BY <1>2, <1>3, <1>4, IdleKeeps, SameResembles
<1>5. ASSUME Go(f, Result(tab, nf)) PROVE Inv'
  <2>1. /\ fr \in Frame /\ fr.doc \in Payloads /\ fr.reply.rev \in Nat
        /\ fr.snap.content = {} /\ fr.doc.content = {} /\ fr.alt.content = {}
    BY <1>1 DEF GoodFrame, OwnFrame, Posts, Frame, Replies
  <2>2. /\ At(fr, "putName") \in Frame /\ At(fr, "putName").pc = "putName"
        /\ At(fr, "putName").snap = fr.snap /\ At(fr, "putName").doc = fr.doc
        /\ At(fr, "putName").alt = fr.alt /\ At(fr, "putName").reply = NoReply
    BY <2>1, Constants DEF At, Frame, Steps, Served, Names, Inv, Plain
  <2>3. [fr.doc EXCEPT !.rev = fr.reply.rev] \in Payloads
        /\ [fr.doc EXCEPT !.rev = fr.reply.rev].content = {}
    BY <2>1 DEF Payloads
  <2>4. nf = [At(fr, "putName") EXCEPT !.doc = [fr.doc EXCEPT !.rev = fr.reply.rev]]
    BY <2>2
  <2>5. /\ nf \in Frame /\ nf.pc = "putName" /\ nf.snap = fr.snap /\ nf.alt = fr.alt
        /\ nf.doc.content = {} /\ nf.reply = NoReply
    BY <2>2, <2>3, <2>4 DEF Frame
  <2> HIDE DEF nf
  <2>6. OwnFrame(author, nf)
    BY <2>1, <2>5 DEF OwnFrame, Posts, Held, By, NoReply, Puts, Recovering
  <2>7. Carries(f, nf, gen, user)
    BY <1>1, <2>5 DEF GoodFrame, Carries, Names, SaveSteps, Recovering
  <2>8. Result(tab, nf).tab = tab /\ Result(tab, nf).frame = nf
    BY DEF Result
  <2> QED
    BY <1>2, <1>3, <1>5, <2>5, <2>6, <2>7, <2>8, SameResembles, ResemblingGood, GoExposes, StepKeeps
       DEF GoodFrame
<1>6. ASSUME Go(f, Result(NameTaken(tab, f), Idle)) PROVE Inv'
  <2>1. tab \in Tab /\ fr.reply.rev \in Nat
    BY <1>1 DEF Inv, GoodTab, GoodFrame, Frame, Replies
  <2>2. Resembles(NameTaken(tab, f), tab)
    BY <2>1 DEF NameTaken, Resembles, Tab
  <2> QED
    BY <1>2, <1>3, <1>6, <2>2, IdleKeeps
<1> QED
  BY <1>4, <1>5, <1>6 DEF Renamed

(* The first request of a start-up: the dirty buffer, or the list. *)
LEMMA InitFrameGood ==
  ASSUME NEW u \in Users, NEW t, GoodTab(author, u, t), NEW f \in Frames, f[1] # "save",
         NEW g \in Nat, f[2] = g
  PROVE  GoodFrame(author, f, InitFrame(t, u), g, u)
<1> DEFINE put == [Idle EXCEPT !.pc = "initPut", !.by = u, !.snap = t.buffer, !.next = "list"]
           list == [Idle EXCEPT !.pc = "list", !.by = u]
<1>1. t.buffer \in Snapshots
  BY DEF GoodTab, Tab
<1>2. By(author, t.buffer.content, u) /\ By(author, t.buffer.content, t.buffer.owner)
  BY BufferOwn DEF GoodTab, OwnTab
<1>3. u # Nobody
  BY SetsAssumption
<1>4. CASE t.buffer.dirty
  <2>1. /\ put \in Frame /\ put.pc = "initPut" /\ put.by = u /\ put.snap = t.buffer
        /\ put.doc = NoPayload /\ put.alt = NoPayload /\ put.reply = NoReply
    BY <1>1, Constants DEF Idle, Frame, Steps, Served, Puts
  <2>2. t.buffer.doc # NoDoc
    BY <1>4 DEF GoodTab, OwnTab
  <2>3. InitFrame(t, u) = put
    BY <1>4 DEF InitFrame
  <2> HIDE DEF put
  <2>4. OwnFrame(author, put)
    BY <1>2, <2>1, <2>2 DEF OwnFrame, Posts, Held, By, NoPayload, NoReply, Names
  <2>5. Carries(f, put, g, u)
    BY <1>3, <2>1 DEF Carries
  <2> QED
    BY <2>1, <2>3, <2>4, <2>5 DEF GoodFrame
<1>5. CASE ~t.buffer.dirty
  <2>1. /\ list \in Frame /\ list.pc = "list" /\ list.by = u /\ list.snap = NoSnap
        /\ list.doc = NoPayload /\ list.alt = NoPayload /\ list.reply = NoReply
    BY Constants DEF Idle, Frame, Steps
  <2>2. InitFrame(t, u) = list
    BY <1>5 DEF InitFrame
  <2> HIDE DEF list
  <2>3. OwnFrame(author, list)
    BY <2>1 DEF OwnFrame, Posts, Held, By, NoSnap, NoPayload, NoReply, Names, Puts, Recovering
  <2>4. Carries(f, list, g, u)
    BY <1>3, <2>1 DEF Carries
  <2> QED
    BY <2>1, <2>2, <2>3, <2>4 DEF GoodFrame
<1> QED
  BY <1>4, <1>5

LEMMA RetryInitKeeps == ASSUME Inv, RetryInit PROVE Inv'
<1>1. user \in Users /\ exposed' \subseteq Edits /\ forgone' \subseteq Edits /\ moves' \in 0..scene.moves
  BY MoveBound DEF RetryInit, NavIdle, Inv, Plain
<1>2. Nav \in Frames /\ Nav # Save /\ Nav[1] # "save" /\ Nav[2] = gen /\ gen \in Nat
  BY FrameNames DEF Inv, Plain, Generations
<1>3. GoodFrame(author, Nav, InitFrame(tab, user), gen, user)
  BY <1>1, <1>2, InitFrameGood DEF Inv
<1>4. /\ Result(tab, InitFrame(tab, user)).tab = tab
      /\ Result(tab, InitFrame(tab, user)).frame = InitFrame(tab, user)
  BY DEF Result
<1>5. GoOn(Nav, Result(tab, InitFrame(tab, user)))
  BY DEF RetryInit
<1> QED
  BY <1>1, <1>2, <1>3, <1>4, <1>5, SameResembles, ResemblingGood, StepKeeps

LEMMA BufferPushedKeeps == ASSUME Inv, BufferPushed PROVE Inv'
<1> DEFINE fr == frames[Nav]
           clean == [fr.snap EXCEPT !.rev = fr.reply.rev, !.dirty = FALSE]
           t == [tab EXCEPT !.buffer = clean]
<1>1. Nav \in Frames /\ Nav[1] # "save" /\ Nav[2] = gen
  BY FrameNames DEF Inv, Plain
<1>2. fr.pc = "initPut" /\ forgone' \subseteq Edits
  BY DEF BufferPushed, Answered, Inv, Plain
<1>3. /\ fr \in Frame /\ OwnFrame(author, fr) /\ fr.by = user /\ Runs(Nav, tab)
      /\ fr.snap.doc # NoDoc
  BY <1>1, <1>2, Standing DEF Names, OwnFrame, Posts, Puts
<1>4. Runs(Nav, t)
  <2>1. clean \in Snapshots /\ clean.content = fr.snap.content /\ clean.owner = fr.snap.owner
        /\ clean.dirty = FALSE
    BY <1>3 DEF Frame, Replies, Snapshots
  <2>2. By(author, clean.content, user) /\ By(author, clean.content, clean.owner)
    BY <2>1, <1>3 DEF OwnFrame, Posts, Held
  <2>3. clean.content # {} => clean.owner = user
    BY <2>2 DEF By
  <2> HIDE DEF clean
  <2>4. t \in Tab /\ t.editor = tab.editor /\ t.buffer = clean /\ t.saving = tab.saving
    BY <1>3, <2>1 DEF Runs, GoodTab, Tab
  <2> HIDE DEF t
  <2>5. OwnTab(author, user, t)
    BY <1>3, <2>1, <2>2, <2>3, <2>4 DEF OwnTab, Runs, GoodTab
  <2> QED
    BY <1>3, <2>4, <2>5 DEF Runs, GoodTab
<1>5. Fit(Nav, Leave(Nav, t, fr)) /\ Fit(Nav, Leave(Nav, tab, fr))
  BY <1>3, <1>4, LeaveFits
<1>6. Fit(Nav, Result(tab, At(fr, "recGet")))
  BY <1>1, <1>3, AtFits, RecoveringSteps DEF Recovering
<1>7. \/ Go(Nav, Leave(Nav, t, fr)) \/ Go(Nav, Leave(Nav, tab, fr))
      \/ Go(Nav, Result(tab, At(fr, "recGet")))
  BY DEF BufferPushed
<1> HIDE DEF t
<1> QED
  BY <1>1, <1>2, <1>5, <1>6, <1>7, FittingGo

LEMMA ListedKeeps == ASSUME Inv, Listed PROVE Inv'
<1>1. Nav \in Frames /\ Nav[1] # "save" /\ Nav[2] = gen /\ Nav # Save /\ gen \in Generations /\ Nav \in Navs
  BY FrameNames DEF Inv, Plain, Navs
<1>2. user \in Users
  BY <1>1, Standing DEF Listed, Names
<1>3. ASSUME NEW d \in LiveDocs(user), forgone' = forgone,
             Go(Nav, Result([tab EXCEPT !.listed = TRUE, !.listError = FALSE], NavFrame("get", d)))
      PROVE  Inv'
  <2> DEFINE t == [tab EXCEPT !.listed = TRUE, !.listError = FALSE]
  <2>1. Resembles(t, tab)
    BY DEF Resembles, Inv, GoodTab, Tab
  <2> HIDE DEF t
  <2>2. d \in Docs
    BY DEF LiveDocs
  <2>3. GoodFrame(author, Nav, NavFrame("get", d), gen, user)
    BY <1>1, <1>2, <2>2, NavFrameGood DEF NavSteps
  <2>4. Result(t, NavFrame("get", d)).tab = t /\ Result(t, NavFrame("get", d)).frame = NavFrame("get", d)
    BY DEF Result
  <2>5. GoOn(Nav, Result(t, NavFrame("get", d))) /\ exposed' \subseteq Edits /\ moves' \in 0..scene.moves
    BY <1>1, <1>3, GoExposes DEF t
  <2>6. forgone' \subseteq Edits
    BY <1>3 DEF Inv, Plain
  <2> QED
    BY <1>1, <2>1, <2>3, <2>4, <2>5, <2>6, ResemblingGood, StepKeeps
<1>4. ASSUME FlushThen(Nav, NavFrame("waitPost", NoDoc)), moves' = moves,
             exposed' = exposed \cup ((tab.editor \cup tab.buffer.content) \ OnServer)
      PROVE  Inv'
  <2>1. tab.editor \subseteq Edits /\ tab.buffer.content \subseteq Edits
    BY DEF Inv, GoodTab, Tab, Snapshots
  <2>2. exposed' \subseteq Edits /\ moves' \in 0..scene.moves
    BY <1>4, <2>1 DEF Inv, Plain
  <2> QED
    BY <1>1, <1>2, <1>4, <2>2, FlushThenKeeps DEF NavSteps
<1> QED
  BY <1>3, <1>4 DEF Listed

LEMMA ListFailedKeeps == ASSUME Inv, ListFailed PROVE Inv'
<1> DEFINE b == tab.buffer
           shown == [tab EXCEPT !.listError = TRUE, !.meta = [id |-> b.doc, rev |-> b.rev],
                                !.editor = b.content, !.bare = {}]
<1>1. Nav \in Frames /\ Nav[1] # "save" /\ Nav[2] = gen /\ Nav # Save /\ gen \in Generations
      /\ Save \in Frames
  BY FrameNames DEF Inv, Plain
<1>2. frames[Nav].pc = "list" /\ forgone' \subseteq Edits
  BY DEF ListFailed, Answered, Inv, Plain
<1>3. user \in Users
  BY <1>1, <1>2, Standing DEF Names
<1>4. CASE b = NoSnap
  <2>1. Resembles([tab EXCEPT !.listError = TRUE], tab)
    BY DEF Resembles, Inv, GoodTab, Tab
  <2> QED
    BY <1>1, <1>2, <1>4, <2>1, IdleKeeps DEF ListFailed
<1>5. CASE b # NoSnap
  <2>1. tab \in Tab /\ b \in Snapshots
    BY DEF Inv, GoodTab, Tab
  <2>2. /\ shown \in Tab /\ shown.editor = b.content /\ shown.buffer = b
        /\ shown.saving = tab.saving
    BY <2>1 DEF Tab, Snapshots
  <2>3. By(author, b.content, user)
    BY <1>3, BufferOwn DEF Inv
  <2>4. tab' = Flush(shown, frames[Save]).tab
        /\ frames' = [frames EXCEPT ![Save] = Flush(shown, frames[Save]).frame, ![Nav] = Idle]
        /\ UNCHANGED <<scene, server, user, gen, strays, author, removed, copies, exposed, moves, faults>>
    BY <1>5 DEF ListFailed
  <2> HIDE DEF shown
  <2>5. GoodTab(author, user, shown)
    BY <2>2, <2>3 DEF GoodTab, OwnTab, Inv
  <2>6. Fit(Save, Flush(shown, frames[Save]))
    BY <1>1, <1>3, <2>2, <2>5, FlushFits DEF Inv, FramesOwn, Lock
  <2>7. exposed' \subseteq Edits /\ moves' \in 0..scene.moves
    BY <2>4 DEF Inv, Plain
  <2> QED
    BY <1>1, <1>2, <2>4, <2>6, <2>7, IdleGood, PairKeeps
<1> QED
  BY <1>4, <1>5

LEMMA AbandonKeeps == ASSUME Inv, NEW f \in Frames, Abandon(f) PROVE Inv'
<1>1. f # Save
  BY FrameNames DEF Abandon, Inv, Plain
<1>2. Go(f, Result(tab, Idle)) /\ forgone' \subseteq Edits
  BY DEF Abandon, Inv, Plain
<1> QED
  BY <1>1, <1>2, IdleKeeps, SameResembles

LEMMA FlushByKeeps == ASSUME Inv, NEW cause, FlushBy(cause) PROVE Inv'
<1> DEFINE t == [tab EXCEPT !.retry = @ /\ cause # "retry"]
           r == Flush(t, frames[Save])
<1>1. Save \in Frames /\ Save[2] = gen /\ user \in Users \cup {Nobody} /\ gen \in Generations
  BY FrameNames DEF Inv, Plain
<1>2. Resembles(t, tab)
  BY DEF Resembles, Inv, GoodTab, Tab
<1>3. GoOn(Save, r) /\ forgone' \subseteq Edits /\ exposed' \subseteq Edits
  BY DEF FlushBy, Inv, Plain
<1> HIDE DEF t
<1>4. Fit(Save, r)
  BY <1>1, <1>2, ResemblingGood, FlushFits DEF Inv, FramesOwn, Lock
<1>5. moves' \in 0..scene.moves
  BY MoveBound DEF FlushBy, Inv, Plain
<1> HIDE DEF r
<1> QED
  BY <1>1, <1>3, <1>4, <1>5, FittingStep

-----------------------------------------------------------------------------
(* The server.                                                              *)

(* The documents of a user are hers. *)
LEMMA LiveDocsOf ==
  ASSUME Inv, NEW u, NEW d \in LiveDocs(u)
  PROVE  /\ d \in Docs /\ server[d] \in Row /\ server[d].status = "live" /\ server[d].owner = u
         /\ By(author, server[d].content, u) /\ u # Nobody
  BY DEF LiveDocs, Inv, RowsOwn, OwnRow

LEMMA PutOwn ==
  ASSUME Inv, NEW u, NEW snap \in Snapshots, By(author, snap.content, u), Put(u, snap)
  PROVE  server' \in [Docs -> Row] /\ \A d \in Docs : OwnRow(author, server'[d])
<1>1. CASE PutReply(u, snap) # "ok"
  BY <1>1 DEF Put, Inv, RowsOwn, OwnRow
<1>2. CASE PutReply(u, snap) = "ok"
  <2> DEFINE d == snap.doc
             row == [server[d] EXCEPT !.rev = server[d].rev + 1, !.content = snap.content]
  <2>1. d \in LiveDocs(u)
    BY <1>2 DEF PutReply
  <2>2. d \in Docs /\ server[d] \in Row /\ server[d].owner = u
    BY <2>1, LiveDocsOf
  <2>3. row \in Row /\ row.owner = u /\ row.content = snap.content /\ u # Nobody
    <3>1. server[d].rev + 1 \in Nat /\ snap.content \in SUBSET Edits
      BY <2>2 DEF Row, Snapshots
    <3> QED
      BY <2>1, <2>2, <3>1, LiveDocsOf DEF Row
  <2>4. server' = [server EXCEPT ![d] = row]
    BY <1>2, <2>2 DEF Put, Inv, Row
  <2> HIDE DEF row, d
  <2>5. /\ server' \in [Docs -> Row] /\ server'[d] = row
        /\ \A x \in Docs \ {d} : server'[x] = server[x]
    BY <2>2, <2>3, <2>4 DEF Inv
  <2> QED
    BY <2>3, <2>5 DEF Inv, RowsOwn, OwnRow
<1> QED
  BY <1>1, <1>2

LEMMA PostOwn ==
  ASSUME Inv, NEW u \in Users \cup {Nobody}, u # Nobody, NEW content \in SUBSET Edits, By(author, content, u),
         Unborn # {}, Post(u, content)
  PROVE  server' \in [Docs -> Row] /\ \A d \in Docs : OwnRow(author, server'[d])
<1> DEFINE n == Min(Unborn)
           row == [status |-> "live", owner |-> u, rev |-> 1, content |-> content]
<1>1. n \in Docs
  BY NextBorn
<1>2. row \in Row /\ row.owner = u /\ row.content = content
  BY DEF Row
<1>3. server' = [server EXCEPT ![n] = row]
  BY DEF Post
<1> HIDE DEF n, row
<1>4. /\ server' \in [Docs -> Row] /\ server'[n] = row
      /\ \A x \in Docs \ {n} : server'[x] = server[x]
  BY <1>1, <1>2, <1>3 DEF Inv
<1> QED
  BY <1>2, <1>4 DEF Inv, RowsOwn, OwnRow

LEMMA DeleteOwn ==
  ASSUME Inv, NEW u, NEW d \in Docs \cup {NoDoc}, Delete(u, d)
  PROVE  /\ server' \in [Docs -> Row]
         /\ \A x \in Docs : OwnRow(author, server'[x])
         /\ forgone' \subseteq Edits
<1>1. CASE d \notin LiveDocs(u)
  BY <1>1 DEF Delete, Inv, RowsOwn, OwnRow, Plain
<1>2. CASE d \in LiveDocs(u)
  <2> DEFINE row == [status |-> "gone", owner |-> Nobody, rev |-> server[d].rev, content |-> {}]
  <2>1. d \in Docs /\ server[d] \in Row
    BY <1>2, LiveDocsOf
  <2>2. row \in Row /\ row.content = {} /\ row.status # "live"
    BY <2>1 DEF Row
  <2>3. server' = [server EXCEPT ![d] = row]
    BY <1>2 DEF Delete
  <2>4. forgone' \subseteq Edits
    BY <1>2, <2>1 DEF Delete, Inv, Plain, Row
  <2> HIDE DEF row
  <2>5. /\ server' \in [Docs -> Row] /\ server'[d] = row
        /\ \A x \in Docs \ {d} : server'[x] = server[x]
    BY <2>1, <2>2, <2>3 DEF Inv
  <2> QED
    BY <2>2, <2>4, <2>5 DEF Inv, RowsOwn, OwnRow, By
<1> QED
  BY <1>1, <1>2

LEMMA EffectOwn ==
  ASSUME Inv, NEW r \in Frame, OwnFrame(author, r), Effect(r)
  PROVE  /\ server' \in [Docs -> Row]
         /\ \A d \in Docs : OwnRow(author, server'[d])
         /\ forgone' \subseteq Edits /\ removed' \subseteq Docs /\ copies' \subseteq Docs
<1>1. /\ r.by \in Users \cup {Nobody} /\ r.snap \in Snapshots /\ r.snap.content \in SUBSET Edits
      /\ r.snap.doc \in Docs \cup {NoDoc} /\ r.doc.id \in Docs \cup {NoDoc}
      /\ By(author, r.snap.content, r.by)
  BY DEF Frame, Snapshots, Payloads, OwnFrame, Posts, Held
<1>2. forgone \subseteq Edits /\ removed \subseteq Docs /\ copies \subseteq Docs
      /\ server \in [Docs -> Row] /\ RowsOwn
  BY DEF Inv, Plain
<1>3. LiveDocs(r.by) \subseteq Docs
  BY DEF LiveDocs
<1>4. CASE r.pc \in Puts
  <2>1. Put(r.by, r.snap) /\ UNCHANGED <<forgone, removed, copies>>
    BY <1>4 DEF Effect, Puts, Posts
  <2> QED
    BY <2>1, <1>1, <1>2, PutOwn
<1>5. CASE r.pc \in Posts
  <2>1. /\ Unborn # {} /\ Post(r.by, r.snap.content) /\ UNCHANGED <<forgone, removed>>
        /\ copies' = copies \cup {r.snap.doc : x \in {r.pc} \cap {"recPost"}}
    BY <1>5 DEF Effect, Puts, Posts
  <2>2. (r.pc = "recPost" => r.snap.doc \in Docs) /\ r.by # Nobody
    BY <1>1, <1>5 DEF OwnFrame, Posts, Recovering
  <2>3. copies' \subseteq Docs
    BY <2>1, <2>2, <1>2
  <2> QED
    BY <2>1, <2>2, <2>3, <1>1, <1>2, PostOwn
<1>6. CASE r.pc = "delete"
  <2>1. /\ Delete(r.by, r.doc.id) /\ UNCHANGED copies
        /\ removed' = removed \cup ({r.doc.id} \cap LiveDocs(r.by))
    BY <1>6 DEF Effect, Puts, Posts
  <2> QED
    BY <2>1, <1>1, <1>2, <1>3, DeleteOwn
<1>7. CASE r.pc = "putName"
  <2> DEFINE d == r.doc.id
  <2>1. /\ server' = IF Accepts(d, r.by, r.doc.rev)
                       THEN [server EXCEPT ![d].rev = @ + 1] ELSE server
        /\ removed' = removed \cup ({d} \cap LiveDocs(r.by)) /\ UNCHANGED <<forgone, copies>>
    BY <1>7 DEF Effect, Puts, Posts
  <2>2. CASE ~Accepts(d, r.by, r.doc.rev)
    BY <2>1, <2>2, <1>2, <1>3 DEF RowsOwn, OwnRow
  <2>3. CASE Accepts(d, r.by, r.doc.rev)
    <3> DEFINE row == [server[d] EXCEPT !.rev = server[d].rev + 1]
    <3>1. d \in LiveDocs(r.by)
      BY <2>3 DEF Accepts, Current
    <3>2. d \in Docs /\ server[d] \in Row
      BY <3>1, LiveDocsOf
    <3>3. row \in Row /\ row.owner = server[d].owner /\ row.content = server[d].content
      BY <3>2 DEF Row
    <3>4. server' = [server EXCEPT ![d] = row]
      BY <2>1, <2>3, <3>2
    <3> HIDE DEF row, d
    <3>5. /\ server' \in [Docs -> Row] /\ server'[d] = row
          /\ \A x \in Docs \ {d} : server'[x] = server[x]
      BY <1>2, <3>2, <3>3, <3>4
    <3> QED
      BY <1>2, <1>3, <2>1, <3>2, <3>3, <3>5 DEF RowsOwn, OwnRow
  <2> QED
    BY <2>2, <2>3
<1>8. CASE r.pc \notin Puts \cup Posts \cup {"delete", "putName"}
  <2>1. UNCHANGED <<server, forgone, removed, copies>>
    BY <1>8 DEF Effect
  <2> QED
    BY <2>1, <1>2 DEF RowsOwn, OwnRow
<1> QED
  BY <1>4, <1>5, <1>6, <1>7, <1>8

(* The answer to a request tells its sender only what is hers. *)
LEMMA AnswerOwn ==
  ASSUME Inv, NEW r \in Frame, OwnFrame(author, r), r.pc \in Served,
         r.pc \in Posts => Unborn # {}
  PROVE  Answer(r) \in Replies /\ By(author, Answer(r).content, r.by)
<1> DEFINE Reply(kind, d, rev, content) == [kind |-> kind, id |-> d, rev |-> rev, content |-> content]
           Read(d) == IF d \in LiveDocs(r.by) THEN Reply("ok", d, server[d].rev, server[d].content)
                      ELSE Reply("missing", NoDoc, 0, {})
<1>1. /\ r.snap \in Snapshots /\ r.snap.content \in SUBSET Edits /\ r.snap.rev \in Nat
      /\ r.snap.doc \in Docs \cup {NoDoc} /\ r.doc.id \in Docs \cup {NoDoc} /\ r.doc.rev \in Nat
      /\ By(author, r.snap.content, r.by)
  BY DEF Frame, Snapshots, Payloads, OwnFrame, Posts, Held
<1>2. \A d : Read(d) \in Replies /\ By(author, Read(d).content, r.by)
  <2> TAKE d
  <2>1. CASE d \in LiveDocs(r.by)
    BY <2>1, LiveDocsOf DEF Replies, Row
  <2>2. CASE d \notin LiveDocs(r.by)
    BY <2>2 DEF Replies, By
  <2> QED
    BY <2>1, <2>2
<1>3. CASE r.pc \in Puts
  <2>1. Answer(r) = Reply(PutReply(r.by, r.snap), r.snap.doc, r.snap.rev + 1, {})
    BY <1>3 DEF Answer, Puts, Posts
  <2>2. PutReply(r.by, r.snap) \in {"ok", "missing", "conflict", "toolarge"}
    BY DEF PutReply
  <2> QED
    BY <2>1, <2>2, <1>1 DEF Replies, By
<1>4. CASE r.pc \in Posts
  <2>1. Answer(r) = Reply("ok", Min(Unborn), 1, r.snap.content)
    BY <1>4 DEF Answer, Puts, Posts
  <2>2. Min(Unborn) \in Docs
    BY <1>4, NextBorn
  <2> QED
    BY <2>1, <2>2, <1>1 DEF Replies
<1>5. CASE r.pc = "putName"
  <2>1. Answer(r) = Reply(IF Accepts(r.doc.id, r.by, r.doc.rev) THEN "ok" ELSE "conflict",
                          r.doc.id, r.doc.rev + 1, {})
    BY <1>5 DEF Answer, Puts, Posts
  <2> QED
    BY <2>1, <1>1 DEF Replies, By
<1>6. CASE r.pc \in {"get", "getNamed"}
  <2>1. Answer(r) = Read(r.doc.id)
    BY <1>6 DEF Answer, Puts, Posts
  <2> QED
    BY <2>1, <1>2
<1>7. CASE r.pc \in {"recGet", "recGet2"}
  <2>1. Answer(r) = Read(r.snap.doc)
    BY <1>7 DEF Answer, Puts, Posts
  <2> QED
    BY <2>1, <1>2
<1>8. CASE r.pc = "delete"
  <2>1. Answer(r) = Reply(IF r.doc.id \in LiveDocs(r.by) THEN "ok" ELSE "missing", r.doc.id, 0, {})
    BY <1>8 DEF Answer, Puts, Posts
  <2> QED
    BY <2>1, <1>1 DEF Replies, By
<1> QED
  BY <1>3, <1>4, <1>5, <1>6, <1>7, <1>8 DEF Served, Gets, Names, Puts, Posts

\* A frame that gets an answer stays where it is.
LEMMA AnsweredGood ==
  ASSUME Inv, NEW f \in Frames, NEW answer \in Replies, By(author, answer.content, frames[f].by)
  PROVE  LET frs == [frames EXCEPT ![f].reply = answer]
         IN  /\ frs \in [Frames -> Frame]
             /\ \A g \in Frames : frs[g].pc = frames[g].pc /\ GoodFrame(author, g, frs[g], gen, user)
<1> DEFINE frs == [frames EXCEPT ![f].reply = answer]
           nf == [frames[f] EXCEPT !.reply = answer]
<1>1. frames \in [Frames -> Frame] /\ frames[f] \in Frame
  BY DEF Inv
<1>2. /\ nf \in Frame /\ nf.pc = frames[f].pc /\ nf.by = frames[f].by /\ nf.snap = frames[f].snap
      /\ nf.doc = frames[f].doc /\ nf.alt = frames[f].alt /\ nf.reply = answer
  BY <1>1 DEF Frame
<1>3. frs = [frames EXCEPT ![f] = nf]
  BY <1>1
<1> HIDE DEF nf, frs
<1>4. frs \in [Frames -> Frame] /\ frs[f] = nf /\ \A g \in Frames \ {f} : frs[g] = frames[g]
  BY <1>1, <1>2, <1>3
<1>5. GoodFrame(author, f, nf, gen, user)
  BY <1>2 DEF Inv, FramesOwn, GoodFrame, OwnFrame, Posts, Held, Carries
<1>6. \A g \in Frames : frs[g].pc = frames[g].pc /\ GoodFrame(author, g, frs[g], gen, user)
  BY <1>2, <1>4, <1>5 DEF Inv, FramesOwn
<1> QED
  BY <1>4, <1>6 DEF frs

LEMMA ServeKeeps == ASSUME Inv, NEW f \in Frames, Serve(f) PROVE Inv'
<1> DEFINE frs == [frames EXCEPT ![f].reply = Answer(frames[f])]
<1>1. frames[f] \in Frame /\ OwnFrame(author, frames[f]) /\ frames[f].pc \in Served /\ Effect(frames[f])
  BY DEF Serve, Inv, FramesOwn, GoodFrame
<1>2. frames[f].pc \in Posts => Unborn # {}
  BY <1>1 DEF Effect, Puts, Posts
<1>3. Answer(frames[f]) \in Replies /\ By(author, Answer(frames[f]).content, frames[f].by)
  BY <1>1, <1>2, AnswerOwn
<1>4. /\ frs \in [Frames -> Frame]
      /\ \A g \in Frames : frs[g].pc = frames[g].pc /\ GoodFrame(author, g, frs[g], gen, user)
  BY <1>3, AnsweredGood
<1>5. /\ server' \in [Docs -> Row]
      /\ \A d \in Docs : OwnRow(author, server'[d])
      /\ forgone' \subseteq Edits /\ removed' \subseteq Docs /\ copies' \subseteq Docs
  BY <1>1, EffectOwn
<1>6. frames' = frs /\ UNCHANGED <<scene, user, gen, tab, strays, author, exposed, moves, faults>>
  BY DEF Serve
<1>7. Save \in Frames
  BY FrameNames DEF Inv, Plain
<1> HIDE DEF frs
<1>8. Plain' /\ Counted' /\ StraysOwn' /\ RowsOwn' /\ GoodTab(author, user, tab)'
  BY <1>5, <1>6 DEF Inv, Plain, Counted, StraysOwn, RowsOwn, OwnRow, By, GoodTab, OwnTab, OwnFrame, Posts, Held
<1>9. FramesOwn'
  BY <1>4, <1>6 DEF FramesOwn, GoodFrame, OwnFrame, Posts, Held, By, Carries
<1>10. Lock(tab, frames[Save])'
  <2>1. frs[Save].pc = frames[Save].pc /\ Save' = Save
    BY <1>4, <1>6, <1>7 DEF Save
  <2> QED
    BY <2>1, <1>6 DEF Lock, Inv
<1> QED
  BY <1>4, <1>5, <1>6, <1>8, <1>9, <1>10 DEF Inv

LEMMA ServeStrayKeeps == ASSUME Inv, NEW r \in strays, ServeStray(r) PROVE Inv'
<1>1. r \in Frame /\ OwnFrame(author, r)
  BY DEF Inv, StraysOwn
<1>2. /\ server' \in [Docs -> Row]
      /\ \A d \in Docs : OwnRow(author, server'[d])
      /\ forgone' \subseteq Edits /\ removed' \subseteq Docs /\ copies' \subseteq Docs
  <2>1. CASE Effect(r)
    BY <1>1, <2>1, EffectOwn
  <2>2. CASE UNCHANGED <<server, forgone, removed, copies>>
    BY <2>2 DEF Inv, RowsOwn, OwnRow, Plain
  <2> QED
    BY <2>1, <2>2 DEF ServeStray
<1>3. strays' \subseteq strays /\ UNCHANGED <<scene, user, gen, tab, frames, author, exposed, moves, faults>>
  BY DEF ServeStray
<1>4. Plain' /\ Counted' /\ StraysOwn' /\ RowsOwn' /\ GoodTab(author, user, tab)'
  BY <1>2, <1>3 DEF Inv, Plain, Counted, StraysOwn, RowsOwn, OwnRow, By, GoodTab, OwnTab, OwnFrame, Posts, Held
<1>5. FramesOwn' /\ Lock(tab, frames[Save])'
  BY <1>3 DEF Inv, FramesOwn, GoodFrame, OwnFrame, Posts, Held, By, Carries, Lock, Save
<1> QED
  BY <1>2, <1>3, <1>4, <1>5 DEF Inv

LEMMA LoseKeeps == ASSUME Inv, NEW f \in Frames, Lose(f) PROVE Inv'
<1> DEFINE lost == [NoReply EXCEPT !.kind = "fail"]
           frs == [frames EXCEPT ![f].reply = lost]
<1>1. lost \in Replies /\ lost.content = {}
  BY Constants DEF Replies, NoReply
<1>2. By(author, lost.content, frames[f].by)
  BY <1>1 DEF By
<1>3. frames' = frs /\ faults' = faults + 1 /\ faults < scene.faults
      /\ UNCHANGED <<scene, server, user, gen, tab, strays, author, forgone, removed, copies, exposed, moves>>
  BY DEF Lose
<1> HIDE DEF lost
<1>4. /\ frs \in [Frames -> Frame]
      /\ \A g \in Frames : frs[g].pc = frames[g].pc /\ GoodFrame(author, g, frs[g], gen, user)
  BY <1>1, <1>2, AnsweredGood
<1>5. Save \in Frames
  BY FrameNames DEF Inv, Plain
<1> HIDE DEF frs
<1>6. Plain' /\ Counted'
  BY <1>3, SceneBounds DEF Inv, Plain, Counted, Generations
<1>7. StraysOwn' /\ RowsOwn' /\ GoodTab(author, user, tab)' /\ server' \in [Docs -> Row]
  BY <1>3 DEF Inv, StraysOwn, RowsOwn, OwnRow, By, GoodTab, OwnTab, OwnFrame, Posts, Held
<1>8. FramesOwn'
  BY <1>4, <1>3 DEF FramesOwn, GoodFrame, OwnFrame, Posts, Held, By, Carries
<1>9. Lock(tab, frames[Save])'
  <2>1. frs[Save].pc = frames[Save].pc /\ Save' = Save
    BY <1>3, <1>4, <1>5 DEF Save
  <2> QED
    BY <2>1, <1>3 DEF Lock, Inv
<1> QED
  BY <1>3, <1>4, <1>6, <1>7, <1>8, <1>9 DEF Inv

-----------------------------------------------------------------------------
(* The user, other devices, the tab as a whole and its sessions.            *)

(* A new edit takes nothing from whoever made the others. *)
LEMMA AuthorGrows ==
  ASSUME Inv, NEW e \in Edits, author[e] = Nobody, NEW w \in Users \cup {Nobody}
  PROVE  LET a == [author EXCEPT ![e] = w]
         IN  /\ a \in [Edits -> Users \cup {Nobody}] /\ a[e] = w
             /\ \A d \in Docs : OwnRow(a, server[d])
             /\ GoodTab(a, user, tab)
             /\ \A f \in Frames : GoodFrame(a, f, frames[f], gen, user)
             /\ \A r \in strays : r \in Frame /\ OwnFrame(a, r)
<1> DEFINE a == [author EXCEPT ![e] = w]
<1>1. a \in [Edits -> Users \cup {Nobody}] /\ a[e] = w
  BY DEF Inv, Plain
<1>2. \A content \in SUBSET Edits : \A u : By(author, content, u) => By(a, content, u)
  BY ByStays DEF Inv, Plain
<1> HIDE DEF a
<1>3. \A d \in Docs : OwnRow(a, server[d])
  <2> TAKE d \in Docs
  <2>1. server[d].content \in SUBSET Edits
    BY DEF Inv, Row
  <2> QED
    BY <2>1, <1>2 DEF Inv, RowsOwn, OwnRow
<1>4. GoodTab(a, user, tab)
  <2>1. tab.editor \in SUBSET Edits /\ tab.buffer.content \in SUBSET Edits
    BY DEF Inv, GoodTab, Tab, Snapshots
  <2> QED
    BY <2>1, <1>2 DEF Inv, GoodTab, OwnTab
<1>5. ASSUME NEW r \in Frame, OwnFrame(author, r) PROVE OwnFrame(a, r)
  <2>1. /\ r.snap.content \in SUBSET Edits /\ r.doc.content \in SUBSET Edits
        /\ r.alt.content \in SUBSET Edits /\ r.reply.content \in SUBSET Edits
    BY DEF Frame, Snapshots, Payloads, Replies
  <2> QED
    BY <2>1, <1>2, <1>5 DEF OwnFrame, Held
<1>6. \A f \in Frames : GoodFrame(a, f, frames[f], gen, user)
  BY <1>5 DEF Inv, FramesOwn, GoodFrame
<1>7. \A r \in strays : r \in Frame /\ OwnFrame(a, r)
  BY <1>5 DEF Inv, StraysOwn
<1> QED
  BY <1>1, <1>3, <1>4, <1>6, <1>7 DEF a

LEMMA TypeKeeps == ASSUME Inv, NEW e \in Edits, Type(e) PROVE Inv'
<1> DEFINE a == [author EXCEPT ![e] = user]
           typed == [tab EXCEPT !.editor = @ \cup {e}]
           t == Noted(typed)
<1>1. author[e] = Nobody /\ user \in Users /\ tab.meta.id # NoDoc /\ user # Nobody
  BY DEF Type, HasDoc, Inv, Plain
<1>2. /\ a \in [Edits -> Users \cup {Nobody}] /\ a[e] = user
      /\ \A d \in Docs : OwnRow(a, server[d])
      /\ GoodTab(a, user, tab)
      /\ \A f \in Frames : GoodFrame(a, f, frames[f], gen, user)
      /\ \A r \in strays : r \in Frame /\ OwnFrame(a, r)
  BY <1>1, AuthorGrows
<1>3. tab \in Tab
  BY DEF Inv, GoodTab
<1>4. typed \in Tab /\ typed.editor = tab.editor \cup {e} /\ typed.meta = tab.meta
      /\ typed.saving = tab.saving
  BY <1>3 DEF Tab
<1>5. author' = a /\ tab' = t /\ exposed' \subseteq Edits
      /\ UNCHANGED <<scene, server, user, gen, frames, strays, forgone, removed, copies, moves, faults>>
  BY DEF Type, Inv, Plain
<1> HIDE DEF a, typed
<1>6. By(a, typed.editor, user)
  BY <1>1, <1>2, <1>4 DEF GoodTab, OwnTab, By
<1>7. Collect(typed) \in Snapshots /\ Collect(typed).content = typed.editor
      /\ Collect(typed).owner = user /\ Collect(typed).doc # NoDoc
  BY <1>1, <1>4 DEF Collect, Snapshots, Tab
<1>8. t \in Tab /\ t.editor = typed.editor /\ t.buffer = Collect(typed) /\ t.saving = tab.saving
  BY <1>4, <1>7 DEF Noted, Buffered, Tab
<1> HIDE DEF t
<1>9. GoodTab(a, user, t)
  BY <1>6, <1>7, <1>8 DEF GoodTab, OwnTab
<1>10. Plain' /\ Counted' /\ server' \in [Docs -> Row] /\ frames' \in [Frames -> Frame]
  BY <1>2, <1>5 DEF Inv, Plain, Counted
<1>11. RowsOwn' /\ StraysOwn'
  BY <1>2, <1>5 DEF RowsOwn, OwnRow, StraysOwn, By, OwnFrame, Posts, Held
<1>12. FramesOwn'
  BY <1>2, <1>5 DEF FramesOwn, GoodFrame, OwnFrame, Posts, Held, By, Carries
<1>13. GoodTab(author, user, tab)'
  BY <1>5, <1>9 DEF GoodTab, OwnTab, By
<1>14. Lock(tab, frames[Save])'
  BY <1>5, <1>8 DEF Inv, Lock, Save
<1> QED
  BY <1>10, <1>11, <1>12, <1>13, <1>14 DEF Inv

LEMMA ForeignPutKeeps == ASSUME Inv, NEW d \in Docs, NEW e \in Edits, ForeignPut(d, e) PROVE Inv'
<1> DEFINE w == server[d].owner
           a == [author EXCEPT ![e] = w]
           row == [server[d] EXCEPT !.rev = server[d].rev + 1, !.content = server[d].content \cup {e}]
<1>1. server[d] \in Row /\ w \in Users \cup {Nobody} /\ w # Nobody /\ author[e] = Nobody
  BY DEF ForeignPut, Inv, Row, RowsOwn, OwnRow
<1>2. /\ a \in [Edits -> Users \cup {Nobody}] /\ a[e] = w
      /\ \A x \in Docs : OwnRow(a, server[x])
      /\ GoodTab(a, user, tab)
      /\ \A f \in Frames : GoodFrame(a, f, frames[f], gen, user)
      /\ \A r \in strays : r \in Frame /\ OwnFrame(a, r)
  BY <1>1, AuthorGrows
<1>3. row \in Row /\ row.owner = w /\ row.content = server[d].content \cup {e}
  <2>1. server[d].rev + 1 \in Nat /\ server[d].content \cup {e} \in SUBSET Edits
    BY <1>1 DEF Row
  <2> QED
    BY <1>1, <2>1 DEF Row
<1>4. author' = a /\ server' = [server EXCEPT ![d] = row] /\ faults' = faults + 1
      /\ faults < scene.faults
      /\ UNCHANGED <<scene, user, gen, tab, frames, strays, forgone, removed, copies, exposed, moves>>
  BY <1>1 DEF ForeignPut, Inv
<1> HIDE DEF a, row, w
<1>5. OwnRow(a, row)
  BY <1>1, <1>2, <1>3 DEF OwnRow, By, w
<1>6. server' \in [Docs -> Row] /\ \A x \in Docs : OwnRow(a, server'[x])
  BY <1>2, <1>3, <1>4, <1>5 DEF Inv
<1>7. Plain' /\ Counted' /\ frames' \in [Frames -> Frame]
  BY <1>2, <1>4, SceneBounds DEF Inv, Plain, Counted, Generations
<1>8. RowsOwn' /\ StraysOwn'
  BY <1>2, <1>4, <1>6 DEF RowsOwn, OwnRow, StraysOwn, By, OwnFrame, Posts, Held
<1>9. FramesOwn'
  BY <1>2, <1>4 DEF FramesOwn, GoodFrame, OwnFrame, Posts, Held, By, Carries
<1>10. GoodTab(author, user, tab)' /\ Lock(tab, frames[Save])'
  BY <1>2, <1>4 DEF Inv, GoodTab, OwnTab, By, Lock, Save
<1> QED
  BY <1>6, <1>7, <1>8, <1>9, <1>10 DEF Inv

LEMMA ForeignDeleteKeeps == ASSUME Inv, NEW d \in Docs, ForeignDelete(d) PROVE Inv'
<1>1. /\ server' \in [Docs -> Row] /\ \A x \in Docs : OwnRow(author, server'[x])
      /\ forgone' \subseteq Edits
  BY DeleteOwn DEF ForeignDelete
<1>2. /\ faults' = faults + 1 /\ faults < scene.faults
      /\ UNCHANGED <<scene, user, gen, tab, frames, strays, author, removed, copies, exposed, moves>>
  BY DEF ForeignDelete
<1>3. Plain' /\ Counted' /\ frames' \in [Frames -> Frame]
  BY <1>1, <1>2, SceneBounds DEF Inv, Plain, Counted, Generations
<1>4. RowsOwn' /\ StraysOwn'
  BY <1>1, <1>2 DEF Inv, RowsOwn, OwnRow, StraysOwn, By, OwnFrame, Posts, Held
<1>5. FramesOwn'
  BY <1>2 DEF Inv, FramesOwn, GoodFrame, OwnFrame, Posts, Held, By, Carries
<1>6. GoodTab(author, user, tab)' /\ Lock(tab, frames[Save])'
  BY <1>2 DEF Inv, GoodTab, OwnTab, By, Lock, Save
<1> QED
  BY <1>1, <1>3, <1>4, <1>5, <1>6 DEF Inv

(* A session begins or ends: a page with nothing but a buffer, in a generation *)
(* of which no frame runs yet but the start-up.                             *)
LEMMA NewSession ==
  ASSUME Inv, NEW u \in Users \cup {Nobody}, user' = u, gen' = gen + 1, gen' \in Generations, Counted',
         NEW t, tab' = t, t \in Tab, t.editor = {}, t.saving = FALSE, OwnTab(author, u, t),
         NEW frs \in [Frames -> Frame], frames' = frs,
         \A f \in Frames : GoodFrame(author, f, frs[f], gen + 1, u),
         frs[<<"save", gen + 1>>].pc = "idle",
         NEW newStrays, strays' = newStrays, \A r \in newStrays : r \in Frame /\ OwnFrame(author, r),
         UNCHANGED <<scene, server, author, removed, copies, moves>>,
         forgone' \subseteq Edits, exposed' \subseteq Edits, faults' \in 0..scene.faults
  PROVE  Inv'
<1>1. Plain' /\ server' \in [Docs -> Row]
  BY DEF Inv, Plain
<1>2. RowsOwn' /\ StraysOwn'
  BY DEF Inv, RowsOwn, OwnRow, StraysOwn, By, OwnFrame, Posts, Held
<1>3. FramesOwn'
  BY DEF FramesOwn, GoodFrame, OwnFrame, Posts, Held, By, Carries
<1>4. GoodTab(author, user, tab)'
  BY DEF GoodTab, OwnTab, By
<1>5. Lock(tab, frames[Save])'
  <2>1. Save' = <<"save", gen + 1>>
    BY DEF Save
  <2> QED
    BY <2>1 DEF Lock
<1> QED
  BY <1>1, <1>2, <1>3, <1>4, <1>5 DEF Inv

(* In the next generation every frame of this one is of an earlier one. *)
LEMMA FramesAge ==
  ASSUME Inv, NEW u
  PROVE  \A f \in Frames : GoodFrame(author, f, frames[f], gen + 1, u)
                             /\ (f[2] = gen + 1 => frames[f].pc = "idle")
<1>1. gen \in Nat /\ \A f \in Frames : f[2] \in Nat
  BY FrameNames DEF Inv, Plain, Generations
<1> QED
  BY <1>1 DEF Inv, FramesOwn, GoodFrame, Carries

(* Faults bound the generations. *)
LEMMA NextGeneration ==
  ASSUME Inv, NEW fl \in 0..scene.faults, NEW k \in {0, 1}, gen + 1 + k <= 2 * fl
  PROVE  gen + 1 \in Generations /\ gen + 1 \in Nat
         /\ <<"save", gen + 1>> \in Frames /\ <<"nav", gen + 1>> \in Frames
<1>1. gen \in Nat /\ scene.faults \in 0..MaxFaults /\ MaxFaults \in Nat
  BY SceneBounds DEF Inv, Plain, Generations
<1>2. gen + 1 \in 0..(2 * MaxFaults)
  BY <1>1
<1> QED
  BY <1>1, <1>2 DEF Generations, Frames

LEMMA EndSessionKeeps ==
  ASSUME Inv, NEW b, b = NoSnap \/ b = tab.buffer, EndSession(b),
         forgone' \subseteq Edits, exposed' \subseteq Edits
  PROVE  Inv'
<1> DEFINE t == [EmptyTab EXCEPT !.buffer = b]
           fl == faults + 1
<1>1. user # Nobody /\ faults < scene.faults
      /\ user' = Nobody /\ gen' = gen + 1 /\ tab' = t /\ faults' = fl
      /\ UNCHANGED <<scene, server, frames, strays, author, removed, copies, moves>>
  BY DEF EndSession
<1>2. gen \in Nat /\ faults \in Nat /\ scene.faults \in Nat /\ gen <= 2 * faults
  BY <1>1, SceneBounds DEF Inv, Plain, Counted, Generations
<1>3. fl \in 0..scene.faults /\ gen + 1 + 1 <= 2 * fl
  BY <1>1, <1>2
<1> HIDE DEF fl
<1>4. gen + 1 \in Generations /\ <<"save", gen + 1>> \in Frames
  BY <1>3, NextGeneration
<1>5. Counted'
  BY <1>1, <1>2, <1>3 DEF Counted
<1>6. b \in Snapshots /\ By(author, b.content, b.owner) /\ (b.dirty => b.doc # NoDoc)
  <2>1. CASE b = NoSnap
    BY <2>1, Constants DEF By, NoSnap
  <2>2. CASE b = tab.buffer
    BY <2>2 DEF Inv, GoodTab, OwnTab, Tab
  <2> QED
    BY <2>1, <2>2
<1>7. t \in Tab /\ t.editor = {} /\ t.saving = FALSE /\ t.buffer = b
  BY <1>6, Constants DEF EmptyTab, Tab
<1> HIDE DEF t
<1>8. OwnTab(author, Nobody, t)
  BY <1>6, <1>7 DEF OwnTab, By
<1>9. \A f \in Frames : GoodFrame(author, f, frames[f], gen + 1, Nobody)
                        /\ (f[2] = gen + 1 => frames[f].pc = "idle")
  BY FramesAge
<1>10. frames[<<"save", gen + 1>>].pc = "idle"
  BY <1>4, <1>9
<1>12. frames \in [Frames -> Frame] /\ \A r \in strays : r \in Frame /\ OwnFrame(author, r)
  BY DEF Inv, StraysOwn
<1>13. user' = Nobody /\ gen' \in Generations /\ tab' = t /\ frames' = frames /\ strays' = strays
       /\ faults' \in 0..scene.faults
       /\ UNCHANGED <<scene, server, author, removed, copies, moves>>
  BY <1>1, <1>3, <1>4
<1> QED
  BY <1>1, <1>5, <1>7, <1>8, <1>9, <1>10, <1>12, <1>13, NewSession

LEMMA LoginKeeps == ASSUME Inv, NEW u \in Users, Login(u) PROVE Inv'
<1> DEFINE b == KeptBuffer(tab.buffer, u)
           t == [EmptyTab EXCEPT !.buffer = b]
           n == <<"nav", gen + 1>>
           frs == [frames EXCEPT ![n] = InitFrame(t, u)]
<1>1. user = Nobody /\ user' = u /\ gen' = gen + 1 /\ tab' = t /\ frames' = frs
      /\ UNCHANGED <<scene, server, strays, author, removed, copies, exposed, moves, faults>>
  BY DEF Login
<1>2. gen \in Nat /\ faults \in 0..scene.faults /\ gen + 1 <= 2 * faults /\ u # Nobody
  BY <1>1, SceneBounds, SetsAssumption DEF Inv, Plain, Counted, Generations
<1>3. gen + 1 + 0 <= 2 * faults
  BY <1>2
<1>4. gen + 1 \in Generations /\ gen + 1 \in Nat /\ <<"save", gen + 1>> \in Frames /\ n \in Frames
  BY <1>2, <1>3, NextGeneration
<1>5. Counted'
  BY <1>1, <1>2 DEF Counted
<1>6. /\ b \in Snapshots /\ By(author, b.content, b.owner) /\ (b.dirty => b.doc # NoDoc)
      /\ b.content # {} => b.owner = u
  BY Constants DEF Inv, GoodTab, OwnTab, Tab, By, NoSnap, KeptBuffer, Own
<1> HIDE DEF b
<1>7. t \in Tab /\ t.editor = {} /\ t.saving = FALSE /\ t.buffer = b
  BY <1>6, Constants DEF EmptyTab, Tab
<1>8. forgone' \subseteq Edits /\ exposed' \subseteq Edits
  BY DEF Login, Inv, Plain, GoodTab, Tab, Snapshots
<1> HIDE DEF t
<1>9. GoodTab(author, u, t)
  BY <1>6, <1>7 DEF GoodTab, OwnTab, By
<1>10. GoodFrame(author, n, InitFrame(t, u), gen + 1, u)
  BY <1>4, <1>9, InitFrameGood
<1>11. \A f \in Frames : GoodFrame(author, f, frames[f], gen + 1, u)
                         /\ (f[2] = gen + 1 => frames[f].pc = "idle")
  BY FramesAge
<1>12. n # <<"save", gen + 1>>
  OBVIOUS
<1> HIDE DEF n
<1>13. /\ frs \in [Frames -> Frame] /\ frs[n] = InitFrame(t, u)
       /\ \A f \in Frames \ {n} : frs[f] = frames[f]
  BY <1>4, <1>10 DEF Inv, GoodFrame
<1> HIDE DEF frs
<1>14. \A f \in Frames : GoodFrame(author, f, frs[f], gen + 1, u)
  BY <1>10, <1>11, <1>13
<1>15. frs[<<"save", gen + 1>>].pc = "idle"
  BY <1>4, <1>11, <1>12, <1>13
<1>16. \A r \in strays : r \in Frame /\ OwnFrame(author, r)
  BY DEF Inv, StraysOwn
<1>17. /\ gen' \in Generations /\ faults' \in 0..scene.faults /\ strays' = strays
       /\ UNCHANGED <<scene, server, author, removed, copies, exposed, moves>>
  BY <1>1, <1>2, <1>4
<1>18. t \in Tab /\ t.editor = {} /\ t.saving = FALSE /\ OwnTab(author, u, t) /\ u \in Users \cup {Nobody}
  BY <1>7, <1>9 DEF GoodTab
<1> QED
  BY <1>1, <1>5, <1>8, <1>13, <1>14, <1>15, <1>16, <1>17, <1>18, NewSession

LEMMA CloseKeeps == ASSUME Inv, NEW graceful \in BOOLEAN, Close(graceful) PROVE Inv'
<1> DEFINE r == IF graceful THEN Flush(tab, Idle) ELSE Result(tab, Idle)
           t == [EmptyTab EXCEPT !.buffer = r.tab.buffer]
           n == <<"nav", gen + 1>>
           frs == [f \in Frames |-> IF f = n THEN InitFrame(t, user) ELSE Idle]
           fl == faults + 1
           newStrays == strays \cup Unserved \cup ({r.frame} \ {Idle})
<1>1. user # Nobody /\ faults < scene.faults
      /\ user' = user /\ gen' = gen + 1 /\ tab' = t /\ frames' = frs /\ faults' = fl
      /\ strays' = newStrays /\ exposed' = exposed \cup r.tab.bare
      /\ UNCHANGED <<scene, server, author, forgone, removed, copies, moves>>
  BY DEF Close
<1>2. gen \in Nat /\ faults \in Nat /\ scene.faults \in Nat /\ gen <= 2 * faults /\ user \in Users
  BY <1>1, SceneBounds DEF Inv, Plain, Counted, Generations
<1>3. fl \in 0..scene.faults /\ gen + 1 + 0 <= 2 * fl
  BY <1>1, <1>2
<1> HIDE DEF fl
<1>4. gen + 1 \in Generations /\ gen + 1 \in Nat /\ <<"save", gen + 1>> \in Frames /\ n \in Frames
  BY <1>3, NextGeneration
<1>5. Counted'
  BY <1>1, <1>2, <1>3 DEF Counted
<1>6. GoodTab(author, user, r.tab) /\ r.frame \in Frame /\ OwnFrame(author, r.frame)
  <2>1. Fit(Save, Flush(tab, frames[Save]))
    BY FlushTabFits
  <2>2. \/ Flush(tab, Idle) = Flush(tab, frames[Save])
        \/ Flush(tab, Idle).tab = Flush(tab, frames[Save]).tab /\ Flush(tab, Idle).frame = Idle
    BY DEF Flush, Result
  <2>3. Idle \in Frame /\ OwnFrame(author, Idle)
    BY IdleGood DEF GoodFrame
  <2>4. CASE graceful
    BY <2>1, <2>2, <2>3, <2>4 DEF Fit, GoodFrame
  <2>5. CASE ~graceful
    BY <2>3, <2>5 DEF Result, Inv
  <2> QED
    BY <2>4, <2>5
<1> HIDE DEF r
<1>7. r.tab.buffer \in Snapshots /\ r.tab.bare \subseteq Edits
  BY <1>6 DEF GoodTab, Tab
<1>8. t \in Tab /\ t.editor = {} /\ t.saving = FALSE /\ t.buffer = r.tab.buffer
  BY <1>7, Constants DEF EmptyTab, Tab
<1>9. forgone' \subseteq Edits /\ exposed' \subseteq Edits
  BY <1>1, <1>7 DEF Inv, Plain
<1> HIDE DEF t
<1>10. OwnTab(author, user, t)
  BY <1>6, <1>8 DEF GoodTab, OwnTab, By
<1>11. GoodFrame(author, n, InitFrame(t, user), gen + 1, user)
  BY <1>2, <1>4, <1>8, <1>10, InitFrameGood DEF GoodTab
<1>12. n # <<"save", gen + 1>>
  OBVIOUS
<1> HIDE DEF n
<1>13. frs \in [Frames -> Frame]
  BY <1>11, Constants DEF GoodFrame
<1>14. \A f \in Frames : GoodFrame(author, f, frs[f], gen + 1, user)
  BY <1>11, IdleGood
<1>15. frs[<<"save", gen + 1>>].pc = "idle"
  BY <1>4, <1>12 DEF Idle
<1>16. \A x \in newStrays : x \in Frame /\ OwnFrame(author, x)
  BY <1>6 DEF Inv, StraysOwn, Unserved, FramesOwn, GoodFrame
<1> HIDE DEF frs, newStrays
<1>17. gen' \in Generations /\ faults' \in 0..scene.faults /\ user \in Users \cup {Nobody}
  BY <1>1, <1>2, <1>3, <1>4
<1> QED
  BY <1>1, <1>5, <1>8, <1>9, <1>10, <1>13, <1>14, <1>15, <1>16, <1>17, NewSession

-----------------------------------------------------------------------------
(* The invariant of every behaviour.                                        *)

LEMMA InvAtFirst == Init => Inv
<1> SUFFICES ASSUME Init PROVE Inv
  OBVIOUS
<1>1. PICK u \in Users :
        /\ scene \in Scenes /\ user = u
        /\ server = [d \in Docs |->
             IF d <= scene.docs THEN [status |-> "live", owner |-> u, rev |-> 1, content |-> {}]
             ELSE [status |-> "unborn", owner |-> Nobody, rev |-> 0, content |-> {}]]
        /\ gen = 0
        /\ tab = [EmptyTab EXCEPT
             !.meta = [id |-> 1, rev |-> 1], !.listed = TRUE,
             !.buffer = [doc |-> 1, rev |-> 1, dirty |-> FALSE, content |-> {}, owner |-> u]]
        /\ frames = [f \in Frames |-> Idle]
        /\ strays = {}
        /\ author = [e \in Edits |-> Nobody]
        /\ forgone = {} /\ removed = {} /\ copies = {} /\ exposed = {}
        /\ moves = 0 /\ faults = 0
  BY DEF Init
<1>2. scene.moves \in Nat /\ scene.faults \in Nat /\ scene.docs \in Docs /\ MaxFaults \in Nat
  BY <1>1, SceneBounds
<1>3. u # Nobody /\ u \in Users
  BY SetsAssumption
<1>4. 1 \in Docs
  BY <1>2, DocsNat, SetsAssumption, FS_CardinalityType
<1>5. Plain /\ Counted
  BY <1>1, <1>2, <1>3 DEF Plain, Counted, Generations
<1>6. server \in [Docs -> Row]
  BY <1>1 DEF Row
<1>7. RowsOwn
  BY <1>1, <1>3 DEF RowsOwn, OwnRow, By
<1>8. GoodTab(author, user, tab) /\ tab.saving = FALSE
  <2> DEFINE b == [doc |-> 1, rev |-> 1, dirty |-> FALSE, content |-> {}, owner |-> u]
  <2>1. b \in Snapshots /\ b.content = {} /\ b.owner = u /\ b.dirty = FALSE
    BY <1>4 DEF Snapshots
  <2> HIDE DEF b
  <2>2. tab = [EmptyTab EXCEPT !.meta = [id |-> 1, rev |-> 1], !.listed = TRUE, !.buffer = b]
    BY <1>1 DEF b
  <2>3. tab \in Tab /\ tab.editor = {} /\ tab.buffer = b /\ tab.saving = FALSE
    BY <1>4, <2>1, <2>2, Constants DEF EmptyTab, Tab
  <2> QED
    BY <2>1, <2>3 DEF GoodTab, OwnTab, By
<1>9. frames \in [Frames -> Frame] /\ FramesOwn
  BY <1>1, Constants, IdleGood DEF FramesOwn
<1>10. Lock(tab, frames[Save])
  <2>1. Save \in Frames
    BY <1>5, FrameNames DEF Plain
  <2> QED
    BY <2>1, <1>1, <1>8 DEF Lock, Idle
<1> QED
  BY <1>1, <1>5, <1>6, <1>7, <1>8, <1>9, <1>10 DEF Inv, StraysOwn

LEMMA InvStep == Inv /\ [Next]_vars => Inv'
<1> SUFFICES ASSUME Inv, [Next]_vars PROVE Inv'
  OBVIOUS
<1>1. CASE TabSteps
  <2>1. Navs \subseteq Frames
    BY FrameNames DEF Inv, Plain
  <2> QED
    BY <1>1, <2>1, PushAnsweredKeeps, TitleAnsweredKeeps, FlushWaitedKeeps, DocumentArrivedKeeps,
       BufferPushedKeeps, ListedKeeps, ListFailedKeeps, ReplayedKeeps, RecoveryReadKeeps,
       RecoveryCopiedKeeps, RecoveryListedKeeps, RecoveryRereadKeeps, RemovedKeeps, RenamedKeeps,
       AbandonKeeps DEF TabSteps
<1>2. CASE Timers
  BY <1>2, FlushByKeeps DEF Timers
<1>3. CASE Network
  BY <1>3, ServeKeeps, ServeStrayKeeps DEF Network
<1>4. CASE UserSteps
  BY <1>4, TypeKeeps, OpenKeeps, RenameKeeps, RemoveKeeps, CreateKeeps, RetryInitKeeps, FlushByKeeps
     DEF UserSteps
<1>5. CASE Environment
  <2>1. ASSUME Logout PROVE Inv'
    BY <2>1, EndSessionKeeps DEF Logout, Inv, Plain, GoodTab, Tab, Snapshots
  <2>2. ASSUME ExpireSession PROVE Inv'
    BY <2>2, EndSessionKeeps DEF ExpireSession, Inv, Plain, GoodTab, Tab
  <2> QED
    BY <1>5, <2>1, <2>2, LoseKeeps, CloseKeeps, ForeignDeleteKeeps, ForeignPutKeeps, LoginKeeps
       DEF Environment
<1>6. CASE UNCHANGED vars
  BY <1>6 DEF vars, Inv, Plain, Counted, RowsOwn, OwnRow, GoodTab, OwnTab, By, FramesOwn, GoodFrame,
     OwnFrame, Held, Carries, StraysOwn, Lock, Save
<1> QED
  BY <1>1, <1>2, <1>3, <1>4, <1>5, <1>6 DEF Next

LEMMA AlwaysInv == Spec => []Inv
  BY InvAtFirst, InvStep, PTL DEF Spec

(* The variables keep their shape, and the save chain is locked exactly     *)
(* while a save of this generation runs: autosave.ts never has two saves in *)
(* flight, and no end of a session leaves the tab unable to save.           *)
THEOREM TypeCorrect == Spec => []TypeOK
<1>1. Inv => TypeOK
  BY DEF Inv, Plain, GoodTab, StraysOwn, Lock, TypeOK
<1> QED
  BY <1>1, AlwaysInv, PTL

(* Whatever outlives a session, a request or a buffer, no document ever     *)
(* holds an edit of somebody who is not its owner.                          *)
THEOREM NothingLeaks == Spec => []NoCrossUserLeak
<1>1. Inv => NoCrossUserLeak
  BY DEF Inv, RowsOwn, OwnRow, By, NoCrossUserLeak
<1> QED
  BY <1>1, AlwaysInv, PTL
=============================================================================
