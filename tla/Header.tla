------------------------------- MODULE Header -------------------------------
(***************************************************************************)
(* The selection in the header of a tab - language, terminology domains,    *)
(* LLM, checking profile - and those who write to it: the user, the          *)
(* document being opened, the profiles that are fetched for a language or a  *)
(* session, the cards and rules of a profile, the preferences of a user.     *)
(* Every change of it is saved to the open document by itself.              *)
(*                                                                         *)
(* A step is a task of the page: React has rendered, and run the effect of   *)
(* the header, before the next one.  Requests are sent, served and answered. *)
(*                                                                         *)
(* frontend/src/header, profiles, rules/RulesView.tsx, App.tsx, state/,       *)
(* documents/{profileApply,settings,hydration}.ts.                          *)
(***************************************************************************)
EXTENDS Page, Naturals, FiniteSets

CONSTANTS
  DocIds, Profs, Langs, Doms, Llms, Rules,
  Default,  \* INITIAL_DATA: the header of a fresh store
  HeaderScenes    \* the mixes tried: documents and profiles there are, acts, how many, failures

HeaderActs == {"login", "logout", "relogin", "open", "new", "language", "select", "profile",
         "card", "rules", "overrides", "reset", "create", "delete"}

ASSUME HeaderAssumption ==
  /\ None \notin People \cup DocIds \cup Profs \cup Llms
  /\ Managers \subseteq People
  /\ Default \in [lang : Langs, dom : Doms, llm : Llms, rules : Rules]
  /\ \A s \in HeaderScenes : s.acts \subseteq HeaderActs /\ s.moves \in Nat /\ s.fails \in Nat

Header == [lang : Langs, dom : Doms, llm : Llms, pid : Profs \cup {None}]
\* A profile need have no opinion about the LLM.
Profile == [lang : Langs, owner : People \cup {None}, std : BOOLEAN,
            dom : Doms, llm : Llms \cup {None}, rules : Rules]
DocumentRow == [owner : People, head : Header]
\* The fields of the store that are kept for a user.
Pref == [lang : Langs, last : [Langs -> Profs \cup {None}], cur : DocIds \cup {None}]
IsList(f) == DOMAIN f \subseteq Profs /\ \A p \in DOMAIN f : f[p] \in Profile

VARIABLES
  tab,       \* the store, the generations, what the header's effect last ran for
  suppress,  \* suppressProfileApply
  fetches,   \* getProfiles
  loads,     \* getDocument and createDocument
  saves,     \* the requests of the profile editors
  blob,      \* localStorage: the preferences of each user
  dirty,     \* the open document's settings wait for the autosave
  docs, profs,      \* the server's rows
  scene, moves, fails,
  \* What the properties remember: did the user act since the document was opened;
  \* was something under way when it was; what the user last chose for a profile,
  \* and the profiles over which requests overlapped.
  touched, crowded, wish, mixed

headerVars == <<tab, suppress, fetches, loads, saves, blob, dirty, docs, profs,
          scene, moves, fails, touched, crowded, wish, mixed>>

(***************************************************************************)
(* The store.                                                              *)
(***************************************************************************)
HeaderOf(t) == [lang |-> t.lang, dom |-> t.dom, llm |-> t.llm, pid |-> t.pid]
Prefs(t) == [lang |-> t.lang, last |-> t.last, cur |-> t.cur]
Unset == [l \in Langs |-> None]
Defaults == [lang |-> Default.lang, last |-> Unset, cur |-> None]

\* resetSessionState, and the header unmounted.
Emptied(t) == [t EXCEPT !.lang = Default.lang, !.dom = Default.dom, !.llm = Default.llm,
                        !.pid = None, !.profiles = Nothing, !.ready = FALSE,
                        !.last = Unset, !.doc = None, !.cur = None,
                        !.seen = None, !.seenBy = None, !.ran = None]
\* loadUserPrefs: what is not stored has its default.
Loaded(t, b) == LET p == IF b = None THEN Defaults ELSE b
                IN [t EXCEPT !.lang = p.lang, !.last = p.last, !.cur = p.cur]

\* applyProfileToHeader and selectProfile.
Applied(t, p) == [t EXCEPT !.dom = p.dom, !.llm = IF p.llm = None THEN @ ELSE p.llm]
Selected(t, id, p, apply) ==
  LET shown == [t EXCEPT !.pid = id, !.last[p.lang] = id]
  IN IF apply THEN Applied(shown, p) ELSE shown

\* The subscriber that keeps preferences: silent while nobody is signed in.
Written(b, old, new) ==
  IF new.usr = None \/ Prefs(new) = Prefs(old) THEN b ELSE [b EXCEPT ![new.usr] = Prefs(new)]
\* The subscriber that saves the settings of the document.
Dirtied(old, new) == dirty \/ (new.doc # None /\ HeaderOf(new) # HeaderOf(old))
Autosaved == IF dirty THEN [docs EXCEPT ![tab.doc].head = HeaderOf(tab)] ELSE docs

(***************************************************************************)
(* The effect of the header: it runs when it is mounted, for a language and  *)
(* for a login; the one before is cancelled.                               *)
(***************************************************************************)
Due(t) == t.usr # None /\ t.ran # <<t.lang, t.agen>>
Switches(t) == t.seen # None /\ t.seen # t.lang
Ran(t) == IF Due(t)
          THEN [t EXCEPT !.ran = <<t.lang, t.agen>>, !.seen = t.lang, !.seenBy = t.usr,
                         !.ready = @ /\ ~Switches(t)]
          ELSE t
Cancelled(fs) == {[f EXCEPT !.cancelled = TRUE] : f \in fs}
Fetch(t) == [lang |-> t.lang, user |-> t.usr, gen |-> t.gen, sgen |-> t.sgen,
             switch |-> Switches(t), turnover |-> t.seenBy # None /\ t.seenBy # t.usr,
             cancelled |-> FALSE, served |-> FALSE, reply |-> Nothing]
Fetched(t, fs) == IF Due(t) THEN Cancelled(fs) \cup {Fetch(t)} ELSE fs
Live == {f \in fetches : ~f.cancelled /\ f.gen = tab.gen /\ f.sgen = tab.sgen}
SavesOf(p) == {s \in saves : s.id = p}

\* A task that leaves the store as t.
Sets(t) ==
  /\ tab' = Ran(t)
  /\ blob' = Written(blob, tab, t)
  /\ fetches' = Fetched(t, fetches)
  /\ mixed' = IF Due(t) THEN mixed \cup {s.id : s \in saves} ELSE mixed

Spend(act) == act \in scene.acts /\ moves > 0 /\ moves' = moves - 1
\* The user does something to the header of the open document.
Touches(t) ==
  /\ tab.usr # None /\ touched' = TRUE
  /\ Sets(t) /\ dirty' = Dirtied(tab, t)
  /\ UNCHANGED <<suppress, loads, saves, docs, profs, scene, fails, crowded, wish>>

(***************************************************************************)
(* Sessions.  The user is null while preferences are reset or loaded.       *)
(***************************************************************************)
Owned(u) == {d \in DocIds : docs[d] # None /\ docs[d].owner = u}
\* A document asked for, or sent to be created.
Load(d, g, body) == [doc |-> d, gen |-> g, body |-> body, served |-> FALSE,
                     head |-> IF body = None THEN None ELSE body.head]

\* The store as a login leaves it, update by update.
Arriving(t, u) ==
  LET fresh == Loaded(Emptied([t EXCEPT !.gen = @ + 1, !.sgen = @ + 1]), blob[u])
  IN <<fresh, [fresh EXCEPT !.usr = u, !.agen = @ + 1]>>
\* initDocuments opens the last document, or another one.
Login(u) ==
  LET come == Arriving(tab, u)
  IN /\ Spend("login") /\ tab.usr = None
     /\ tab' = Ran(come[2]) /\ fetches' = Fetched(come[2], fetches)
     /\ blob' = Written(Written(blob, tab, come[1]), come[1], come[2])
     /\ \E d \in Owned(u) :
          /\ come[1].cur \in Owned(u) => d = come[1].cur
          /\ loads' = loads \cup {Load(d, come[2].gen, None)}
     /\ suppress' = FALSE /\ mixed' = mixed \cup {s.id : s \in saves}
     /\ UNCHANGED <<saves, dirty, docs, profs, scene, fails, touched, crowded, wish>>

\* The silent login after a change of the password.
Relogin ==
  /\ Spend("relogin") /\ tab.usr # None
  /\ Sets([tab EXCEPT !.sgen = @ + 1, !.agen = @ + 1])
  /\ UNCHANGED <<suppress, loads, saves, dirty, docs, profs, scene, fails, touched, crowded, wish>>

\* logout and expireSession, update by update.
LeavingLate(t) == LET empty == Emptied([t EXCEPT !.gen = @ + 1, !.sgen = @ + 1])
                  IN <<empty, [empty EXCEPT !.usr = None]>>
Leaving(t) == LET gone == [t EXCEPT !.usr = None, !.gen = @ + 1, !.sgen = @ + 1]
              IN <<gone, Emptied(gone)>>
Logout ==
  LET l == Leaving(tab)
  IN /\ Spend("logout") /\ tab.usr # None
     /\ tab' = l[2] /\ blob' = Written(Written(blob, tab, l[1]), l[1], l[2])
     /\ fetches' = Cancelled(fetches)
     /\ suppress' = FALSE /\ dirty' = FALSE /\ touched' = FALSE /\ crowded' = FALSE
     /\ UNCHANGED <<loads, saves, docs, profs, scene, fails, wish, mixed>>

(***************************************************************************)
(* The user's selections.                                                  *)
(***************************************************************************)
SelectLanguage(l) == Spend("language") /\ l # tab.lang /\ Touches([tab EXCEPT !.lang = l])
SelectDomains(d) == Spend("select") /\ d # tab.dom /\ Touches([tab EXCEPT !.dom = d])
SelectLlm(x) == Spend("select") /\ x # tab.llm /\ Touches([tab EXCEPT !.llm = x])
\* From the list, or again to undo the changes made over it.
SelectProfile(p) ==
  /\ Spend("profile") /\ p \in DOMAIN tab.profiles
  /\ Touches(Selected(tab, p, tab.profiles[p], TRUE))
\* isProfileDirty
Differs(p) == p.dom # tab.dom \/ (p.llm # None /\ p.llm # tab.llm)

(***************************************************************************)
(* Documents: the settings they carry into the header.  A profile that is    *)
(* gone is left out of the answer.                                          *)
(***************************************************************************)
ProfileVisible(p, u) == profs[p] # None /\ profs[p].owner \in {None, u}
Pruned(head, u) == [head EXCEPT !.pid = IF @ # None /\ ProfileVisible(@, u) THEN @ ELSE None]

\* openDocument and createNewDocument flush first; the open document is not offered.
Leaves(load) ==
  /\ tab.usr # None
  /\ docs' = Autosaved /\ dirty' = FALSE /\ loads' = loads \cup {load}
  /\ UNCHANGED <<tab, suppress, fetches, saves, blob, profs, scene, fails, touched, crowded, wish, mixed>>
Open(d) == Spend("open") /\ d \in Owned(tab.usr) \ {tab.doc} /\ Leaves(Load(d, tab.gen, None))
New(d) ==
  /\ Spend("new") /\ docs[d] = None /\ \A l \in loads : l.doc # d
  /\ Leaves(Load(d, tab.gen, [owner |-> tab.usr, head |-> HeaderOf(tab)]))
Autosave ==
  /\ dirty /\ docs' = Autosaved /\ dirty' = FALSE
  /\ UNCHANGED <<tab, suppress, fetches, loads, saves, blob, profs, scene, moves, fails,
                 touched, crowded, wish, mixed>>

ServeLoad(l) ==
  LET row == IF l.body = None THEN docs[l.doc] ELSE l.body
      head == IF l.body = None THEN Pruned(row.head, row.owner) ELSE row.head
  IN /\ ~l.served /\ docs' = [docs EXCEPT ![l.doc] = row]
     /\ loads' = (loads \ {l}) \cup {[l EXCEPT !.served = TRUE, !.head = head]}
     /\ UNCHANGED <<tab, suppress, fetches, saves, blob, dirty, profs, scene, moves, fails,
                    touched, crowded, wish, mixed>>

\* hydrateFromDocument: the header takes the document's settings; whoever answers
\* for its language must not overwrite them.
Hydrated(t, l) ==
  [t EXCEPT !.lang = l.head.lang, !.dom = l.head.dom, !.llm = l.head.llm, !.pid = l.head.pid,
            !.last[l.head.lang] = IF l.head.pid = None THEN @ ELSE l.head.pid,
            !.doc = l.doc, !.cur = l.doc]
Arms(l) == l.head.lang # tab.lang
Hydrate(l) ==
  /\ l.served /\ loads' = loads \ {l}
  /\ IF l.gen # tab.gen
       THEN UNCHANGED <<tab, suppress, fetches, blob, dirty, docs, touched, crowded, mixed>>
       ELSE /\ Sets(Hydrated(tab, l)) /\ suppress' = Arms(l)
            /\ docs' = IF tab.doc # l.doc THEN Autosaved ELSE docs
            /\ dirty' = FALSE /\ touched' = FALSE
            /\ crowded' = (saves # {} \/ \E f \in Live : f.switch)
  /\ UNCHANGED <<saves, profs, scene, moves, fails, wish>>

(***************************************************************************)
(* The profiles of a language.                                             *)
(***************************************************************************)
ProfilesOf(l, u) == {p \in Profs : ProfileVisible(p, u) /\ profs[p].lang = l}
ServeFetch(f) ==
  /\ ~f.served
  /\ fetches' = (fetches \ {f})
       \cup {[f EXCEPT !.served = TRUE, !.reply = [p \in ProfilesOf(f.lang, f.user) |-> profs[p]]]}
  /\ UNCHANGED <<tab, suppress, loads, saves, blob, dirty, docs, profs, scene, moves, fails,
                 touched, crowded, wish, mixed>>

\* The profile remembered for the language, the standard one, or the first.
Chosen(list, last) ==
  IF last \in DOMAIN list THEN {last}
  ELSE IF \E p \in DOMAIN list : list[p].std THEN {p \in DOMAIN list : list[p].std}
  ELSE DOMAIN list
\* applyHeaderProfileSelection: a document without a profile keeps none.
SelectionAlways(t, p, switch) == Selected(t, p, t.profiles[p], switch)
Selection(t, p, switch) ==
  IF suppress /\ t.pid = None THEN t
  ELSE Selected(t, p, t.profiles[p], switch /\ ~suppress)

SpeaksCancelled(f) == f.gen = tab.gen /\ f.sgen = tab.sgen
Speaks(f) == f.gen = tab.gen /\ f.sgen = tab.sgen /\ ~f.cancelled
Receives(f) ==
  LET t == [tab EXCEPT !.profiles = f.reply, !.ready = TRUE]
  IN IF DOMAIN f.reply = {}
       THEN tab' = t /\ UNCHANGED <<suppress, blob, dirty>>
       ELSE \E p \in Chosen(f.reply, tab.last[f.lang]) :
              LET new == Selection(t, p, f.switch)
              IN /\ tab' = new /\ blob' = Written(blob, tab, new) /\ dirty' = Dirtied(tab, new)
                 /\ suppress' = FALSE
AnswerFetch(f) ==
  /\ f.served /\ fetches' = fetches \ {f}
  /\ IF Speaks(f) THEN Receives(f) ELSE UNCHANGED <<tab, suppress, blob, dirty>>
  /\ UNCHANGED <<loads, saves, docs, profs, scene, moves, fails, touched, crowded, wish, mixed>>

Fail == fails > 0 /\ fails' = fails - 1
\* The profiles of a language or a user left behind must not stay.
FailFetch(f) ==
  /\ Fail /\ fetches' = fetches \ {f}
  /\ IF Speaks(f)
       THEN /\ suppress' = FALSE
            /\ tab' = [tab EXCEPT !.ready = TRUE,
                                  !.profiles = IF f.switch \/ f.turnover THEN Nothing ELSE @]
       ELSE UNCHANGED <<tab, suppress>>
  /\ UNCHANGED <<loads, saves, blob, dirty, docs, profs, scene, moves, touched, crowded, wish, mixed>>
FailLoad(l) ==
  /\ Fail /\ loads' = loads \ {l}
  /\ UNCHANGED <<tab, suppress, fetches, saves, blob, dirty, docs, profs, scene, moves,
                 touched, crowded, wish, mixed>>

(***************************************************************************)
(* Editing profiles: a request carries the whole profile, as it was shown    *)
(* and with what the user changed.                                         *)
(***************************************************************************)
ChoiceOf(p) == [dom |-> p.dom, llm |-> p.llm, rules |-> p.rules]
\* What the user changed is what is wished for; the rest stands.
Wished(old, shown, body) ==
  [dom |-> IF body.dom = shown.dom THEN old.dom ELSE body.dom,
   llm |-> IF body.llm = shown.llm THEN old.llm ELSE body.llm,
   rules |-> IF body.rules = shown.rules THEN old.rules ELSE body.rules]
Sends(kind, id, body) ==
  /\ tab.usr # None /\ touched' = TRUE
  /\ saves' = saves \cup {[kind |-> kind, id |-> id, body |-> body, gen |-> tab.gen,
                           served |-> FALSE, no |-> moves]}
  /\ wish' = [wish EXCEPT ![id] = CASE kind \in {"reset", "create"} -> ChoiceOf(body)
                                    [] kind = "delete" -> @
                                    [] OTHER -> Wished(@, tab.profiles[id], body)]
  /\ mixed' = IF SavesOf(id) # {} \/ Live # {} THEN mixed \cup {id} ELSE mixed
  /\ UNCHANGED <<tab, suppress, fetches, loads, blob, dirty, docs, profs, scene, fails, crowded>>

\* Global profiles are for administrators.
Editable(p) == p \in DOMAIN tab.profiles /\ (tab.profiles[p].owner # None \/ tab.usr \in Managers)
SaveCard(p) ==
  /\ Spend("card") /\ Editable(p)
  /\ LET shown == tab.profiles[p]
     IN \E body \in {[shown EXCEPT !.dom = d] : d \in Doms}
                      \cup {[shown EXCEPT !.llm = x] : x \in Llms \cup {None}}
                      \cup {[shown EXCEPT !.rules = r] : r \in Rules} :
          body # shown /\ Sends("card", p, body)
SaveRules ==
  /\ Spend("rules") /\ Editable(tab.pid)
  /\ \E r \in Rules : /\ r # tab.profiles[tab.pid].rules
                      /\ Sends("rules", tab.pid, [tab.profiles[tab.pid] EXCEPT !.rules = r])
SaveOverrides ==
  /\ Spend("overrides") /\ Editable(tab.pid) /\ Differs(tab.profiles[tab.pid])
  /\ Sends("overrides", tab.pid, [tab.profiles[tab.pid] EXCEPT !.dom = tab.dom, !.llm = tab.llm])
\* A standard profile is reset to its seed; another one can be deleted.
ResetProfile(p) ==
  /\ Spend("reset") /\ Editable(p) /\ tab.profiles[p].std /\ Sends("reset", p, scene.profs[p])
DeleteProfile(p) ==
  /\ Spend("delete") /\ Editable(p) /\ ~tab.profiles[p].std
  /\ Sends("delete", p, tab.profiles[p])
CreateProfile(p) ==
  /\ Spend("create") /\ profs[p] = None /\ SavesOf(p) = {}
  /\ \E r \in IF tab.pid \in DOMAIN tab.profiles THEN {tab.profiles[tab.pid].rules}
              ELSE {Default.rules} :
       Sends("create", p, [lang |-> tab.lang, owner |-> tab.usr, std |-> FALSE,
                           dom |-> tab.dom, llm |-> tab.llm, rules |-> r])

\* A whole row replaces a row that is there.
Stored(s) == CASE s.kind = "create" -> s.body
               [] s.kind = "delete" -> None
               [] OTHER -> IF profs[s.id] = None THEN None ELSE s.body
ServeSave(s) ==
  /\ ~s.served /\ profs' = [profs EXCEPT ![s.id] = Stored(s)]
  /\ saves' = IF profs[s.id] = None /\ s.kind # "create" THEN saves \ {s}
              ELSE (saves \ {s}) \cup {[s EXCEPT !.served = TRUE]}
  /\ UNCHANGED <<tab, suppress, fetches, loads, blob, dirty, docs, scene, moves, fails,
                 touched, crowded, wish, mixed>>

\* refresh: the list as it is now, with the answer; the profile that is selected is
\* selected again, a new one is selected, for a deleted one there is a fallback.
Unlisted(t, p, row) == t
Listed(t, p, row) == IF p \in DOMAIN t.profiles THEN [t EXCEPT !.profiles[p] = row] ELSE t
Without(t, p) == [t EXCEPT !.profiles = [q \in DOMAIN @ \ {p} |-> @[q]]]
Appended(t, p, row) ==
  [t EXCEPT !.profiles = [q \in DOMAIN @ \cup {p} |-> IF q = p THEN row ELSE @[q]]]
AfterSave(s) ==
  CASE s.kind \in {"rules", "overrides"} -> {Listed(tab, s.id, s.body)}
    [] s.kind \in {"card", "reset"} ->
         LET t == Listed(tab, s.id, s.body)
         IN {IF t.pid = s.id THEN Selected(t, s.id, s.body, TRUE) ELSE t}
    [] s.kind = "create" -> {Selected(Appended(tab, s.id, s.body), s.id, s.body, TRUE)}
    [] s.kind = "delete" ->
         LET t == Without(tab, s.id)
         IN IF t.pid # s.id \/ DOMAIN t.profiles = {} THEN {t}
            ELSE {Selected(t, q, t.profiles[q], TRUE) : q \in Chosen(t.profiles, None)}
AnswerSave(s) ==
  /\ s.served /\ saves' = saves \ {s}
  /\ IF s.gen # tab.gen THEN UNCHANGED <<tab, fetches, blob, dirty, mixed>>
     ELSE \E t \in AfterSave(s) :
            /\ tab' = t /\ blob' = Written(blob, tab, t) /\ dirty' = Dirtied(tab, t)
            /\ mixed' = IF s.kind = "create" /\ s.body.lang # tab.lang THEN mixed \cup {s.id} ELSE mixed
            /\ UNCHANGED fetches
  /\ UNCHANGED <<suppress, loads, docs, profs, scene, moves, fails, touched, crowded, wish>>
\* Lost on the way there or back: an error is shown.
FailSave(s) ==
  /\ Fail /\ saves' = saves \ {s}
  /\ wish' = IF s.served \/ profs[s.id] = None THEN wish
             ELSE [wish EXCEPT ![s.id] = ChoiceOf(profs[s.id])]
  /\ mixed' = IF s.served THEN mixed \cup {s.id} ELSE mixed
  /\ UNCHANGED <<tab, suppress, fetches, loads, blob, dirty, docs, profs, scene, moves,
                 touched, crowded>>

(***************************************************************************)
(* The specification.                                                      *)
(***************************************************************************)
HeaderInit ==
  /\ scene \in HeaderScenes
  /\ tab = [usr |-> None, gen |-> 0, sgen |-> 0, agen |-> 0,
            lang |-> Default.lang, dom |-> Default.dom, llm |-> Default.llm, pid |-> None,
            profiles |-> Nothing, ready |-> FALSE, last |-> Unset, doc |-> None, cur |-> None,
            seen |-> None, seenBy |-> None, ran |-> None]
  /\ suppress = FALSE /\ fetches = {} /\ loads = {} /\ saves = {}
  /\ blob = [u \in People |-> None] /\ dirty = FALSE
  /\ docs = scene.docs /\ profs = scene.profs /\ moves = scene.moves /\ fails = scene.fails
  /\ touched = FALSE /\ crowded = FALSE /\ mixed = {}
  /\ wish = [p \in Profs |-> IF profs[p] = None THEN None ELSE ChoiceOf(profs[p])]

Serve == \/ \E l \in loads : ServeLoad(l)
         \/ \E f \in fetches : ServeFetch(f)
         \/ \E s \in saves : ServeSave(s)
Answer == \/ \E l \in loads : Hydrate(l)
          \/ \E f \in fetches : AnswerFetch(f)
          \/ \E s \in saves : AnswerSave(s)
Refuse == \/ \E l \in loads : FailLoad(l)
          \/ \E f \in fetches : FailFetch(f)
          \/ \E s \in saves : FailSave(s)
Session == (\E u \in People : Login(u)) \/ Relogin \/ Logout
Select == \/ \E l \in Langs : SelectLanguage(l)
          \/ \E d \in Doms : SelectDomains(d)
          \/ \E x \in Llms : SelectLlm(x)
          \/ \E p \in Profs : SelectProfile(p)
Paperwork == (\E d \in DocIds : Open(d) \/ New(d)) \/ Autosave
Edit == \/ SaveRules \/ SaveOverrides
        \/ \E p \in Profs : SaveCard(p) \/ ResetProfile(p) \/ DeleteProfile(p) \/ CreateProfile(p)

HeaderNext == Serve \/ Answer \/ Refuse \/ Session \/ Select \/ Paperwork \/ Edit

HeaderSpec == HeaderInit /\ [][HeaderNext]_headerVars

(***************************************************************************)
(* What must hold.                                                         *)
(***************************************************************************)
HeaderTypeOK ==
  /\ HeaderOf(tab) \in Header /\ Prefs(tab) \in Pref /\ IsList(tab.profiles)
  /\ tab.usr \in Known(People) /\ tab.doc \in Known(DocIds)
  /\ tab.ready \in BOOLEAN /\ {suppress, dirty, touched, crowded} \subseteq BOOLEAN
  /\ blob \in [People -> Known(Pref)]
  /\ docs \in [DocIds -> Known(DocumentRow)] /\ profs \in [Profs -> Known(Profile)]
  /\ \A f \in fetches : IsList(f.reply) /\ f.lang \in Langs /\ f.user \in People
  /\ \A l \in loads : l.doc \in DocIds /\ l.head \in Known(Header)
  /\ \A s \in saves : s.id \in Profs /\ s.body \in Profile
  /\ mixed \subseteq Profs

\* The variables have their types, and the list on the page is one of the user's:
\* nobody's profile is there but his own and the global ones, and when the list is
\* settled they are for the language of the header - but for a profile that was being
\* created when the language changed.  The answer to a question of the session or the
\* language before must not land (useHeaderData.ts, the guards of the fetch;
\* ProfilesView.tsx, of the editors).
ProfilesFit ==
  /\ HeaderTypeOK
  /\ \A p \in DOMAIN tab.profiles :
       /\ tab.usr # None
       /\ tab.profiles[p].owner \in {None, tab.usr}
       /\ tab.ready => tab.profiles[p].lang = tab.lang \/ p \in mixed

\* What a user prefers is what a reload of the page would bring back: no change of
\* the language, of the profile last used or of the open document is left unwritten,
\* and a login starts from what this user stored, of nobody else (prefsPersistence.ts).
PrefsFollow == \A u \in People : tab.usr = u => Prefs(tab) = Prefs(Loaded(tab, blob[u]))

\* Only a session writes the preferences of its user: not the reset after it, not the
\* loading before it (session.ts, the ordering invariant).
BlobsAreOwn ==
  [][\A u \in People : blob'[u] # blob[u] => tab.usr = u /\ tab'.usr = u]_headerVars

\* Both, of every session: what is stored for a user is what he left.
PrefsAreKept == []PrefsFollow /\ BlobsAreOwn

\* While the user does nothing, what he opened stays as it was opened, whoever answers
\* - unless it was opened over a switch of the language or an edit of a profile that
\* was still under way.  Only a document without a profile of its language is given
\* one, and its other settings stay even then (profileApply.ts, useHeaderData.ts).
HasProfile == tab.pid # None /\ profs[tab.pid] # None /\ profs[tab.pid].lang = tab.lang
OpenedStays ==
  [][(/\ ~touched /\ ~touched' /\ ~crowded /\ tab.doc # None /\ tab'.doc = tab.doc
      /\ loads' = loads)
     => /\ [HeaderOf(tab') EXCEPT !.pid = tab.pid] = HeaderOf(tab)
        /\ HasProfile => tab'.pid = tab.pid]_headerVars

\* A choice in the editor of a profile is not undone by the next one: with no request
\* under way, and none that overlapped, the stored profile is what was chosen last for
\* each of its parts.  Every editor sends the whole profile.
ChoicesLand ==
  \A p \in Profs \ mixed :
    SavesOf(p) = {} /\ profs[p] # None => ChoiceOf(profs[p]) = wish[p]

\* profileApply.ts:4: "opening a document that switches the language must not let the
\* Header's profile effect overwrite the document's own LLM settings."
OpeningKeepsSettings ==
  [][(/\ ~touched' /\ tab.doc # None /\ tab'.doc = tab.doc
      /\ \E f \in fetches \ fetches' : f.switch)
     => tab'.llm = tab.llm]_headerVars
=============================================================================
