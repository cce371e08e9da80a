----------------------------- MODULE Terminology -----------------------------
(***************************************************************************)
(* The terminology page of a tab: the domains in the store, which the header *)
(* and the page both fetch, the domain that is open, its terms, the row that *)
(* is being edited, and the requests that change them.  The answers come in  *)
(* any order, while the user goes on and sessions come and go.              *)
(*                                                                         *)
(* A step is a task of the page, with the rendering and the effects it      *)
(* causes: they run before the next task.                                  *)
(*                                                                         *)
(* frontend/src/terminology/, header/useHeaderData.ts (the domains),         *)
(* backend/app/api/terminology.py, services/terminology.py.                 *)
(***************************************************************************)
EXTENDS Page, Naturals, FiniteSets

CONSTANTS
  Makers,   \* the users whose plan has custom domains, and the administrators
  Domains, Terms, Labels, Words,
  Parts,    \* what a variant is split into when it is read back from a draft
  Drafts,   \* what the user types in
  TermsScenes    \* the mixes tried: rows there are, acts, how many, failures

TermsActs == {"login", "logout", "relogin", "view", "select", "add", "remove", "rename",
         "edit", "term"}

ASSUME TerminologyAssumption ==
  /\ None \notin People \cup Domains \cup Terms \cup Labels
  /\ Managers \subseteq Makers /\ Makers \subseteq People
  /\ Parts \in [Words -> SUBSET Words]
  /\ Drafts \subseteq [preferred : Labels \cup {None}, variants : SUBSET Words]
  /\ \A s \in TermsScenes : s.acts \subseteq TermsActs /\ s.turns \in Nat /\ s.drops \in Nat

Domain == [owner : People \cup {None}, name : Labels]
Draft == [preferred : Labels \cup {None}, variants : SUBSET Words]
Term == [domain : Domains, preferred : Labels, variants : SUBSET Words]

VARIABLES
  page,     \* the store's user, generations and domains; the state of the page
  lists,    \* getDomains
  asks,     \* getTerms
  works,    \* requests that change something
  domains, terms,   \* the server's rows
  mix, turns, drops,
  \* What the properties remember: the list may be old, because two requests for it
  \* overlapped or one failed; the domains whose rows nobody fetches again.
  crossed, missed

termsVars == <<page, lists, asks, works, domains, terms, mix, turns, drops, crossed, missed>>

(***************************************************************************)
(* The server.  A global domain belongs to nobody and administrators.       *)
(***************************************************************************)
DomainVisible(d, u) == domains[d] # None /\ domains[d].owner \in {None, u}
May(d, u) == DomainVisible(d, u) /\ (domains[d].owner # None \/ u \in Managers)
DomainsOf(u) == {d \in Domains : DomainVisible(d, u)}
TermsOf(d) == {t \in Terms : terms[t] # None /\ terms[t].domain = d}
DomainRows(u) == [d \in DomainsOf(u) |-> domains[d]]
TermRows(d) == [t \in TermsOf(d) |-> terms[t]]
LabelTaken(name, owner, d) ==
  \E o \in Domains \ {d} : domains[o] # None /\ domains[o].owner = owner /\ domains[o].name = name

\* draftToTermPayload: the variants come from one line of text.
Payload(d, draft) == [domain |-> d, preferred |-> draft.preferred,
                      variants |-> UNION {Parts[v] : v \in draft.variants}]
\* termToDraft
DraftOf(term) == [preferred |-> term.preferred, variants |-> term.variants]

(***************************************************************************)
(* Requests.                                                               *)
(***************************************************************************)
List(p, by, then) == [by |-> by, user |-> p.usr, sgen |-> p.sgen, then |-> then,
                      visit |-> p.visit, served |-> FALSE, reply |-> Nothing,
                      no |-> Cardinality(lists)]
AskTerms(p) == [domain |-> p.act, visit |-> p.visit, no |-> p.no, user |-> p.usr,
           served |-> FALSE, reply |-> None]
Errand(kind, id, what) ==
  [kind |-> kind, id |-> id, what |-> what, domain |-> page.act, user |-> page.usr,
   visit |-> page.visit, table |-> page.table, served |-> FALSE, ok |-> FALSE, no |-> turns]
Fresh(l) == l.sgen = page.sgen
Lists(new) == /\ lists' = lists \cup new
              /\ crossed' = IF new = {} THEN crossed
                            ELSE (\E l \in lists : Fresh(l)) \/ Cardinality(new) > 1
OnDomains(w) == w.kind \in {"addDomain", "removeDomain", "renameDomain"}

(***************************************************************************)
(* Rendering.  With nothing open, the first of the domains is opened; they   *)
(* come by name, so any may be the first.  To open a domain clears the rows  *)
(* and fetches its terms, and ends the editing; so does a table that is no   *)
(* longer shown.                                                           *)
(***************************************************************************)
Picked(p) == IF p.open /\ p.act = None /\ DOMAIN p.list # {} THEN DOMAIN p.list ELSE {p.act}
Shown(p) == IF p.act \in DOMAIN p.list THEN p.act ELSE None
Locked(p) == Shown(p) # None /\ p.list[p.act].owner = None /\ p.usr \notin Managers
Opened(p, d) == [p EXCEPT !.act = d, !.rows = Nothing, !.no = IF d = None THEN @ ELSE @ + 1]
AskedAgain(p) == [p EXCEPT !.no = @ + 1]
Tabled(p) ==
  IF Shown(p) = Shown(page) /\ Locked(p) = Locked(page) THEN p
  ELSE [p EXCEPT !.edit = None, !.table = IF Shown(p) = None THEN @ + 1 ELSE @]

\* loadTerms, called for the domain of a request that was answered.
Wanted(p, d) == p.act = d
\* A task that leaves the page as p, and has loadTerms called for the domains ds.
Renders(p, ds) ==
  \E d \in Picked(p) :
    LET moved == p.act = None \/ d # page.act
        again == ~moved /\ \E o \in ds : Wanted(p, o)
        q == Tabled(IF moved THEN Opened(p, d) ELSE IF again THEN AskedAgain(p) ELSE p)
    IN /\ page' = q
       /\ asks' = IF (moved /\ d # None) \/ again THEN asks \cup {AskTerms(q)} ELSE asks
       /\ missed' = IF (moved /\ d # None) \/ again THEN missed \ {d} ELSE missed

Takes(act) == act \in mix.acts /\ turns > 0 /\ turns' = turns - 1

(***************************************************************************)
(* Sessions, and the page coming and going.  The header fetches the domains  *)
(* for every login, the page for every login and when it is opened.         *)
(***************************************************************************)
Closed(p) == [p EXCEPT !.open = FALSE, !.visit = @ + 1, !.act = None, !.rows = Nothing,
                       !.edit = None]
TermsLogin(u) ==
  LET p == [page EXCEPT !.usr = u, !.sgen = @ + 1]
  IN /\ Takes("login") /\ page.usr = None
     /\ page' = p /\ Lists({List(p, "header", None)})
     /\ UNCHANGED <<asks, works, domains, terms, mix, drops, missed>>
\* The silent login after a change of the password.
TermsRelogin ==
  LET p == [page EXCEPT !.sgen = @ + 1]
  IN /\ Takes("relogin") /\ page.usr # None
     /\ page' = p
     /\ Lists({List(p, by, None) : by \in IF p.open THEN {"header", "page"} ELSE {"header"}})
     /\ UNCHANGED <<asks, works, domains, terms, mix, drops, missed>>
TermsLogout ==
  /\ Takes("logout") /\ page.usr # None
  /\ page' = [Closed(page) EXCEPT !.usr = None, !.sgen = @ + 1, !.list = Nothing, !.listed = FALSE]
  /\ UNCHANGED <<lists, asks, works, domains, terms, mix, drops, crossed, missed>>
OpenView ==
  /\ Takes("view") /\ page.usr # None /\ ~page.open
  /\ Renders([page EXCEPT !.open = TRUE], {}) /\ Lists({List(page, "page", None)})
  /\ UNCHANGED <<works, domains, terms, mix, drops>>
CloseView ==
  /\ Takes("view") /\ page.open /\ page' = Closed(page)
  /\ UNCHANGED <<lists, asks, works, domains, terms, mix, drops, crossed, missed>>

(***************************************************************************)
(* What the user does on the page.                                         *)
(***************************************************************************)
MayEdit(d) == page.list[d].owner # None \/ page.usr \in Managers
SelectDomain(d) ==
  /\ Takes("select") /\ d \in DOMAIN page.list /\ page.open /\ d # page.act
  /\ Renders([page EXCEPT !.act = d], {})
  /\ UNCHANGED <<lists, works, domains, terms, mix, drops, crossed>>
Submits(w) ==
  /\ page.open /\ works' = works \cup {w}
  /\ UNCHANGED <<page, lists, asks, domains, terms, mix, drops, crossed, missed>>
NotMade(x, row) == row = None /\ \A w \in works : w.id # x
AddDomain(d, name) ==
  Takes("add") /\ page.usr \in Makers /\ NotMade(d, domains[d])
  /\ Submits(Errand("addDomain", d, [owner |-> page.usr, name |-> name]))
RemoveDomain(d) ==
  /\ Takes("remove") /\ d \in DOMAIN page.list /\ MayEdit(d)
  /\ Submits(Errand("removeDomain", d, None))
SaveRename(d, name) ==
  /\ Takes("rename") /\ d \in DOMAIN page.list /\ MayEdit(d)
  /\ Submits(Errand("renameDomain", d, name))

\* Only a table that is shown and may be changed has these.
AtTable == page.open /\ Shown(page) # None /\ ~Locked(page)
AddTerm(t, draft) ==
  /\ Takes("term") /\ AtTable /\ page.usr \in Makers /\ NotMade(t, terms[t]) /\ draft.preferred # None
  /\ Submits(Errand("addTerm", t, Payload(page.act, draft)))
StartEdit(t) ==
  /\ AtTable /\ "edit" \in mix.acts /\ t \in DOMAIN page.rows /\ page.edit = None
  /\ page' = [page EXCEPT !.edit = [id |-> t, domain |-> page.rows[t].domain,
                                    draft |-> DraftOf(page.rows[t])]]
  /\ UNCHANGED <<lists, asks, works, domains, terms, mix, turns, drops, crossed, missed>>
CancelEdit ==
  /\ page.edit # None /\ page' = [page EXCEPT !.edit = None]
  /\ UNCHANGED <<lists, asks, works, domains, terms, mix, turns, drops, crossed, missed>>
\* The draft as it was read, or typed over; without a term to prefer nothing is sent.
SaveEdit ==
  /\ Takes("edit") /\ page.edit # None
  /\ \E draft \in Drafts \cup {page.edit.draft} :
       /\ draft.preferred # None
       /\ Submits(Errand("saveTerm", page.edit.id, Payload(page.edit.domain, draft)))
DeleteTerm(t) ==
  /\ Takes("term") /\ AtTable /\ t \in DOMAIN page.rows
  /\ Submits(Errand("deleteTerm", t, None))

(***************************************************************************)
(* The server's answers.                                                   *)
(***************************************************************************)
ServeList(l) ==
  /\ ~l.served
  /\ lists' = (lists \ {l}) \cup {[l EXCEPT !.served = TRUE, !.reply = DomainRows(l.user)]}
  /\ UNCHANGED <<page, asks, works, domains, terms, mix, turns, drops, crossed, missed>>
\* The terms of a domain that is gone are refused.
ServeAsk(a) ==
  /\ ~a.served
  /\ asks' = IF DomainVisible(a.domain, a.user)
             THEN (asks \ {a}) \cup {[a EXCEPT !.served = TRUE, !.reply = TermRows(a.domain)]}
             ELSE asks \ {a}
  /\ UNCHANGED <<page, lists, works, domains, terms, mix, turns, drops, crossed, missed>>

\* Is the request granted, and what becomes of the rows.
Granted(w) ==
  CASE w.kind = "addDomain" -> w.user \in Makers /\ ~LabelTaken(w.what.name, w.user, w.id)
    [] w.kind = "removeDomain" -> May(w.id, w.user)
    [] w.kind = "renameDomain" -> May(w.id, w.user) /\ ~LabelTaken(w.what, domains[w.id].owner, w.id)
    [] w.kind = "addTerm" -> w.user \in Makers /\ May(w.what.domain, w.user)
    [] OTHER -> terms[w.id] # None /\ May(terms[w.id].domain, w.user)
DomainsAfter(w) ==
  CASE w.kind = "addDomain" -> [domains EXCEPT ![w.id] = w.what]
    [] w.kind = "removeDomain" -> [domains EXCEPT ![w.id] = None]
    [] w.kind = "renameDomain" -> [domains EXCEPT ![w.id].name = w.what]
    [] OTHER -> domains
TermsAfter(w) ==
  CASE w.kind = "removeDomain" -> [t \in Terms |-> IF t \in TermsOf(w.id) THEN None ELSE terms[t]]
    [] w.kind = "addTerm" -> [terms EXCEPT ![w.id] = w.what]
    [] w.kind = "saveTerm" -> [terms EXCEPT ![w.id] = [w.what EXCEPT !.domain = terms[w.id].domain]]
    [] w.kind = "deleteTerm" -> [terms EXCEPT ![w.id] = None]
    [] OTHER -> terms
Mine(w) == page.open /\ w.visit = page.visit
ServeWork(w) ==
  /\ ~w.served
  /\ works' = (works \ {w}) \cup {[w EXCEPT !.served = TRUE, !.ok = Granted(w)]}
  /\ domains' = IF Granted(w) THEN DomainsAfter(w) ELSE domains
  /\ terms' = IF Granted(w) THEN TermsAfter(w) ELSE terms
  /\ missed' = IF Mine(w) THEN missed ELSE missed \cup {w.domain}
  /\ UNCHANGED <<page, lists, asks, mix, turns, drops, crossed>>

(***************************************************************************)
(* The answers at the page.                                                *)
(***************************************************************************)
\* A new domain is opened when the list that has it is there.
Follows(l, p) == IF l.then # None /\ p.open /\ l.visit = p.visit THEN [p EXCEPT !.act = l.then] ELSE p
AnswerList(l) ==
  LET p == IF Fresh(l) THEN [page EXCEPT !.list = l.reply, !.listed = TRUE] ELSE page
  IN /\ l.served /\ Renders(Follows(l, p), {}) /\ lists' = lists \ {l}
     /\ UNCHANGED <<works, domains, terms, mix, turns, drops, crossed>>
\* The last that was asked, and of the domain that is open.
AppliesInAnyOrder(a) == page.open /\ a.visit = page.visit /\ a.domain = page.act
AppliesForTheLast(a) == page.open /\ a.visit = page.visit
Applies(a) == page.open /\ a.visit = page.visit /\ a.no = page.no /\ a.domain = page.act
AnswerAsk(a) ==
  /\ a.served /\ asks' = asks \ {a}
  /\ page' = IF Applies(a) THEN [page EXCEPT !.rows = a.reply] ELSE page
  /\ UNCHANGED <<lists, works, domains, terms, mix, turns, drops, crossed, missed>>

\* Domains are fetched again, by a page that is gone too; terms by theirs.
Refresh(w) == {List(page, "page", IF w.kind = "addDomain" THEN w.id ELSE None)}
After(w) ==
  CASE w.kind = "removeDomain" /\ w.domain = w.id -> [page EXCEPT !.act = None]
    [] w.kind = "saveTerm" /\ w.table = page.table -> [page EXCEPT !.edit = None]
    [] OTHER -> page
AnswerWork(w) ==
  /\ w.served /\ works' = works \ {w}
  /\ IF w.ok /\ OnDomains(w) /\ page.usr # None THEN Lists(Refresh(w)) ELSE UNCHANGED <<lists, crossed>>
  /\ IF w.ok /\ Mine(w) THEN Renders(After(w), IF OnDomains(w) THEN {} ELSE {w.domain})
     ELSE UNCHANGED <<page, asks, missed>>
  /\ UNCHANGED <<domains, terms, mix, turns, drops>>

(***************************************************************************)
(* Failures: an error is shown, or nothing.  The header's list is emptied.   *)
(***************************************************************************)
TermsFail == drops > 0 /\ drops' = drops - 1
FailList(l) ==
  /\ TermsFail /\ lists' = lists \ {l} /\ crossed' = TRUE
  /\ IF l.by = "header" /\ Fresh(l) THEN Renders([page EXCEPT !.list = Nothing, !.listed = TRUE], {})
     ELSE UNCHANGED <<page, asks, missed>>
  /\ UNCHANGED <<works, domains, terms, mix, turns>>
FailAsk(a) ==
  /\ TermsFail /\ asks' = asks \ {a} /\ missed' = missed \cup {a.domain}
  /\ UNCHANGED <<page, lists, works, domains, terms, mix, turns, crossed>>
FailWork(w) ==
  /\ TermsFail /\ works' = works \ {w}
  /\ missed' = missed \cup {w.domain} /\ crossed' = TRUE
  /\ UNCHANGED <<page, lists, asks, domains, terms, mix, turns>>

(***************************************************************************)
(* The specification.                                                      *)
(***************************************************************************)
TermsInit ==
  /\ mix \in TermsScenes
  /\ page = [usr |-> None, sgen |-> 0, list |-> Nothing, listed |-> FALSE, open |-> FALSE,
             visit |-> 0, act |-> None, rows |-> Nothing, no |-> 0, edit |-> None, table |-> 0]
  /\ lists = {} /\ asks = {} /\ works = {}
  /\ domains = mix.domains /\ terms = mix.terms
  /\ turns = mix.turns /\ drops = mix.drops
  /\ crossed = FALSE /\ missed = {}

TermsServe == \/ \E l \in lists : ServeList(l)
         \/ \E a \in asks : ServeAsk(a)
         \/ \E w \in works : ServeWork(w)
TermsAnswer == \/ \E l \in lists : AnswerList(l)
          \/ \E a \in asks : AnswerAsk(a)
          \/ \E w \in works : AnswerWork(w)
TermsRefuse == \/ \E l \in lists : FailList(l)
          \/ \E a \in asks : FailAsk(a)
          \/ \E w \in works : FailWork(w)
TermsSession == (\E u \in People : TermsLogin(u)) \/ TermsRelogin \/ TermsLogout \/ OpenView \/ CloseView
ForDomains == \E d \in Domains :
  \/ SelectDomain(d) \/ RemoveDomain(d)
  \/ \E name \in Labels : AddDomain(d, name) \/ SaveRename(d, name)
ForTerms == \/ CancelEdit \/ SaveEdit
            \/ \E t \in Terms : StartEdit(t) \/ DeleteTerm(t) \/ \E draft \in Drafts : AddTerm(t, draft)

TermsNext == TermsServe \/ TermsAnswer \/ TermsRefuse \/ TermsSession \/ ForDomains \/ ForTerms

TermsSpec == TermsInit /\ [][TermsNext]_termsVars

(***************************************************************************)
(* What must hold.                                                         *)
(***************************************************************************)
Rows(f, S, R) == DOMAIN f \subseteq S /\ \A x \in DOMAIN f : f[x] \in R

TermsTypeOK ==
  /\ page.usr \in Known(People) /\ page.act \in Known(Domains)
  /\ Rows(page.list, Domains, Domain) /\ Rows(page.rows, Terms, Term)
  /\ page.edit # None => page.edit.id \in Terms /\ page.edit.draft \in Draft
  /\ {page.open, page.listed, crossed} \subseteq BOOLEAN
  /\ domains \in [Domains -> Known(Domain)] /\ terms \in [Terms -> Known(Term)]
  /\ \A t \in Terms : terms[t] # None => domains[terms[t].domain] # None
  /\ \A l \in lists : l.user \in People /\ Rows(l.reply, Domains, Domain)
  /\ \A a \in asks : a.domain \in Domains /\ (a.served => Rows(a.reply, Terms, Term))
  /\ \A w \in works : w.user \in People /\ w.domain \in Known(Domains)

\* The domains in the store are those of the user who is signed in: no list that was
\* asked for by the user before him lands (useHeaderData.ts and TerminologyView.tsx,
\* the guards of the two fetches).
DomainsAreOwn ==
  \A d \in DOMAIN page.list : page.usr # None /\ page.list[d].owner \in {None, page.usr}

\* The variables have their types, and a term belongs to a domain there is.  The domains
\* are the user's.  Rows are shown, and edited, only in the domain that is open and may
\* be changed: neither a late answer nor the table that is kept from one domain to the
\* next brings rows of another domain, with live buttons (TerminologyView.tsx:67-76,
\* 249-254).
RowsFit ==
  /\ TermsTypeOK /\ DomainsAreOwn
  /\ \A t \in DOMAIN page.rows : page.rows[t].domain = page.act
  /\ page.edit # None => page.edit.domain = Shown(page) /\ ~Locked(page)

\* At rest the rows are the server's: whatever overlapped, the last fetch was started
\* after the last change, and its answer was neither passed by an older one nor pushed
\* aside by the fetch of a domain that was left.
Resting == /\ \A w \in works : OnDomains(w) \/ w.domain # page.act
           /\ \A a \in asks : ~Applies(a)
RowsAreCurrent ==
  page.open /\ Shown(page) # None /\ domains[page.act] # None /\ page.act \notin missed /\ Resting
  => page.rows = TermRows(page.act)

\* So are the domains, unless two fetches of the list overlapped, which nothing orders,
\* or one was lost: every change of a domain is followed by a fetch, even if the page
\* is closed meanwhile.
DomainsAreCurrent ==
  page.listed /\ ~crossed /\ (\A l \in lists : ~Fresh(l)) /\ (\A w \in works : ~OnDomains(w))
  => page.list = DomainRows(page.usr)

\* The page at rest shows what the server has.
PageIsCurrent == RowsAreCurrent /\ DomainsAreCurrent
=============================================================================
