------------------------------ MODULE Library ------------------------------
(***************************************************************************)
(* What the accounts keep on the server: documents, the folders they are   *)
(* in, checking profiles, terminology domains and their terms.             *)
(*                                                                         *)
(* A request runs in a thread of its own and opens a connection for each   *)
(* statement it makes: what it has read may be gone when it writes.  Rows  *)
(* are owned by a user or by nobody, which makes them global: seen by      *)
(* everyone, changed by administrators.  Ids are never used again.         *)
(*                                                                         *)
(* api/{documents,folders,profiles,terminology}.py and their services,     *)
(* services/{seed,seed_profiles}.py, the order of main.py.                 *)
(***************************************************************************)
EXTENDS Integers, FiniteSets, FiniteSetsExt, Sequences, TLC

CONSTANTS
  Users, Admins,
  Nobody,         \* the owner of a global row; no folder, no writer
  Ids, Kind,      \* row ids of all four tables, the table of each
  Docs,           \* document ids
  Names,          \* what a user may call a row
  Standard, Example, ProductDocs,  \* the names of the seeds
  Reqs,
  Loads           \* the mixes tried: what is there, who asks for what, how often the process dies

Kinds == {"folder", "profile", "domain", "term"}

\* The statements of a request, one connection each, router by router.  Folders
\* are found by the statement that writes them; who may create at all (the
\* features of a plan) is who asks.
FolderPlan == [
  createFolder  |-> <<"insert">>,
  renameFolder  |-> <<"find", "write", "reread">>,
  setDefaults   |-> <<"vet", "find", "write", "reread">>,
  deleteFolder  |-> <<"delete">>]

\* The router finds the profile, the store finds it again and merges into it.
ProfilePlan == [
  createProfile |-> <<"prune", "insert">>,
  updateProfile |-> <<"find", "prune", "again", "write">>,
  resetProfile  |-> <<"find", "again", "write">>,
  deleteProfile |-> <<"find", "again", "delete">>]

\* The domain is deleted first, then swept from the profiles.
DomainPlan == [
  createDomain  |-> <<"insert">>,
  updateDomain  |-> <<"find", "write">>,
  describeDomain|-> <<"find", "write">>,
  deleteDomain  |-> <<"find", "delete", "sweepRead", "sweep">>]
TermPlan == [
  createTerm    |-> <<"parent", "insert">>,
  updateTerm    |-> <<"find", "write">>,
  deleteTerm    |-> <<"find", "delete">>]

\* A folder is checked before a document goes into it; a title is thought up
\* between the read of the text and the write of the name.
DocumentPlan == [
  newDocument   |-> <<"folder", "insertDocument">>,
  save          |-> <<"read", "put", "latest">>,
  rename        |-> <<"read", "put", "latest">>,
  move          |-> <<"folder", "file">>,
  title         |-> <<"read", "name", "named">>,
  drop          |-> <<"drop">>]

Ops == UNION {DOMAIN FolderPlan, DOMAIN ProfilePlan, DOMAIN DomainPlan, DOMAIN TermPlan,
              DOMAIN DocumentPlan}
Plan == [op \in Ops |->
  CASE op \in DOMAIN FolderPlan -> FolderPlan[op]
    [] op \in DOMAIN ProfilePlan -> ProfilePlan[op]
    [] op \in DOMAIN DomainPlan -> DomainPlan[op]
    [] op \in DOMAIN TermPlan -> TermPlan[op]
    [] op \in DOMAIN DocumentPlan -> DocumentPlan[op]]
KindOf(op) ==
  CASE op \in DOMAIN FolderPlan -> "folder"
    [] op \in DOMAIN ProfilePlan -> "profile"
    [] op \in DOMAIN DomainPlan -> "domain"
    [] op \in DOMAIN TermPlan -> "term"
Creations == {"createFolder", "createProfile", "createDomain", "createTerm"}

Row == [there : BOOLEAN, born : BOOLEAN, owner : Users \cup {Nobody},
        name : Names \cup {"none", Standard, Example, ProductDocs},
        std : BOOLEAN, seed : BOOLEAN, refs : SUBSET Ids, by : Reqs \cup {Nobody}]
Document == [there : BOOLEAN, born : BOOLEAN, owner : Users \cup {Nobody}, rev : Nat,
             text : Reqs \cup {Nobody}, source : {"fallback", "llm", "user"},
             folder : Ids \cup {Nobody}]

\* What may be there before: rows of this program.  Profiles refer to domains that
\* exist, documents lie in their owners' folders, and the seeds are what start-up
\* made of them, or a table that has room for them.
Stands(rows, docs) ==
  /\ DOMAIN rows \subseteq Ids /\ DOMAIN docs \subseteq Docs
  /\ \A i \in DOMAIN rows : rows[i] \in Row /\ rows[i].there /\ rows[i].born
  /\ \A p \in DOMAIN rows : Kind[p] = "profile" =>
       \A d \in rows[p].refs : Kind[d] = "domain" /\ d \in DOMAIN rows
  /\ \A d \in DOMAIN docs :
       /\ docs[d] \in Document /\ docs[d].there /\ docs[d].born
       /\ docs[d].folder # Nobody =>
            /\ docs[d].folder \in DOMAIN rows /\ Kind[docs[d].folder] = "folder"
            /\ rows[docs[d].folder].owner = docs[d].owner
Seeded(rows) ==
  /\ \E i \in DOMAIN rows : Kind[i] = "profile" /\ rows[i].std
  /\ \A i, j \in DOMAIN rows : Kind[i] = "profile" /\ Kind[j] = "profile" =>
       /\ rows[i].std /\ rows[j].std => i = j
       /\ rows[i].seed /\ ~rows[i].std /\ rows[j].seed /\ ~rows[j].std => i = j
Seedable(rows) ==
  /\ \A i \in DOMAIN rows : Kind[i] = "profile" =>
       ~rows[i].std /\ ~rows[i].seed /\ ~(rows[i].owner = Nobody /\ rows[i].name = Standard)
  /\ \E i \in Ids : Kind[i] = "profile" /\ i \notin DOMAIN rows

ASSUME UsersAssumption == Admins \subseteq Users /\ Nobody \notin Users /\ Nobody \notin Ids /\ Nobody \notin Reqs
ASSUME IdsAssumption ==
  /\ IsFiniteSet(Ids) /\ Ids \subseteq Nat \ {0} /\ Kind \in [Ids -> Kinds]
  /\ IsFiniteSet(Docs) /\ Docs \subseteq Nat
ASSUME LoadsAssumption ==
  \A l \in Loads :
    /\ l.restarts \in Nat /\ l.seeded \in BOOLEAN
    /\ \A r \in Reqs : l.may[r] \subseteq Users \X Ops
    /\ Stands(l.rows, l.docs)
    /\ IF l.seeded THEN Seeded(l.rows) ELSE Seedable(l.rows)

VARIABLES
  row,      \* folders, profiles, domains, terms
  doc,      \* documents
  req,
  server,   \* "down", "up", or the seed that is next
  marker,   \* profile_seed_markers
  load, restarts,
  strayed   \* history: <<row, ref>>: written to refer to ref after ref was deleted,
            \* or left so by a process that died

process == <<server, marker, load, restarts>>
vars == <<row, doc, req, process, strayed>>

Blank == [there |-> FALSE, born |-> FALSE, owner |-> Nobody, name |-> "none", std |-> FALSE,
          seed |-> FALSE, refs |-> {}, by |-> Nobody]
NoDocument == [there |-> FALSE, born |-> FALSE, owner |-> Nobody, rev |-> 0, text |-> Nobody,
               source |-> "fallback", folder |-> Nobody]
NoRequest == [user |-> Nobody, op |-> "none", id |-> 0, name |-> "none", refs |-> {}, folder |-> Nobody,
              rev |-> 0, row |-> Blank, text |-> Nobody, source |-> "none", read |-> {}, at |-> 0,
              status |-> "none"]

Of(kind) == {i \in Ids : Kind[i] = kind}
There(kind) == {i \in Of(kind) : row[i].there}
Unborn(kind) == {i \in Of(kind) : ~row[i].born}
UnbornDocs == {d \in Docs : ~doc[d].born}

\* A term belongs to whoever its domain does; folders are never global.
Owner(i) == IF Kind[i] = "term" THEN row[CHOOSE d \in row[i].refs : TRUE].owner ELSE row[i].owner
Visible(u, i) ==
  row[i].there /\ (Owner(i) = u \/ (Kind[i] # "folder" /\ Owner(i) = Nobody))
ReadOnly(u, i) == Owner(i) = Nobody /\ u \notin Admins
VisibleDomains(u) == {i \in There("domain") : Visible(u, i)}
OwnFolder(u, f) == f = Nobody \/ (row[f].there /\ row[f].owner = u)
Taken(kind, owner, name, but) ==
  kind # "term" /\ \E i \in There(kind) \ {but} : row[i].owner = owner /\ row[i].name = name

Init ==
  /\ load \in Loads /\ restarts = 0
  /\ row = [i \in Ids |-> IF i \in DOMAIN load.rows THEN load.rows[i] ELSE Blank]
  /\ doc = [d \in Docs |-> IF d \in DOMAIN load.docs THEN load.docs[d] ELSE NoDocument]
  /\ req = [r \in Reqs |-> NoRequest]
  /\ server = (IF load.seeded THEN "up" ELSE "down") /\ marker = load.seeded
  /\ strayed = {}

-----------------------------------------------------------------------------
(* A request and its statements.                                           *)

Doing(r, what) == req[r].at > 0 /\ Plan[req[r].op][req[r].at] = what
Moves(r, q) == req' = [req EXCEPT ![r] = q]
Ends(r, status) ==
  Moves(r, [NoRequest EXCEPT !.user = req[r].user, !.op = req[r].op, !.id = req[r].id,
                             !.status = status])
On(r, q) ==
  IF q.at = Len(Plan[q.op]) THEN Ends(r, "ok") ELSE Moves(r, [q EXCEPT !.at = @ + 1])
Reads(r, q) == On(r, q) /\ UNCHANGED <<row, doc, process, strayed>>
Refuses(r, status) == Ends(r, status) /\ UNCHANGED <<row, doc, process, strayed>>

\* References whose target is gone when they are stored, in a profile or in a document.
Documents == 0
Strays(what, refs) == {<<what, i>> : i \in {j \in refs : ~row[j].there}}
Stores(i, new) ==
  /\ row' = [row EXCEPT ![i] = new]
  /\ strayed' = strayed \cup (IF Kind[i] = "profile" THEN Strays(i, new.refs) ELSE {})
  /\ UNCHANGED <<doc, process>>
File(d, new) ==
  /\ doc' = [doc EXCEPT ![d] = new]
  /\ strayed' = strayed \cup Strays(Documents, {new.folder} \ {Nobody})
  /\ UNCHANGED <<row, process>>

\* What a client asks for it has seen: rows, domains, folders, a revision.
Ask(r) ==
  \E ask \in load.may[r] :
    LET u == ask[1]  op == ask[2]
        q == [NoRequest EXCEPT !.user = u, !.op = op, !.at = 1]
    IN
    /\ server = "up" /\ req[r] = NoRequest
    /\ \/ /\ op \in Creations
          /\ \E name \in Names, refs \in SUBSET VisibleDomains(u) :
               /\ Cardinality(refs) <= 1
               /\ op = "createTerm" => refs # {}
               /\ op \in {"createFolder", "createDomain"} => refs = {}
               /\ Moves(r, [q EXCEPT !.name = name, !.refs = refs])
       \/ /\ op \in Ops \ (Creations \cup DOMAIN DocumentPlan)
          /\ \E i \in {j \in There(KindOf(op)) : Visible(u, j)}, refs \in SUBSET VisibleDomains(u) :
             \E name \in Names \cup {row[i].name} :
               /\ op \in {"updateProfile", "setDefaults"} \/ refs = {}
               /\ op \in {"updateProfile", "updateDomain", "renameFolder"} \/ name = row[i].name
               /\ Moves(r, [q EXCEPT !.id = i, !.name = name, !.refs = refs])
       \/ /\ op = "newDocument"
          /\ \E f \in {g \in There("folder") : row[g].owner = u} \cup {Nobody} :
               Moves(r, [q EXCEPT !.folder = f])
       \/ /\ op \in DOMAIN DocumentPlan \ {"newDocument"}
          /\ \E d \in {e \in Docs : doc[e].there /\ doc[e].owner = u},
                f \in {g \in There("folder") : row[g].owner = u} \cup {Nobody} :
               /\ op = "move" \/ f = Nobody
               /\ Moves(r, [q EXCEPT !.id = d, !.folder = f, !.rev = doc[d].rev])
    /\ UNCHANGED <<row, doc, process, strayed>>

-----------------------------------------------------------------------------
(* Rows.                                                                    *)

\* get_profile, get_domain, get_folder, the row of a term; then what the API
\* or the store refuses.
Find(r) ==
  LET q == req[r]  i == q.id
      standard == \/ q.op = "updateProfile" /\ row[i].std /\ q.name # row[i].name
                  \/ q.op = "deleteProfile" /\ row[i].std
                  \/ q.op = "resetProfile" /\ ~row[i].std
  IN
  /\ Doing(r, "find")
  /\ IF ~Visible(q.user, i) THEN Refuses(r, "missing")
     ELSE IF ReadOnly(q.user, i) THEN Refuses(r, "forbidden")
     ELSE IF standard THEN Refuses(r, "conflict")
     ELSE Reads(r, [q EXCEPT !.row = row[i]])

\* The store reads the profile once more.
Again(r) ==
  LET q == req[r] IN
  /\ Doing(r, "again")
  /\ IF ~row[q.id].there THEN Refuses(r, IF q.op = "deleteProfile" THEN "ok" ELSE "error")
     ELSE Reads(r, [q EXCEPT !.row = row[q.id]])

\* Unknown domains are dropped from a profile and refused for a folder.
Prune(r) ==
  /\ Doing(r, "prune")
  /\ Reads(r, [req[r] EXCEPT !.refs = @ \cap VisibleDomains(req[r].user)])
Vet(r) ==
  /\ Doing(r, "vet")
  /\ IF req[r].refs \subseteq VisibleDomains(req[r].user) THEN Reads(r, req[r])
     ELSE Refuses(r, "unknown")

Parent(r) ==
  LET q == req[r]  d == CHOOSE x \in q.refs : TRUE IN
  /\ Doing(r, "parent")
  /\ IF ~Visible(q.user, d) THEN Refuses(r, "missing")
     ELSE IF ReadOnly(q.user, d) THEN Refuses(r, "forbidden")
     ELSE Reads(r, q)

\* The unique index decides, and the foreign key of a term.
Insert(r) ==
  LET q == req[r]  kind == KindOf(q.op) IN
  /\ Doing(r, "insert")
  /\ IF Taken(kind, q.user, q.name, 0) THEN Refuses(r, "conflict")
     ELSE IF kind = "term" /\ Strays(0, q.refs) # {} THEN Refuses(r, "error")
     ELSE /\ Unborn(kind) # {}
          /\ Stores(Min(Unborn(kind)),
                    [there |-> TRUE, born |-> TRUE, owner |-> q.user, name |-> q.name,
                     std |-> FALSE, seed |-> FALSE, refs |-> q.refs, by |-> r])
          /\ On(r, q)

\* UPDATE ... WHERE id: nothing happens to a row that is gone.
Merged(q, r) ==
  CASE q.op = "updateProfile" -> [q.row EXCEPT !.name = q.name, !.refs = q.refs, !.by = r]
    [] q.op = "resetProfile" -> [q.row EXCEPT !.refs = {}, !.by = r]
    [] q.op = "updateDomain" -> [q.row EXCEPT !.name = q.name, !.by = r]
    [] q.op \in {"describeDomain", "updateTerm"} -> [q.row EXCEPT !.by = r]
    [] q.op = "renameFolder" -> [row[q.id] EXCEPT !.name = q.name, !.by = r]
    [] q.op = "setDefaults" -> [row[q.id] EXCEPT !.refs = q.refs, !.by = r]
Update(r) ==
  LET q == req[r]  i == q.id IN
  /\ Doing(r, "write")
  /\ IF ~row[i].there THEN Reads(r, q)
     ELSE IF Taken(Kind[i], row[i].owner, Merged(q, r).name, i) THEN Refuses(r, "conflict")
     ELSE Stores(i, Merged(q, r)) /\ On(r, q)
Reread(r) ==
  /\ Doing(r, "reread")
  /\ IF row[req[r].id].there THEN Reads(r, req[r]) ELSE Refuses(r, "missing")

\* DELETE; the terms of a domain go with it, the documents of a folder stay.
Unfiled(f, u) ==
  [d \in Docs |-> IF doc[d].folder = f /\ doc[d].owner = u
                    THEN [doc[d] EXCEPT !.folder = Nobody] ELSE doc[d]]

Delete(r) ==
  LET q == req[r]  i == q.id
      gone == {i} \cup {t \in There("term") : i \in row[t].refs}
  IN
  /\ Doing(r, "delete")
  /\ IF ~row[i].there
       THEN Refuses(r, IF q.op = "deleteProfile" THEN "ok" ELSE "missing")
     ELSE /\ row' = [j \in Ids |-> IF j \in gone THEN [row[j] EXCEPT !.there = FALSE, !.refs = {}]
                                     ELSE row[j]]
          /\ doc' = IF Kind[i] = "folder" THEN Unfiled(i, q.user) ELSE doc
          /\ On(r, q)
          /\ UNCHANGED <<process, strayed>>

\* remove_domain_everywhere: the profiles of all owners, read and then written.
Swept(d, u) == {p \in There("profile") : d \in row[p].refs}
SweptOfOwner(d, u) == {p \in There("profile") : d \in row[p].refs /\ row[p].owner = u}
ToSweep(d, u) == Swept(d, u)

SweepRead(r) ==
  LET q == req[r] IN
  /\ Doing(r, "sweepRead")
  /\ Reads(r, [q EXCEPT !.read = {<<p, row[p].refs>> : p \in ToSweep(q.id, q.user)}])
Sweep(r) ==
  LET q == req[r]
      found == {x \in q.read : row[x[1]].there}
  IN
  /\ Doing(r, "sweep")
  /\ row' = [i \in Ids |->
       IF \E x \in found : x[1] = i
         THEN [row[i] EXCEPT !.refs = (CHOOSE x \in found : x[1] = i)[2] \ {q.id}]
         ELSE row[i]]
  /\ strayed' = strayed \cup UNION {Strays(x[1], x[2] \ {q.id}) : x \in found}
  /\ On(r, q)
  /\ UNCHANGED <<doc, process>>

-----------------------------------------------------------------------------
(* Documents.                                                              *)

FolderKnown(r) ==
  /\ Doing(r, "folder")
  /\ IF OwnFolder(req[r].user, req[r].folder) THEN Reads(r, req[r]) ELSE Refuses(r, "unknown")
InsertDocument(r) ==
  LET q == req[r] IN
  /\ Doing(r, "insertDocument") /\ UnbornDocs # {}
  /\ File(Min(UnbornDocs), [there |-> TRUE, born |-> TRUE, owner |-> q.user, rev |-> 0, text |-> r,
                            source |-> "fallback", folder |-> q.folder])
  /\ On(r, q)
Move(r) ==
  LET q == req[r] IN
  /\ Doing(r, "file")
  /\ IF ~doc[q.id].there THEN Refuses(r, "missing")
     ELSE File(q.id, [doc[q.id] EXCEPT !.folder = q.folder]) /\ On(r, q)
SetFolder(r) == Move(r)

\* update_document and generate_name read the document first; a title already
\* given ends it there, and so does the gate's refusal.
ReadDocument(r) ==
  LET q == req[r]  d == doc[q.id] IN
  /\ Doing(r, "read")
  /\ \/ ~d.there /\ Refuses(r, "missing")
     \/ d.there /\ q.op = "title" /\ Refuses(r, "ok")
     \/ d.there /\ (q.op = "title" => d.source = "fallback") /\ Reads(r, [q EXCEPT !.source = d.source, !.text = d.text])

\* One UPDATE with the columns that were read, if the revision is the caller's.
Put(r) ==
  LET q == req[r]  d == q.id IN
  /\ Doing(r, "put")
  /\ IF doc[d].there /\ doc[d].rev = q.rev
       THEN /\ doc' = [doc EXCEPT ![d] = [doc[d] EXCEPT !.rev = @ + 1,
                                    !.text = IF q.op = "save" THEN r ELSE q.text,
                                    !.source = IF q.op = "rename" THEN "user" ELSE q.source]]
            /\ Ends(r, "ok") /\ UNCHANGED <<row, process, strayed>>
       ELSE Reads(r, q)
Latest(r) ==
  /\ Doing(r, "latest")
  /\ Refuses(r, IF doc[req[r].id].there THEN "conflict" ELSE "missing")

\* set_name of what the model found, or of the first words: never over a name
\* that came in between.
Renamable(d) == doc[d].there /\ doc[d].source = "fallback"
RenamableAlways(d) == doc[d].there
Nameable(d) == Renamable(d)
SetName(r) ==
  LET q == req[r]  d == q.id IN
  /\ Doing(r, "name")
  /\ \E source \in {"llm", "fallback"} :
       doc' = IF Nameable(d) THEN [doc EXCEPT ![d].source = source] ELSE doc
  /\ On(r, q)
  /\ UNCHANGED <<row, process, strayed>>
Named(r) ==
  /\ Doing(r, "named")
  /\ Refuses(r, IF doc[req[r].id].there THEN "ok" ELSE "error")

Drop(r) ==
  LET q == req[r]  d == q.id IN
  /\ Doing(r, "drop")
  /\ IF ~doc[d].there THEN Refuses(r, "missing")
     ELSE /\ doc' = [doc EXCEPT ![d] = [NoDocument EXCEPT !.born = TRUE]]
          /\ Ends(r, "ok") /\ UNCHANGED <<row, process, strayed>>

-----------------------------------------------------------------------------
(* Start-up: the seeds, in the order of main.py.                            *)

SeedRow(name, std, refs) ==
  [there |-> TRUE, born |-> TRUE, owner |-> Nobody, name |-> name, std |-> std, seed |-> TRUE,
   refs |-> refs, by |-> Nobody]
Global(kind, name, std) ==
  IF Taken(kind, Nobody, name, 0) \/ Unborn(kind) = {} THEN row
  ELSE [row EXCEPT ![Min(Unborn(kind))] = SeedRow(name, std, {})]
Seeds(from, to, rows) ==
  /\ server = from /\ server' = to /\ row' = rows
  /\ UNCHANGED <<doc, req, load, restarts, strayed>>

NoGlobalDomain == \A i \in There("domain") : row[i].owner # Nobody
StandardMissing == \A i \in There("profile") : ~row[i].std
ExampleUnmarked == ~marker
ExampleMissing == ~Taken("profile", Nobody, Example, 0)
ExampleDue == ExampleUnmarked

SeedDomain ==
  /\ IF NoGlobalDomain /\ Unborn("domain") # {}
       THEN Seeds("down", "terms", Global("domain", ProductDocs, FALSE))
       ELSE Seeds("down", "standard", row)
  /\ UNCHANGED marker
SeedTerms ==
  /\ \E d \in There("domain") :
       /\ row[d].owner = Nobody
       /\ Seeds("terms", "standard",
                IF Unborn("term") = {} THEN row
                ELSE [row EXCEPT ![Min(Unborn("term"))] = SeedRow("none", FALSE, {d})])
  /\ UNCHANGED marker
SeedStandard ==
  /\ Seeds("standard", IF ExampleDue THEN "example" ELSE "up",
           IF StandardMissing THEN Global("profile", Standard, TRUE) ELSE row)
  /\ UNCHANGED marker
SeedExample ==
  /\ Seeds("example", "mark", Global("profile", Example, FALSE))
  /\ UNCHANGED marker
SeedMarker == Seeds("mark", "up", row) /\ marker' = TRUE

\* The process dies; a deleted domain whose sweep was not made stays in profiles.
Crash ==
  /\ server # "down" /\ restarts < load.restarts
  /\ server' = "down" /\ restarts' = restarts + 1
  /\ strayed' = strayed \cup UNION {Strays(p, row[p].refs) : p \in There("profile")}
  /\ req' = [r \in Reqs |-> IF req[r].at = 0 THEN req[r]
               ELSE [NoRequest EXCEPT !.user = req[r].user, !.op = req[r].op, !.status = "lost"]]
  /\ UNCHANGED <<row, doc, marker, load>>

-----------------------------------------------------------------------------
Statement(r) ==
  \/ Find(r) \/ Again(r) \/ Prune(r) \/ Vet(r) \/ Parent(r) \/ Insert(r) \/ Update(r)
  \/ Reread(r) \/ Delete(r) \/ SweepRead(r) \/ Sweep(r)
  \/ FolderKnown(r) \/ InsertDocument(r) \/ SetFolder(r) \/ ReadDocument(r) \/ Put(r)
  \/ Latest(r) \/ SetName(r) \/ Named(r) \/ Drop(r)
Next ==
  \/ \E r \in Reqs : Ask(r) \/ Statement(r)
  \/ SeedDomain \/ SeedTerms \/ SeedStandard \/ SeedExample \/ SeedMarker \/ Crash

Spec == Init /\ [][Next]_vars

-----------------------------------------------------------------------------
Request ==
  [user : Users \cup {Nobody}, op : Ops \cup {"none"}, id : Ids \cup Docs \cup {0},
   name : Names \cup {"none", Standard, Example, ProductDocs}, refs : SUBSET Ids,
   folder : Ids \cup {Nobody}, rev : Nat, row : Row, text : Reqs \cup {Nobody},
   source : {"none", "fallback", "llm", "user"}, read : SUBSET (Ids \X SUBSET Ids), at : Nat,
   status : {"none", "ok", "missing", "forbidden", "conflict", "unknown", "error", "lost"}]
TypeOK ==
  /\ row \in [Ids -> Row] /\ doc \in [Docs -> Document] /\ req \in [Reqs -> Request]
  /\ server \in {"down", "terms", "standard", "example", "mark", "up"}
  /\ marker \in BOOLEAN /\ load \in Loads /\ restarts \in Nat
  /\ strayed \subseteq (Ids \cup {Documents}) \X Ids

(* The Standard profile and the example are made once, however often the     *)
(* process dies while it seeds and whatever administrators rename or delete *)
(* meanwhile: a deleted example stays deleted, and a running server has     *)
(* exactly one Standard profile (seed_profiles.py:3, :207).                 *)
SeededOnce ==
  /\ Cardinality({i \in Of("profile") : row[i].seed /\ ~row[i].std}) <= 1
  /\ server = "up" => Cardinality({i \in There("profile") : row[i].std}) = 1

(* update_document writes back every column it read before, asked for or    *)
(* not: still, an accepted write puts back neither an older text nor, over  *)
(* the name a user chose, an older name, and a title that the model found   *)
(* meanwhile does not replace it (documents.py:256, :323).                  *)
EditsAreKept ==
  [][\A d \in Docs : doc[d].there /\ doc'[d].there =>
       /\ doc'[d].text # doc[d].text => req[doc'[d].text].at > 0
       /\ doc[d].source = "user" => doc'[d].source = "user"]_vars

(* A deleted domain leaves every profile that refers to it, whoever owns    *)
(* it, and a deleted folder every document, unless the reference was stored *)
(* after the deletion, by a request that had checked it before              *)
(* (profiles.py:334, folders.py:238).                                       *)
Sweeping(d) == \E r \in Reqs : req[r].op = "deleteDomain" /\ req[r].id = d /\ req[r].at > 0
SweepsAreWhole ==
  /\ \A p \in There("profile") : \A d \in row[p].refs :
       row[d].there \/ Sweeping(d) \/ <<p, d>> \in strayed
  /\ \A d \in Docs : doc[d].folder # Nobody =>
       row[doc[d].folder].there \/ <<Documents, doc[d].folder>> \in strayed
=============================================================================
