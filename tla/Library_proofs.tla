--------------------------- MODULE Library_proofs ---------------------------
(***************************************************************************)
(* The library, for any users, rows, documents and requests, any mixes of  *)
(* what they ask and any number of restarts.                               *)
(*                                                                         *)
(* A request makes its statements one by one, and what it has read may be  *)
(* gone when it writes.  So the invariant says of each request what it may *)
(* rely on (Fits), and Later is what any statement of another one leaves of*)
(* that: rows and documents are born once, keep their owner and what they  *)
(* were seeded as, never return, and change their text only with their     *)
(* revision.                                                               *)
(***************************************************************************)
EXTENDS Library, FiniteSetTheorems, WellFoundedInduction, TLAPS

Folders == DOMAIN FolderPlan
Profiles == DOMAIN ProfilePlan
Documenting == DOMAIN DocumentPlan
OnRow(q) == q.op \in Ops \ (Creations \cup Documenting)
OnDocument(q) == q.op \in Documenting \ {"newDocument"}
Merges == {"updateProfile", "resetProfile", "updateDomain", "describeDomain", "updateTerm"}
Writes == {"save", "rename"}
Sweeper(q) == q.op = "deleteDomain" /\ q.at > 2

\* What a row is for ever.
Alike(a, b) == a.owner = b.owner /\ a.std = b.std /\ a.seed = b.seed
FolderOf(rows, u, f) == f \in Ids /\ Kind[f] = "folder" /\ rows[f].born /\ rows[f].owner = u

(* What a request may rely on between its statements. *)
Aimed(q, rows, docs) ==
  /\ OnRow(q) => q.id \in Ids /\ Kind[q.id] = KindOf(q.op) /\ rows[q.id].born
  /\ OnRow(q) /\ q.op \in Folders => rows[q.id].owner = q.user
  /\ OnDocument(q) =>
       /\ q.id \in Docs /\ docs[q.id].born
       /\ docs[q.id].there => docs[q.id].owner = q.user
  /\ q.op \in Documenting /\ q.folder # Nobody => FolderOf(rows, q.user, q.folder)
  /\ q.op \in Profiles => \A d \in q.refs : Kind[d] = "domain"
Holding(q, rows) ==
  /\ q.op \in Merges /\ q.at > 1 => q.row.there /\ q.row.born /\ Alike(q.row, rows[q.id])
  /\ q.op = "deleteProfile" /\ q.at > 1 => ~rows[q.id].std
  /\ q.op \in Writes /\ q.at = 2 => q.source # "none"
SweepsOn(q, rows, stray) ==
  Sweeper(q) =>
    /\ ~rows[q.id].there
    /\ q.at = 4 =>
         /\ \A x \in q.read : Kind[x[1]] = "profile" /\ \A d \in x[2] : Kind[d] = "domain"
         /\ \A x, y \in q.read : x[1] = y[1] => x = y
         /\ \A p \in Ids : Kind[p] = "profile" /\ rows[p].there /\ q.id \in rows[p].refs =>
              <<p, q.id>> \in stray \/ \E x \in q.read : x[1] = p
Dated(q, docs) ==
  q.op \in Writes /\ docs[q.id].there =>
    /\ q.rev <= docs[q.id].rev
    /\ q.at = 2 /\ q.rev = docs[q.id].rev =>
         q.text = docs[q.id].text /\ (docs[q.id].source = "user" => q.source = "user")
Placed(q) == q.op \in Ops /\ q.at \in 1..Len(Plan[q.op])
Fits(q, rows, docs, stray) ==
  /\ Placed(q) /\ Aimed(q, rows, docs) /\ Holding(q, rows)
  /\ SweepsOn(q, rows, stray) /\ Dated(q, docs)
Requests == \A r \in Reqs : req[r].at > 0 => server = "up" /\ Fits(req[r], row, doc, strayed)

(* The tables. *)
Living(rows, docs) ==
  /\ \A i \in Ids : rows[i].there => rows[i].born
  /\ \A d \in Docs : docs[d].there => docs[d].born
Refers(rows) ==
  \A p \in Ids : Kind[p] = "profile" => \A d \in rows[p].refs : Kind[d] = "domain"
Filed(rows, docs, stray) ==
  \A d \in Docs : docs[d].folder # Nobody =>
    /\ FolderOf(rows, docs[d].owner, docs[d].folder)
    /\ rows[docs[d].folder].there \/ <<Documents, docs[d].folder>> \in stray
BeingSwept(d) == \E r \in Reqs : Sweeper(req[r]) /\ req[r].id = d
Referred ==
  \A p \in Ids : Kind[p] = "profile" /\ row[p].there =>
    \A d \in row[p].refs : row[d].there \/ BeingSwept(d) \/ <<p, d>> \in strayed

(* The seeds. *)
IsStandard(rows, i) == i \in Ids /\ Kind[i] = "profile" /\ rows[i].std
IsExample(rows, i) == i \in Ids /\ Kind[i] = "profile" /\ rows[i].seed /\ ~rows[i].std
NoStandard(rows) == \A i \in Ids : ~IsStandard(rows, i)
OnlyOnce(rows) ==
  /\ \A i, j \in Ids : IsExample(rows, i) /\ IsExample(rows, j) => i = j
  /\ \A i, j \in Ids : IsStandard(rows, i) /\ IsStandard(rows, j) => i = j
  /\ \A i \in Ids : IsStandard(rows, i) => rows[i].there
Starting(rows, srv, mark) ==
  /\ ~mark => \A i \in Ids : IsExample(rows, i) =>
       rows[i].there /\ rows[i].owner = Nobody /\ rows[i].name = Example
  /\ srv \in {"example", "mark", "up"} => ~NoStandard(rows)
  /\ NoStandard(rows) =>
       /\ \A i \in Ids : ~IsExample(rows, i)
       /\ \A i \in Ids : Kind[i] = "profile" /\ rows[i].there =>
            ~(rows[i].owner = Nobody /\ rows[i].name = Standard)
       /\ \E i \in Ids : Kind[i] = "profile" /\ ~rows[i].born
  /\ srv = "up" => mark
  /\ srv \in {"example", "mark"} => ~mark
SeedsFit == OnlyOnce(row) /\ Starting(row, server, marker)

Inv ==
  /\ TypeOK /\ Requests /\ Living(row, doc) /\ Refers(row) /\ Filed(row, doc, strayed)
  /\ Referred /\ SeedsFit

-----------------------------------------------------------------------------
(* The plans, statement by statement. *)
LEMMA PlansOfRows ==
  /\ Plan["createFolder"] = <<"insert">>
  /\ Plan["renameFolder"] = <<"find", "write", "reread">>
  /\ Plan["setDefaults"] = <<"vet", "find", "write", "reread">>
  /\ Plan["deleteFolder"] = <<"delete">>
  /\ Plan["createProfile"] = <<"prune", "insert">>
  /\ Plan["updateProfile"] = <<"find", "prune", "again", "write">>
  /\ Plan["resetProfile"] = <<"find", "again", "write">>
  /\ Plan["deleteProfile"] = <<"find", "again", "delete">>
BY DEF Plan, Ops, FolderPlan, ProfilePlan, DomainPlan, TermPlan, DocumentPlan

LEMMA PlansOfDomains ==
  /\ Plan["createDomain"] = <<"insert">>
  /\ Plan["updateDomain"] = <<"find", "write">>
  /\ Plan["describeDomain"] = <<"find", "write">>
  /\ Plan["deleteDomain"] = <<"find", "delete", "sweepRead", "sweep">>
  /\ Plan["createTerm"] = <<"parent", "insert">>
  /\ Plan["updateTerm"] = <<"find", "write">>
  /\ Plan["deleteTerm"] = <<"find", "delete">>
BY DEF Plan, Ops, FolderPlan, ProfilePlan, DomainPlan, TermPlan, DocumentPlan

LEMMA PlansOfDocuments ==
  /\ Plan["newDocument"] = <<"folder", "insertDocument">>
  /\ Plan["save"] = <<"read", "put", "latest">>
  /\ Plan["rename"] = <<"read", "put", "latest">>
  /\ Plan["move"] = <<"folder", "file">>
  /\ Plan["title"] = <<"read", "name", "named">>
  /\ Plan["drop"] = <<"drop">>
BY DEF Plan, Ops, FolderPlan, ProfilePlan, DomainPlan, TermPlan, DocumentPlan

LEMMA OpsAre ==
  /\ Folders = {"createFolder", "renameFolder", "setDefaults", "deleteFolder"}
  /\ Profiles = {"createProfile", "updateProfile", "resetProfile", "deleteProfile"}
  /\ DOMAIN DomainPlan = {"createDomain", "updateDomain", "describeDomain", "deleteDomain"}
  /\ DOMAIN TermPlan = {"createTerm", "updateTerm", "deleteTerm"}
  /\ Documenting = {"newDocument", "save", "rename", "move", "title", "drop"}
  /\ Ops = Folders \cup Profiles \cup DOMAIN DomainPlan \cup DOMAIN TermPlan \cup Documenting
BY DEF Folders, Profiles, Documenting, Ops, FolderPlan, ProfilePlan, DomainPlan, TermPlan, DocumentPlan

LEMMA KindsAre ==
  /\ \A op \in Folders : KindOf(op) = "folder"
  /\ \A op \in Profiles : KindOf(op) = "profile"
  /\ \A op \in DOMAIN DomainPlan : KindOf(op) = "domain"
  /\ \A op \in DOMAIN TermPlan : KindOf(op) = "term"
<1>1. \A op \in Folders : KindOf(op) = "folder"
  BY OpsAre DEF KindOf, Folders, Profiles
<1>2. \A op \in Profiles : KindOf(op) = "profile"
  BY OpsAre DEF KindOf, Folders, Profiles
<1>3. \A op \in DOMAIN DomainPlan : KindOf(op) = "domain"
  BY OpsAre DEF KindOf, Folders, Profiles
<1>4. \A op \in DOMAIN TermPlan : KindOf(op) = "term"
  BY OpsAre DEF KindOf, Folders, Profiles
<1> QED BY <1>1, <1>2, <1>3, <1>4

At(op, at, what) == Plan[op][at] = what
LEMMA StagesOfRows ==
  ASSUME NEW op \in Folders \cup Profiles, NEW at \in 1..Len(Plan[op])
  PROVE  /\ At(op, at, "find") => op \in {"renameFolder", "setDefaults", "updateProfile", "resetProfile", "deleteProfile"}
                                  /\ at < Len(Plan[op])
         /\ At(op, at, "again") => op \in {"updateProfile", "resetProfile", "deleteProfile"}
                                  /\ at > 1 /\ at < Len(Plan[op])
         /\ At(op, at, "prune") => op \in {"createProfile", "updateProfile"}
                                  /\ at < Len(Plan[op]) /\ (op = "updateProfile" => at > 1)
         /\ At(op, at, "vet") => op = "setDefaults" /\ at < Len(Plan[op])
         /\ At(op, at, "insert") => op \in Creations /\ at = Len(Plan[op])
         /\ At(op, at, "write") => op \in {"renameFolder", "setDefaults", "updateProfile", "resetProfile"} /\ at > 1
         /\ At(op, at, "reread") => op \in {"renameFolder", "setDefaults"} /\ at > 1
         /\ At(op, at, "delete") => op \in {"deleteFolder", "deleteProfile"} /\ at = Len(Plan[op])
                                    /\ (op = "deleteProfile" => at > 1)
         /\ Plan[op][at] \in {"find", "again", "prune", "vet", "insert", "write", "reread", "delete"}
<1>1. \/ op = "createFolder" \/ op = "renameFolder" \/ op = "setDefaults" \/ op = "deleteFolder"
      \/ op = "createProfile" \/ op = "updateProfile" \/ op = "resetProfile" \/ op = "deleteProfile"
  BY OpsAre
<1>2. CASE op = "createFolder" BY <1>2, PlansOfRows DEF At, Creations
<1>3. CASE op = "renameFolder" BY <1>3, PlansOfRows DEF At, Creations
<1>4. CASE op = "setDefaults" BY <1>4, PlansOfRows DEF At, Creations
<1>5. CASE op = "deleteFolder" BY <1>5, PlansOfRows DEF At, Creations
<1>6. CASE op = "createProfile" BY <1>6, PlansOfRows DEF At, Creations
<1>7. CASE op = "updateProfile" BY <1>7, PlansOfRows DEF At, Creations
<1>8. CASE op = "resetProfile" BY <1>8, PlansOfRows DEF At, Creations
<1>9. CASE op = "deleteProfile" BY <1>9, PlansOfRows DEF At, Creations
<1> QED BY <1>1, <1>2, <1>3, <1>4, <1>5, <1>6, <1>7, <1>8, <1>9

LEMMA StagesOfDomains ==
  ASSUME NEW op \in DOMAIN DomainPlan \cup DOMAIN TermPlan, NEW at \in 1..Len(Plan[op])
  PROVE  /\ At(op, at, "find") => op \in {"updateDomain", "describeDomain", "deleteDomain", "updateTerm", "deleteTerm"}
                                  /\ at = 1 /\ at < Len(Plan[op])
         /\ At(op, at, "parent") => op = "createTerm" /\ at < Len(Plan[op])
         /\ At(op, at, "insert") => op \in Creations /\ at = Len(Plan[op])
         /\ At(op, at, "write") => op \in {"updateDomain", "describeDomain", "updateTerm"} /\ at > 1
         /\ At(op, at, "delete") => op \in {"deleteDomain", "deleteTerm"} /\ at = 2
                                    /\ Len(Plan[op]) = (IF op = "deleteDomain" THEN 4 ELSE 2)
         /\ At(op, at, "sweepRead") => op = "deleteDomain" /\ at = 3 /\ Len(Plan[op]) = 4
         /\ At(op, at, "sweep") => op = "deleteDomain" /\ at = 4 /\ Len(Plan[op]) = 4
         /\ Plan[op][at] \in {"find", "parent", "insert", "write", "delete", "sweepRead", "sweep"}
<1>1. \/ op = "createDomain" \/ op = "updateDomain" \/ op = "describeDomain" \/ op = "deleteDomain"
      \/ op = "createTerm" \/ op = "updateTerm" \/ op = "deleteTerm"
  BY OpsAre
<1>2. CASE op = "createDomain" BY <1>2, PlansOfDomains DEF At, Creations
<1>3. CASE op = "updateDomain" BY <1>3, PlansOfDomains DEF At, Creations
<1>4. CASE op = "describeDomain" BY <1>4, PlansOfDomains DEF At, Creations
<1>5. CASE op = "deleteDomain" BY <1>5, PlansOfDomains DEF At, Creations
<1>6. CASE op = "createTerm" BY <1>6, PlansOfDomains DEF At, Creations
<1>7. CASE op = "updateTerm" BY <1>7, PlansOfDomains DEF At, Creations
<1>8. CASE op = "deleteTerm" BY <1>8, PlansOfDomains DEF At, Creations
<1> QED BY <1>1, <1>2, <1>3, <1>4, <1>5, <1>6, <1>7, <1>8

LEMMA StagesOfDocuments ==
  ASSUME NEW op \in Documenting, NEW at \in 1..Len(Plan[op])
  PROVE  /\ At(op, at, "folder") => op \in {"newDocument", "move"} /\ at = 1 /\ Len(Plan[op]) = 2
         /\ At(op, at, "insertDocument") => op = "newDocument" /\ at = 2 /\ Len(Plan[op]) = 2
         /\ At(op, at, "file") => op = "move" /\ at = 2 /\ Len(Plan[op]) = 2
         /\ At(op, at, "read") => op \in {"save", "rename", "title"} /\ at = 1 /\ Len(Plan[op]) = 3
         /\ At(op, at, "put") => op \in {"save", "rename"} /\ at = 2 /\ Len(Plan[op]) = 3
         /\ At(op, at, "latest") => op \in {"save", "rename"} /\ at = 3 /\ Len(Plan[op]) = 3
         /\ At(op, at, "name") => op = "title" /\ at = 2 /\ Len(Plan[op]) = 3
         /\ At(op, at, "named") => op = "title" /\ at = 3 /\ Len(Plan[op]) = 3
         /\ At(op, at, "drop") => op = "drop" /\ at = 1 /\ Len(Plan[op]) = 1
         /\ Plan[op][at] \in {"folder", "insertDocument", "file", "read", "put", "latest", "name", "named", "drop"}
<1>1. op = "newDocument" \/ op = "save" \/ op = "rename" \/ op = "move" \/ op = "title" \/ op = "drop"
  BY OpsAre
<1>2. CASE op = "newDocument" BY <1>2, PlansOfDocuments DEF At
<1>3. CASE op = "save" BY <1>3, PlansOfDocuments DEF At
<1>4. CASE op = "rename" BY <1>4, PlansOfDocuments DEF At
<1>5. CASE op = "move" BY <1>5, PlansOfDocuments DEF At
<1>6. CASE op = "title" BY <1>6, PlansOfDocuments DEF At
<1>7. CASE op = "drop" BY <1>7, PlansOfDocuments DEF At
<1> QED BY <1>1, <1>2, <1>3, <1>4, <1>5, <1>6, <1>7

-----------------------------------------------------------------------------
(* What any statement of another request leaves of what one relies on. *)
RowsLater(rows, rows2) ==
  \A i \in Ids : rows[i].born =>
    rows2[i].born /\ Alike(rows2[i], rows[i]) /\ (rows2[i].there => rows[i].there)
RefsLater(rows, rows2, stray2) ==
  \A p \in Ids : Kind[p] = "profile" /\ rows2[p].there =>
    \A d \in rows2[p].refs :
      (rows[p].there /\ d \in rows[p].refs) \/ rows2[d].there \/ <<p, d>> \in stray2
DocsLater(docs, docs2) ==
  \A d \in Docs : docs[d].born =>
    /\ docs2[d].born
    /\ docs2[d].there =>
         /\ docs[d].there /\ docs2[d].owner = docs[d].owner /\ docs[d].rev <= docs2[d].rev
         /\ docs2[d].rev = docs[d].rev =>
              docs2[d].text = docs[d].text /\ (docs2[d].source = "user" => docs[d].source = "user")
Later(rows, docs, stray, rows2, docs2, stray2) ==
  /\ RowsLater(rows, rows2) /\ RefsLater(rows, rows2, stray2) /\ DocsLater(docs, docs2)
  /\ stray \subseteq stray2

LEMMA FitsLater ==
  ASSUME NEW q \in Request,
         NEW rows \in [Ids -> Row], NEW docs \in [Docs -> Document], NEW stray,
         NEW rows2 \in [Ids -> Row], NEW docs2 \in [Docs -> Document], NEW stray2,
         Fits(q, rows, docs, stray), Later(rows, docs, stray, rows2, docs2, stray2)
  PROVE  Fits(q, rows2, docs2, stray2)
<1>1. /\ Placed(q) /\ Aimed(q, rows, docs) /\ Holding(q, rows)
      /\ SweepsOn(q, rows, stray) /\ Dated(q, docs)
      /\ RowsLater(rows, rows2) /\ RefsLater(rows, rows2, stray2) /\ DocsLater(docs, docs2)
      /\ stray \subseteq stray2
  BY DEF Fits, Later
<1>2. q.op \in Merges \/ q.op = "deleteProfile" \/ q.op = "deleteDomain" => OnRow(q)
  BY OpsAre DEF OnRow, Merges, Creations
<1>3. q.op \in Writes => OnDocument(q)
  BY OpsAre DEF OnDocument, Writes
<1>4. OnRow(q) => /\ q.id \in Ids /\ Kind[q.id] = KindOf(q.op) /\ rows[q.id].born
                  /\ rows2[q.id].born /\ Alike(rows2[q.id], rows[q.id])
                  /\ (rows2[q.id].there => rows[q.id].there)
  BY <1>1 DEF Aimed, RowsLater
<1>5. OnDocument(q) => q.id \in Docs /\ docs[q.id].born
  BY <1>1 DEF Aimed
<1>6. Aimed(q, rows2, docs2)
  <2>1. OnRow(q) /\ q.op \in Folders => rows2[q.id].owner = q.user
    BY <1>1, <1>4 DEF Aimed, Alike
  <2>2. OnDocument(q) => /\ docs2[q.id].born
                         /\ docs2[q.id].there => docs2[q.id].owner = q.user
    BY <1>1, <1>5 DEF Aimed, DocsLater
  <2>3. \A f : FolderOf(rows, q.user, f) => FolderOf(rows2, q.user, f)
    BY <1>1 DEF FolderOf, RowsLater, Alike
  <2> QED BY <1>1, <1>4, <1>5, <2>1, <2>2, <2>3 DEF Aimed
<1>7. Holding(q, rows2)
  BY <1>1, <1>2, <1>4 DEF Holding, Alike
<1>8. SweepsOn(q, rows2, stray2)
  <2> SUFFICES ASSUME Sweeper(q) PROVE SweepsOn(q, rows2, stray2)
    BY DEF SweepsOn
  <2>1. ~rows2[q.id].there
    BY <1>1, <1>2, <1>4 DEF SweepsOn, Sweeper
  <2>2. ASSUME q.at = 4, NEW p \in Ids, Kind[p] = "profile", rows2[p].there, q.id \in rows2[p].refs
        PROVE  <<p, q.id>> \in stray2 \/ \E x \in q.read : x[1] = p
    <3>1. (rows[p].there /\ q.id \in rows[p].refs) \/ <<p, q.id>> \in stray2
      BY <1>1, <2>1, <2>2 DEF RefsLater
    <3> QED BY <1>1, <2>2, <3>1 DEF SweepsOn
  <2> QED BY <1>1, <2>1, <2>2 DEF SweepsOn
<1>9. Dated(q, docs2)
  <2> SUFFICES ASSUME q.op \in Writes, docs2[q.id].there PROVE Dated(q, docs2)
    BY DEF Dated
  <2>1. q.id \in Docs /\ docs[q.id].born
    BY <1>3, <1>5
  <2>2. /\ docs[q.id].there /\ docs[q.id].rev <= docs2[q.id].rev
        /\ docs2[q.id].rev = docs[q.id].rev =>
             docs2[q.id].text = docs[q.id].text /\ (docs2[q.id].source = "user" => docs[q.id].source = "user")
    BY <1>1, <2>1 DEF DocsLater
  <2>3. q.rev \in Nat /\ docs[q.id].rev \in Nat /\ docs2[q.id].rev \in Nat
    BY <2>1 DEF Request, Document
  <2>4. q.rev <= docs[q.id].rev
    BY <1>1, <2>2 DEF Dated
  <2>5. q.rev <= docs2[q.id].rev
    BY <2>2, <2>3, <2>4
  <2>6. q.at = 2 /\ q.rev = docs2[q.id].rev =>
          q.text = docs2[q.id].text /\ (docs2[q.id].source = "user" => q.source = "user")
    BY <1>1, <2>2, <2>3, <2>4 DEF Dated
  <2> QED BY <2>5, <2>6 DEF Dated
<1> QED BY <1>1, <1>6, <1>7, <1>8, <1>9 DEF Fits

LEMMA NothingLater ==
  ASSUME NEW rows \in [Ids -> Row], NEW docs \in [Docs -> Document], NEW stray
  PROVE  Later(rows, docs, stray, rows, docs, stray)
<1>1. \A d \in Docs : docs[d].rev \in Nat
  BY DEF Document
<1> QED BY <1>1 DEF Later, RowsLater, RefsLater, DocsLater, Alike

LEMMA BlankFacts ==
  /\ Nobody \notin Users /\ Nobody \notin Ids /\ Nobody \notin Reqs /\ 0 \notin Ids
  /\ Blank \in Row /\ NoDocument \in Document /\ NoRequest \in Request
  /\ NoRequest.at = 0 /\ ~Blank.there /\ ~Blank.born
<1>1. /\ Nobody \notin Users /\ Nobody \notin Ids /\ Nobody \notin Reqs /\ 0 \notin Ids
  BY UsersAssumption, IdsAssumption
<1>2. Blank \in Row /\ ~Blank.there /\ ~Blank.born
  BY DEF Blank, Row
<1>3. NoDocument \in Document
  BY DEF NoDocument, Document
<1>4. NoRequest \in Request /\ NoRequest.at = 0
  BY <1>2 DEF NoRequest, Request
<1> QED BY <1>1, <1>2, <1>3, <1>4

LEMMA Typed ==
  ASSUME Inv
  PROVE  /\ row \in [Ids -> Row] /\ doc \in [Docs -> Document] /\ req \in [Reqs -> Request]
         /\ marker \in BOOLEAN /\ load \in Loads /\ restarts \in Nat
         /\ strayed \subseteq (Ids \cup {Documents}) \X Ids
         /\ Requests /\ Living(row, doc) /\ Refers(row) /\ Filed(row, doc, strayed)
         /\ Referred /\ SeedsFit
BY DEF Inv, TypeOK

(* One request moves on while the tables change. *)
LEMMA RequestMoves ==
  ASSUME Inv, NEW r \in Reqs, NEW q \in Request, Moves(r, q), UNCHANGED process,
         row' \in [Ids -> Row], doc' \in [Docs -> Document],
         strayed' \subseteq (Ids \cup {Documents}) \X Ids,
         Later(row, doc, strayed, row', doc', strayed'),
         q.at > 0 => server = "up" /\ Fits(q, row', doc', strayed'),
         Living(row', doc'), Refers(row'), Filed(row', doc', strayed'), Referred', SeedsFit'
  PROVE  Inv'
<1>1. req' = [req EXCEPT ![r] = q] /\ UNCHANGED <<server, marker, load, restarts>>
  BY DEF Moves, process
<1>2. TypeOK'
  BY <1>1, Typed DEF TypeOK, Inv
<1>3. ASSUME NEW x \in Reqs, req'[x].at > 0
      PROVE  server' = "up" /\ Fits(req'[x], row', doc', strayed')
  <2>1. CASE x = r
    BY <1>1, <1>3, <2>1, Typed
  <2>2. CASE x # r
    <3>1. req'[x] = req[x] /\ req[x] \in Request
      BY <1>1, <2>2, Typed
    <3>2. server = "up" /\ Fits(req[x], row, doc, strayed)
      BY <1>3, <3>1, Typed DEF Requests
    <3>3. Fits(req[x], row', doc', strayed')
      BY <3>1, <3>2, FitsLater, Typed
    <3> QED BY <1>1, <3>1, <3>2, <3>3
  <2> QED BY <2>1, <2>2
<1>4. Requests'
  BY <1>3 DEF Requests
<1> QED BY <1>2, <1>4 DEF Inv

(* References stay accounted for: what is taken away is about to be swept.  *)
LEMMA ReferredStays ==
  ASSUME Inv, NEW r \in Reqs, NEW q \in Request, Moves(r, q),
         row' \in [Ids -> Row], Later(row, doc, strayed, row', doc', strayed'),
         Sweeper(req[r]) => Sweeper(q) /\ q.id = req[r].id,
         \A d \in Ids : Kind[d] = "domain" /\ row[d].there => row'[d].there \/ (Sweeper(q) /\ q.id = d),
         Refers(row')
  PROVE  Referred'
<1>0. req' = [req EXCEPT ![r] = q] /\ req \in [Reqs -> Request] /\ row \in [Ids -> Row]
  BY Typed DEF Moves
<1>1. ASSUME NEW d, BeingSwept(d) PROVE BeingSwept(d)'
  <2>1. PICK x \in Reqs : Sweeper(req[x]) /\ req[x].id = d
    BY <1>1 DEF BeingSwept
  <2>2. Sweeper(req'[x]) /\ req'[x].id = d
    BY <1>0, <2>1
  <2> QED BY <2>2 DEF BeingSwept, Sweeper
<1>2. ASSUME NEW d, Sweeper(q), q.id = d PROVE BeingSwept(d)'
  <2>1. Sweeper(req'[r]) /\ req'[r].id = d
    BY <1>0, <1>2
  <2> QED BY <2>1 DEF BeingSwept, Sweeper
<1>3. ASSUME NEW p \in Ids, Kind[p] = "profile", row'[p].there, NEW d \in row'[p].refs
      PROVE  row'[d].there \/ BeingSwept(d)' \/ <<p, d>> \in strayed'
  <2>1. (row[p].there /\ d \in row[p].refs) \/ row'[d].there \/ <<p, d>> \in strayed'
    BY <1>3 DEF Later, RefsLater
  <2>2. CASE row[p].there /\ d \in row[p].refs
    <3>1. row[d].there \/ BeingSwept(d) \/ <<p, d>> \in strayed
      BY <1>3, <2>2, Typed DEF Referred
    <3>2. d \in Ids /\ Kind[d] = "domain"
      BY <1>0, <1>3, <2>2, Typed DEF Refers, Row
    <3>3. row[d].there => row'[d].there \/ (Sweeper(q) /\ q.id = d)
      BY <3>2
    <3>4. strayed \subseteq strayed'
      BY DEF Later
    <3> QED BY <1>1, <1>2, <3>1, <3>3, <3>4
  <2> QED BY <2>1, <2>2
<1> QED BY <1>3 DEF Referred

(* Nothing but the request changes. *)
LEMMA RequestReads ==
  ASSUME Inv, NEW r \in Reqs, NEW q \in Request, Moves(r, q),
         UNCHANGED <<row, doc, process, strayed>>,
         q.at > 0 => server = "up" /\ Fits(q, row, doc, strayed),
         Sweeper(req[r]) => Sweeper(q) /\ q.id = req[r].id
  PROVE  Inv'
<1>1. row' = row /\ doc' = doc /\ strayed' = strayed /\ UNCHANGED process
  OBVIOUS
<1>2. Later(row, doc, strayed, row', doc', strayed')
  BY <1>1, NothingLater, Typed
<1>3. Living(row', doc') /\ Refers(row') /\ Filed(row', doc', strayed')
  BY <1>1, Typed
<1>4. Referred'
  BY <1>1, <1>2, <1>3, ReferredStays, Typed
<1>5. SeedsFit'
  BY <1>1, Typed DEF SeedsFit, process
<1> QED BY <1>1, <1>2, <1>3, <1>4, <1>5, RequestMoves, Typed

-----------------------------------------------------------------------------
(* Statements that read. *)
Onward(q) == [q EXCEPT !.at = @ + 1]
Ended(q, status) ==
  [NoRequest EXCEPT !.user = q.user, !.op = q.op, !.id = q.id, !.status = status]
Statuses == {"none", "ok", "missing", "forbidden", "conflict", "unknown", "error", "lost"}

Signed(n, u, op, id, status) == [n EXCEPT !.user = u, !.op = op, !.id = id, !.status = status]
LEMMA FieldsSet ==
  ASSUME NEW n \in Request, NEW u \in Users \cup {Nobody}, NEW op \in Ops \cup {"none"},
         NEW id \in Ids \cup Docs \cup {0}, NEW status \in Statuses
  PROVE  /\ Signed(n, u, op, id, status) \in Request
         /\ Signed(n, u, op, id, status).at = n.at /\ Signed(n, u, op, id, status).id = id
<1>1. [n EXCEPT !.user = u] \in Request
  BY Zenon DEF Request
<1> DEFINE n1 == [n EXCEPT !.user = u]
           n2 == [n1 EXCEPT !.op = op]
           n3 == [n2 EXCEPT !.id = id]
           n4 == [n3 EXCEPT !.status = status]
<1> HIDE DEF n1, n2, n3, n4
<1>2. n1 \in Request /\ n1.at = n.at
  BY <1>1, Zenon DEF n1, Request
<1>3. n2 \in Request /\ n2.at = n1.at
  BY <1>2, SMT DEF n2, Request
<1>4. n3 \in Request /\ n3.at = n2.at /\ n3.id = id
  BY <1>3, SMT DEF n3, Request
<1>5. n4 \in Request /\ n4.at = n3.at /\ n4.id = n3.id
  BY <1>4, SMT DEF n4, Request, Statuses
<1>6. Signed(n, u, op, id, status) = n4
  BY SMT DEF Signed, n1, n2, n3, n4, Request
<1> QED BY <1>2, <1>3, <1>4, <1>5, <1>6

LEMMA EndedFacts ==
  ASSUME NEW q \in Request, NEW status \in Statuses
  PROVE  /\ Ended(q, status) \in Request /\ Ended(q, status).at = 0
         /\ Ended(q, status).id = q.id /\ ~Sweeper(Ended(q, status))
<1>1. /\ NoRequest \in Request /\ NoRequest.at = 0
      /\ q.user \in Users \cup {Nobody} /\ q.op \in Ops \cup {"none"}
      /\ q.id \in Ids \cup Docs \cup {0}
  BY BlankFacts DEF Request
<1>2. /\ Ended(q, status) \in Request /\ Ended(q, status).at = 0
      /\ Ended(q, status).id = q.id
  <2> DEFINE u == q.user  op == q.op  id == q.id
  <2>0. /\ NoRequest \in Request /\ u \in Users \cup {Nobody} /\ op \in Ops \cup {"none"}
        /\ id \in Ids \cup Docs \cup {0}
    BY <1>1
  <2> HIDE DEF u, op, id
  <2>1. /\ Signed(NoRequest, u, op, id, status) \in Request
        /\ Signed(NoRequest, u, op, id, status).at = NoRequest.at
        /\ Signed(NoRequest, u, op, id, status).id = id
    BY <2>0, FieldsSet, Zenon
  <2>2. Ended(q, status) = Signed(NoRequest, u, op, id, status) /\ id = q.id
    BY DEF Ended, Signed, u, op, id
  <2> QED BY <1>1, <2>1, <2>2
<1> QED BY <1>2 DEF Sweeper

LEMMA OnwardFacts ==
  ASSUME NEW q \in Request
  PROVE  /\ Onward(q) \in Request /\ Onward(q).at = q.at + 1 /\ q.at \in Nat
         /\ Onward(q).user = q.user /\ Onward(q).op = q.op /\ Onward(q).id = q.id
         /\ Onward(q).name = q.name /\ Onward(q).refs = q.refs /\ Onward(q).folder = q.folder
         /\ Onward(q).rev = q.rev /\ Onward(q).row = q.row /\ Onward(q).text = q.text
         /\ Onward(q).source = q.source /\ Onward(q).read = q.read
<1>1. q.at \in Nat /\ q.at + 1 \in Nat
  BY DEF Request
<1>2. Onward(q) \in Request
  BY <1>1, Zenon DEF Onward, Request
<1>3. /\ Onward(q).at = q.at + 1
      /\ Onward(q).user = q.user /\ Onward(q).op = q.op /\ Onward(q).id = q.id
  BY Zenon DEF Onward, Request
<1>4. /\ Onward(q).name = q.name /\ Onward(q).refs = q.refs /\ Onward(q).folder = q.folder
      /\ Onward(q).rev = q.rev /\ Onward(q).row = q.row /\ Onward(q).text = q.text
      /\ Onward(q).source = q.source /\ Onward(q).read = q.read
  BY Zenon DEF Onward, Request
<1> QED BY <1>1, <1>2, <1>3, <1>4

LEMMA DoingFacts ==
  ASSUME Inv, NEW r \in Reqs, NEW what, Doing(r, what)
  PROVE  /\ req[r] \in Request /\ req[r].at > 0 /\ server = "up"
         /\ Fits(req[r], row, doc, strayed) /\ Placed(req[r]) /\ Aimed(req[r], row, doc)
         /\ Holding(req[r], row) /\ SweepsOn(req[r], row, strayed) /\ Dated(req[r], doc)
         /\ req[r].op \in Ops /\ req[r].at \in 1..Len(Plan[req[r].op])
         /\ At(req[r].op, req[r].at, what)
<1>1. req[r] \in Request /\ req[r].at > 0 /\ At(req[r].op, req[r].at, what)
  BY Typed DEF Doing, At
<1>2. server = "up" /\ Fits(req[r], row, doc, strayed)
  BY <1>1, Typed DEF Requests
<1> QED BY <1>1, <1>2 DEF Fits, Placed

LEMMA OnSplits ==
  ASSUME NEW r, NEW q, On(r, q)
  PROVE  IF q.at = Len(Plan[q.op]) THEN Moves(r, Ended(req[r], "ok")) ELSE Moves(r, Onward(q))
BY DEF On, Ends, Ended, Onward

LEMMA Refused ==
  ASSUME Inv, NEW r \in Reqs, NEW status \in Statuses, Refuses(r, status), ~Sweeper(req[r])
  PROVE  Inv'
<1>1. /\ Moves(r, Ended(req[r], status)) /\ UNCHANGED <<row, doc, process, strayed>>
  BY DEF Refuses, Ends, Ended
<1>2. req[r] \in Request
  BY Typed
<1>3. Ended(req[r], status) \in Request /\ Ended(req[r], status).at = 0
  BY <1>2, EndedFacts
<1> QED BY <1>1, <1>3, RequestReads

\* A request of the same aim, with what it has read.
SameAim(q, p) ==
  /\ q.at = p.at /\ q.op = p.op /\ q.id = p.id /\ q.user = p.user /\ q.folder = p.folder
  /\ q.rev = p.rev
LEMMA GoesOn ==
  ASSUME Inv, NEW r \in Reqs, NEW what, Doing(r, what), NEW q \in Request, SameAim(q, req[r]),
         q.op \in Profiles => \A d \in q.refs : Kind[d] = "domain",
         q.at < Len(Plan[q.op]) =>
           Holding(Onward(q), row) /\ SweepsOn(Onward(q), row, strayed) /\ Dated(Onward(q), doc),
         Sweeper(req[r]) => q.at < Len(Plan[q.op]),
         Reads(r, q)
  PROVE  Inv'
<1>1. /\ req[r] \in Request /\ server = "up" /\ Aimed(req[r], row, doc)
      /\ req[r].op \in Ops /\ req[r].at \in 1..Len(Plan[req[r].op])
  BY DoingFacts
<1>2. UNCHANGED <<row, doc, process, strayed>> /\ On(r, q)
  BY DEF Reads
<1>3. CASE q.at = Len(Plan[q.op])
  <2>1. Moves(r, Ended(req[r], "ok"))
    BY <1>2, <1>3, OnSplits
  <2>2. ~Sweeper(req[r])
    BY <1>1, <1>3 DEF SameAim
  <2> QED BY <1>1, <1>2, <2>1, <2>2, EndedFacts, RequestReads DEF Statuses
<1>4. CASE q.at # Len(Plan[q.op])
  <2>1. Moves(r, Onward(q)) /\ Onward(q) \in Request
    BY <1>2, <1>4, OnSplits, OnwardFacts
  <2>2. q.at < Len(Plan[q.op]) /\ q.at + 1 \in 1..Len(Plan[q.op])
    BY <1>1, <1>4 DEF SameAim
  <2>3. Placed(Onward(q))
    BY <1>1, <2>2, OnwardFacts DEF Placed, SameAim
  <2>4. Aimed(Onward(q), row, doc)
    BY <1>1, OnwardFacts DEF Aimed, SameAim, OnRow, OnDocument
  <2>5. Fits(Onward(q), row, doc, strayed)
    BY <2>2, <2>3, <2>4 DEF Fits
  <2>6. Sweeper(req[r]) => Sweeper(Onward(q)) /\ Onward(q).id = req[r].id
    <3>1. Onward(q).op = req[r].op /\ Onward(q).id = req[r].id /\ Onward(q).at = req[r].at + 1
      BY OnwardFacts DEF SameAim
    <3>2. req[r].at \in Nat
      BY <1>1 DEF Request
    <3> QED BY <3>1, <3>2 DEF Sweeper
  <2> QED BY <1>1, <1>2, <2>1, <2>5, <2>6, RequestReads
<1> QED BY <1>3, <1>4

Staged(op, at, what) ==
  /\ what = "find" => op \in {"renameFolder", "setDefaults", "updateProfile", "resetProfile",
                            "deleteProfile", "updateDomain", "describeDomain", "deleteDomain",
                            "updateTerm", "deleteTerm"} /\ (op = "deleteDomain" => at = 1)
  /\ what = "again" => op \in {"updateProfile", "resetProfile", "deleteProfile"} /\ at > 1
  /\ what = "prune" => op \in {"createProfile", "updateProfile"} /\ (op = "updateProfile" => at > 1)
  /\ what = "vet" => op = "setDefaults"
  /\ what = "parent" => op = "createTerm"
  /\ what = "insert" => op \in Creations /\ at = Len(Plan[op])
  /\ what = "write" => op \in {"renameFolder", "setDefaults", "updateProfile", "resetProfile",
                            "updateDomain", "describeDomain", "updateTerm"} /\ at > 1
  /\ what = "reread" => op \in {"renameFolder", "setDefaults"}
  /\ what = "delete" => op \in {"deleteFolder", "deleteProfile", "deleteDomain", "deleteTerm"}
                            /\ (op = "deleteProfile" => at > 1)
                            /\ (op = "deleteDomain" => at = 2 /\ Len(Plan[op]) = 4)
                            /\ (op # "deleteDomain" => at = Len(Plan[op]))
  /\ what = "sweepRead" => op = "deleteDomain" /\ at = 3 /\ Len(Plan[op]) = 4
  /\ what = "sweep" => op = "deleteDomain" /\ at = 4 /\ Len(Plan[op]) = 4
  /\ what = "folder" => op \in {"newDocument", "move"} /\ at = 1 /\ Len(Plan[op]) = 2
  /\ what = "insertDocument" => op = "newDocument" /\ at = Len(Plan[op])
  /\ what = "file" => op = "move" /\ at = Len(Plan[op])
  /\ what = "read" => op \in {"save", "rename", "title"} /\ at = 1 /\ Len(Plan[op]) = 3
  /\ what = "put" => op \in {"save", "rename"} /\ at = 2 /\ Len(Plan[op]) = 3
  /\ what = "latest" => op \in {"save", "rename"}
  /\ what = "name" => op = "title" /\ at = 2 /\ Len(Plan[op]) = 3
  /\ what = "named" => op = "title"
  /\ what = "drop" => op = "drop"
LEMMA Stages ==
  ASSUME NEW op \in Ops, NEW at \in 1..Len(Plan[op]), NEW what, At(op, at, what)
  PROVE  Staged(op, at, what)
<1>1. \/ op \in Folders \cup Profiles \/ op \in DOMAIN DomainPlan \cup DOMAIN TermPlan
      \/ op \in Documenting
  BY OpsAre
<1>2. Plan[op][at] = what
  BY DEF At
<1>3. CASE op \in Folders \cup Profiles
  <2>1. what \in {"find", "again", "prune", "vet", "insert", "write", "reread", "delete"}
    BY <1>2, <1>3, StagesOfRows
  <2> QED BY <1>3, <2>1, StagesOfRows DEF Staged
<1>4. CASE op \in DOMAIN DomainPlan \cup DOMAIN TermPlan
  <2>1. what \in {"find", "parent", "insert", "write", "delete", "sweepRead", "sweep"}
    BY <1>2, <1>4, StagesOfDomains
  <2>2. /\ what = "find" => op \in {"updateDomain", "describeDomain", "deleteDomain", "updateTerm",
                                    "deleteTerm"} /\ at = 1
        /\ what = "parent" => op = "createTerm"
        /\ what = "insert" => op \in Creations /\ at = Len(Plan[op])
        /\ what = "write" => op \in {"updateDomain", "describeDomain", "updateTerm"} /\ at > 1
    BY <1>4, StagesOfDomains
  <2>3. /\ what = "delete" => op \in {"deleteDomain", "deleteTerm"} /\ at = 2
                              /\ Len(Plan[op]) = (IF op = "deleteDomain" THEN 4 ELSE 2)
        /\ what = "sweepRead" => op = "deleteDomain" /\ at = 3 /\ Len(Plan[op]) = 4
        /\ what = "sweep" => op = "deleteDomain" /\ at = 4 /\ Len(Plan[op]) = 4
    BY <1>4, StagesOfDomains
  <2> QED BY <2>1, <2>2, <2>3 DEF Staged
<1>5. CASE op \in Documenting
  <2>1. what \in {"folder", "insertDocument", "file", "read", "put", "latest", "name", "named", "drop"}
    BY <1>2, <1>5, StagesOfDocuments
  <2>2. /\ what = "folder" => op \in {"newDocument", "move"} /\ at = 1 /\ Len(Plan[op]) = 2
        /\ what = "insertDocument" => op = "newDocument" /\ at = Len(Plan[op])
        /\ what = "file" => op = "move" /\ at = Len(Plan[op])
        /\ what = "read" => op \in {"save", "rename", "title"} /\ at = 1 /\ Len(Plan[op]) = 3
        /\ what = "put" => op \in {"save", "rename"} /\ at = 2 /\ Len(Plan[op]) = 3
    BY <1>5, StagesOfDocuments
  <2>3. /\ what = "latest" => op \in {"save", "rename"}
        /\ what = "name" => op = "title" /\ at = 2 /\ Len(Plan[op]) = 3
        /\ what = "named" => op = "title"
        /\ what = "drop" => op = "drop"
    BY <1>5, StagesOfDocuments
  <2> QED BY <2>1, <2>2, <2>3 DEF Staged
<1> QED BY <1>1, <1>3, <1>4, <1>5

-----------------------------------------------------------------------------
(* What a request has read. *)
LEMMA Signs ==
  ASSUME Inv, NEW r \in Reqs, NEW what, Doing(r, what)
  PROVE  /\ Staged(req[r].op, req[r].at, what) /\ req[r].at \in Nat
         /\ req[r].user \in Users \cup {Nobody} /\ req[r].refs \in SUBSET Ids
         /\ OnRow(req[r]) => req[r].id \in Ids
         /\ OnDocument(req[r]) => req[r].id \in Docs
<1>1. /\ req[r] \in Request /\ req[r].op \in Ops /\ req[r].at \in 1..Len(Plan[req[r].op])
      /\ At(req[r].op, req[r].at, what) /\ Aimed(req[r], row, doc)
  BY DoingFacts
<1>2. Staged(req[r].op, req[r].at, what)
  BY <1>1, Stages
<1>3. /\ req[r].at \in Nat /\ req[r].user \in Users \cup {Nobody} /\ req[r].refs \in SUBSET Ids
  BY <1>1 DEF Request
<1> QED BY <1>1, <1>2, <1>3 DEF Aimed

LEMMA OpsDiffer ==
  ASSUME NEW q
  PROVE  /\ q.op \in Merges \cup {"deleteProfile", "deleteDomain", "renameFolder", "setDefaults",
                                  "deleteFolder", "deleteTerm"} => OnRow(q)
         /\ q.op \in Writes \cup {"move", "title", "drop"} => OnDocument(q)
         /\ q.op \in Writes \cup {"move", "title", "drop", "newDocument"} <=> q.op \in Documenting
         /\ OnRow(q) => ~OnDocument(q) /\ q.op \notin Writes
BY OpsAre DEF OnRow, OnDocument, Merges, Writes, Creations

LEMMA WithRow ==
  ASSUME NEW q \in Request, NEW x \in Row
  PROVE  /\ [q EXCEPT !.row = x] \in Request /\ SameAim([q EXCEPT !.row = x], q)
         /\ [q EXCEPT !.row = x].row = x /\ [q EXCEPT !.row = x].refs = q.refs
<1>1. [q EXCEPT !.row = x] \in Request
  BY SMT DEF Request
<1>2. SameAim([q EXCEPT !.row = x], q)
  BY Zenon DEF Request, SameAim
<1>3. [q EXCEPT !.row = x].row = x /\ [q EXCEPT !.row = x].refs = q.refs
  BY Zenon DEF Request
<1> QED BY <1>1, <1>2, <1>3

LEMMA WithRefs ==
  ASSUME NEW q \in Request, NEW x \in SUBSET Ids
  PROVE  /\ [q EXCEPT !.refs = x] \in Request /\ SameAim([q EXCEPT !.refs = x], q)
         /\ [q EXCEPT !.refs = x].row = q.row /\ [q EXCEPT !.refs = x].refs = x
<1>1. [q EXCEPT !.refs = x] \in Request
  BY SMT DEF Request
<1>2. SameAim([q EXCEPT !.refs = x], q)
  BY Zenon DEF Request, SameAim
<1>3. [q EXCEPT !.refs = x].row = q.row /\ [q EXCEPT !.refs = x].refs = x
  BY Zenon DEF Request
<1> QED BY <1>1, <1>2, <1>3

LEMMA WithRead ==
  ASSUME NEW q \in Request, NEW x \in SUBSET (Ids \X SUBSET Ids)
  PROVE  /\ [q EXCEPT !.read = x] \in Request /\ SameAim([q EXCEPT !.read = x], q)
         /\ [q EXCEPT !.read = x].refs = q.refs /\ [q EXCEPT !.read = x].read = x
<1>1. [q EXCEPT !.read = x] \in Request
  BY SMT DEF Request
<1>2. SameAim([q EXCEPT !.read = x], q)
  BY Zenon DEF Request, SameAim
<1>3. [q EXCEPT !.read = x].refs = q.refs /\ [q EXCEPT !.read = x].read = x
  BY Zenon DEF Request
<1> QED BY <1>1, <1>2, <1>3

Sources == {"fallback", "llm", "user"}
Texts == Reqs \cup {Nobody}
Recalled(q, s, t) == [q EXCEPT !.source = s, !.text = t]
LEMMA WithText ==
  ASSUME NEW q \in Request, NEW s \in Sources, NEW t \in Texts
  PROVE  /\ Recalled(q, s, t) \in Request /\ SameAim(Recalled(q, s, t), q)
         /\ Recalled(q, s, t).refs = q.refs /\ Recalled(q, s, t).source = s
         /\ Recalled(q, s, t).text = t
<1> DEFINE e1 == [q EXCEPT !.source = s]
           e2 == [e1 EXCEPT !.text = t]
<1> HIDE DEF e1, e2
<1>1. e1 \in Request
  BY SMT DEF e1, Request, Sources
<1>2. SameAim(e1, q) /\ e1.refs = q.refs /\ e1.source = s
  BY Zenon DEF e1, Request, SameAim
<1>3. e2 \in Request
  BY <1>1, SMT DEF e2, Request, Texts
<1>4. e2.refs = e1.refs /\ e2.source = e1.source /\ e2.text = t
  BY <1>1, Zenon DEF e2, Request
<1>5. SameAim(e2, e1)
  BY <1>1, Zenon DEF e2, Request, SameAim
<1>6. Recalled(q, s, t) = e2
  BY SMT DEF Recalled, e1, e2, Request
<1>7. SameAim(e2, q)
  BY <1>2, <1>5 DEF SameAim
<1> QED BY <1>2, <1>3, <1>4, <1>6, <1>7

LEMMA Finds ==
  ASSUME Inv, NEW r \in Reqs, Find(r)
  PROVE  Inv'
<1> DEFINE q == req[r]
           i == q.id
           e == [q EXCEPT !.row = row[i]]
<1>1. /\ Doing(r, "find") /\ q \in Request /\ Aimed(q, row, doc)
      /\ q.op \in {"renameFolder", "setDefaults", "updateProfile", "resetProfile", "deleteProfile",
                   "updateDomain", "describeDomain", "deleteDomain", "updateTerm", "deleteTerm"}
      /\ q.op = "deleteDomain" => q.at = 1
  BY DoingFacts, Signs DEF Find, Staged
<1>2. OnRow(q) /\ ~Sweeper(q) /\ i \in Ids
  BY <1>1, OpsDiffer, Signs DEF Sweeper, Merges
<1>3. \/ \E status \in {"missing", "forbidden", "conflict"} : Refuses(r, status)
      \/ Visible(q.user, i) /\ ~(q.op = "deleteProfile" /\ row[i].std) /\ Reads(r, e)
  BY Zenon DEF Find
<1> HIDE DEF e
<1>4. CASE \E status \in {"missing", "forbidden", "conflict"} : Refuses(r, status)
  BY <1>2, <1>4, Refused DEF Statuses
<1>5. CASE Visible(q.user, i) /\ ~(q.op = "deleteProfile" /\ row[i].std) /\ Reads(r, e)
  <2>1. row[i] \in Row /\ row[i].there /\ row[i].born
    BY <1>2, <1>5, Typed DEF Visible, Living
  <2>2. e \in Request /\ SameAim(e, q) /\ e.row = row[i] /\ e.refs = q.refs
    BY <1>1, <2>1, WithRow DEF e
  <2>3. /\ Onward(e).op = q.op /\ Onward(e).id = i /\ Onward(e).row = row[i] /\ Onward(e).at = q.at + 1
    BY <2>2, OnwardFacts DEF SameAim
  <2>4. Holding(Onward(e), row)
    BY <1>1, <1>5, <2>1, <2>3 DEF Holding, Alike, Writes, Merges
  <2>5. SweepsOn(Onward(e), row, strayed)
    BY <1>1, <2>3 DEF SweepsOn, Sweeper
  <2>6. Dated(Onward(e), doc)
    BY <1>1, <2>3 DEF Dated, Writes
  <2>7. q.op \in Profiles => \A d \in e.refs : Kind[d] = "domain"
    BY <1>1, <2>2 DEF Aimed
  <2> QED BY <1>1, <1>2, <1>5, <2>2, <2>4, <2>5, <2>6, <2>7, GoesOn DEF SameAim
<1> QED BY <1>3, <1>4, <1>5

LEMMA FindsAgain ==
  ASSUME Inv, NEW r \in Reqs, Again(r)
  PROVE  Inv'
<1> DEFINE q == req[r]
           i == q.id
           e == [q EXCEPT !.row = row[i]]
<1>1. /\ Doing(r, "again") /\ q \in Request /\ Aimed(q, row, doc) /\ Holding(q, row)
      /\ q.op \in {"updateProfile", "resetProfile", "deleteProfile"} /\ q.at > 1
  BY DoingFacts, Signs DEF Again, Staged
<1>2. OnRow(q) /\ ~Sweeper(q) /\ i \in Ids
  BY <1>1, OpsDiffer, Signs DEF Sweeper, Merges
<1>3. \/ \E status \in {"ok", "error"} : Refuses(r, status)
      \/ row[i].there /\ Reads(r, e)
  BY Zenon DEF Again
<1> HIDE DEF e
<1>4. CASE \E status \in {"ok", "error"} : Refuses(r, status)
  BY <1>2, <1>4, Refused DEF Statuses
<1>5. CASE row[i].there /\ Reads(r, e)
  <2>1. row[i] \in Row /\ row[i].there /\ row[i].born
    BY <1>2, <1>5, Typed DEF Living
  <2>2. e \in Request /\ SameAim(e, q) /\ e.row = row[i] /\ e.refs = q.refs
    BY <1>1, <2>1, WithRow DEF e
  <2>3. /\ Onward(e).op = q.op /\ Onward(e).id = i /\ Onward(e).row = row[i] /\ Onward(e).at = q.at + 1
    BY <2>2, OnwardFacts DEF SameAim
  <2>4. Holding(Onward(e), row)
    BY <1>1, <2>1, <2>3 DEF Holding, Alike, Writes, Merges
  <2>5. SweepsOn(Onward(e), row, strayed)
    BY <1>1, <2>3 DEF SweepsOn, Sweeper
  <2>6. Dated(Onward(e), doc)
    BY <1>1, <2>3 DEF Dated, Writes
  <2>7. q.op \in Profiles => \A d \in e.refs : Kind[d] = "domain"
    BY <1>1, <2>2 DEF Aimed
  <2> QED BY <1>1, <1>2, <1>5, <2>2, <2>4, <2>5, <2>6, <2>7, GoesOn DEF SameAim
<1> QED BY <1>3, <1>4, <1>5

LEMMA Prunes ==
  ASSUME Inv, NEW r \in Reqs, Prune(r)
  PROVE  Inv'
<1> DEFINE q == req[r]
           x == q.refs \cap VisibleDomains(q.user)
           e == [q EXCEPT !.refs = x]
<1>1. /\ Doing(r, "prune") /\ q \in Request /\ Aimed(q, row, doc) /\ Holding(q, row)
      /\ q.op \in {"createProfile", "updateProfile"} /\ (q.op = "updateProfile" => q.at > 1)
      /\ x \in SUBSET Ids
  BY DoingFacts, Signs DEF Prune, Staged
<1>2. Reads(r, e) /\ ~Sweeper(q)
  BY <1>1 DEF Prune, Sweeper
<1>3. \A d \in x : Kind[d] = "domain"
  BY DEF VisibleDomains, There, Of
<1> HIDE DEF e, x
<1>4. e \in Request /\ SameAim(e, q) /\ e.row = q.row /\ e.refs = x
  BY <1>1, WithRefs DEF e
<1>5. /\ Onward(e).op = q.op /\ Onward(e).id = q.id /\ Onward(e).row = q.row /\ Onward(e).at = q.at + 1
  BY <1>4, OnwardFacts DEF SameAim
<1>6. Holding(Onward(e), row)
  BY <1>1, <1>5 DEF Holding, Merges, Writes
<1>7. SweepsOn(Onward(e), row, strayed)
  BY <1>1, <1>5 DEF SweepsOn, Sweeper
<1>8. Dated(Onward(e), doc)
  BY <1>1, <1>5 DEF Dated, Writes
<1> QED BY <1>1, <1>2, <1>3, <1>4, <1>6, <1>7, <1>8, GoesOn

(* Statements that leave the request as it is. *)
LEMMA Passes ==
  ASSUME Inv, NEW r \in Reqs, NEW what \in {"vet", "parent", "reread", "folder"}, Doing(r, what),
         Reads(r, req[r]) \/ \E status \in Statuses : Refuses(r, status)
  PROVE  Inv'
<1> DEFINE q == req[r]
<1>1. /\ q \in Request /\ Aimed(q, row, doc)
      /\ q.op \in {"setDefaults", "renameFolder", "createTerm", "newDocument", "move"}
  BY DoingFacts, Signs DEF Staged
<1>2. ~Sweeper(q)
  BY <1>1 DEF Sweeper
<1>3. CASE \E status \in Statuses : Refuses(r, status)
  BY <1>2, <1>3, Refused
<1>4. CASE Reads(r, q)
  <2>1. SameAim(q, q) /\ Onward(q).op = q.op
    BY <1>1, OnwardFacts DEF SameAim
  <2>2. Holding(Onward(q), row) /\ SweepsOn(Onward(q), row, strayed) /\ Dated(Onward(q), doc)
    BY <1>1, <2>1 DEF Holding, Merges, SweepsOn, Sweeper, Dated, Writes
  <2>3. q.op \in Profiles => \A d \in q.refs : Kind[d] = "domain"
    BY <1>1 DEF Aimed
  <2> QED BY <1>1, <1>2, <1>4, <2>1, <2>2, <2>3, GoesOn
<1> QED BY <1>3, <1>4

LEMMA Vets ==
  ASSUME Inv, NEW r \in Reqs, Vet(r) \/ Parent(r) \/ Reread(r) \/ FolderKnown(r)
  PROVE  Inv'
<1>1. CASE Vet(r)
  BY <1>1, Passes DEF Vet, Statuses
<1>2. CASE Parent(r)
  BY <1>2, Passes DEF Parent, Statuses
<1>3. CASE Reread(r)
  BY <1>3, Passes DEF Reread, Statuses
<1>4. CASE FolderKnown(r)
  BY <1>4, Passes DEF FolderKnown, Statuses
<1> QED BY <1>1, <1>2, <1>3, <1>4

LEMMA Looks ==
  ASSUME Inv, NEW r \in Reqs, Latest(r) \/ Named(r)
  PROVE  Inv'
<1>1. \/ Doing(r, "latest") /\ \E status \in {"conflict", "missing"} : Refuses(r, status)
      \/ Doing(r, "named") /\ \E status \in {"ok", "error"} : Refuses(r, status)
  BY Zenon DEF Latest, Named
<1>2. req[r].op \in {"save", "rename", "title"}
  BY <1>1, Signs DEF Staged
<1>3. ~Sweeper(req[r])
  BY <1>2 DEF Sweeper
<1> QED BY <1>1, <1>3, Refused DEF Statuses

LEMMA ReadsDocument ==
  ASSUME Inv, NEW r \in Reqs, ReadDocument(r)
  PROVE  Inv'
<1> DEFINE q == req[r]
           d == doc[q.id]
           source == d.source
           text == d.text
           e == Recalled(q, source, text)
<1>1. /\ Doing(r, "read") /\ q \in Request /\ Aimed(q, row, doc) /\ Dated(q, doc)
      /\ q.op \in {"save", "rename", "title"} /\ q.at = 1
  BY DoingFacts, Signs DEF ReadDocument, Staged
<1>2. OnDocument(q) /\ ~Sweeper(q) /\ q.id \in Docs
  BY <1>1, OpsDiffer, Signs DEF Sweeper, Writes
<1>3. \/ \E status \in {"ok", "missing"} : Refuses(r, status)
      \/ d.there /\ Reads(r, e)
  BY Zenon DEF ReadDocument, Recalled
<1>4. d \in Document
  BY <1>2, Typed
<1> HIDE DEF e
<1>5. CASE \E status \in {"ok", "missing"} : Refuses(r, status)
  BY <1>2, <1>5, Refused DEF Statuses
<1>6. CASE d.there /\ Reads(r, e)
  <2>1. source \in Sources /\ text \in Texts
    BY <1>4 DEF Document, Sources, Texts
  <2> HIDE DEF source, text
  <2>2. e \in Request /\ SameAim(e, q) /\ e.refs = q.refs /\ e.source = source /\ e.text = text
    <3>1. q \in Request
      BY <1>1
    <3> HIDE DEF q
    <3>2. /\ Recalled(q, source, text) \in Request /\ SameAim(Recalled(q, source, text), q)
          /\ Recalled(q, source, text).refs = q.refs /\ Recalled(q, source, text).source = source
          /\ Recalled(q, source, text).text = text
      BY <2>1, <3>1, WithText
    <3>3. e = Recalled(q, source, text)
      BY DEF e
    <3> QED BY <3>2, <3>3
  <2>3. /\ Onward(e).op = q.op /\ Onward(e).id = q.id /\ Onward(e).at = q.at + 1
        /\ Onward(e).rev = q.rev /\ Onward(e).source = source /\ Onward(e).text = text
    BY <2>2, OnwardFacts DEF SameAim
  <2>4. Holding(Onward(e), row) /\ SweepsOn(Onward(e), row, strayed)
    BY <1>1, <2>1, <2>3 DEF Holding, Merges, SweepsOn, Sweeper, Sources
  <2>5. Dated(Onward(e), doc)
    BY <1>1, <2>3 DEF Dated, source, text
  <2>6. q.op \in Profiles => \A f \in e.refs : Kind[f] = "domain"
    BY <1>1, <2>2 DEF Aimed
  <2> QED BY <1>1, <1>2, <1>6, <2>2, <2>4, <2>5, <2>6, GoesOn DEF SameAim
<1> QED BY <1>3, <1>5, <1>6

LEMMA SweepReads ==
  ASSUME Inv, NEW r \in Reqs, SweepRead(r)
  PROVE  Inv'
<1> DEFINE q == req[r]
           x == {<<p, row[p].refs>> : p \in Swept(q.id, q.user)}
           e == [q EXCEPT !.read = x]
<1>1. /\ Doing(r, "sweepRead") /\ q \in Request /\ Aimed(q, row, doc) /\ SweepsOn(q, row, strayed)
      /\ q.op = "deleteDomain" /\ q.at = 3 /\ Len(Plan[q.op]) = 4
  BY DoingFacts, Signs DEF SweepRead, Staged
<1>2. OnRow(q) /\ Sweeper(q) /\ q.id \in Ids /\ ~row[q.id].there
  BY <1>1, OpsDiffer, Signs DEF Sweeper, SweepsOn
<1>3. Reads(r, e)
  BY DEF SweepRead, ToSweep
<1>4. \A p \in Ids : row[p].refs \in SUBSET Ids
  BY Typed DEF Row
<1>5. \A p \in Swept(q.id, q.user) : p \in Ids /\ Kind[p] = "profile"
  BY DEF Swept, There, Of
<1>6. x \in SUBSET (Ids \X SUBSET Ids)
  BY <1>4, <1>5
<1>7. /\ \A y \in x : Kind[y[1]] = "profile" /\ \A d \in y[2] : Kind[d] = "domain"
      /\ \A y, z \in x : y[1] = z[1] => y = z
  BY <1>5, Typed DEF Refers
<1>8. ASSUME NEW p \in Ids, Kind[p] = "profile", row[p].there, q.id \in row[p].refs
      PROVE  \E y \in x : y[1] = p
  <2>1. p \in Swept(q.id, q.user)
    BY <1>8 DEF Swept, There, Of
  <2>2. <<p, row[p].refs>> \in x
    BY <2>1
  <2> QED BY <2>2
<1> HIDE DEF e, x
<1>9. e \in Request /\ SameAim(e, q) /\ e.refs = q.refs /\ e.read = x
  BY <1>1, <1>6, WithRead DEF e
<1>10. /\ Onward(e).op = q.op /\ Onward(e).id = q.id /\ Onward(e).at = 4 /\ Onward(e).read = x
  BY <1>1, <1>9, OnwardFacts DEF SameAim
<1>11. Holding(Onward(e), row) /\ Dated(Onward(e), doc)
  BY <1>1, <1>10 DEF Holding, Merges, Dated, Writes
<1>12. SweepsOn(Onward(e), row, strayed)
  BY <1>2, <1>7, <1>8, <1>10 DEF SweepsOn
<1>13. e.op \in Profiles => \A f \in e.refs : Kind[f] = "domain"
  BY <1>1, <1>9 DEF Aimed, SameAim
<1>14. e.at < Len(Plan[e.op])
  <2>1. e.at = q.at /\ e.op = q.op
    BY <1>9 DEF SameAim
  <2>2. Len(Plan[e.op]) = 4 /\ e.at = 3
    BY <1>1, <2>1, Zenon
  <2> QED BY <2>2
<1> QED BY <1>1, <1>3, <1>9, <1>11, <1>12, <1>13, <1>14, GoesOn

-----------------------------------------------------------------------------
(* Statements that write. *)
LEMMA Smallest ==
  ASSUME NEW ids \in SUBSET Nat, ids # {}
  PROVE  Min(ids) \in ids
<1>1. PICK m \in ids : \A i \in ids : ~(<<i, m>> \in OpToRel(<, Nat))
  BY NatLessThanWellFounded, WFMin
<1>2. \A i \in ids : i \in Nat /\ m \in Nat /\ ~(i < m)
  BY <1>1 DEF OpToRel
<1>3. \A i \in ids : m <= i
  BY <1>2
<1> QED BY <1>3 DEF Min

LEMMA FirstUnborn ==
  ASSUME Inv
  PROVE  /\ \A kind : Unborn(kind) # {} =>
              /\ Min(Unborn(kind)) \in Ids /\ Kind[Min(Unborn(kind))] = kind
              /\ ~row[Min(Unborn(kind))].born /\ ~row[Min(Unborn(kind))].there
         /\ UnbornDocs # {} =>
              /\ Min(UnbornDocs) \in Docs
              /\ ~doc[Min(UnbornDocs)].born /\ ~doc[Min(UnbornDocs)].there
<1>1. ASSUME NEW kind, Unborn(kind) # {}
      PROVE  /\ Min(Unborn(kind)) \in Ids /\ Kind[Min(Unborn(kind))] = kind
             /\ ~row[Min(Unborn(kind))].born /\ ~row[Min(Unborn(kind))].there
  <2>1. Unborn(kind) \in SUBSET Nat
    BY IdsAssumption DEF Unborn, Of
  <2>2. Min(Unborn(kind)) \in Unborn(kind)
    BY <1>1, <2>1, Smallest
  <2> QED BY <2>2, Typed DEF Unborn, Of, Living
<1>2. ASSUME UnbornDocs # {}
      PROVE  /\ Min(UnbornDocs) \in Docs
             /\ ~doc[Min(UnbornDocs)].born /\ ~doc[Min(UnbornDocs)].there
  <2>1. UnbornDocs \in SUBSET Nat
    BY IdsAssumption DEF UnbornDocs
  <2>2. Min(UnbornDocs) \in UnbornDocs
    BY <1>2, <2>1, Smallest
  <2> QED BY <2>2, Typed DEF UnbornDocs, Living
<1> QED BY <1>1, <1>2

(* A running server has its seeds: no request makes or deletes one. *)
LEMMA SeedsStay ==
  ASSUME Inv, server = "up", UNCHANGED process,
         \A i \in Ids : Kind[i] = "profile" =>
           /\ row'[i].std = row[i].std /\ (row'[i].seed => row[i].seed)
           /\ row[i].std /\ row[i].there => row'[i].there
  PROVE  SeedsFit'
<1>1. server' = "up" /\ marker' = marker /\ OnlyOnce(row) /\ Starting(row, server, marker)
  BY Typed DEF process, SeedsFit
<1>2. marker = TRUE /\ ~NoStandard(row)
  BY <1>1, Typed DEF Starting
<1>3. \A i \in Ids : (IsStandard(row', i) <=> IsStandard(row, i)) /\ (IsExample(row', i) => IsExample(row, i))
  BY DEF IsStandard, IsExample
<1>4. OnlyOnce(row')
  BY <1>1, <1>3 DEF OnlyOnce, IsStandard
<1>5. ~NoStandard(row')
  BY <1>2, <1>3 DEF NoStandard
<1>6. Starting(row', "up", TRUE)
  BY <1>5 DEF Starting
<1> QED BY <1>1, <1>2, <1>4, <1>6 DEF SeedsFit

(* Only documents change. *)
LEMMA RowsStay ==
  ASSUME Inv, server = "up", UNCHANGED <<row, process>>, doc' \in [Docs -> Document],
         strayed \subseteq strayed', strayed' \subseteq (Ids \cup {Documents}) \X Ids,
         DocsLater(doc, doc'), \A d \in Docs : doc'[d].there => doc'[d].born,
         Filed(row, doc', strayed'),
         NEW r \in Reqs, NEW q, q \in Request, Moves(r, q), ~Sweeper(req[r]),
         q.at > 0 => Fits(q, row, doc', strayed')
  PROVE  Inv'
<1>1. row' = row /\ UNCHANGED process
  OBVIOUS
<1>2. Later(row, doc, strayed, row', doc', strayed')
  BY <1>1 DEF Later, RowsLater, RefsLater, Alike
<1>3. Living(row', doc') /\ Refers(row') /\ Filed(row', doc', strayed')
  BY <1>1, Typed DEF Living
<1>4. Referred'
  BY <1>1, <1>2, <1>3, ReferredStays, Typed
<1>5. SeedsFit'
  BY <1>1, SeedsStay
<1> QED BY <1>1, <1>2, <1>3, <1>4, <1>5, RequestMoves, Typed

LEMMA RowsStayAtLast ==
  ASSUME Inv, server = "up", UNCHANGED <<row, process>>, doc' \in [Docs -> Document],
         strayed \subseteq strayed', strayed' \subseteq (Ids \cup {Documents}) \X Ids,
         DocsLater(doc, doc'), \A d \in Docs : doc'[d].there => doc'[d].born,
         Filed(row, doc', strayed'),
         NEW r \in Reqs, Moves(r, Ended(req[r], "ok")), ~Sweeper(req[r])
  PROVE  Inv'
<1>1. Ended(req[r], "ok") \in Request /\ Ended(req[r], "ok").at = 0
  BY Typed, EndedFacts DEF Statuses
<1> DEFINE q == Ended(req[r], "ok")
<1>2. q \in Request /\ Moves(r, q) /\ ~(q.at > 0)
  BY <1>1
<1> HIDE DEF q
<1> QED BY <1>2, RowsStay

(* A request that has held nothing goes on. *)
LEMMA FitsOnward ==
  ASSUME NEW q \in Request, NEW rows, NEW docs, NEW stray, Fits(q, rows, docs, stray),
         q.op \notin Merges \cup {"deleteProfile", "deleteDomain"} \cup Writes,
         q.at # Len(Plan[q.op])
  PROVE  Fits(Onward(q), rows, docs, stray)
<1>1. Placed(q) /\ Aimed(q, rows, docs)
  BY DEF Fits
<1>2. Placed(Onward(q))
  BY <1>1, OnwardFacts DEF Placed
<1>3. Aimed(Onward(q), rows, docs)
  BY <1>1, OnwardFacts DEF Aimed, OnRow, OnDocument
<1>4. Holding(Onward(q), rows) /\ SweepsOn(Onward(q), rows, stray) /\ Dated(Onward(q), docs)
  BY OnwardFacts DEF Holding, SweepsOn, Sweeper, Dated
<1> QED BY <1>2, <1>3, <1>4 DEF Fits

LEMMA DocumentRecords ==
  ASSUME NEW d \in Document
  PROVE  /\ d.there \in BOOLEAN /\ d.born \in BOOLEAN /\ d.owner \in Users \cup {Nobody}
         /\ d.rev \in Nat /\ d.text \in Reqs \cup {Nobody}
         /\ d.source \in {"fallback", "llm", "user"} /\ d.folder \in Ids \cup {Nobody}
BY DEF Document

LEMMA StraysAre ==
  ASSUME Inv, NEW refs \in SUBSET Ids, NEW what \in Ids \cup {Documents}
  PROVE  /\ Strays(what, refs) \subseteq (Ids \cup {Documents}) \X Ids
         /\ \A d \in refs : row[d].there \/ <<what, d>> \in Strays(what, refs)
BY DEF Strays

LEMMA InsertsDocument ==
  ASSUME Inv, NEW r \in Reqs, InsertDocument(r)
  PROVE  Inv'
<1> DEFINE q == req[r]
           d == Min(UnbornDocs)
           new == [there |-> TRUE, born |-> TRUE, owner |-> q.user, rev |-> 0, text |-> r,
                   source |-> "fallback", folder |-> q.folder]
<1>1. /\ Doing(r, "insertDocument") /\ q \in Request /\ Aimed(q, row, doc) /\ server = "up"
      /\ q.op = "newDocument" /\ q.at = Len(Plan[q.op])
  BY DoingFacts, Signs DEF InsertDocument, Staged
<1>2. /\ UnbornDocs # {} /\ File(d, new) /\ On(r, q)
  BY DEF InsertDocument
<1>3. d \in Docs /\ ~doc[d].born /\ ~doc[d].there
  BY <1>2, FirstUnborn
<1>4. /\ q.user \in Users \cup {Nobody} /\ q.folder \in Ids \cup {Nobody}
      /\ (q.folder # Nobody => FolderOf(row, q.user, q.folder))
  BY <1>1, OpsDiffer DEF Request, Aimed
<1>5. /\ new.there /\ new.born /\ new.owner = q.user /\ new.rev = 0 /\ new.text = r
      /\ new.source = "fallback" /\ new.folder = q.folder
  OBVIOUS
<1>6. new \in Document
  BY <1>4 DEF Document
<1> HIDE DEF new, d
<1>7. /\ doc' = [doc EXCEPT ![d] = new] /\ UNCHANGED <<row, process>>
      /\ strayed' = strayed \cup Strays(Documents, {new.folder} \ {Nobody})
  BY <1>2 DEF File
<1>8. doc' \in [Docs -> Document] /\ doc \in [Docs -> Document]
  BY <1>6, <1>7, Typed
<1>9. \A e \in Docs : doc'[e] = IF e = d THEN new ELSE doc[e]
  BY <1>7, <1>8
<1>10. strayed' \subseteq (Ids \cup {Documents}) \X Ids /\ strayed \subseteq strayed'
  <2>1. {new.folder} \ {Nobody} \in SUBSET Ids
    BY <1>4, <1>5
  <2> QED BY <1>7, <2>1, StraysAre, Typed
<1>11. DocsLater(doc, doc')
  BY <1>3, <1>8, <1>9, DocumentRecords DEF DocsLater
<1>12. \A e \in Docs : doc'[e].there => doc'[e].born
  BY <1>5, <1>9, Typed DEF Living
<1>13. Filed(row, doc', strayed')
  <2> SUFFICES ASSUME NEW e \in Docs, doc'[e].folder # Nobody
               PROVE  /\ FolderOf(row, doc'[e].owner, doc'[e].folder)
                      /\ row[doc'[e].folder].there \/ <<Documents, doc'[e].folder>> \in strayed'
    BY DEF Filed
  <2>1. CASE e = d
    BY <1>4, <1>5, <1>7, <1>9, <2>1 DEF Strays
  <2>2. CASE e # d
    BY <1>9, <1>10, <2>2, Typed DEF Filed
  <2> QED BY <2>1, <2>2
<1>14. Moves(r, Ended(q, "ok"))
  BY <1>1, <1>2, OnSplits
<1>15. ~Sweeper(q)
  BY <1>1 DEF Sweeper
<1> QED BY <1>1, <1>7, <1>8, <1>10, <1>11, <1>12, <1>13, <1>14, <1>15, RowsStayAtLast

LEMMA MovesDocument ==
  ASSUME Inv, NEW r \in Reqs, SetFolder(r)
  PROVE  Inv'
<1> DEFINE q == req[r]
           d == q.id
           new == [doc[d] EXCEPT !.folder = q.folder]
<1>1. /\ Doing(r, "file") /\ q \in Request /\ Aimed(q, row, doc) /\ server = "up"
      /\ q.op = "move" /\ q.at = Len(Plan[q.op])
  BY DoingFacts, Signs DEF SetFolder, Move, Staged
<1>2. \/ Refuses(r, "missing")
      \/ doc[d].there /\ File(d, new) /\ On(r, q)
  BY DEF SetFolder, Move
<1>3. ~Sweeper(q) /\ OnDocument(q) /\ d \in Docs
  BY <1>1, OpsDiffer, Signs DEF Sweeper
<1> HIDE DEF new
<1>4. CASE Refuses(r, "missing")
  BY <1>3, <1>4, Refused DEF Statuses
<1>5. CASE doc[d].there /\ File(d, new) /\ On(r, q)
  <2>1. /\ doc[d] \in Document /\ doc[d].born /\ doc[d].owner = q.user
        /\ q.folder \in Ids \cup {Nobody}
        /\ (q.folder # Nobody => FolderOf(row, q.user, q.folder))
    BY <1>1, <1>3, <1>5, OpsDiffer, Typed DEF Request, Aimed
  <2>2. /\ new \in Document /\ new.there = doc[d].there /\ new.born = doc[d].born
        /\ new.owner = doc[d].owner /\ new.rev = doc[d].rev /\ new.text = doc[d].text
        /\ new.source = doc[d].source /\ new.folder = q.folder
    BY <2>1 DEF new, Document
  <2>3. /\ doc' = [doc EXCEPT ![d] = new] /\ UNCHANGED <<row, process>>
        /\ strayed' = strayed \cup Strays(Documents, {new.folder} \ {Nobody})
    BY <1>5 DEF File
  <2>4. doc' \in [Docs -> Document] /\ doc \in [Docs -> Document]
    BY <2>2, <2>3, Typed
  <2>5. \A e \in Docs : doc'[e] = IF e = d THEN new ELSE doc[e]
    BY <2>3, <2>4
  <2>6. strayed' \subseteq (Ids \cup {Documents}) \X Ids /\ strayed \subseteq strayed'
    <3>1. {new.folder} \ {Nobody} \in SUBSET Ids
      BY <2>1, <2>2
    <3> QED BY <2>3, <3>1, StraysAre, Typed
  <2>7. DocsLater(doc, doc')
    BY <1>5, <2>2, <2>4, <2>5, DocumentRecords DEF DocsLater
  <2>8. \A e \in Docs : doc'[e].there => doc'[e].born
    BY <2>1, <2>2, <2>5, Typed DEF Living
  <2>9. Filed(row, doc', strayed')
    <3> SUFFICES ASSUME NEW e \in Docs, doc'[e].folder # Nobody
                 PROVE  /\ FolderOf(row, doc'[e].owner, doc'[e].folder)
                        /\ row[doc'[e].folder].there \/ <<Documents, doc'[e].folder>> \in strayed'
      BY DEF Filed
    <3>1. CASE e = d
      BY <2>1, <2>2, <2>3, <2>5, <3>1 DEF Strays
    <3>2. CASE e # d
      BY <2>5, <2>6, <3>2, Typed DEF Filed
    <3> QED BY <3>1, <3>2
  <2>10. Moves(r, Ended(q, "ok"))
    BY <1>1, <1>5, OnSplits
  <2> QED BY <1>1, <1>3, <2>3, <2>4, <2>6, <2>7, <2>8, <2>9, <2>10, RowsStayAtLast
<1> QED BY <1>2, <1>4, <1>5

PutBy(r, d, q) == [d EXCEPT !.rev = @ + 1, !.text = IF q.op = "save" THEN r ELSE q.text,
                            !.source = IF q.op = "rename" THEN "user" ELSE q.source]
LEMMA PutRecord ==
  ASSUME NEW d \in Document, NEW q \in Request, NEW r \in Reqs, q.source # "none"
  PROVE  /\ PutBy(r, d, q) \in Document
         /\ PutBy(r, d, q).there = d.there /\ PutBy(r, d, q).born = d.born
         /\ PutBy(r, d, q).owner = d.owner /\ PutBy(r, d, q).rev = d.rev + 1
         /\ PutBy(r, d, q).folder = d.folder
         /\ PutBy(r, d, q).text = (IF q.op = "save" THEN r ELSE q.text)
         /\ PutBy(r, d, q).source = (IF q.op = "rename" THEN "user" ELSE q.source)
<1> DEFINE text == IF q.op = "save" THEN r ELSE q.text
           source == IF q.op = "rename" THEN "user" ELSE q.source
<1>1. text \in Reqs \cup {Nobody} /\ source \in {"fallback", "llm", "user"}
  BY DEF Request
<1>2. PutBy(r, d, q) = [d EXCEPT !.rev = @ + 1, !.text = text, !.source = source]
  BY DEF PutBy
<1> HIDE DEF text, source
<1> DEFINE e1 == [d EXCEPT !.rev = @ + 1]
           e2 == [e1 EXCEPT !.text = text]
           e3 == [e2 EXCEPT !.source = source]
<1>3. /\ e1 \in Document
      /\ e1.there = d.there /\ e1.born = d.born /\ e1.owner = d.owner /\ e1.rev = d.rev + 1
      /\ e1.folder = d.folder
  BY DEF Document
<1> HIDE DEF e1
<1>4. /\ e2 \in Document
      /\ e2.there = e1.there /\ e2.born = e1.born /\ e2.owner = e1.owner /\ e2.rev = e1.rev
      /\ e2.folder = e1.folder /\ e2.text = text
  BY <1>1, <1>3 DEF Document
<1> HIDE DEF e2
<1>5. /\ e3 \in Document
      /\ e3.there = e2.there /\ e3.born = e2.born /\ e3.owner = e2.owner /\ e3.rev = e2.rev
      /\ e3.folder = e2.folder /\ e3.text = e2.text /\ e3.source = source
  BY <1>1, <1>4 DEF Document
<1> HIDE DEF e3
<1>6. PutBy(r, d, q) = e3
  BY <1>2 DEF e1, e2, e3, Document
<1> QED BY <1>3, <1>4, <1>5, <1>6 DEF text, source

LEMMA Puts ==
  ASSUME Inv, NEW r \in Reqs, Put(r)
  PROVE  Inv'
<1> DEFINE q == req[r]
           d == q.id
           new == PutBy(r, doc[d], q)
<1>1. /\ Doing(r, "put") /\ q \in Request /\ Aimed(q, row, doc) /\ Dated(q, doc) /\ server = "up"
      /\ Holding(q, row)
      /\ q.op \in {"save", "rename"} /\ q.at = 2 /\ Len(Plan[q.op]) = 3
  BY DoingFacts, Signs DEF Put, Staged
<1>2. ~Sweeper(q) /\ OnDocument(q) /\ d \in Docs
  BY <1>1, OpsDiffer, Signs DEF Sweeper, Writes
<1>3. \/ /\ doc[d].there /\ doc[d].rev = q.rev
         /\ doc' = [doc EXCEPT ![d] = new]
         /\ Ends(r, "ok") /\ UNCHANGED <<row, process, strayed>>
      \/ Reads(r, q)
  <2>1. CASE doc[d].there /\ doc[d].rev = q.rev
    <3>1. doc' = [doc EXCEPT ![d] = PutBy(r, doc[d], q)] /\ Ends(r, "ok")
          /\ UNCHANGED <<row, process, strayed>>
      BY <2>1 DEF Put, PutBy
    <3> QED BY <2>1, <3>1
  <2>2. CASE ~(doc[d].there /\ doc[d].rev = q.rev)
    BY <2>2, Zenon DEF Put
  <2> QED BY <2>1, <2>2
<1> HIDE DEF new
<1>4. CASE Reads(r, q)
  <2>1. SameAim(q, q) /\ Onward(q).op = q.op /\ Onward(q).at = 3 /\ Onward(q).id = d /\ Onward(q).rev = q.rev
    BY <1>1, OnwardFacts DEF SameAim
  <2>2. Holding(Onward(q), row) /\ SweepsOn(Onward(q), row, strayed)
    BY <1>1, <2>1 DEF Holding, Merges, SweepsOn, Sweeper
  <2>3. Dated(Onward(q), doc)
    BY <1>1, <2>1 DEF Dated
  <2>4. q.op \in Profiles => \A f \in q.refs : Kind[f] = "domain"
    BY <1>1 DEF Aimed
  <2> QED BY <1>1, <1>2, <1>4, <2>1, <2>2, <2>3, <2>4, GoesOn
<1>5. CASE /\ doc[d].there /\ doc[d].rev = q.rev
           /\ doc' = [doc EXCEPT ![d] = new]
           /\ Ends(r, "ok") /\ UNCHANGED <<row, process, strayed>>
  <2>1. doc[d] \in Document /\ doc[d].born /\ q.source # "none"
    <3>1. doc[d] \in Document /\ doc[d].born
      BY <1>1, <1>2, Typed DEF Aimed
    <3>2. q.source # "none"
      BY <1>1 DEF Holding, Writes
    <3> QED BY <3>1, <3>2
  <2>2. /\ new \in Document /\ new.there = doc[d].there /\ new.born = doc[d].born
        /\ new.owner = doc[d].owner /\ new.rev = doc[d].rev + 1 /\ new.folder = doc[d].folder
    BY <1>1, <2>1, PutRecord DEF new
  <2>3. doc' \in [Docs -> Document] /\ doc \in [Docs -> Document]
    BY <1>5, <2>2, Typed
  <2>4. \A e \in Docs : doc'[e] = IF e = d THEN new ELSE doc[e]
    BY <1>5, <2>3
  <2>5. DocsLater(doc, doc')
    BY <1>5, <2>2, <2>3, <2>4, DocumentRecords DEF DocsLater
  <2>6. \A e \in Docs : doc'[e].there => doc'[e].born
    BY <2>1, <2>2, <2>4, Typed DEF Living
  <2>7. Filed(row, doc', strayed')
    BY <1>5, <2>2, <2>4, Typed DEF Filed
  <2>8. Moves(r, Ended(q, "ok"))
    BY <1>5 DEF Ends, Ended
  <2> QED BY <1>1, <1>2, <1>5, <2>3, <2>5, <2>6, <2>7, <2>8, RowsStayAtLast, Typed
<1> QED BY <1>3, <1>4, <1>5

LEMMA SetsName ==
  ASSUME Inv, NEW r \in Reqs, SetName(r)
  PROVE  Inv'
<1> DEFINE q == req[r]
           d == q.id
<1>1. /\ Doing(r, "name") /\ q \in Request /\ Aimed(q, row, doc) /\ server = "up"
      /\ Fits(q, row, doc, strayed)
      /\ q.op = "title" /\ q.at = 2 /\ Len(Plan[q.op]) = 3
  BY DoingFacts, Signs DEF SetName, Staged
<1>2. ~Sweeper(q) /\ OnDocument(q) /\ d \in Docs
  BY <1>1, OpsDiffer, Signs DEF Sweeper
<1>3. PICK source \in {"llm", "fallback"} :
        doc' = IF Nameable(d) THEN [doc EXCEPT ![d].source = source] ELSE doc
  BY DEF SetName
<1>4. On(r, q) /\ UNCHANGED <<row, process, strayed>>
  BY DEF SetName
<1>5. doc \in [Docs -> Document]
  BY Typed
<1>6. \A e \in Docs :
        /\ doc'[e] \in Document /\ doc'[e].there = doc[e].there /\ doc'[e].born = doc[e].born
        /\ doc'[e].owner = doc[e].owner /\ doc'[e].rev = doc[e].rev /\ doc'[e].text = doc[e].text
        /\ doc'[e].folder = doc[e].folder
        /\ doc'[e].source = "user" => doc[e].source = "user"
  BY <1>2, <1>3, <1>5 DEF Document
<1>7. doc' \in [Docs -> Document]
  <2>1. doc' = [e \in Docs |-> doc'[e]]
    BY <1>3, <1>5
  <2> QED BY <1>6, <2>1
<1>8. DocsLater(doc, doc')
  BY <1>5, <1>6, DocumentRecords DEF DocsLater
<1>9. \A e \in Docs : doc'[e].there => doc'[e].born
  BY <1>6, Typed DEF Living
<1>10. Filed(row, doc', strayed')
  BY <1>4, <1>6, Typed DEF Filed
<1>11. Later(row, doc, strayed, row, doc', strayed)
  BY <1>8 DEF Later, RowsLater, RefsLater, Alike
<1>12. Fits(q, row, doc', strayed)
  BY <1>1, <1>5, <1>7, <1>11, FitsLater, Typed
<1>13. Onward(q) \in Request /\ Fits(Onward(q), row, doc', strayed) /\ Moves(r, Onward(q))
  <2>1. q.at # Len(Plan[q.op]) /\ q.op \notin Merges \cup {"deleteProfile", "deleteDomain"} \cup Writes
    BY <1>1 DEF Merges, Writes
  <2>2. Fits(Onward(q), row, doc', strayed)
    BY <1>1, <1>12, <2>1, FitsOnward
  <2> QED BY <1>1, <1>4, <2>1, <2>2, OnwardFacts, OnSplits
<1> QED BY <1>1, <1>2, <1>4, <1>7, <1>8, <1>9, <1>10, <1>13, RowsStay, Typed

LEMMA Drops ==
  ASSUME Inv, NEW r \in Reqs, Drop(r)
  PROVE  Inv'
<1> DEFINE q == req[r]
           d == q.id
           new == [NoDocument EXCEPT !.born = TRUE]
<1>1. /\ Doing(r, "drop") /\ q \in Request /\ Aimed(q, row, doc) /\ server = "up" /\ q.op = "drop"
  BY DoingFacts, Signs DEF Drop, Staged
<1>2. ~Sweeper(q) /\ OnDocument(q) /\ d \in Docs
  BY <1>1, OpsDiffer, Signs DEF Sweeper
<1>3. \/ Refuses(r, "missing")
      \/ /\ doc' = [doc EXCEPT ![d] = new] /\ Ends(r, "ok") /\ UNCHANGED <<row, process, strayed>>
  BY DEF Drop
<1>4. CASE Refuses(r, "missing")
  BY <1>2, <1>4, Refused DEF Statuses
<1>5. CASE doc' = [doc EXCEPT ![d] = new] /\ Ends(r, "ok") /\ UNCHANGED <<row, process, strayed>>
  <2>1. new \in Document /\ ~new.there /\ new.born /\ new.folder = Nobody
    BY DEF NoDocument, Document
  <2> HIDE DEF new
  <2>2. doc' \in [Docs -> Document] /\ doc \in [Docs -> Document]
    BY <1>5, <2>1, Typed
  <2>3. \A e \in Docs : doc'[e] = IF e = d THEN new ELSE doc[e]
    BY <1>5, <2>2
  <2>4. DocsLater(doc, doc')
    BY <2>1, <2>2, <2>3, DocumentRecords DEF DocsLater
  <2>5. \A e \in Docs : doc'[e].there => doc'[e].born
    BY <2>1, <2>3, Typed DEF Living
  <2>6. Filed(row, doc', strayed')
    BY <1>5, <2>1, <2>3, Typed DEF Filed
  <2>7. Moves(r, Ended(q, "ok"))
    BY <1>5 DEF Ends, Ended
  <2> QED BY <1>1, <1>2, <1>5, <2>2, <2>4, <2>5, <2>6, <2>7, RowsStayAtLast, Typed
<1> QED BY <1>3, <1>4, <1>5

(* A row is stored: a new one, or a new state of one that is there.         *)
Storable(i, n) ==
  /\ n \in Row /\ n.there /\ n.born
  /\ row[i].born => row[i].there /\ Alike(n, row[i])
  /\ ~row[i].born => ~n.std /\ ~n.seed
  /\ Kind[i] = "profile" => \A d \in n.refs : Kind[d] = "domain"
LEMMA StoresLater ==
  ASSUME Inv, server = "up", NEW i \in Ids, NEW n, Storable(i, n), Stores(i, n)
  PROVE  /\ row' \in [Ids -> Row] /\ \A j \in Ids : row'[j] = IF j = i THEN n ELSE row[j]
         /\ doc' = doc /\ UNCHANGED process
         /\ strayed' \subseteq (Ids \cup {Documents}) \X Ids
         /\ Later(row, doc, strayed, row', doc', strayed')
         /\ Living(row', doc') /\ Refers(row') /\ Filed(row', doc', strayed') /\ SeedsFit'
<1>1. /\ row' = [row EXCEPT ![i] = n] /\ doc' = doc /\ UNCHANGED process
      /\ strayed' = strayed \cup (IF Kind[i] = "profile" THEN Strays(i, n.refs) ELSE {})
  BY DEF Stores
<1>2. /\ n \in Row /\ n.there /\ n.born
      /\ row[i].born => row[i].there /\ Alike(n, row[i])
      /\ ~row[i].born => ~n.std /\ ~n.seed
      /\ Kind[i] = "profile" => \A d \in n.refs : Kind[d] = "domain"
  BY DEF Storable
<1>3. row \in [Ids -> Row] /\ row' \in [Ids -> Row]
  BY <1>1, <1>2, Typed
<1>4. \A j \in Ids : row'[j] = IF j = i THEN n ELSE row[j]
  BY <1>1, <1>3
<1>5. n.refs \in SUBSET Ids
  BY <1>2 DEF Row
<1>6. /\ strayed' \subseteq (Ids \cup {Documents}) \X Ids /\ strayed \subseteq strayed'
      /\ Kind[i] = "profile" => \A d \in n.refs : row[d].there \/ <<i, d>> \in strayed'
  BY <1>1, <1>5, StraysAre, Typed
<1>7. \A j \in Ids : row[j].there => row'[j].there
  BY <1>2, <1>4
<1>8. RowsLater(row, row')
  BY <1>2, <1>4 DEF RowsLater, Alike
<1>9. RefsLater(row, row', strayed')
  <2> SUFFICES ASSUME NEW p \in Ids, Kind[p] = "profile", row'[p].there, NEW d \in row'[p].refs
               PROVE  (row[p].there /\ d \in row[p].refs) \/ row'[d].there \/ <<p, d>> \in strayed'
    BY DEF RefsLater
  <2>1. CASE p # i
    BY <1>4, <2>1
  <2>2. CASE p = i
    <3>1. d \in n.refs /\ d \in Ids
      BY <1>4, <1>5, <2>2
    <3> QED BY <1>6, <1>7, <2>2, <3>1
  <2> QED BY <2>1, <2>2
<1>10. Later(row, doc, strayed, row', doc', strayed')
  <2>1. DocsLater(doc, doc')
    BY <1>1, <1>3, NothingLater, Typed DEF Later
  <2> QED BY <1>6, <1>8, <1>9, <2>1 DEF Later
<1>11. Living(row', doc')
  BY <1>1, <1>2, <1>4, Typed DEF Living
<1>12. Refers(row')
  BY <1>2, <1>4, Typed DEF Refers
<1>13. Filed(row', doc', strayed')
  <2> SUFFICES ASSUME NEW d \in Docs, doc[d].folder # Nobody
               PROVE  /\ FolderOf(row', doc[d].owner, doc[d].folder)
                      /\ row'[doc[d].folder].there \/ <<Documents, doc[d].folder>> \in strayed'
    BY <1>1 DEF Filed
  <2>1. /\ FolderOf(row, doc[d].owner, doc[d].folder)
        /\ row[doc[d].folder].there \/ <<Documents, doc[d].folder>> \in strayed
    BY Typed DEF Filed
  <2> QED BY <1>6, <1>7, <1>8, <2>1 DEF FolderOf, RowsLater, Alike
<1>14. SeedsFit'
  <2>1. ASSUME NEW j \in Ids, Kind[j] = "profile"
        PROVE  row'[j].std = row[j].std /\ (row'[j].seed => row[j].seed)
    <3>1. CASE j # i \/ row[i].born
      BY <1>2, <1>4, <3>1 DEF Alike
    <3>2. CASE j = i /\ ~row[i].born
      <4>1. ~row[i].std
        BY <2>1, <3>2, Typed DEF SeedsFit, OnlyOnce, IsStandard, Living
      <4>2. row[i].std \in BOOLEAN /\ n.std \in BOOLEAN
        BY <1>2, <1>3 DEF Row
      <4> QED BY <1>2, <1>4, <3>2, <4>1, <4>2
    <3> QED BY <3>1, <3>2
  <2> QED BY <1>1, <1>7, <2>1, SeedsStay
<1> QED BY <1>1, <1>3, <1>4, <1>6, <1>10, <1>11, <1>12, <1>13, <1>14

LEMMA RowStored ==
  ASSUME Inv, server = "up", NEW i \in Ids, NEW n, Storable(i, n), Stores(i, n),
         NEW r \in Reqs, NEW q, q \in Request, Moves(r, q), ~Sweeper(req[r]),
         q.at > 0 => Fits(q, row', doc', strayed')
  PROVE  Inv'
<1>1. /\ row' \in [Ids -> Row] /\ \A j \in Ids : row'[j] = IF j = i THEN n ELSE row[j]
      /\ doc' = doc /\ UNCHANGED process
      /\ strayed' \subseteq (Ids \cup {Documents}) \X Ids
      /\ Later(row, doc, strayed, row', doc', strayed')
      /\ Living(row', doc') /\ Refers(row') /\ Filed(row', doc', strayed') /\ SeedsFit'
  BY StoresLater
<1>2. \A d \in Ids : Kind[d] = "domain" /\ row[d].there => row'[d].there
  BY <1>1 DEF Storable
<1>3. Referred'
  BY <1>1, <1>2, ReferredStays
<1>4. doc' \in [Docs -> Document]
  BY <1>1, Typed
<1> QED BY <1>1, <1>3, <1>4, RequestMoves

LEMMA RowStoredAtLast ==
  ASSUME Inv, server = "up", NEW i \in Ids, NEW n, Storable(i, n), Stores(i, n),
         NEW r \in Reqs, Moves(r, Ended(req[r], "ok")), ~Sweeper(req[r])
  PROVE  Inv'
<1>1. Ended(req[r], "ok") \in Request /\ Ended(req[r], "ok").at = 0
  BY Typed, EndedFacts DEF Statuses
<1> DEFINE q == Ended(req[r], "ok")
<1>2. q \in Request /\ Moves(r, q) /\ ~(q.at > 0)
  BY <1>1
<1> HIDE DEF q
<1> QED BY <1>2, RowStored

LEMMA KindsOfCreations ==
  /\ KindOf("createProfile") = "profile" /\ KindOf("createFolder") = "folder"
  /\ KindOf("createDomain") = "domain" /\ KindOf("createTerm") = "term"
  /\ "createProfile" \in Profiles
BY OpsAre, KindsAre

LEMMA Inserts ==
  ASSUME Inv, NEW r \in Reqs, Insert(r)
  PROVE  Inv'
<1> DEFINE q == req[r]
           kind == KindOf(q.op)
           i == Min(Unborn(kind))
           new == [there |-> TRUE, born |-> TRUE, owner |-> q.user, name |-> q.name,
                   std |-> FALSE, seed |-> FALSE, refs |-> q.refs, by |-> r]
<1>1. /\ Doing(r, "insert") /\ q \in Request /\ Aimed(q, row, doc) /\ server = "up"
      /\ q.op \in Creations /\ q.at = Len(Plan[q.op])
  BY DoingFacts, Signs DEF Insert, Staged
<1>2. ~Sweeper(q)
  BY <1>1 DEF Sweeper, Creations
<1>3. \/ \E status \in {"conflict", "error"} : Refuses(r, status)
      \/ Unborn(kind) # {} /\ Stores(i, new) /\ On(r, q)
  BY Zenon DEF Insert
<1> HIDE DEF i, new
<1>4. CASE \E status \in {"conflict", "error"} : Refuses(r, status)
  BY <1>2, <1>4, Refused DEF Statuses
<1>5. CASE Unborn(kind) # {} /\ Stores(i, new) /\ On(r, q)
  <2>1. i \in Ids /\ Kind[i] = kind /\ ~row[i].born /\ ~row[i].there
    BY <1>5, FirstUnborn DEF i
  <2>2. new \in Row /\ new.there /\ new.born /\ ~new.std /\ ~new.seed /\ new.refs = q.refs
    BY <1>1 DEF new, Row, Request
  <2>3. kind = "profile" => q.op \in Profiles
    BY <1>1, KindsOfCreations DEF Creations
  <2>4. Storable(i, new)
    BY <1>1, <2>1, <2>2, <2>3 DEF Storable, Aimed
  <2>5. Moves(r, Ended(q, "ok"))
    BY <1>1, <1>5, OnSplits
  <2> QED BY <1>1, <1>2, <1>5, <2>1, <2>4, <2>5, RowStoredAtLast
<1> QED BY <1>3, <1>4, <1>5

LEMMA MergedFacts ==
  ASSUME Inv, NEW r \in Reqs, NEW q, q = req[r], Doing(r, "write"), row[q.id].there
  PROVE  Storable(q.id, Merged(q, r))
<1>1. /\ q \in Request /\ Aimed(q, row, doc) /\ Holding(q, row)
      /\ q.op \in {"renameFolder", "setDefaults", "updateProfile", "resetProfile",
                   "updateDomain", "describeDomain", "updateTerm"} /\ q.at > 1
  BY DoingFacts, Signs DEF Staged
<1>2. OnRow(q) /\ q.id \in Ids /\ row[q.id] \in Row /\ row[q.id].born
  BY <1>1, OpsDiffer, Typed DEF Merges, Aimed, Living
<1>3. /\ q.row \in Row /\ q.refs \in SUBSET Ids
      /\ q.name \in Names \cup {"none", Standard, Example, ProductDocs}
  BY <1>1 DEF Request
<1>4. /\ Kind[q.id] = KindOf(q.op)
      /\ q.op \in Merges => q.row.there /\ q.row.born /\ Alike(q.row, row[q.id])
  BY <1>1, <1>2 DEF Aimed, Holding
<1> DEFINE x == IF q.op \in Merges THEN q.row ELSE row[q.id]
<1>5. x \in Row /\ x.there /\ x.born /\ Alike(x, row[q.id])
  BY <1>2, <1>3, <1>4 DEF Alike
<1> HIDE DEF x
<1>6. /\ Merged(q, r) \in Row /\ Merged(q, r).there = x.there /\ Merged(q, r).born = x.born
      /\ Alike(Merged(q, r), x)
      /\ q.op = "updateProfile" => Merged(q, r).refs = q.refs
      /\ q.op = "resetProfile" => Merged(q, r).refs = {}
  <2>1. CASE q.op = "updateProfile"
    <3>1. Merged(q, r) = [x EXCEPT !.name = q.name, !.refs = q.refs, !.by = r]
      BY <2>1 DEF Merged, x, Merges
    <3> QED BY <1>3, <1>5, <2>1, <3>1 DEF Row, Alike
  <2>2. CASE q.op = "resetProfile"
    <3>1. Merged(q, r) = [x EXCEPT !.refs = {}, !.by = r]
      BY <2>2 DEF Merged, x, Merges
    <3> QED BY <1>3, <1>5, <2>2, <3>1 DEF Row, Alike
  <2>3. CASE q.op \in {"updateDomain", "renameFolder"}
    <3>1. Merged(q, r) = [x EXCEPT !.name = q.name, !.by = r]
      BY <2>3 DEF Merged, x, Merges
    <3> QED BY <1>3, <1>5, <2>3, <3>1 DEF Row, Alike
  <2>4. CASE q.op \in {"describeDomain", "updateTerm"}
    <3>1. Merged(q, r) = [x EXCEPT !.by = r]
      BY <2>4 DEF Merged, x, Merges
    <3> QED BY <1>3, <1>5, <2>4, <3>1 DEF Row, Alike
  <2>5. CASE q.op = "setDefaults"
    <3>1. Merged(q, r) = [x EXCEPT !.refs = q.refs, !.by = r]
      BY <2>5 DEF Merged, x, Merges
    <3> QED BY <1>3, <1>5, <2>5, <3>1 DEF Row, Alike
  <2> QED BY <1>1, <2>1, <2>2, <2>3, <2>4, <2>5
<1>7. Kind[q.id] = "profile" => q.op \in {"updateProfile", "resetProfile"} /\ q.op \in Profiles
  BY <1>1, <1>4, OpsAre, KindsAre
<1>8. Kind[q.id] = "profile" => \A d \in Merged(q, r).refs : Kind[d] = "domain"
  BY <1>1, <1>6, <1>7 DEF Aimed
<1> QED BY <1>2, <1>5, <1>6, <1>8 DEF Storable, Alike

LEMMA MergesLast ==
  ASSUME NEW op \in Merges, NEW at \in 1..Len(Plan[op]), At(op, at, "write")
  PROVE  at = Len(Plan[op])
<1>1. CASE op = "updateProfile" BY <1>1, PlansOfRows DEF At
<1>2. CASE op = "resetProfile" BY <1>2, PlansOfRows DEF At
<1>3. CASE op = "updateDomain" BY <1>3, PlansOfDomains DEF At
<1>4. CASE op = "describeDomain" BY <1>4, PlansOfDomains DEF At
<1>5. CASE op = "updateTerm" BY <1>5, PlansOfDomains DEF At
<1> QED BY <1>1, <1>2, <1>3, <1>4, <1>5 DEF Merges

LEMMA Updates ==
  ASSUME Inv, NEW r \in Reqs, Update(r)
  PROVE  Inv'
<1> DEFINE q == req[r]
           i == q.id
           new == Merged(q, r)
<1>1. /\ Doing(r, "write") /\ q \in Request /\ Aimed(q, row, doc) /\ server = "up"
      /\ Fits(q, row, doc, strayed)
      /\ q.op \in {"renameFolder", "setDefaults", "updateProfile", "resetProfile",
                   "updateDomain", "describeDomain", "updateTerm"} /\ q.at > 1
  BY DoingFacts, Signs DEF Update, Staged
<1>2. ~Sweeper(q) /\ OnRow(q) /\ i \in Ids
  BY <1>1, OpsDiffer, Signs DEF Sweeper, Merges
<1>3. \/ Refuses(r, "conflict")
      \/ ~row[i].there /\ Reads(r, q)
      \/ row[i].there /\ Stores(i, new) /\ On(r, q)
  BY Zenon DEF Update
<1> HIDE DEF new
<1>4. CASE Refuses(r, "conflict")
  BY <1>2, <1>4, Refused DEF Statuses
<1>5. CASE ~row[i].there /\ Reads(r, q)
  <2>1. SameAim(q, q) /\ Onward(q).op = q.op /\ Onward(q).at = q.at + 1 /\ Onward(q).id = i
        /\ Onward(q).row = q.row
    BY <1>1, OnwardFacts DEF SameAim
  <2>2. Holding(Onward(q), row) /\ SweepsOn(Onward(q), row, strayed) /\ Dated(Onward(q), doc)
    BY <1>1, <2>1 DEF Fits, Holding, Merges, Writes, SweepsOn, Sweeper, Dated
  <2>3. q.op \in Profiles => \A f \in q.refs : Kind[f] = "domain"
    BY <1>1 DEF Aimed
  <2> QED BY <1>1, <1>2, <1>5, <2>1, <2>2, <2>3, GoesOn
<1>6. CASE row[i].there /\ Stores(i, new) /\ On(r, q)
  <2>1. Storable(i, new)
    BY <1>1, <1>6, MergedFacts DEF new
  <2>2. CASE q.at = Len(Plan[q.op])
    BY <1>1, <1>2, <1>6, <2>1, <2>2, OnSplits, RowStoredAtLast
  <2>3. CASE q.at # Len(Plan[q.op])
    <3>1. q.op \in {"renameFolder", "setDefaults"}
      <4>1. q.at \in 1..Len(Plan[q.op]) /\ At(q.op, q.at, "write")
        BY <1>1, DoingFacts
      <4>2. q.op \notin Merges
        BY <2>3, <4>1, MergesLast
      <4> QED BY <1>1, <4>2 DEF Merges
    <3>2. Later(row, doc, strayed, row', doc', strayed') /\ row' \in [Ids -> Row] /\ doc' = doc
      BY <1>1, <1>2, <1>6, <2>1, StoresLater
    <3>3. Fits(q, row', doc', strayed')
      BY <1>1, <3>2, FitsLater, Typed
    <3>4. Moves(r, Onward(q)) /\ Onward(q) \in Request
      BY <1>1, <1>6, <2>3, OnSplits, OnwardFacts
    <3>5. Fits(Onward(q), row', doc', strayed')
      BY <1>1, <2>3, <3>1, <3>3, FitsOnward DEF Merges, Writes
    <3> QED BY <1>1, <1>2, <1>6, <2>1, <3>4, <3>5, RowStored
  <2> QED BY <2>2, <2>3
<1> QED BY <1>3, <1>4, <1>5, <1>6

LEMMA DeletedRow ==
  ASSUME NEW x \in Row
  PROVE  LET e == [x EXCEPT !.there = FALSE, !.refs = {}]
         IN  /\ e \in Row /\ ~e.there /\ e.born = x.born /\ Alike(e, x) /\ e.refs = {}
BY DEF Row, Alike

LEMMA Deletes ==
  ASSUME Inv, NEW r \in Reqs, Delete(r)
  PROVE  Inv'
<1> DEFINE q == req[r]
           i == q.id
           gone == {i} \cup {t \in There("term") : i \in row[t].refs}
<1>1. /\ Doing(r, "delete") /\ q \in Request /\ Aimed(q, row, doc) /\ server = "up"
      /\ Holding(q, row) /\ Fits(q, row, doc, strayed)
      /\ q.op \in {"deleteFolder", "deleteProfile", "deleteDomain", "deleteTerm"}
      /\ (q.op = "deleteProfile" => q.at > 1)
      /\ (q.op = "deleteDomain" => q.at = 2 /\ Len(Plan[q.op]) = 4)
      /\ (q.op # "deleteDomain" => q.at = Len(Plan[q.op]))
  BY DoingFacts, Signs DEF Delete, Staged
<1>2. ~Sweeper(q) /\ OnRow(q) /\ i \in Ids /\ Kind[i] = KindOf(q.op) /\ row[i].born
  BY <1>1, OpsDiffer, Signs DEF Sweeper, Aimed
<1>3. \/ \E status \in {"ok", "missing"} : Refuses(r, status)
      \/ /\ row[i].there
         /\ row' = [j \in Ids |-> IF j \in gone THEN [row[j] EXCEPT !.there = FALSE, !.refs = {}]
                                  ELSE row[j]]
         /\ doc' = (IF Kind[i] = "folder" THEN Unfiled(i, q.user) ELSE doc)
         /\ On(r, q) /\ UNCHANGED <<process, strayed>>
  BY Zenon DEF Delete
<1>4. CASE \E status \in {"ok", "missing"} : Refuses(r, status)
  BY <1>2, <1>4, Refused DEF Statuses
<1>5. CASE /\ row[i].there
           /\ row' = [j \in Ids |-> IF j \in gone THEN [row[j] EXCEPT !.there = FALSE, !.refs = {}]
                                    ELSE row[j]]
           /\ doc' = (IF Kind[i] = "folder" THEN Unfiled(i, q.user) ELSE doc)
           /\ On(r, q) /\ UNCHANGED <<process, strayed>>
  <2>1. \A j \in gone : j \in Ids /\ (j = i \/ Kind[j] = "term")
    BY <1>2 DEF There, Of
  <2>2. i \in gone
    OBVIOUS
  <2> HIDE DEF gone
  <2>3. row \in [Ids -> Row] /\ doc \in [Docs -> Document]
    BY Typed
  <2>4. \A j \in gone : /\ row'[j] \in Row /\ ~row'[j].there /\ row'[j].born = row[j].born
                        /\ Alike(row'[j], row[j]) /\ row'[j].refs = {}
    BY <1>5, <2>1, <2>3, DeletedRow
  <2>5. \A j \in Ids \ gone : row'[j] = row[j]
    BY <1>5
  <2>6. row' \in [Ids -> Row]
    <3>1. \A j \in Ids : row'[j] \in Row
      BY <2>3, <2>4, <2>5
    <3>2. row' = [j \in Ids |-> row'[j]]
      BY <1>5
    <3> QED BY <3>1, <3>2
  <2>7. KindOf(q.op) = "folder" <=> q.op = "deleteFolder"
    BY <1>1, OpsAre, KindsAre
  <2>8. \A d \in Docs : /\ doc'[d] \in Document /\ doc'[d].there = doc[d].there
                        /\ doc'[d].born = doc[d].born /\ doc'[d].owner = doc[d].owner
                        /\ doc'[d].rev = doc[d].rev /\ doc'[d].text = doc[d].text
                        /\ doc'[d].source = doc[d].source
                        /\ \/ doc'[d].folder = Nobody
                           \/ doc'[d].folder = doc[d].folder
                              /\ (Kind[i] = "folder" => ~(doc[d].folder = i /\ doc[d].owner = q.user))
    <3>1. CASE Kind[i] = "folder"
      <4>1. \A d \in Docs : doc'[d] = IF doc[d].folder = i /\ doc[d].owner = q.user
                                        THEN [doc[d] EXCEPT !.folder = Nobody] ELSE doc[d]
        BY <1>5, <3>1 DEF Unfiled
      <4>2. SUFFICES ASSUME NEW d \in Docs, NEW old, NEW new, old = doc[d], new = doc'[d]
            PROVE  /\ new \in Document /\ new.there = old.there
                   /\ new.born = old.born /\ new.owner = old.owner
                   /\ new.rev = old.rev /\ new.text = old.text /\ new.source = old.source
                   /\ \/ new.folder = Nobody
                      \/ new.folder = old.folder /\ ~(old.folder = i /\ old.owner = q.user)
        BY <4>2
      <4>3. old \in Document
        BY <2>3, <4>2
      <4>4. new = IF old.folder = i /\ old.owner = q.user
                   THEN [old EXCEPT !.folder = Nobody] ELSE old
        BY <4>1, <4>2
      <4> QED BY <4>3, <4>4 DEF Document
    <3>2. CASE Kind[i] # "folder"
      BY <1>5, <2>3, <3>2
    <3> QED BY <3>1, <3>2
  <2>9. doc' \in [Docs -> Document]
    <3>1. doc' = [d \in Docs |-> doc'[d]]
      BY <1>5, <2>3 DEF Unfiled
    <3> QED BY <2>8, <3>1
  <2>10. RowsLater(row, row') /\ RefsLater(row, row', strayed')
    BY <2>4, <2>5 DEF RowsLater, RefsLater, Alike
  <2>11. DocsLater(doc, doc')
    BY <2>3, <2>8, DocumentRecords DEF DocsLater
  <2>12. Later(row, doc, strayed, row', doc', strayed')
    BY <1>5, <2>10, <2>11 DEF Later
  <2>13. Living(row', doc') /\ Refers(row')
    BY <2>4, <2>5, <2>8, Typed DEF Living, Refers
  <2>14. Filed(row', doc', strayed')
    <3> SUFFICES ASSUME NEW d \in Docs, doc'[d].folder # Nobody
                 PROVE  /\ FolderOf(row', doc'[d].owner, doc'[d].folder)
                        /\ row'[doc'[d].folder].there \/ <<Documents, doc'[d].folder>> \in strayed'
      BY DEF Filed
    <3>1. /\ doc'[d].folder = doc[d].folder /\ doc'[d].owner = doc[d].owner
          /\ (Kind[i] = "folder" => ~(doc[d].folder = i /\ doc[d].owner = q.user))
      BY <2>8
    <3>2. /\ FolderOf(row, doc[d].owner, doc[d].folder)
          /\ row[doc[d].folder].there \/ <<Documents, doc[d].folder>> \in strayed
      BY <3>1, Typed DEF Filed
    <3>3. FolderOf(row', doc[d].owner, doc[d].folder)
      BY <2>10, <3>2 DEF FolderOf, RowsLater, Alike
    <3>4. doc[d].folder # i
      <4> SUFFICES ASSUME doc[d].folder = i PROVE FALSE
        OBVIOUS
      <4>1. Kind[i] = "folder" /\ row[i].owner = doc[d].owner
        BY <3>2 DEF FolderOf
      <4>2. row[i].owner = q.user
        BY <1>1, <1>2, <2>7, <4>1, OpsAre DEF Aimed
      <4> QED BY <3>1, <4>1, <4>2
    <3>5. doc[d].folder \notin gone
      BY <2>1, <3>2, <3>4 DEF FolderOf
    <3> QED BY <1>5, <2>5, <3>1, <3>2, <3>3, <3>5 DEF FolderOf
  <2>15. SeedsFit'
    <3> SUFFICES ASSUME NEW j \in Ids, Kind[j] = "profile"
                 PROVE  /\ row'[j].std = row[j].std /\ (row'[j].seed => row[j].seed)
                        /\ row[j].std /\ row[j].there => row'[j].there
      BY <1>1, <1>5, SeedsStay
    <3>1. CASE j \notin gone
      BY <2>5, <3>1
    <3>2. CASE j \in gone
      <4>1. j = i /\ q.op = "deleteProfile"
        BY <1>1, <1>2, <2>1, <3>2, OpsAre, KindsAre
      <4>2. ~row[i].std
        BY <1>1, <4>1 DEF Holding
      <4> QED BY <2>4, <3>2, <4>1, <4>2 DEF Alike
    <3> QED BY <3>1, <3>2
  <2>16. CASE q.op # "deleteDomain"
    <3>1. Moves(r, Ended(q, "ok"))
      BY <1>1, <1>5, <2>16, OnSplits
    <3>2. Ended(q, "ok") \in Request /\ Ended(q, "ok").at = 0
      BY <1>1, EndedFacts DEF Statuses
    <3>3. Kind[i] # "domain"
      BY <1>1, <1>2, <2>16, OpsAre, KindsAre
    <3>4. \A d \in Ids : Kind[d] = "domain" /\ row[d].there => row'[d].there
      BY <2>1, <2>5, <3>3
    <3> DEFINE e == Ended(q, "ok")
    <3>5. e \in Request /\ Moves(r, e) /\ ~(e.at > 0)
      BY <3>1, <3>2
    <3> HIDE DEF e
    <3>6. Referred'
      BY <1>2, <2>6, <2>12, <2>13, <3>4, <3>5, ReferredStays
    <3> QED BY <1>5, <2>6, <2>9, <2>12, <2>13, <2>14, <2>15, <3>5, <3>6, RequestMoves, Typed
  <2>17. CASE q.op = "deleteDomain"
    <3> DEFINE e == Onward(q)
    <3>1. e \in Request /\ Moves(r, e) /\ e.at = 3 /\ e.op = q.op /\ e.id = i /\ e.user = q.user
          /\ e.folder = q.folder /\ e.refs = q.refs
      <4>1. q.at = 2 /\ Len(Plan[q.op]) = 4
        BY <1>1, <2>17
      <4>2. Moves(r, Onward(q))
        <5>1. On(r, q)
          BY <1>5
        <5>2. q.at # Len(Plan[q.op])
          BY <4>1
        <5> QED BY <5>1, <5>2, OnSplits, Zenon
      <4> QED BY <1>1, <4>1, <4>2, OnwardFacts
    <3> HIDE DEF e
    <3>2. Sweeper(e)
      BY <2>17, <3>1 DEF Sweeper
    <3>3. \A d \in Ids : Kind[d] = "domain" /\ row[d].there => row'[d].there \/ (Sweeper(e) /\ e.id = d)
      BY <2>1, <2>5, <3>1, <3>2
    <3>4. Referred'
      BY <1>2, <2>6, <2>12, <2>13, <3>1, <3>3, ReferredStays
    <3>5. Fits(q, row', doc', strayed')
      BY <1>1, <2>3, <2>6, <2>9, <2>12, FitsLater
    <3>6. Placed(e) /\ Aimed(e, row', doc')
      <4>1. Aimed(q, row', doc') /\ Placed(q)
        BY <3>5 DEF Fits
      <4>2. Aimed(e, row', doc')
        BY <3>1, <4>1 DEF Aimed, OnRow, OnDocument
      <4>3. e.op \in Ops /\ Len(Plan[e.op]) = 4
        BY <1>1, <2>17, <3>1, <4>1, Zenon DEF Placed
      <4> QED BY <3>1, <4>2, <4>3 DEF Placed
    <3>7. Holding(e, row') /\ Dated(e, doc')
      BY <2>17, <3>1 DEF Holding, Merges, Writes, Dated
    <3>8. SweepsOn(e, row', strayed')
      BY <2>2, <2>4, <3>1 DEF SweepsOn
    <3>9. Fits(e, row', doc', strayed')
      BY <3>6, <3>7, <3>8 DEF Fits
    <3> QED BY <1>1, <1>5, <2>6, <2>9, <2>12, <2>13, <2>14, <2>15, <3>1, <3>4, <3>9, RequestMoves, Typed
  <2> QED BY <2>16, <2>17
<1> QED BY <1>3, <1>4, <1>5

LEMMA Sweeps ==
  ASSUME Inv, NEW r \in Reqs, Sweep(r)
  PROVE  Inv'
<1> DEFINE q == req[r]
           found == {x \in q.read : row[x[1]].there}
           Hit(i) == CHOOSE x \in found : x[1] = i
<1>1. /\ Doing(r, "sweep") /\ q \in Request /\ Aimed(q, row, doc) /\ server = "up"
      /\ SweepsOn(q, row, strayed)
      /\ q.op = "deleteDomain" /\ q.at = 4 /\ Len(Plan[q.op]) = 4
  BY DoingFacts, Signs DEF Sweep, Staged
<1>2. Sweeper(q) /\ OnRow(q) /\ q.id \in Ids
  BY <1>1, OpsDiffer, Signs DEF Sweeper
<1>3. /\ row' = [i \in Ids |-> IF \E x \in found : x[1] = i
                                 THEN [row[i] EXCEPT !.refs = Hit(i)[2] \ {q.id}] ELSE row[i]]
      /\ strayed' = strayed \cup UNION {Strays(x[1], x[2] \ {q.id}) : x \in found}
      /\ On(r, q) /\ doc' = doc /\ UNCHANGED process
  BY DEF Sweep
<1>4. /\ ~row[q.id].there
      /\ \A x \in q.read : Kind[x[1]] = "profile" /\ \A d \in x[2] : Kind[d] = "domain"
      /\ \A p \in Ids : Kind[p] = "profile" /\ row[p].there /\ q.id \in row[p].refs =>
           <<p, q.id>> \in strayed \/ \E x \in q.read : x[1] = p
  BY <1>1, <1>2 DEF SweepsOn
<1>5. \A x \in q.read : x \in Ids \X SUBSET Ids
  BY <1>1 DEF Request
<1>6. row \in [Ids -> Row] /\ doc \in [Docs -> Document]
  BY Typed
<1>7. ASSUME NEW i \in Ids, \E x \in found : x[1] = i
      PROVE  /\ Hit(i) \in found /\ Hit(i)[1] = i /\ Hit(i)[2] \in SUBSET Ids /\ Kind[i] = "profile"
             /\ \A d \in Hit(i)[2] : Kind[d] = "domain"
  <2>1. Hit(i) \in found /\ Hit(i)[1] = i
    BY <1>7
  <2> QED BY <1>4, <1>5, <2>1
<1> HIDE DEF Hit, found
<1>8. ASSUME NEW i \in Ids
      PROVE  /\ row'[i] \in Row /\ row'[i].there = row[i].there /\ row'[i].born = row[i].born
             /\ Alike(row'[i], row[i])
             /\ (\E x \in found : x[1] = i) => row'[i].refs = Hit(i)[2] \ {q.id}
             /\ ~(\E x \in found : x[1] = i) => row'[i] = row[i]
  <2>1. CASE \E x \in found : x[1] = i
    <3>1. Hit(i)[2] \ {q.id} \in SUBSET Ids /\ row'[i] = [row[i] EXCEPT !.refs = Hit(i)[2] \ {q.id}]
      BY <1>3, <1>7, <2>1
    <3> DEFINE refs == Hit(i)[2] \ {q.id}
    <3>2. refs \in SUBSET Ids /\ row'[i] = [row[i] EXCEPT !.refs = refs]
      BY <3>1
    <3> HIDE DEF refs
    <3>3. /\ row'[i] \in Row /\ row'[i].there = row[i].there /\ row'[i].born = row[i].born
          /\ Alike(row'[i], row[i]) /\ row'[i].refs = refs
      BY <1>6, <3>2 DEF Row, Alike
    <3> QED BY <2>1, <3>3 DEF refs
  <2>2. CASE ~(\E x \in found : x[1] = i)
    BY <1>3, <1>6, <2>2 DEF Alike
  <2> QED BY <2>1, <2>2
<1>9. row' \in [Ids -> Row]
  <2>1. row' = [i \in Ids |-> row'[i]]
    BY <1>3
  <2> QED BY <1>8, <2>1
<1>10. /\ strayed \subseteq strayed' /\ strayed' \subseteq (Ids \cup {Documents}) \X Ids
       /\ \A x \in found : \A d \in x[2] \ {q.id} : row[d].there \/ <<x[1], d>> \in strayed'
  <2>1. \A x \in found : x[1] \in Ids /\ x[2] \ {q.id} \in SUBSET Ids
    BY <1>5 DEF found
  <2> DEFINE S(x) == Strays(x[1], x[2] \ {q.id})
  <2>2. \A x \in found : /\ S(x) \subseteq (Ids \cup {Documents}) \X Ids
                         /\ \A d \in x[2] \ {q.id} : row[d].there \/ <<x[1], d>> \in S(x)
    BY <2>1, StraysAre
  <2> HIDE DEF S
  <2>3. strayed' = strayed \cup UNION {S(x) : x \in found}
    BY <1>3 DEF S
  <2> QED BY <2>2, <2>3, Typed
<1>11. ASSUME NEW p \in Ids, Kind[p] = "profile", row'[p].there, NEW d \in row'[p].refs
       PROVE  /\ d \in Ids /\ Kind[d] = "domain"
              /\ \/ (\E x \in found : x[1] = p) /\ (row[d].there \/ <<p, d>> \in strayed')
                 \/ ~(\E x \in found : x[1] = p) /\ row[p].there /\ d \in row[p].refs
  <2>1. CASE \E x \in found : x[1] = p
    <3>1. Hit(p) \in found /\ Hit(p)[1] = p /\ d \in Hit(p)[2] \ {q.id}
      BY <1>7, <1>8, <1>11, <2>1
    <3>2. d \in Ids /\ Kind[d] = "domain"
      BY <1>7, <2>1, <3>1
    <3> QED BY <1>10, <2>1, <3>1, <3>2
  <2>2. CASE ~(\E x \in found : x[1] = p)
    <3>1. row'[p] = row[p]
      BY <1>8, <2>2
    <3> QED BY <1>6, <1>11, <2>2, <3>1, Typed DEF Refers, Row
  <2> QED BY <2>1, <2>2
<1>12. RowsLater(row, row')
  BY <1>8 DEF RowsLater
<1>13. RefsLater(row, row', strayed')
  BY <1>8, <1>11 DEF RefsLater
<1>14. Later(row, doc, strayed, row', doc', strayed')
  <2>1. DocsLater(doc, doc')
    BY <1>3, <1>6, NothingLater DEF Later
  <2> QED BY <1>10, <1>12, <1>13, <2>1 DEF Later
<1>15. Living(row', doc')
  BY <1>3, <1>8, Typed DEF Living
<1>16. Refers(row')
  <2> SUFFICES ASSUME NEW p \in Ids, Kind[p] = "profile", NEW d \in row'[p].refs
               PROVE  Kind[d] = "domain"
    BY DEF Refers
  <2>1. CASE \E x \in found : x[1] = p
    BY <1>7, <1>8, <2>1
  <2>2. CASE ~(\E x \in found : x[1] = p)
    BY <1>8, <2>2, Typed DEF Refers
  <2> QED BY <2>1, <2>2
<1>17. Filed(row', doc', strayed')
  <2> SUFFICES ASSUME NEW d \in Docs, doc[d].folder # Nobody
               PROVE  /\ FolderOf(row', doc[d].owner, doc[d].folder)
                      /\ row'[doc[d].folder].there \/ <<Documents, doc[d].folder>> \in strayed'
    BY <1>3 DEF Filed
  <2>1. /\ FolderOf(row, doc[d].owner, doc[d].folder)
        /\ row[doc[d].folder].there \/ <<Documents, doc[d].folder>> \in strayed
    BY Typed DEF Filed
  <2> QED BY <1>8, <1>10, <2>1 DEF FolderOf, Alike
<1>18. SeedsFit'
  BY <1>1, <1>3, <1>8, SeedsStay DEF Alike
<1>19. Moves(r, Ended(q, "ok"))
  BY <1>1, <1>3, OnSplits
<1> DEFINE e == Ended(q, "ok")
<1>20. e \in Request /\ Moves(r, e) /\ ~(e.at > 0)
  BY <1>1, <1>19, EndedFacts DEF Statuses
<1> HIDE DEF e
<1>21. Referred'
  <2> SUFFICES ASSUME NEW p \in Ids, Kind[p] = "profile", row'[p].there, NEW d \in row'[p].refs
               PROVE  row'[d].there \/ BeingSwept(d)' \/ <<p, d>> \in strayed'
    BY DEF Referred
  <2>1. /\ d \in Ids /\ row'[d].there = row[d].there
        /\ \/ (\E x \in found : x[1] = p) /\ (row[d].there \/ <<p, d>> \in strayed')
           \/ ~(\E x \in found : x[1] = p) /\ row[p].there /\ d \in row[p].refs
    BY <1>8, <1>11
  <2>2. CASE (\E x \in found : x[1] = p) /\ (row[d].there \/ <<p, d>> \in strayed')
    BY <2>1, <2>2
  <2>3. CASE ~(\E x \in found : x[1] = p) /\ row[p].there /\ d \in row[p].refs
    <3>1. row[d].there \/ BeingSwept(d) \/ <<p, d>> \in strayed
      BY <2>3, Typed DEF Referred
    <3>2. ASSUME BeingSwept(d) PROVE BeingSwept(d)' \/ <<p, d>> \in strayed'
      <4>1. PICK x \in Reqs : Sweeper(req[x]) /\ req[x].id = d
        BY <3>2 DEF BeingSwept
      <4>2. CASE x = r
        <5>1. d = q.id /\ ~(\E y \in q.read : y[1] = p)
          BY <2>3, <4>1, <4>2 DEF found
        <5>2. <<p, q.id>> \in strayed \/ \E y \in q.read : y[1] = p
          BY <1>4, <2>3, <5>1
        <5> QED BY <1>10, <5>1, <5>2
      <4>3. CASE x # r
        <5>1. req'[x] = req[x]
          BY <1>20, <4>3, Typed DEF Moves
        <5> QED BY <4>1, <5>1 DEF BeingSwept, Sweeper
      <4> QED BY <4>2, <4>3
    <3> QED BY <1>10, <2>1, <3>1, <3>2
  <2> QED BY <2>1, <2>2, <2>3
<1> QED BY <1>1, <1>3, <1>9, <1>10, <1>14, <1>15, <1>16, <1>17, <1>18, <1>20, <1>21, RequestMoves, Typed

-----------------------------------------------------------------------------
(* What a client asks. *)
Carries(e, u, op, id, refs, folder, rev) ==
  /\ e \in Request /\ e.user = u /\ e.op = op /\ e.id = id /\ e.refs = refs
  /\ e.folder = folder /\ e.rev = rev /\ e.at = 1
Asked(u, op) == [NoRequest EXCEPT !.user = u, !.op = op, !.at = 1]
NamesOfRows == Names \cup {"none", Standard, Example, ProductDocs}
Askers == Users \cup {Nobody}

LEMMA AskedFacts ==
  ASSUME NEW u \in Askers, NEW op \in Ops
  PROVE  Carries(Asked(u, op), u, op, 0, {}, Nobody, 0)
<1> DEFINE n1 == [NoRequest EXCEPT !.user = u]
           n2 == [n1 EXCEPT !.op = op]
           n3 == [n2 EXCEPT !.at = 1]
<1>0. NoRequest \in Request
  BY BlankFacts
<1>1. /\ NoRequest.id = 0 /\ NoRequest.refs = {} /\ NoRequest.folder = Nobody
      /\ NoRequest.rev = 0
  BY DEF NoRequest
<1> HIDE DEF n1, n2, n3
<1>2. n1 \in Request
  BY <1>0, SMT DEF n1, Request, Askers
<1>3. /\ n1.user = u /\ n1.id = NoRequest.id /\ n1.refs = NoRequest.refs
      /\ n1.folder = NoRequest.folder /\ n1.rev = NoRequest.rev
  BY <1>0, Zenon DEF n1, Request
<1>4. n2 \in Request
  BY <1>2, SMT DEF n2, Request
<1>5. /\ n2.user = n1.user /\ n2.op = op /\ n2.id = n1.id /\ n2.refs = n1.refs
      /\ n2.folder = n1.folder /\ n2.rev = n1.rev
  BY <1>2, Zenon DEF n2, Request
<1>6. n3 \in Request
  BY <1>4, SMT DEF n3, Request
<1>7. /\ n3.user = n2.user /\ n3.op = n2.op /\ n3.id = n2.id /\ n3.refs = n2.refs
      /\ n3.folder = n2.folder /\ n3.rev = n2.rev /\ n3.at = 1
  BY <1>4, Zenon DEF n3, Request
<1>8. Asked(u, op) = n3
  BY <1>0, SMT DEF Asked, n1, n2, n3, Request
<1> QED BY <1>1, <1>3, <1>5, <1>6, <1>7, <1>8 DEF Carries

LEMMA SetsId ==
  ASSUME NEW q \in Request, NEW x \in Ids \cup Docs \cup {0}
  PROVE  LET e == [q EXCEPT !.id = x]
         IN  /\ e \in Request /\ e.user = q.user /\ e.op = q.op /\ e.id = x /\ e.refs = q.refs
             /\ e.folder = q.folder /\ e.rev = q.rev /\ e.at = q.at
<1>1. [q EXCEPT !.id = x] \in Request
  BY SMT DEF Request
<1> QED BY <1>1, Zenon DEF Request

LEMMA SetsRequestName ==
  ASSUME NEW q \in Request, NEW x \in NamesOfRows
  PROVE  LET e == [q EXCEPT !.name = x]
         IN  /\ e \in Request /\ e.user = q.user /\ e.op = q.op /\ e.id = q.id /\ e.refs = q.refs
             /\ e.folder = q.folder /\ e.rev = q.rev /\ e.at = q.at
<1>1. [q EXCEPT !.name = x] \in Request
  BY SMT DEF Request, NamesOfRows
<1> QED BY <1>1, Zenon DEF Request

LEMMA SetsRefs ==
  ASSUME NEW q \in Request, NEW x \in SUBSET Ids
  PROVE  LET e == [q EXCEPT !.refs = x]
         IN  /\ e \in Request /\ e.user = q.user /\ e.op = q.op /\ e.id = q.id /\ e.refs = x
             /\ e.folder = q.folder /\ e.rev = q.rev /\ e.at = q.at
<1>1. [q EXCEPT !.refs = x] \in Request
  BY SMT DEF Request
<1> QED BY <1>1, Zenon DEF Request

LEMMA SetsFolder ==
  ASSUME NEW q \in Request, NEW x \in Ids \cup {Nobody}
  PROVE  LET e == [q EXCEPT !.folder = x]
         IN  /\ e \in Request /\ e.user = q.user /\ e.op = q.op /\ e.id = q.id /\ e.refs = q.refs
             /\ e.folder = x /\ e.rev = q.rev /\ e.at = q.at
<1>1. [q EXCEPT !.folder = x] \in Request
  BY SMT DEF Request
<1> QED BY <1>1, Zenon DEF Request

LEMMA SetsRev ==
  ASSUME NEW q \in Request, NEW x \in Nat
  PROVE  LET e == [q EXCEPT !.rev = x]
         IN  /\ e \in Request /\ e.user = q.user /\ e.op = q.op /\ e.id = q.id /\ e.refs = q.refs
             /\ e.folder = q.folder /\ e.rev = x /\ e.at = q.at
<1>1. [q EXCEPT !.rev = x] \in Request
  BY SMT DEF Request
<1> QED BY <1>1, Zenon DEF Request

AsksNew(q, name, refs) == [q EXCEPT !.name = name, !.refs = refs]
AsksOf(q, i, name, refs) == [q EXCEPT !.id = i, !.name = name, !.refs = refs]
AsksOfDocument(q, d, f, rev) == [q EXCEPT !.id = d, !.folder = f, !.rev = rev]

LEMMA AsksNewFacts ==
  ASSUME NEW q, NEW u, NEW op, Carries(q, u, op, 0, {}, Nobody, 0),
         NEW name \in NamesOfRows, NEW refs \in SUBSET Ids
  PROVE  Carries(AsksNew(q, name, refs), u, op, 0, refs, Nobody, 0)
<1> DEFINE n1 == [q EXCEPT !.name = name]
           n2 == [n1 EXCEPT !.refs = refs]
<1>1. q \in Request
  BY DEF Carries
<1>2. AsksNew(q, name, refs) = n2
  BY <1>1, SMT DEF AsksNew, Request
<1>3. Carries(n1, u, op, 0, {}, Nobody, 0)
  BY <1>1, SetsRequestName DEF Carries
<1> HIDE DEF n1
<1>4. Carries(n2, u, op, 0, refs, Nobody, 0)
  BY <1>3, SetsRefs DEF Carries
<1> QED BY <1>2, <1>4

LEMMA AsksOfFacts ==
  ASSUME NEW q, NEW u, NEW op, Carries(q, u, op, 0, {}, Nobody, 0),
         NEW i \in Ids, NEW name \in NamesOfRows, NEW refs \in SUBSET Ids
  PROVE  Carries(AsksOf(q, i, name, refs), u, op, i, refs, Nobody, 0)
<1> DEFINE n0 == [q EXCEPT !.id = i]
           n1 == [n0 EXCEPT !.name = name]
           n2 == [n1 EXCEPT !.refs = refs]
<1>1. q \in Request
  BY DEF Carries
<1>2. AsksOf(q, i, name, refs) = n2
  BY <1>1, SMT DEF AsksOf, Request
<1>3. Carries(n0, u, op, i, {}, Nobody, 0)
  BY <1>1, SetsId DEF Carries
<1> HIDE DEF n0
<1>4. Carries(n1, u, op, i, {}, Nobody, 0)
  BY <1>3, SetsRequestName DEF Carries
<1> HIDE DEF n1
<1>5. Carries(n2, u, op, i, refs, Nobody, 0)
  BY <1>4, SetsRefs DEF Carries
<1> QED BY <1>2, <1>5

LEMMA AsksOfDocumentFacts ==
  ASSUME NEW q, NEW u, NEW op, Carries(q, u, op, 0, {}, Nobody, 0),
         NEW d \in Docs, NEW f \in Ids \cup {Nobody}, NEW rev \in Nat
  PROVE  Carries(AsksOfDocument(q, d, f, rev), u, op, d, {}, f, rev)
<1> DEFINE n0 == [q EXCEPT !.id = d]
           n1 == [n0 EXCEPT !.folder = f]
           n2 == [n1 EXCEPT !.rev = rev]
<1>1. q \in Request
  BY DEF Carries
<1>2. AsksOfDocument(q, d, f, rev) = n2
  BY <1>1, SMT DEF AsksOfDocument, Request
<1>3. Carries(n0, u, op, d, {}, Nobody, 0)
  BY <1>1, SetsId DEF Carries
<1> HIDE DEF n0
<1>4. Carries(n1, u, op, d, {}, f, 0)
  BY <1>3, SetsFolder DEF Carries
<1> HIDE DEF n1
<1>5. Carries(n2, u, op, d, {}, f, rev)
  BY <1>4, SetsRev DEF Carries
<1> QED BY <1>2, <1>5

LEMMA PlansBegin ==
  ASSUME NEW op \in Ops
  PROVE  1 \in 1..Len(Plan[op])
<1>1. CASE op \in Folders \cup Profiles
  <2>1. /\ Len(Plan["createFolder"]) = 1 /\ Len(Plan["renameFolder"]) = 3
        /\ Len(Plan["setDefaults"]) = 4 /\ Len(Plan["deleteFolder"]) = 1
    BY PlansOfRows
  <2>2. /\ Len(Plan["createProfile"]) = 2 /\ Len(Plan["updateProfile"]) = 4
        /\ Len(Plan["resetProfile"]) = 3 /\ Len(Plan["deleteProfile"]) = 3
    BY PlansOfRows
  <2>3. op \in {"createFolder", "renameFolder", "setDefaults", "deleteFolder", "createProfile",
               "updateProfile", "resetProfile", "deleteProfile"}
    BY <1>1, OpsAre
  <2> DEFINE n == Len(Plan[op])
  <2>4. n \in {1, 2, 3, 4}
    BY <2>1, <2>2, <2>3, Zenon
  <2> HIDE DEF n
  <2>5. 1 \in 1..n
    BY <2>4
  <2> QED BY <2>5 DEF n
<1>2. CASE op \in DOMAIN DomainPlan \cup DOMAIN TermPlan
  <2>1. /\ Len(Plan["createDomain"]) = 1 /\ Len(Plan["updateDomain"]) = 2
        /\ Len(Plan["describeDomain"]) = 2 /\ Len(Plan["deleteDomain"]) = 4
        /\ Len(Plan["createTerm"]) = 2 /\ Len(Plan["updateTerm"]) = 2
        /\ Len(Plan["deleteTerm"]) = 2
    BY PlansOfDomains
  <2>2. op \in {"createDomain", "updateDomain", "describeDomain", "deleteDomain", "createTerm",
               "updateTerm", "deleteTerm"}
    BY <1>2, OpsAre
  <2> DEFINE n == Len(Plan[op])
  <2>3. n \in {1, 2, 4}
    BY <2>1, <2>2, Zenon
  <2> HIDE DEF n
  <2>4. 1 \in 1..n
    BY <2>3
  <2> QED BY <2>4 DEF n
<1>3. CASE op \in Documenting
  <2>1. /\ Len(Plan["newDocument"]) = 2 /\ Len(Plan["save"]) = 3 /\ Len(Plan["rename"]) = 3
        /\ Len(Plan["move"]) = 2 /\ Len(Plan["title"]) = 3 /\ Len(Plan["drop"]) = 1
    BY PlansOfDocuments
  <2>2. op \in {"newDocument", "save", "rename", "move", "title", "drop"}
    BY <1>3, OpsAre
  <2> DEFINE n == Len(Plan[op])
  <2>3. n \in {1, 2, 3}
    BY <2>1, <2>2, Zenon
  <2> HIDE DEF n
  <2>4. 1 \in 1..n
    BY <2>3
  <2> QED BY <2>4 DEF n
<1> QED BY <1>1, <1>2, <1>3, OpsAre

LEMMA Begins ==
  ASSUME Inv, server = "up", NEW r \in Reqs, req[r] = NoRequest, NEW e, NEW u, NEW op \in Ops,
         NEW id, NEW refs, NEW folder, NEW rev, Carries(e, u, op, id, refs, folder, rev),
         Aimed(e, row, doc), op \in Writes => rev = doc[id].rev, rev \in Nat,
         Moves(r, e), UNCHANGED <<row, doc, process, strayed>>
  PROVE  Inv'
<1>1. /\ e \in Request /\ e.op = op /\ e.id = id /\ e.at = 1 /\ e.rev = rev
  BY DEF Carries
<1>2. Placed(e)
  BY <1>1, PlansBegin DEF Placed
<1>3. Holding(e, row) /\ SweepsOn(e, row, strayed) /\ Dated(e, doc)
  BY <1>1 DEF Holding, SweepsOn, Sweeper, Dated
<1>4. Fits(e, row, doc, strayed)
  BY <1>2, <1>3 DEF Fits
<1>5. ~Sweeper(req[r])
  BY BlankFacts DEF Sweeper
<1> QED BY <1>1, <1>4, <1>5, RequestReads

LEMMA SeenDomains ==
  ASSUME Inv, NEW u, NEW refs \in SUBSET VisibleDomains(u)
  PROVE  refs \in SUBSET Ids /\ \A d \in refs : Kind[d] = "domain"
BY DEF VisibleDomains, There, Of

LEMMA RowTypes ==
  ASSUME Inv, NEW i \in Ids
  PROVE  /\ row[i].name \in NamesOfRows /\ row[i].refs \in SUBSET Ids
         /\ row[i].there \in BOOLEAN /\ row[i].there => row[i].born
BY Typed DEF Row, NamesOfRows, Living

LEMMA MayAsk ==
  ASSUME Inv, NEW r \in Reqs, NEW ask \in load.may[r]
  PROVE  ask[1] \in Users /\ ask[2] \in Ops
<1>1. load \in Loads
  BY Typed
<1>2. load.may[r] \subseteq Users \X Ops
  BY <1>1, LoadsAssumption
<1> QED BY <1>2

LEMMA AsksToCreate ==
  ASSUME Inv, server = "up", NEW r \in Reqs, req[r] = NoRequest, NEW u \in Users,
         NEW op \in Creations, op \in Ops, NEW name \in Names, NEW refs \in SUBSET VisibleDomains(u),
         Moves(r, AsksNew(Asked(u, op), name, refs)), UNCHANGED <<row, doc, process, strayed>>
  PROVE  Inv'
<1> DEFINE e == AsksNew(Asked(u, op), name, refs)
<1>1. refs \in SUBSET Ids /\ \A d \in refs : Kind[d] = "domain"
  BY SeenDomains
<1>2. Carries(Asked(u, op), u, op, 0, {}, Nobody, 0)
  BY AskedFacts DEF Askers
<1>3. Carries(e, u, op, 0, refs, Nobody, 0)
  BY <1>1, <1>2, AsksNewFacts DEF NamesOfRows
<1> HIDE DEF e
<1>4. /\ e.op \notin Documenting /\ ~OnRow(e) /\ ~OnDocument(e) /\ op \notin Writes /\ e.refs = refs
  BY <1>3, OpsAre DEF Carries, OnRow, OnDocument, Creations, Writes
<1>5. Aimed(e, row, doc)
  BY <1>1, <1>4 DEF Aimed
<1>6. Moves(r, e)
  BY DEF e
<1> QED BY <1>3, <1>4, <1>5, <1>6, Begins

LEMMA AsksOfRow ==
  ASSUME Inv, server = "up", NEW r \in Reqs, req[r] = NoRequest, NEW u \in Users,
         NEW op \in Ops \ (Creations \cup Documenting),
         NEW i \in There(KindOf(op)), Visible(u, i),
         NEW name \in Names \cup {row[i].name}, NEW refs \in SUBSET VisibleDomains(u),
         Moves(r, AsksOf(Asked(u, op), i, name, refs)), UNCHANGED <<row, doc, process, strayed>>
  PROVE  Inv'
<1> DEFINE e == AsksOf(Asked(u, op), i, name, refs)
<1>1. refs \in SUBSET Ids /\ \A d \in refs : Kind[d] = "domain"
  BY SeenDomains
<1>2. i \in Ids /\ Kind[i] = KindOf(op) /\ row[i].born /\ name \in NamesOfRows
  BY RowTypes DEF There, Of, NamesOfRows
<1>3. Carries(Asked(u, op), u, op, 0, {}, Nobody, 0)
  BY AskedFacts DEF Askers
<1>4. Carries(e, u, op, i, refs, Nobody, 0)
  BY <1>1, <1>2, <1>3, AsksOfFacts
<1> HIDE DEF e
<1>5. /\ e.op = op /\ e.id = i /\ e.user = u /\ e.refs = refs
      /\ e.op \notin Documenting /\ ~OnDocument(e) /\ op \notin Writes
  BY <1>4, OpsAre DEF Carries, OnDocument, Writes
<1>6. op \in Folders => row[i].owner = u
  BY <1>2, KindsAre DEF Visible, Owner
<1>7. Aimed(e, row, doc)
  BY <1>1, <1>2, <1>5, <1>6 DEF Aimed
<1>8. Moves(r, e)
  BY DEF e
<1> QED BY <1>4, <1>5, <1>7, <1>8, Begins

LEMMA AsksForDocument ==
  ASSUME Inv, server = "up", NEW r \in Reqs, req[r] = NoRequest, NEW u \in Users,
         NEW f \in {g \in There("folder") : row[g].owner = u} \cup {Nobody},
         Moves(r, [Asked(u, "newDocument") EXCEPT !.folder = f]), UNCHANGED <<row, doc, process, strayed>>
  PROVE  Inv'
<1> DEFINE op == "newDocument"
           q == Asked(u, op)
           e == [q EXCEPT !.folder = f]
<1>1. op \in Ops /\ op \notin Writes /\ op \in Documenting
  BY OpsAre DEF Writes
<1>2. f \in Ids \cup {Nobody} /\ (f # Nobody => FolderOf(row, u, f))
  BY RowTypes DEF There, Of, FolderOf
<1>3. Carries(q, u, op, 0, {}, Nobody, 0)
  BY <1>1, AskedFacts DEF Askers
<1> HIDE DEF q
<1>4. Carries(e, u, op, 0, {}, f, 0)
  BY <1>2, <1>3, SetsFolder DEF Carries
<1>5. Moves(r, e)
  BY DEF q
<1> HIDE DEF e
<1>6. /\ e.op = op /\ e.user = u /\ e.refs = {} /\ e.folder = f /\ ~OnRow(e) /\ ~OnDocument(e)
      /\ e.op \notin Profiles
  BY <1>4, OpsAre DEF Carries, OnRow, OnDocument
<1>7. Aimed(e, row, doc)
  BY <1>2, <1>6 DEF Aimed
<1> QED BY <1>1, <1>4, <1>5, <1>7, Begins

LEMMA AsksOfDoc ==
  ASSUME Inv, server = "up", NEW r \in Reqs, req[r] = NoRequest, NEW u \in Users,
         NEW op \in Documenting \ {"newDocument"},
         NEW d \in Docs, doc[d].there, doc[d].owner = u,
         NEW f \in {g \in There("folder") : row[g].owner = u} \cup {Nobody},
         Moves(r, AsksOfDocument(Asked(u, op), d, f, doc[d].rev)), UNCHANGED <<row, doc, process, strayed>>
  PROVE  Inv'
<1> DEFINE rev == doc[d].rev
           q == Asked(u, op)
           e == AsksOfDocument(q, d, f, rev)
<1>1. op \in Ops /\ op \in Documenting
  BY OpsAre
<1>2. f \in Ids \cup {Nobody} /\ (f # Nobody => FolderOf(row, u, f))
  BY RowTypes DEF There, Of, FolderOf
<1>3. rev \in Nat /\ doc[d].born
  BY Typed, DocumentRecords DEF Living
<1>4. Carries(q, u, op, 0, {}, Nobody, 0)
  BY <1>1, AskedFacts DEF Askers
<1>5. Moves(r, e)
  OBVIOUS
<1> HIDE DEF q, rev
<1>6. Carries(e, u, op, d, {}, f, rev)
  BY <1>2, <1>3, <1>4, AsksOfDocumentFacts
<1> HIDE DEF e
<1>7. /\ e.op = op /\ e.id = d /\ e.user = u /\ e.refs = {} /\ e.folder = f /\ ~OnRow(e)
      /\ e.op \notin Profiles
  BY <1>6, OpsAre DEF Carries, OnRow
<1>8. Aimed(e, row, doc)
  BY <1>2, <1>3, <1>7 DEF Aimed
<1> QED BY <1>1, <1>3, <1>5, <1>6, <1>8, Begins DEF rev

LEMMA Asks ==
  ASSUME Inv, NEW r \in Reqs, Ask(r)
  PROVE  Inv'
<1>1. PICK ask \in load.may[r] :
        LET u == ask[1]  op == ask[2]
            q == [NoRequest EXCEPT !.user = u, !.op = op, !.at = 1]
        IN
        /\ server = "up" /\ req[r] = NoRequest
        /\ \/ /\ op \in Creations
              /\ \E name \in Names, refs \in SUBSET VisibleDomains(u) :
                   /\ Cardinality(refs) <= 1
                   /\ op = "createTerm" => refs # {}
                   /\ op \in {"createFolder", "createDomain"} => refs = {}
                   /\ Moves(r, [q EXCEPT !.name = name, !.refs = refs])
           \/ /\ op \in Ops \ (Creations \cup DOMAIN DocumentPlan)
              /\ \E i \in {j \in There(KindOf(op)) : Visible(u, j)}, refs \in SUBSET VisibleDomains(u) :
                 \E name \in Names \cup {row[i].name} :
                   /\ op \in {"updateProfile", "setDefaults"} \/ refs = {}
                   /\ op \in {"updateProfile", "updateDomain", "renameFolder"} \/ name = row[i].name
                   /\ Moves(r, [q EXCEPT !.id = i, !.name = name, !.refs = refs])
           \/ /\ op = "newDocument"
              /\ \E f \in {g \in There("folder") : row[g].owner = u} \cup {Nobody} :
                   Moves(r, [q EXCEPT !.folder = f])
           \/ /\ op \in DOMAIN DocumentPlan \ {"newDocument"}
              /\ \E d \in {e \in Docs : doc[e].there /\ doc[e].owner = u},
                    f \in {g \in There("folder") : row[g].owner = u} \cup {Nobody} :
                   /\ op = "move" \/ f = Nobody
                   /\ Moves(r, [q EXCEPT !.id = d, !.folder = f, !.rev = doc[d].rev])
        /\ UNCHANGED <<row, doc, process, strayed>>
  BY Zenon DEF Ask
<1> DEFINE u == ask[1]
           op == ask[2]
<1>2. u \in Users /\ op \in Ops
  BY MayAsk
<1>3. server = "up" /\ req[r] = NoRequest /\ UNCHANGED <<row, doc, process, strayed>>
  BY <1>1
<1>4. \/ /\ op \in Creations
         /\ \E name \in Names, refs \in SUBSET VisibleDomains(u) :
              Moves(r, AsksNew(Asked(u, op), name, refs))
      \/ /\ op \in Ops \ (Creations \cup Documenting)
         /\ \E i \in {j \in There(KindOf(op)) : Visible(u, j)}, refs \in SUBSET VisibleDomains(u) :
            \E name \in Names \cup {row[i].name} :
              Moves(r, AsksOf(Asked(u, op), i, name, refs))
      \/ /\ op = "newDocument"
         /\ \E f \in {g \in There("folder") : row[g].owner = u} \cup {Nobody} :
              Moves(r, [Asked(u, op) EXCEPT !.folder = f])
      \/ /\ op \in Documenting \ {"newDocument"}
         /\ \E d \in {e \in Docs : doc[e].there /\ doc[e].owner = u},
               f \in {g \in There("folder") : row[g].owner = u} \cup {Nobody} :
              Moves(r, AsksOfDocument(Asked(u, op), d, f, doc[d].rev))
  BY <1>1, Zenon DEF Asked, AsksNew, AsksOf, AsksOfDocument, Documenting
<1> HIDE DEF u, op
<1>5. CASE /\ op \in Creations
           /\ \E name \in Names, refs \in SUBSET VisibleDomains(u) :
                Moves(r, AsksNew(Asked(u, op), name, refs))
  BY <1>2, <1>3, <1>5, AsksToCreate
<1>6. CASE /\ op \in Ops \ (Creations \cup Documenting)
           /\ \E i \in {j \in There(KindOf(op)) : Visible(u, j)}, refs \in SUBSET VisibleDomains(u) :
              \E name \in Names \cup {row[i].name} :
                Moves(r, AsksOf(Asked(u, op), i, name, refs))
  <2>1. PICK i \in {j \in There(KindOf(op)) : Visible(u, j)}, refs \in SUBSET VisibleDomains(u) :
              \E name \in Names \cup {row[i].name} :
                Moves(r, AsksOf(Asked(u, op), i, name, refs))
    BY <1>6
  <2>2. PICK name \in Names \cup {row[i].name} : Moves(r, AsksOf(Asked(u, op), i, name, refs))
    BY <2>1
  <2>3. i \in There(KindOf(op)) /\ Visible(u, i)
    OBVIOUS
  <2> QED BY <1>2, <1>3, <1>6, <2>2, <2>3, AsksOfRow
<1>7. CASE /\ op = "newDocument"
           /\ \E f \in {g \in There("folder") : row[g].owner = u} \cup {Nobody} :
                Moves(r, [Asked(u, op) EXCEPT !.folder = f])
  BY <1>2, <1>3, <1>7, AsksForDocument
<1>8. CASE /\ op \in Documenting \ {"newDocument"}
           /\ \E d \in {e \in Docs : doc[e].there /\ doc[e].owner = u},
                 f \in {g \in There("folder") : row[g].owner = u} \cup {Nobody} :
                Moves(r, AsksOfDocument(Asked(u, op), d, f, doc[d].rev))
  <2>1. PICK d \in {e \in Docs : doc[e].there /\ doc[e].owner = u},
             f \in {g \in There("folder") : row[g].owner = u} \cup {Nobody} :
                Moves(r, AsksOfDocument(Asked(u, op), d, f, doc[d].rev))
    BY <1>8
  <2>2. d \in Docs /\ doc[d].there /\ doc[d].owner = u
    OBVIOUS
  <2> QED BY <1>2, <1>3, <1>8, <2>1, <2>2, AsksOfDoc
<1> QED BY <1>4, <1>5, <1>6, <1>7, <1>8

-----------------------------------------------------------------------------
(* Start-up, when no request runs. *)
Born(i, n) ==
  /\ i \in Ids /\ ~row[i].born /\ n \in Row /\ n.there /\ n.born
  /\ Kind[i] = "profile" => n.refs = {}
LEMMA Seeding ==
  ASSUME Inv, server # "up",
         row' = row \/ (\E i \in Ids, n \in Row : Born(i, n) /\ row' = [row EXCEPT ![i] = n]),
         UNCHANGED <<doc, req, load, restarts, strayed>>,
         server' \in {"terms", "standard", "example", "mark", "up"}, marker' \in BOOLEAN,
         SeedsFit'
  PROVE  Inv'
<1>1. row \in [Ids -> Row] /\ \A r \in Reqs : ~(req[r].at > 0)
  BY Typed DEF Requests
<1>2. /\ doc' = doc /\ req' = req /\ load' = load /\ restarts' = restarts /\ strayed' = strayed
  OBVIOUS
<1>3. Requests'
  BY <1>1, <1>2 DEF Requests
<1>4. ASSUME row' = row PROVE Inv'
  <2>1. TypeOK'
    BY <1>2, <1>4, Typed DEF TypeOK
  <2>2. Living(row', doc') /\ Refers(row') /\ Filed(row', doc', strayed')
    BY <1>2, <1>4, Typed
  <2>3. Referred'
    BY <1>2, <1>4, Typed DEF Referred, BeingSwept
  <2> QED BY <1>3, <2>1, <2>2, <2>3 DEF Inv
<1>5. ASSUME NEW i \in Ids, NEW n \in Row, Born(i, n), row' = [row EXCEPT ![i] = n] PROVE Inv'
  <2>1. /\ ~row[i].born /\ ~row[i].there /\ n.there /\ n.born /\ (Kind[i] = "profile" => n.refs = {})
    BY <1>5, Typed DEF Born, Living
  <2>2. row' \in [Ids -> Row] /\ \A j \in Ids : row'[j] = IF j = i THEN n ELSE row[j]
    BY <1>1, <1>5
  <2>3. TypeOK'
    BY <1>2, <2>2, Typed DEF TypeOK
  <2>4. Living(row', doc') /\ Refers(row')
    BY <1>2, <2>1, <2>2, Typed DEF Living, Refers
  <2>5. Filed(row', doc', strayed')
    <3> SUFFICES ASSUME NEW d \in Docs, doc[d].folder # Nobody
                 PROVE  /\ FolderOf(row', doc[d].owner, doc[d].folder)
                        /\ row'[doc[d].folder].there \/ <<Documents, doc[d].folder>> \in strayed'
      BY <1>2 DEF Filed
    <3>1. /\ FolderOf(row, doc[d].owner, doc[d].folder)
          /\ row[doc[d].folder].there \/ <<Documents, doc[d].folder>> \in strayed
      BY Typed DEF Filed
    <3> QED BY <1>2, <2>1, <2>2, <3>1 DEF FolderOf
  <2>6. Referred'
    <3> SUFFICES ASSUME NEW p \in Ids, Kind[p] = "profile", row'[p].there, NEW d \in row'[p].refs
                 PROVE  row'[d].there \/ BeingSwept(d)' \/ <<p, d>> \in strayed'
      BY DEF Referred
    <3>1. p # i /\ row'[p] = row[p]
      BY <2>1, <2>2
    <3>2. d \in Ids
      BY <1>1, <3>1 DEF Row
    <3>3. row[d].there \/ BeingSwept(d) \/ <<p, d>> \in strayed
      BY <3>1, Typed DEF Referred
    <3>4. BeingSwept(d) => BeingSwept(d)'
      BY <1>2 DEF BeingSwept
    <3> QED BY <1>2, <2>1, <2>2, <3>2, <3>3, <3>4
  <2> QED BY <1>3, <2>3, <2>4, <2>5, <2>6 DEF Inv
<1> QED BY <1>4, <1>5

LEMMA SeedRows ==
  ASSUME NEW name \in NamesOfRows, NEW std \in BOOLEAN, NEW refs \in SUBSET Ids
  PROVE  /\ SeedRow(name, std, refs) \in Row
         /\ SeedRow(name, std, refs).there /\ SeedRow(name, std, refs).born
         /\ SeedRow(name, std, refs).owner = Nobody /\ SeedRow(name, std, refs).name = name
         /\ SeedRow(name, std, refs).std = std /\ SeedRow(name, std, refs).seed
         /\ SeedRow(name, std, refs).refs = refs
BY DEF SeedRow, Row, NamesOfRows

LEMMA NamesOfSeeds ==
  /\ Standard \in NamesOfRows /\ Example \in NamesOfRows /\ ProductDocs \in NamesOfRows
  /\ "none" \in NamesOfRows /\ {} \in SUBSET Ids
BY DEF NamesOfRows

LEMMA Globals ==
  ASSUME Inv, NEW kind, NEW name \in NamesOfRows, NEW std \in BOOLEAN
  PROVE  \/ Global(kind, name, std) = row /\ (Taken(kind, Nobody, name, 0) \/ Unborn(kind) = {})
         \/ \E i \in Ids : /\ Born(i, SeedRow(name, std, {})) /\ Kind[i] = kind
                           /\ ~Taken(kind, Nobody, name, 0)
                           /\ Global(kind, name, std) = [row EXCEPT ![i] = SeedRow(name, std, {})]
<1>1. CASE Taken(kind, Nobody, name, 0) \/ Unborn(kind) = {}
  BY <1>1 DEF Global
<1>2. CASE ~(Taken(kind, Nobody, name, 0) \/ Unborn(kind) = {})
  <2> DEFINE i == Min(Unborn(kind))
  <2>1. i \in Ids /\ Kind[i] = kind /\ ~row[i].born
    BY <1>2, FirstUnborn
  <2>2. Global(kind, name, std) = [row EXCEPT ![i] = SeedRow(name, std, {})]
    BY <1>2 DEF Global, SeedRow
  <2> HIDE DEF i
  <2>3. Born(i, SeedRow(name, std, {}))
    BY <2>1, SeedRows DEF Born
  <2> QED BY <1>2, <2>1, <2>2, <2>3
<1> QED BY <1>1, <1>2

(* Seeds of other tables leave the profiles alone. *)
LEMMA ProfilesStay ==
  ASSUME NEW rows, NEW rows2, \A j \in Ids : Kind[j] = "profile" => rows2[j] = rows[j],
         NEW srv, NEW mark, OnlyOnce(rows), Starting(rows, srv, mark),
         NEW srv2 \in {"down", "terms", "standard"}
  PROVE  OnlyOnce(rows2) /\ Starting(rows2, srv2, mark)
<1>1. \A j \in Ids : (IsStandard(rows2, j) <=> IsStandard(rows, j)) /\ (IsExample(rows2, j) <=> IsExample(rows, j))
  BY DEF IsStandard, IsExample
<1>2. NoStandard(rows2) <=> NoStandard(rows)
  BY <1>1 DEF NoStandard
<1>3. OnlyOnce(rows2)
  BY <1>1 DEF OnlyOnce, IsStandard
<1>4. ~mark => \A i \in Ids : IsExample(rows2, i) =>
        rows2[i].there /\ rows2[i].owner = Nobody /\ rows2[i].name = Example
  BY <1>1 DEF Starting, IsExample
<1>5. NoStandard(rows2) =>
       /\ \A i \in Ids : ~IsExample(rows2, i)
       /\ \A i \in Ids : Kind[i] = "profile" /\ rows2[i].there =>
            ~(rows2[i].owner = Nobody /\ rows2[i].name = Standard)
       /\ \E i \in Ids : Kind[i] = "profile" /\ ~rows2[i].born
  BY <1>1, <1>2 DEF Starting
<1> QED BY <1>3, <1>4, <1>5 DEF Starting

LEMMA SeedsDomain ==
  ASSUME Inv, SeedDomain
  PROVE  Inv'
<1>1. /\ server = "down" /\ UNCHANGED <<doc, req, load, restarts, strayed>> /\ marker' = marker
      /\ server' \in {"terms", "standard"}
      /\ row' = Global("domain", ProductDocs, FALSE) \/ row' = row
  BY DEF SeedDomain, Seeds
<1>2. \/ row' = row
      \/ \E i \in Ids, n \in Row : Born(i, n) /\ Kind[i] = "domain" /\ row' = [row EXCEPT ![i] = n]
  <2> DEFINE n == SeedRow(ProductDocs, FALSE, {})
  <2>1. \/ Global("domain", ProductDocs, FALSE) = row
        \/ \E i \in Ids : Born(i, n) /\ Kind[i] = "domain"
                           /\ Global("domain", ProductDocs, FALSE) = [row EXCEPT ![i] = n]
    <3> DEFINE std == FALSE
    <3>1. std \in BOOLEAN
      OBVIOUS
    <3> HIDE DEF std
    <3>2. \/ Global("domain", ProductDocs, std) = row
          \/ \E i \in Ids : Born(i, SeedRow(ProductDocs, std, {})) /\ Kind[i] = "domain"
                             /\ Global("domain", ProductDocs, std) = [row EXCEPT ![i] = SeedRow(ProductDocs, std, {})]
      BY <3>1, NamesOfSeeds, Globals
    <3> QED BY <3>2 DEF std
  <2>2. n \in Row
    BY NamesOfSeeds, SeedRows
  <2> HIDE DEF n
  <2> QED BY <1>1, <2>1, <2>2
<1>3. \A j \in Ids : Kind[j] = "profile" => row'[j] = row[j]
  BY <1>2, Typed
<1>4. SeedsFit'
  BY <1>1, <1>3, ProfilesStay, Typed DEF SeedsFit
<1> QED BY <1>1, <1>2, <1>4, Seeding, Typed

LEMMA SeedsTerms ==
  ASSUME Inv, SeedTerms
  PROVE  Inv'
<1> DEFINE i == Min(Unborn("term"))
           Term(d) == SeedRow("none", FALSE, {d})
<1>1. PICK d \in There("domain") :
        Seeds("terms", "standard", IF Unborn("term") = {} THEN row ELSE [row EXCEPT ![i] = Term(d)])
  BY DEF SeedTerms
<1>2. /\ server = "terms" /\ UNCHANGED <<doc, req, load, restarts, strayed>> /\ marker' = marker
      /\ server' = "standard"
      /\ row' = (IF Unborn("term") = {} THEN row ELSE [row EXCEPT ![i] = Term(d)])
  BY <1>1 DEF SeedTerms, Seeds
<1>3. d \in Ids
  BY DEF There, Of
<1>4. Term(d) \in Row /\ Term(d).there /\ Term(d).born
  BY <1>3, SeedRows, NamesOfSeeds DEF SeedRow, Row, NamesOfRows
<1>5. ASSUME Unborn("term") # {} PROVE i \in Ids /\ Kind[i] = "term" /\ ~row[i].born
  BY <1>5, FirstUnborn
<1> HIDE DEF i, Term
<1>6. \/ row' = row
      \/ \E x \in Ids, n \in Row : Born(x, n) /\ Kind[x] = "term" /\ row' = [row EXCEPT ![x] = n]
  BY <1>2, <1>4, <1>5 DEF Born
<1>7. \A j \in Ids : Kind[j] = "profile" => row'[j] = row[j]
  BY <1>6, Typed
<1>8. SeedsFit'
  BY <1>2, <1>7, ProfilesStay, Typed DEF SeedsFit
<1> QED BY <1>2, <1>6, <1>8, Seeding, Typed

LEMMA SeedsStandard ==
  ASSUME Inv, SeedStandard
  PROVE  Inv'
<1>1. /\ server = "standard" /\ UNCHANGED <<doc, req, load, restarts, strayed>> /\ marker' = marker
      /\ server' = (IF marker THEN "up" ELSE "example")
      /\ row' = (IF StandardMissing THEN Global("profile", Standard, TRUE) ELSE row)
  BY Typed DEF SeedStandard, Seeds, ExampleDue, ExampleUnmarked
<1>2. OnlyOnce(row) /\ Starting(row, "standard", marker) /\ marker \in BOOLEAN
  BY <1>1, Typed DEF SeedsFit
<1>3. StandardMissing <=> NoStandard(row)
  BY <1>2 DEF StandardMissing, NoStandard, IsStandard, OnlyOnce, There, Of
<1>4. CASE ~StandardMissing
  <2>1. row' = row /\ ~NoStandard(row)
    BY <1>1, <1>3, <1>4
  <2>2. Starting(row', server', marker')
    BY <1>1, <1>2, <2>1 DEF Starting
  <2>3. SeedsFit'
    BY <1>2, <2>1, <2>2 DEF SeedsFit
  <2> QED BY <1>1, <1>2, <2>1, <2>3, Seeding
<1>5. CASE StandardMissing
  <2> DEFINE n == SeedRow(Standard, TRUE, {})
  <2>0. NoStandard(row) /\ \A j \in Ids : ~IsExample(row, j)
    BY <1>2, <1>3, <1>5 DEF Starting
  <2>1. ~Taken("profile", Nobody, Standard, 0) /\ Unborn("profile") # {}
    BY <1>2, <1>3, <1>5 DEF Starting, Taken, There, Of, Unborn
  <2>2. PICK i \in Ids : Born(i, n) /\ Kind[i] = "profile" /\ row' = [row EXCEPT ![i] = n]
    <3>1. \E i \in Ids : Born(i, n) /\ Kind[i] = "profile"
                         /\ Global("profile", Standard, TRUE) = [row EXCEPT ![i] = n]
      <4> DEFINE std == TRUE
      <4>1. std \in BOOLEAN
        OBVIOUS
      <4> HIDE DEF std
      <4>2. \E i \in Ids : Born(i, SeedRow(Standard, std, {})) /\ Kind[i] = "profile"
                           /\ Global("profile", Standard, std) = [row EXCEPT ![i] = SeedRow(Standard, std, {})]
        BY <2>1, <4>1, NamesOfSeeds, Globals
      <4> QED BY <4>2 DEF std
    <3> QED BY <1>1, <1>5, <3>1
  <2>3. n \in Row /\ n.there /\ n.std
    BY NamesOfSeeds DEF SeedRow, Row, NamesOfRows
  <2> HIDE DEF n
  <2>4. \A j \in Ids : row'[j] = IF j = i THEN n ELSE row[j]
    BY <2>2, Typed
  <2>5. \A j \in Ids : (IsStandard(row', j) <=> j = i) /\ ~IsExample(row', j)
    BY <2>0, <2>2, <2>3, <2>4 DEF IsStandard, IsExample, NoStandard
  <2>6. OnlyOnce(row')
    BY <2>3, <2>4, <2>5 DEF OnlyOnce
  <2>7. ~NoStandard(row')
    BY <2>5 DEF NoStandard
  <2>8. Starting(row', server', marker')
    BY <1>1, <1>2, <2>5, <2>7 DEF Starting
  <2>9. SeedsFit'
    BY <2>6, <2>8 DEF SeedsFit
  <2> QED BY <1>1, <1>2, <2>2, <2>3, <2>9, Seeding
<1> QED BY <1>4, <1>5

LEMMA SeedsExample ==
  ASSUME Inv, SeedExample
  PROVE  Inv'
<1> DEFINE n == SeedRow(Example, FALSE, {})
<1>1. /\ server = "example" /\ UNCHANGED <<doc, req, load, restarts, strayed>> /\ marker' = marker
      /\ server' = "mark" /\ row' = Global("profile", Example, FALSE)
  BY DEF SeedExample, Seeds
<1>2. /\ OnlyOnce(row) /\ Starting(row, "example", marker) /\ marker = FALSE /\ ~NoStandard(row)
  BY <1>1, Typed DEF SeedsFit, Starting
<1>3. \/ row' = row
      \/ \E i \in Ids : /\ Born(i, n) /\ Kind[i] = "profile" /\ ~Taken("profile", Nobody, Example, 0)
                        /\ row' = [row EXCEPT ![i] = n]
  <2>1. \/ Global("profile", Example, FALSE) = row
        \/ \E i \in Ids : /\ Born(i, n) /\ Kind[i] = "profile" /\ ~Taken("profile", Nobody, Example, 0)
                          /\ Global("profile", Example, FALSE) = [row EXCEPT ![i] = n]
    <3> DEFINE std == FALSE
    <3>1. std \in BOOLEAN
      OBVIOUS
    <3> HIDE DEF std
    <3>2. \/ Global("profile", Example, std) = row
          \/ \E i \in Ids : /\ Born(i, SeedRow(Example, std, {})) /\ Kind[i] = "profile"
                             /\ ~Taken("profile", Nobody, Example, 0)
                             /\ Global("profile", Example, std) = [row EXCEPT ![i] = SeedRow(Example, std, {})]
      BY <3>1, NamesOfSeeds, Globals
    <3> QED BY <3>2 DEF std
  <2> QED BY <1>1, <2>1
<1>4. CASE row' = row
  <2>1. Starting(row', server', marker')
    BY <1>1, <1>2, <1>4 DEF Starting
  <2>2. SeedsFit'
    BY <1>2, <1>4, <2>1 DEF SeedsFit
  <2> QED BY <1>1, <1>2, <1>4, <2>2, Seeding
<1>5. ASSUME NEW i \in Ids, Born(i, n), Kind[i] = "profile", ~Taken("profile", Nobody, Example, 0),
             row' = [row EXCEPT ![i] = n]
      PROVE  Inv'
  <2>1. /\ n \in Row /\ n.there /\ ~n.std /\ n.seed /\ n.owner = Nobody /\ n.name = Example
    BY NamesOfSeeds DEF SeedRow, Row, NamesOfRows
  <2> HIDE DEF n
  <2>2. \A j \in Ids : row'[j] = IF j = i THEN n ELSE row[j]
    BY <1>5, Typed
  <2>3. \A j \in Ids : ~IsExample(row, j)
    <3> SUFFICES ASSUME NEW j \in Ids, IsExample(row, j) PROVE FALSE
      OBVIOUS
    <3>1. row[j].there /\ row[j].owner = Nobody /\ row[j].name = Example /\ Kind[j] = "profile"
      BY <1>2 DEF Starting, IsExample
    <3>2. j # 0
      BY IdsAssumption
    <3>3. j \in There("profile") \ {0}
      BY <3>1, <3>2 DEF There, Of
    <3> QED BY <1>5, <3>1, <3>3 DEF Taken
  <2>4. ~row[i].std
    BY <1>2, <1>5, Typed DEF Born, Living, OnlyOnce, IsStandard
  <2>5. \A j \in Ids : (IsExample(row', j) <=> j = i) /\ (IsStandard(row', j) <=> IsStandard(row, j))
    BY <1>5, <2>1, <2>2, <2>3, <2>4 DEF IsExample, IsStandard
  <2>6. OnlyOnce(row')
    BY <1>2, <2>1, <2>2, <2>5 DEF OnlyOnce
  <2>7. ~NoStandard(row')
    BY <1>2, <2>5 DEF NoStandard
  <2>8. Starting(row', server', marker')
    BY <1>1, <1>2, <2>1, <2>2, <2>5, <2>7 DEF Starting
  <2>9. SeedsFit'
    BY <2>6, <2>8 DEF SeedsFit
  <2> QED BY <1>1, <1>2, <1>5, <2>1, <2>9, Seeding
<1> QED BY <1>3, <1>4, <1>5

LEMMA SeedsMarker ==
  ASSUME Inv, SeedMarker
  PROVE  Inv'
<1>1. /\ server = "mark" /\ UNCHANGED <<doc, req, load, restarts, strayed>>
      /\ server' = "up" /\ row' = row /\ marker' = TRUE
  BY DEF SeedMarker, Seeds
<1>2. OnlyOnce(row) /\ ~NoStandard(row)
  BY <1>1, Typed DEF SeedsFit, Starting
<1>3. SeedsFit'
  BY <1>1, <1>2 DEF SeedsFit, Starting
<1> QED BY <1>1, <1>3, Seeding

LEMMA Lost ==
  ASSUME NEW q \in Request
  PROVE  LET e == [NoRequest EXCEPT !.user = q.user, !.op = q.op, !.status = "lost"]
         IN  e \in Request /\ e.at = 0
<1> DEFINE n1 == [NoRequest EXCEPT !.user = q.user]
           n2 == [n1 EXCEPT !.op = q.op]
           n3 == [n2 EXCEPT !.status = "lost"]
<1>1. /\ NoRequest \in Request /\ NoRequest.at = 0
      /\ q.user \in Users \cup {Nobody} /\ q.op \in Ops \cup {"none"}
  BY BlankFacts DEF Request
<1> HIDE DEF n1, n2, n3
<1>2. n1 \in Request
  BY <1>1, SMT DEF n1, Request
<1>3. n1.at = 0
  BY <1>1, Zenon DEF n1, Request
<1>4. n2 \in Request
  BY <1>1, <1>2, SMT DEF n2, Request
<1>5. n2.at = n1.at
  BY <1>2, Zenon DEF n2, Request
<1>6. n3 \in Request
  BY <1>4, SMT DEF n3, Request
<1>7. n3.at = n2.at
  BY <1>4, Zenon DEF n3, Request
<1>8. [NoRequest EXCEPT !.user = q.user, !.op = q.op, !.status = "lost"] = n3
  BY <1>1, SMT DEF n1, n2, n3, Request
<1> QED BY <1>3, <1>5, <1>6, <1>7, <1>8

LEMMA Crashes ==
  ASSUME Inv, Crash
  PROVE  Inv'
<1> DEFINE Left(p) == Strays(p, row[p].refs)
           Gone(q) == [NoRequest EXCEPT !.user = q.user, !.op = q.op, !.status = "lost"]
<1>1. /\ server' = "down" /\ restarts' = restarts + 1
      /\ row' = row /\ doc' = doc /\ marker' = marker /\ load' = load
      /\ strayed' = strayed \cup UNION {Left(p) : p \in There("profile")}
      /\ req' = [r \in Reqs |-> IF req[r].at = 0 THEN req[r] ELSE Gone(req[r])]
  BY DEF Crash
<1>2. \A p \in There("profile") : /\ Left(p) \subseteq (Ids \cup {Documents}) \X Ids
                                  /\ \A d \in row[p].refs : row[d].there \/ <<p, d>> \in Left(p)
  <2>1. \A p \in There("profile") : p \in Ids /\ row[p].refs \in SUBSET Ids
    BY RowTypes DEF There, Of
  <2> QED BY <2>1, StraysAre
<1>3. \A q \in Request : Gone(q) \in Request /\ Gone(q).at = 0
  BY Lost
<1> HIDE DEF Left, Gone
<1>4. /\ strayed \subseteq strayed' /\ strayed' \subseteq (Ids \cup {Documents}) \X Ids
      /\ \A p \in There("profile") : \A d \in row[p].refs : row[d].there \/ <<p, d>> \in strayed'
  BY <1>1, <1>2, Typed
<1>5. \A r \in Reqs : req'[r] \in Request /\ req'[r].at = 0
  BY <1>1, <1>3, Typed
<1>6. req' \in [Reqs -> Request]
  <2>1. req' = [r \in Reqs |-> req'[r]]
    BY <1>1
  <2> QED BY <1>5, <2>1
<1>7. TypeOK'
  BY <1>1, <1>4, <1>6, Typed DEF TypeOK
<1>8. Requests'
  BY <1>5 DEF Requests
<1>9. Living(row', doc') /\ Refers(row')
  BY <1>1, Typed
<1>10. Filed(row', doc', strayed')
  BY <1>1, <1>4, Typed DEF Filed
<1>11. Referred'
  BY <1>1, <1>4 DEF Referred, There, Of
<1>12. SeedsFit'
  BY <1>1, Typed DEF SeedsFit, Starting
<1> QED BY <1>7, <1>8, <1>9, <1>10, <1>11, <1>12 DEF Inv

LEMMA InitInv ==
  ASSUME Init
  PROVE  Inv
<1> DEFINE rows == load.rows
           docs == load.docs
<1>1. /\ load \in Loads /\ restarts = 0
      /\ row = [i \in Ids |-> IF i \in DOMAIN rows THEN rows[i] ELSE Blank]
      /\ doc = [d \in Docs |-> IF d \in DOMAIN docs THEN docs[d] ELSE NoDocument]
      /\ req = [r \in Reqs |-> NoRequest]
      /\ server = (IF load.seeded THEN "up" ELSE "down") /\ marker = load.seeded
      /\ strayed = {}
  BY DEF Init
<1>2. /\ load.seeded \in BOOLEAN /\ Stands(rows, docs)
      /\ IF load.seeded THEN Seeded(rows) ELSE Seedable(rows)
  BY <1>1, LoadsAssumption
<1> HIDE DEF rows, docs
<1>3. /\ DOMAIN rows \subseteq Ids /\ DOMAIN docs \subseteq Docs
      /\ \A i \in DOMAIN rows : rows[i] \in Row /\ rows[i].there /\ rows[i].born
      /\ \A p \in DOMAIN rows : Kind[p] = "profile" =>
           \A d \in rows[p].refs : Kind[d] = "domain" /\ d \in DOMAIN rows
  BY <1>2 DEF Stands
<1>4. \A d \in DOMAIN docs :
        /\ docs[d] \in Document /\ docs[d].there /\ docs[d].born
        /\ docs[d].folder # Nobody =>
             /\ docs[d].folder \in DOMAIN rows /\ Kind[docs[d].folder] = "folder"
             /\ rows[docs[d].folder].owner = docs[d].owner
  BY <1>2 DEF Stands
<1>5. /\ \A i \in Ids : row[i] = IF i \in DOMAIN rows THEN rows[i] ELSE Blank
      /\ \A d \in Docs : doc[d] = IF d \in DOMAIN docs THEN docs[d] ELSE NoDocument
      /\ \A r \in Reqs : req[r] = NoRequest
  BY <1>1
<1>6. /\ ~Blank.there /\ ~Blank.born /\ ~Blank.std /\ ~Blank.seed /\ Blank.refs = {}
      /\ ~NoDocument.there /\ ~NoDocument.born /\ NoDocument.folder = Nobody /\ NoRequest.at = 0
      /\ Blank \in Row /\ NoDocument \in Document /\ NoRequest \in Request
  BY BlankFacts DEF Blank, NoDocument
<1>7. TypeOK
  <2>1. row \in [Ids -> Row] /\ doc \in [Docs -> Document] /\ req \in [Reqs -> Request]
    BY <1>1, <1>3, <1>4, <1>6
  <2> QED BY <1>1, <1>2, <2>1 DEF TypeOK
<1>8. Requests
  BY <1>5, <1>6 DEF Requests
<1>9. Living(row, doc) /\ Refers(row)
  BY <1>3, <1>4, <1>5, <1>6 DEF Living, Refers
<1>10. Filed(row, doc, strayed)
  BY <1>3, <1>4, <1>5, <1>6 DEF Filed, FolderOf
<1>11. Referred
  BY <1>3, <1>5, <1>6 DEF Referred
<1>12. SeedsFit
  <2>1. CASE load.seeded
    <3>1. Seeded(rows) /\ marker = TRUE /\ server = "up"
      BY <1>1, <1>2, <2>1
    <3>2. OnlyOnce(row)
      BY <1>3, <1>5, <1>6, <3>1 DEF Seeded, OnlyOnce, IsStandard, IsExample
    <3>3. ~NoStandard(row)
      BY <1>3, <1>5, <3>1 DEF Seeded, NoStandard, IsStandard
    <3> QED BY <3>1, <3>2, <3>3 DEF SeedsFit, Starting
  <2>2. CASE ~load.seeded
    <3>1. Seedable(rows) /\ marker = FALSE /\ server = "down"
      BY <1>1, <1>2, <2>2
    <3>2. \A i \in Ids : ~IsStandard(row, i) /\ ~IsExample(row, i)
      BY <1>3, <1>5, <1>6, <3>1 DEF Seedable, IsStandard, IsExample
    <3>3. \A i \in Ids : Kind[i] = "profile" /\ row[i].there =>
            ~(row[i].owner = Nobody /\ row[i].name = Standard)
      BY <1>3, <1>5, <1>6, <3>1 DEF Seedable
    <3>4. \E i \in Ids : Kind[i] = "profile" /\ ~row[i].born
      BY <1>5, <1>6, <3>1 DEF Seedable
    <3> QED BY <3>1, <3>2, <3>3, <3>4 DEF SeedsFit, Starting, OnlyOnce
  <2> QED BY <1>2, <2>1, <2>2
<1> QED BY <1>7, <1>8, <1>9, <1>10, <1>11, <1>12 DEF Inv

LEMMA StepInv ==
  ASSUME Inv, [Next]_vars
  PROVE  Inv'
<1>1. ASSUME NEW r \in Reqs, Statement(r) PROVE Inv'
  <2>1. CASE Find(r) BY <2>1, Finds
  <2>2. CASE Again(r) BY <2>2, FindsAgain
  <2>3. CASE Prune(r) BY <2>3, Prunes
  <2>4. CASE Vet(r) \/ Parent(r) \/ Reread(r) \/ FolderKnown(r) BY <2>4, Vets
  <2>5. CASE Insert(r) BY <2>5, Inserts
  <2>6. CASE Update(r) BY <2>6, Updates
  <2>7. CASE Delete(r) BY <2>7, Deletes
  <2>8. CASE SweepRead(r) BY <2>8, SweepReads
  <2>9. CASE Sweep(r) BY <2>9, Sweeps
  <2>10. CASE InsertDocument(r) BY <2>10, InsertsDocument
  <2>11. CASE SetFolder(r) BY <2>11, MovesDocument
  <2>12. CASE ReadDocument(r) BY <2>12, ReadsDocument
  <2>13. CASE Put(r) BY <2>13, Puts
  <2>14. CASE Latest(r) \/ Named(r) BY <2>14, Looks
  <2>15. CASE SetName(r) BY <2>15, SetsName
  <2>16. CASE Drop(r) BY <2>16, Drops
  <2> QED
    BY <1>1, <2>1, <2>2, <2>3, <2>4, <2>5, <2>6, <2>7, <2>8, <2>9, <2>10, <2>11, <2>12, <2>13,
       <2>14, <2>15, <2>16 DEF Statement
<1>2. ASSUME NEW r \in Reqs, Ask(r) PROVE Inv'
  BY <1>2, Asks
<1>3. CASE SeedDomain BY <1>3, SeedsDomain
<1>4. CASE SeedTerms BY <1>4, SeedsTerms
<1>5. CASE SeedStandard BY <1>5, SeedsStandard
<1>6. CASE SeedExample BY <1>6, SeedsExample
<1>7. CASE SeedMarker BY <1>7, SeedsMarker
<1>8. CASE Crash BY <1>8, Crashes
<1>9. CASE UNCHANGED vars
  <2>1. /\ row' = row /\ doc' = doc /\ req' = req /\ strayed' = strayed
        /\ server' = server /\ marker' = marker /\ load' = load /\ restarts' = restarts
    BY <1>9 DEF vars, process
  <2> QED BY <2>1 DEF Inv, TypeOK, Requests, Referred, BeingSwept, SeedsFit
<1> QED BY <1>1, <1>2, <1>3, <1>4, <1>5, <1>6, <1>7, <1>8, <1>9 DEF Next

LEMMA Invariance == Spec => []Inv
<1>1. Init => Inv
  BY InitInv
<1>2. Inv /\ [Next]_vars => Inv'
  BY StepInv
<1> QED BY <1>1, <1>2, PTL DEF Spec

(* The records of the library stay records of the library.                 *)
THEOREM TypeCorrect == Spec => []TypeOK
<1>1. Inv => TypeOK
  BY DEF Inv
<1> QED BY <1>1, Invariance, PTL

LEMMA AtMostOne ==
  ASSUME NEW S, \A x, y \in S : x = y
  PROVE  Cardinality(S) <= 1 /\ (S # {} => Cardinality(S) = 1)
<1>1. CASE S = {}
  BY <1>1, FS_EmptySet
<1>2. CASE S # {}
  <2>1. PICK x : x \in S
    BY <1>2
  <2>2. S = {x}
    BY <2>1
  <2> QED BY <2>2, FS_Singleton
<1> QED BY <1>1, <1>2

(* The Standard profile and the example are made once, whenever the process *)
(* died in between: start-up makes them where they are missing and not yet   *)
(* marked, no request makes another, and none deletes the Standard profile   *)
(* (seed_profiles.py:184).                                                   *)
THEOREM SeededForGood == Spec => []SeededOnce
<1>1. Inv => SeededOnce
  <2> SUFFICES ASSUME Inv PROVE SeededOnce
    OBVIOUS
  <2> DEFINE Examples == {i \in Of("profile") : row[i].seed /\ ~row[i].std}
             Standards == {i \in There("profile") : row[i].std}
  <2>1. OnlyOnce(row) /\ Starting(row, server, marker)
    BY Typed DEF SeedsFit
  <2>2. \A i, j \in Examples : i = j
    BY <2>1 DEF OnlyOnce, IsExample, Of
  <2>3. \A i, j \in Standards : i = j
    BY <2>1 DEF OnlyOnce, IsStandard, There, Of
  <2>4. server = "up" => Standards # {}
    BY <2>1 DEF Starting, NoStandard, OnlyOnce, IsStandard, There, Of
  <2> HIDE DEF Examples, Standards
  <2>5. Cardinality(Examples) <= 1 /\ (server = "up" => Cardinality(Standards) = 1)
    BY <2>2, <2>3, <2>4, AtMostOne
  <2> QED BY <2>5 DEF SeededOnce, Examples, Standards
<1> QED BY <1>1, Invariance, PTL

(* No profile keeps a domain that was deleted and no document a folder,      *)
(* unless the reference was stored after the deletion by a request that had  *)
(* checked it before, the sweep is under way, or the process died in it      *)
(* (profiles.py:334, folders.py:238).                                        *)
THEOREM SweptEverywhere == Spec => []SweepsAreWhole
<1>1. Inv => SweepsAreWhole
  <2> SUFFICES ASSUME Inv PROVE SweepsAreWhole
    OBVIOUS
  <2>1. ASSUME NEW d, BeingSwept(d) PROVE Sweeping(d)
    <3>1. PICK r \in Reqs : Sweeper(req[r]) /\ req[r].id = d
      BY <2>1 DEF BeingSwept
    <3>2. req[r].at \in Nat
      BY Typed DEF Request
    <3> QED BY <3>1, <3>2 DEF Sweeper, Sweeping
  <2>2. \A p \in There("profile") : \A d \in row[p].refs :
          row[d].there \/ Sweeping(d) \/ <<p, d>> \in strayed
    BY <2>1, Typed DEF Referred, There, Of
  <2>3. \A d \in Docs : doc[d].folder # Nobody =>
          row[doc[d].folder].there \/ <<Documents, doc[d].folder>> \in strayed
    BY Typed DEF Filed
  <2> QED BY <2>2, <2>3 DEF SweepsAreWhole
<1> QED BY <1>1, Invariance, PTL

Kept == \A d \in Docs : doc[d].there /\ doc'[d].there =>
          /\ doc'[d].text # doc[d].text => req[doc'[d].text].at > 0
          /\ doc[d].source = "user" => doc'[d].source = "user"
LEMMA PutsKeep ==
  ASSUME Inv, NEW r \in Reqs, Put(r)
  PROVE  Kept
<1> DEFINE q == req[r]
           d == q.id
           new == PutBy(r, doc[d], q)
<1>1. /\ q \in Request /\ q.at > 0 /\ Aimed(q, row, doc) /\ Dated(q, doc) /\ Holding(q, row)
      /\ q.op \in {"save", "rename"} /\ q.at = 2
  BY DoingFacts, Signs DEF Put, Staged
<1>2. OnDocument(q) /\ d \in Docs
  BY <1>1, OpsDiffer DEF Writes, Aimed
<1>3. \/ doc[d].there /\ doc[d].rev = q.rev /\ doc' = [doc EXCEPT ![d] = new]
      \/ doc' = doc
  <2>1. CASE doc[d].there /\ doc[d].rev = q.rev
    BY <2>1 DEF Put, PutBy
  <2>2. CASE ~(doc[d].there /\ doc[d].rev = q.rev)
    BY <2>2 DEF Put, Reads
  <2> QED BY <2>1, <2>2
<1>4. CASE doc' = doc
  BY <1>4 DEF Kept
<1>5. CASE doc[d].there /\ doc[d].rev = q.rev /\ doc' = [doc EXCEPT ![d] = new]
  <2>1. doc[d] \in Document /\ q.source # "none"
    BY <1>1, <1>2, Typed DEF Holding, Writes
  <2>2. /\ new.text = (IF q.op = "save" THEN r ELSE q.text)
        /\ new.source = (IF q.op = "rename" THEN "user" ELSE q.source)
    BY <1>1, <2>1, PutRecord
  <2> HIDE DEF new
  <2>3. \A e \in Docs : doc'[e] = IF e = d THEN new ELSE doc[e]
    BY <1>5, Typed
  <2>4. q.text = doc[d].text /\ (doc[d].source = "user" => q.source = "user")
    BY <1>1, <1>5 DEF Dated, Writes
  <2> QED BY <1>1, <2>2, <2>3, <2>4 DEF Kept
<1> QED BY <1>3, <1>4, <1>5

LEMMA OthersKeep ==
  ASSUME Inv, NEW r \in Reqs, Ask(r) \/ Statement(r), ~Put(r)
  PROVE  Kept
<1>1. CASE doc' = doc
  BY <1>1 DEF Kept
<1>2. CASE Find(r) \/ Again(r) \/ Prune(r) \/ Vet(r) \/ Parent(r) \/ Reread(r) \/ FolderKnown(r)
  BY <1>1, <1>2 DEF Find, Again, Prune, Vet, Parent, Reread, FolderKnown, Reads, Refuses
<1>3. CASE ReadDocument(r) \/ Latest(r) \/ Named(r) \/ SweepRead(r) \/ Sweep(r) \/ Ask(r)
  BY <1>1, <1>3 DEF ReadDocument, Latest, Named, SweepRead, Sweep, Ask, Reads, Refuses
<1>4. CASE Insert(r) \/ Update(r)
  BY <1>1, <1>4 DEF Insert, Update, Stores, Reads, Refuses
<1>5. CASE Delete(r)
  <2>1. \A d \in Docs : doc'[d].text = doc[d].text /\ doc'[d].source = doc[d].source
    <3>1. doc' = doc \/ doc' = Unfiled(req[r].id, req[r].user)
      BY <1>5 DEF Delete, Refuses
    <3>2. \A d \in Docs : doc[d] \in Document
      BY Typed
    <3> QED BY <3>1, <3>2 DEF Unfiled, Document
  <2> QED BY <2>1 DEF Kept
<1>6. CASE InsertDocument(r)
  <2>1. PICK new : doc' = [doc EXCEPT ![Min(UnbornDocs)] = new]
    BY <1>6 DEF InsertDocument, File
  <2>2. Min(UnbornDocs) \in Docs /\ ~doc[Min(UnbornDocs)].there
    BY <1>6, FirstUnborn DEF InsertDocument
  <2> QED BY <2>1, <2>2, Typed DEF Kept
<1>7. CASE SetFolder(r)
  <2>1. doc' = doc \/ doc' = [doc EXCEPT ![req[r].id] = [doc[req[r].id] EXCEPT !.folder = req[r].folder]]
    BY <1>7 DEF SetFolder, Move, File, Refuses
  <2>2. \A d \in Docs : doc[d] \in Document
    BY Typed
  <2>3. \A d \in Docs : doc'[d].text = doc[d].text /\ doc'[d].source = doc[d].source
    BY <2>1, <2>2, Typed DEF Document
  <2> QED BY <2>3 DEF Kept
<1>8. CASE SetName(r)
  <2>1. PICK source \in {"llm", "fallback"} :
          doc' = IF Nameable(req[r].id) THEN [doc EXCEPT ![req[r].id].source = source] ELSE doc
    BY <1>8 DEF SetName
  <2>2. \A d \in Docs : doc[d] \in Document
    BY Typed
  <2>3. \A d \in Docs : /\ doc'[d].text = doc[d].text
                        /\ doc[d].source = "user" => doc'[d].source = doc[d].source
    BY <2>1, <2>2, Typed DEF Nameable, Renamable, Document
  <2> QED BY <2>3 DEF Kept
<1>9. CASE Drop(r)
  <2>1. doc' = doc \/ doc' = [doc EXCEPT ![req[r].id] = [NoDocument EXCEPT !.born = TRUE]]
    BY <1>9 DEF Drop, Refuses
  <2>2. ~[NoDocument EXCEPT !.born = TRUE].there
    BY DEF NoDocument
  <2> QED BY <2>1, <2>2, Typed DEF Kept
<1> QED BY <1>2, <1>3, <1>4, <1>5, <1>6, <1>7, <1>8, <1>9 DEF Statement

(* update_document writes back every column it read: what it has read is     *)
(* still there when the revision is the caller's, since every write of a     *)
(* text or a name of the user's makes a new one (documents.py:256, :323).    *)
THEOREM EditsKept == Spec => EditsAreKept
<1>1. Inv /\ [Next]_vars => [Kept]_vars
  <2> SUFFICES ASSUME Inv, Next PROVE Kept
    OBVIOUS
  <2>1. ASSUME NEW r \in Reqs, Ask(r) \/ Statement(r) PROVE Kept
    BY <2>1, PutsKeep, OthersKeep
  <2>2. CASE SeedDomain \/ SeedTerms \/ SeedStandard \/ SeedExample \/ SeedMarker \/ Crash
    <3>1. doc' = doc
      BY <2>2 DEF SeedDomain, SeedTerms, SeedStandard, SeedExample, SeedMarker, Crash, Seeds
    <3> QED BY <3>1 DEF Kept
  <2> QED BY <2>1, <2>2 DEF Next
<1> QED BY <1>1, Invariance, PTL DEF Spec, EditsAreKept, Kept
=============================================================================
