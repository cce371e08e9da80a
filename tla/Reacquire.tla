------------------------------ MODULE Reacquire ------------------------------
(***************************************************************************)
(* How the content script finds again the field it was connected to, when   *)
(* the host page takes it away and puts another in its place: the           *)
(* fingerprint that is taken of a field, the search for it, and the session *)
(* that is handed over.  The page is the environment: it removes, inserts,  *)
(* replaces and resizes fields and whole forms as it likes.                 *)
(*                                                                         *)
(* browser-extension/src/reacquire.ts, detect.ts, and what scout.ts and     *)
(* session.ts do with them.  What the panel and the worker see of a session *)
(* is in Extension.                                                         *)
(***************************************************************************)
EXTENDS Naturals, Sequences, FiniteSets, SequencesExt

CONSTANTS
  Nodes,    \* the elements that are, or will be, fields of the page
  Look,     \* of a node: what it is, and its id, name and label or Null
  Forms,    \* the forms; one that is rendered again is the same form
  Title,    \* of a form: its id and name, or Null
  Null,
  Places,   \* "0", "1", ...: how the places of the forms are written
  Coloned,  \* the titles with a colon in them
  Scenes,   \* what the page may look like at first, and what the host has for it
  MaxTurns  \* bound: what the host and the user do

Kinds == {"textarea", "contenteditable"}
Traits == {"id", "name", "label"}
Blocks == [form : Forms \cup {Null}, fields : Seq(Nodes)]

ASSUME ReacquireAssumption ==
  /\ Null \notin Nodes \cup Forms
  /\ \A n \in Nodes : DOMAIN Look[n] = Traits \cup {"kind"} /\ Look[n].kind \in Kinds
  /\ \A f \in Forms : DOMAIN Title[f] = {"id", "name"}
  /\ IsInjective(Places) /\ Cardinality(Forms) <= Len(Places)
  /\ Coloned \cap (ToSet(Places) \cup {"document"}) = {} /\ Null \notin ToSet(Places)
  /\ \A z \in Scenes : z.blocks \in Seq(Blocks) /\ z.stock \subseteq Nodes \cup Forms
  /\ MaxTurns \in Nat

VARIABLES
  hostPage,     \* the blocks of the page, in document order: forms, and fields in none
  fits,     \* the nodes that are enabled, writable and large enough
  stock,    \* the nodes and forms the host has, on the page or not
  pointed,    \* the field the chip is at
  link,     \* the session, or the search for its field
  turns

reacquireVars == <<hostPage, fits, stock, pointed, link, turns>>

(***************************************************************************)
(* The document.                                                            *)
(***************************************************************************)
FormsIn(p) == SelectSeq([b \in DOMAIN p |-> p[b].form], LAMBDA f : f # Null)
AllFields(p) == FlattenSeq([b \in DOMAIN p |-> p[b].fields])
FieldsIn(p, f) == FlattenSeq([b \in DOMAIN p |-> IF p[b].form = f THEN p[b].fields ELSE <<>>])
OnPage(p) == ToSet(AllFields(p))
HomeOf(p, n) == p[CHOOSE b \in DOMAIN p : n \in ToSet(p[b].fields)].form
FirstIn(s, Test(_)) == LET hits == SelectSeq(s, Test) IN IF hits = <<>> THEN Null ELSE Head(hits)
Nth(s, i) == IF i # Null /\ i + 1 \in DOMAIN s THEN s[i + 1] ELSE Null
IndexIn(s, x) == (CHOOSE i \in DOMAIN s : s[i] = x) - 1

\* isEligibleField, for a field of the kind that is looked for
Eligible(n, kind) == n \in fits /\ Look[n].kind = kind

(***************************************************************************)
(* The fingerprint.  A form is known by one string: its id, else its name,  *)
(* else its place among the forms; nothing tells the three apart.           *)
(***************************************************************************)
Number(text) == IF text \in ToSet(Places) THEN IndexIn(Places, text) ELSE Null  \* Null: NaN
FormIdentity(p, f) ==
  CASE f = Null -> "document"
    [] f # Null /\ Title[f].id # Null -> Title[f].id
    [] f # Null /\ Title[f].id = Null /\ Title[f].name # Null -> Title[f].name
    [] OTHER -> Places[IndexIn(FormsIn(p), f) + 1]
Bears(f, text) == text \in {Title[f].id, Title[f].name}
\* Mutant: a name does not lead back to the form.
ResolvedFormById(p, text) ==
  LET named == FirstIn(FormsIn(p), LAMBDA f : Title[f].id = text)
  IN  IF named # Null THEN named ELSE Nth(FormsIn(p), Number(text))
\* resolveForm: any text that no form bears is tried as a place.
ResolvedForm(p, text) ==
  LET named == FirstIn(FormsIn(p), LAMBDA f : Bears(f, text))
  IN  IF named # Null THEN named ELSE Nth(FormsIn(p), Number(text))

\* "formId:index", and what is read behind the FIRST colon of it.
Joined(formId, index) == [formId |-> formId, index |-> index]
IndexOf(value) == IF value.formId \in Coloned THEN Null ELSE value.index

\* fieldScope: the fields of the kind, whether they are eligible or not
Pool(fields, kind) == SelectSeq(fields, LAMBDA n : Look[n].kind = kind)
\* uniqueEligibleMatch
UniqueMatch(fields, trait, value, kind) ==
  LET matches == {n \in ToSet(fields) : Look[n][trait] = value /\ Eligible(n, kind)}
  IN  IF Cardinality(matches) = 1 THEN CHOOSE n \in matches : TRUE ELSE Null

\* The fields among which one of the form is looked for; all of them if it has no form.
ScopeAround(p, f) == IF f = Null THEN AllFields(p) ELSE FieldsIn(p, f)
Distinguishes(p, n, trait) ==
  /\ Look[n][trait] # Null
  /\ UniqueMatch(ScopeAround(p, HomeOf(p, n)), trait, Look[n][trait], Look[n].kind) # Null
\* computeFingerprint
Fingerprint(p, n) ==
  LET form == HomeOf(p, n)
      by == CASE Look[n].id # Null -> "id"
              [] Look[n].id = Null /\ Distinguishes(p, n, "name") -> "name"
              [] Look[n].id = Null /\ ~Distinguishes(p, n, "name") /\ Distinguishes(p, n, "label") -> "label"
              [] OTHER -> "formIndex"
  IN  [by |-> by,
       value |-> IF by # "formIndex" THEN Look[n][by]
                 ELSE Joined(FormIdentity(p, form), IndexIn(Pool(ScopeAround(p, form), Look[n].kind), n)),
       form |-> FormIdentity(p, form), inForm |-> form # Null, kind |-> Look[n].kind]

\* Mutant: without its form the field is looked for everywhere.
MatchScopeAnywhere(p, fp) ==
  IF ~fp.inForm THEN AllFields(p)
  ELSE LET f == ResolvedForm(p, fp.form) IN IF f = Null THEN AllFields(p) ELSE FieldsIn(p, f)
\* resolveMatchScope: nothing, if the form cannot be resolved
MatchScope(p, fp) ==
  IF ~fp.inForm THEN AllFields(p)
  ELSE LET f == ResolvedForm(p, fp.form) IN IF f = Null THEN <<>> ELSE FieldsIn(p, f)
\* findFingerprintMatch
Candidate(p, fp) ==
  CASE fp.by = "id" -> FirstIn(AllFields(p), LAMBDA n : Look[n].id = fp.value)
    [] fp.by \in {"name", "label"} -> UniqueMatch(MatchScope(p, fp), fp.by, fp.value, fp.kind)
    [] fp.by = "formIndex" -> Nth(Pool(MatchScope(p, fp), fp.kind), IndexOf(fp.value))
Accepts(n, fp) == Eligible(n, fp.kind)
Match(p, fp) ==
  LET n == Candidate(p, fp) IN IF n # Null /\ Accepts(n, fp) THEN n ELSE Null

(***************************************************************************)
(* The user and the script.  link.home, sound and beside are what the       *)
(* properties remember of the capture: the form, whether the field was      *)
(* eligible itself, the eligible fields of its kind around it.              *)
(***************************************************************************)
Live == link # Null /\ link.live
Seeking == link # Null /\ ~link.live
Followed(n) ==
  LET home == HomeOf(hostPage, n)
  IN  [node |-> n, fp |-> Fingerprint(hostPage, n), live |-> TRUE, home |-> home, sound |-> n \in fits,
       beside |-> {o \in ToSet(ScopeAround(hostPage, home)) \ {n} : Eligible(o, Look[n].kind)}]

Turning == turns < MaxTurns /\ turns' = turns + 1

\* The pointer enters an eligible field.  The chip stays when the field stops being one.
PointAt(n) ==
  /\ n \in OnPage(hostPage) \cap fits /\ n # pointed
  /\ pointed' = n
  /\ UNCHANGED <<hostPage, fits, stock, link, turns>>

\* The chip is clicked: a session of another field, or a search, is dropped.
Attach ==
  /\ Turning
  /\ pointed \in OnPage(hostPage)
  /\ ~(Live /\ link.node = pointed)
  /\ link' = Followed(pointed)
  /\ UNCHANGED <<hostPage, fits, stock, pointed>>

\* Disconnected by the chip, the panel or the worker, the port gone, the server changed;
\* or the grace period is over.
LetGo == Turning /\ link # Null /\ link' = Null /\ UNCHANGED <<hostPage, fits, stock, pointed>>
CallOff == Seeking /\ link' = Null /\ UNCHANGED <<hostPage, fits, stock, pointed, turns>>

Poll ==
  LET n == Match(hostPage, link.fp)
  IN  /\ Seeking
      /\ n # Null
      /\ link' = Followed(n)
      /\ pointed' = IF pointed = link.node THEN n ELSE pointed
      /\ UNCHANGED <<hostPage, fits, stock, turns>>

(***************************************************************************)
(* The host.  After a task of its own that changes the document the         *)
(* session's observer looks whether the field is still there.               *)
(***************************************************************************)
Observed(p) == IF link # Null THEN [link EXCEPT !.live = @ /\ link.node \in OnPage(p)] ELSE Null
Becomes(p) ==
  /\ Turning
  /\ hostPage' = p
  /\ link' = Observed(p)
  /\ UNCHANGED <<fits, stock, pointed>>

Without(p, n) == [b \in DOMAIN p |-> [p[b] EXCEPT !.fields = SelectSeq(@, LAMBDA o : o # n)]]
Swapped(p, n, m) ==
  [b \in DOMAIN p |-> [p[b] EXCEPT !.fields = [i \in DOMAIN @ |-> IF @[i] = n THEN m ELSE @[i]]]]
\* The host has no two elements of one id at a time.
Free(p) == {n \in (stock \cap Nodes) \ OnPage(p) : \A o \in OnPage(p) : Look[n].id = Null \/ Look[o].id # Look[n].id}

RemoveField(n) == n \in OnPage(hostPage) /\ Becomes(Without(hostPage, n))
InsertField(b, i, n) ==
  /\ b \in DOMAIN hostPage /\ i \in 1 .. Len(hostPage[b].fields) + 1 /\ n \in Free(hostPage)
  /\ Becomes([hostPage EXCEPT ![b].fields = InsertAt(@, i, n)])
ReplaceField(n, m) ==
  /\ n \in OnPage(hostPage) /\ m \in Free(Without(hostPage, n)) \ {n}
  /\ Becomes(Swapped(hostPage, n, m))
RemoveForm(b) == b \in DOMAIN hostPage /\ hostPage[b].form # Null /\ Becomes(RemoveAt(hostPage, b))
\* A form that comes back does so with the fields it is rendered with.
InsertForm(i, f, fields) ==
  /\ i \in 1 .. Len(hostPage) + 1 /\ f \in stock \ ToSet(FormsIn(hostPage))
  /\ ToSet(fields) \subseteq Free(hostPage)
  /\ Becomes(InsertAt(hostPage, i, [form |-> f, fields |-> fields]))
\* A field is enabled or disabled, or laid out.
Resize(n) ==
  /\ Turning
  /\ n \in OnPage(hostPage)
  /\ fits' = IF n \in fits THEN fits \ {n} ELSE fits \cup {n}
  /\ UNCHANGED <<hostPage, stock, pointed, link>>

ReacquireInit ==
  /\ \E z \in Scenes : hostPage = z.blocks /\ stock = z.stock
  /\ fits = stock \cap Nodes
  /\ pointed = Null /\ link = Null /\ turns = 0

ReacquireNext ==
  \/ \E n \in Nodes : PointAt(n)
  \/ Attach
  \/ LetGo
  \/ CallOff
  \/ Poll
  \/ \E n \in Nodes : RemoveField(n)
  \/ \E b \in 1 .. Len(hostPage), n \in Nodes : \E i \in 1 .. Len(hostPage[b].fields) + 1 : InsertField(b, i, n)
  \/ \E n, m \in Nodes : ReplaceField(n, m)
  \/ \E b \in 1 .. Len(hostPage) : RemoveForm(b)
  \/ \E i \in 1 .. Len(hostPage) + 1, f \in Forms, n \in Nodes : InsertForm(i, f, <<n>>)
  \/ \E n \in Nodes : Resize(n)

ReacquireSpec == ReacquireInit /\ [][ReacquireNext]_reacquireVars

(***************************************************************************)
(* Properties.                                                              *)
(***************************************************************************)
ReacquireTypeOK ==
  /\ \A b \in DOMAIN hostPage : hostPage[b].form \in (stock \cap Forms) \cup {Null} /\ ToSet(hostPage[b].fields) \subseteq stock
  /\ IsInjective(AllFields(hostPage)) /\ IsInjective(FormsIn(hostPage))
  /\ fits \subseteq stock \cap Nodes /\ stock \subseteq Nodes \cup Forms
  /\ pointed \in stock \cup {Null}
  /\ link # Null => /\ link.node \in stock /\ link.live \in BOOLEAN /\ link.beside \subseteq stock
                    /\ link.fp.by \in {"id", "name", "label", "formIndex"}
                    /\ link.live => link.node \in OnPage(hostPage)
  /\ turns \in 0 .. MaxTurns

\* No other form bears the text that a form is known by.
Known(p, f) == \A o \in ToSet(FormsIn(p)) \ {f} : ~Bears(o, FormIdentity(p, f))
\* A field known by its place in a form with a colon in its title: it is never found again.
Garbled(fp) == fp.by = "formIndex" /\ fp.value.formId \in Coloned
\* The variables are of their types, and a session that is live has its field on the page.
\* Where no form is taken for another, the fingerprint of a field that is rendered again -
\* the node is gone, one that looks the same is in its place - leads to the new node, and
\* while nothing is rendered again to the field itself, the garbled ones apart
\* (reacquire.ts:16-23, 194, 233-235).
FindsTheReplacement ==
  /\ ReacquireTypeOK
  /\ (\A f \in ToSet(FormsIn(hostPage)) : Known(hostPage, f)) =>
       \A n \in OnPage(hostPage) \cap fits :
         LET fp == Fingerprint(hostPage, n)
         IN  ~Garbled(fp) =>
               \A m \in (Free(Without(hostPage, n)) \cap fits) \cup {n} :
                 Look[m] = Look[n] => Match(Swapped(hostPage, n, m), fp) = m

\* A step that hands the session over to another field.
Rebinds == Seeking /\ link' # Null /\ link'.live /\ turns' = turns

\* The session goes on only with a field of the kind it had, that is eligible when it is
\* taken, whatever identity led to it (reacquire.ts:66-70, 207-213).
KeepsKind ==
  [][Rebinds => /\ Look[link'.node].kind = Look[link.node].kind
                /\ link'.node \in OnPage(hostPage) \cap fits]_reacquireVars

\* A field that stood beside the connected one, eligible as it was, is not taken for it
\* because of a name or a label (reacquire.ts:28-39): such an attribute was no identity.
LeavesNeighbours ==
  [][Rebinds /\ link.fp.by \in {"name", "label"} /\ link.sound => link'.node \notin link.beside]_reacquireVars

\* A form answers to a text that it bears, or that reads as its place.
Answers(p, f, text) == Bears(f, text) \/ Nth(FormsIn(p), Number(text)) = f
\* When the form of the field is away, and no other answers to the text it is known by,
\* the search refuses whatever the rest of the page has, until the form is back
\* (reacquire.ts:43-51).
RefusesElsewhere ==
  [][Rebinds /\ link.fp.by # "id" /\ link.home # Null
       /\ (\A f \in ToSet(FormsIn(hostPage)) \ {link.home} : ~Answers(hostPage, f, link.fp.form))
     => HomeOf(hostPage, link'.node) = link.home]_reacquireVars

\* So the session is only ever handed over within its bounds.
HandsOverWithin == KeepsKind /\ LeavesNeighbours /\ RefusesElsewhere
=============================================================================
