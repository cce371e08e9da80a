---------------------------- MODULE Suggestions ----------------------------
(***************************************************************************)
(* Fixes and rewrites of one tab of the application, from the question to   *)
(* the text they end up in.                                                *)
(*                                                                         *)
(* The user edits, checks and asks; the server vets what the model offers    *)
(* against the text it was sent; the answer is kept under the finding's id,   *)
(* and ids change with every check while places change with every edit.      *)
(*                                                                         *)
(* frontend/src/checking/suggest.ts, editor/, findings/, sidebar/, and       *)
(* backend/app/api/{suggestions,checks}.py.  A check is one step here        *)
(* (CheckController has its parts); which finding is selected is left out.   *)
(***************************************************************************)
EXTENDS Analysis, TLC

CONSTANTS
  Writers,
  MaxLen,
  Pastes,      \* what a user types or pastes at once; <<>> deletes a word
  Proposals,      \* by kind, what the model may answer: sets of offers
  Raws,        \* what the model may find in a text
  Scenes       \* the texts, settings and numbers of actions tried

FixKinds == {"span", "sentence"}
SuggestActs == {"edit", "check", "ask", "apply", "open", "end", "fail"}

ASSUME ScenesAssumption ==
  /\ Absent \notin Writers /\ MaxLen \in Nat
  /\ \A s \in Scenes : s.parsed \in BOOLEAN /\ DOMAIN s.left = SuggestActs

VARIABLES
  scene,
  user,     \* who is signed in, or Absent
  sitting,  \* the generation counter of autosave.ts: how many sessions have ended
  text,     \* what the editor shows
  items,    \* the tracked findings, in the field and in the store
  cache,    \* by kind and finding: options, what was held back, advice, an error
  pending,  \* suggestPendingId, rewritePendingId
  questions,    \* requests under way, those of earlier sessions too
  left      \* how often each act may still happen

suggestVars == <<scene, user, sitting, text, items, cache, pending, questions, left>>

Acting(act) == left[act] > 0 /\ left' = [left EXCEPT ![act] = @ - 1] /\ UNCHANGED scene
Ids == {items[i].id : i \in DOMAIN items}
Empty == [k \in FixKinds |-> <<>>]

SuggestTypeOK ==
  /\ user \in Writers \cup {Absent} /\ Len(text) <= MaxLen
  /\ Cardinality(Ids) = Len(items)
  /\ \A k \in FixKinds : pending[k] = Absent \/ pending[k] \in Nat
  /\ \A k \in FixKinds : \A i \in DOMAIN cache[k] : cache[k][i].error \in BOOLEAN

SuggestInit ==
  /\ scene \in Scenes
  /\ user \in Writers /\ sitting = 0 /\ text \in scene.texts
  /\ items = <<>> /\ cache = Empty /\ pending = [k \in FixKinds |-> Absent] /\ questions = {}
  /\ left = scene.left

-----------------------------------------------------------------------------
(* Caches that follow their findings: setTracked, mapEquivalentIds. *)

Equivalent(new, old) ==
  /\ new.category = old.category /\ new.rule = old.rule /\ new.said = old.said
  /\ Meets(new, old)
Distance(a, b) == IF a.from > b.from THEN a.from - b.from ELSE b.from - a.from
Nearest(new, candidates, old) ==
  {k \in candidates : \A j \in candidates : Distance(new[k], old) <= Distance(new[j], old)}
MapEquivalentIds(old, new) ==
  FoldLeft(LAMBDA map, o :
             LET untaken == {k \in DOMAIN new : Equivalent(new[k], o) /\ new[k].id \notin Range(map)} IN
             IF untaken = {} THEN map ELSE map @@ (o.id :> new[Min(Nearest(new, untaken, o))].id),
           <<>>, old)
Migrated(caches, map) ==
  [k \in FixKinds |->
     LET moved == DOMAIN map \cap DOMAIN caches[k] IN
     [i \in {map[j] : j \in moved} |-> caches[k][CHOOSE j \in moved : map[j] = i]]]
Pruned(caches, old, new) ==
  [k \in FixKinds |-> Restrict(caches[k], DOMAIN caches[k] \cap {i.id : i \in Range(new)})]
SetTracked(caches, old, new) == Migrated(caches, MapEquivalentIds(old, new))

-----------------------------------------------------------------------------
(* Editing: findings that a change touches are dropped, the others move. *)

Touched(item, ch) == ch.from <= item.to /\ item.from <= ch.to
Moved(item, ch) ==
  LET delta == Len(ch.new) - (ch.to - ch.from)
  IN IF item.from > ch.to THEN [item EXCEPT !.from = @ + delta, !.to = @ + delta] ELSE item
Change(ch) ==
  LET untouched == SelectSeq(items, LAMBDA i : ~Touched(i, ch)) IN
  /\ text' = Spliced(text, ch, ch.new)
  /\ Len(text') <= MaxLen
  /\ items' = [i \in DOMAIN untouched |-> Moved(untouched[i], ch)]
  /\ cache' = SetTracked(cache, items, items')

Edit ==
  /\ user # Absent /\ Acting("edit")
  /\ \E new \in Pastes, from \in 0..Len(text) :
       LET to == IF new = <<>> THEN from + 1 ELSE from IN
       to <= Len(text) /\ Change([from |-> from, to |-> to, new |-> new])
  /\ UNCHANGED <<user, sitting, pending, questions>>

\* Another document, without findings yet.
Open ==
  /\ user # Absent /\ Acting("open")
  /\ text' \in scene.texts
  /\ items' = <<>> /\ cache' = Empty
  /\ UNCHANGED <<user, sitting, pending, questions>>

-----------------------------------------------------------------------------
(* Checking: findings of the same sources are replaced under fresh ids. *)

Used == Ids \cup {pending[k] : k \in FixKinds} \cup {c.id : c \in questions}
          \cup UNION {DOMAIN cache[k] : k \in FixKinds}
FreshId(n, used) == CHOOSE i \in 1..(n + Cardinality(used)) :
  i \notin used /\ Cardinality((1..i) \ used) = n
Precedes(a, b) == a.from < b.from \/ (a.from = b.from /\ a.to < b.to)
Sorted(found) ==
  FoldLeft(LAMBDA seq, n :
             LET rest == found \ Range(seq) IN
             Append(seq, CHOOSE f \in rest : \A g \in rest : ~Precedes(g, f)),
           <<>>, [n \in 1..Cardinality(found) |-> n])
Numbered(found, used) ==
  LET seq == Sorted(found) IN [i \in DOMAIN seq |-> [id |-> FreshId(i, used)] @@ seq[i]]
Merged(old, sources, new) == SelectSeq(old, LAMBDA i : i.source \notin sources) \o new

\* The fast findings come first; the model's leave out what they say already.
Received(full, fast, after) ==
  IF ~full THEN items' = after /\ cache' = SetTracked(cache, items, after)
  ELSE \E raw \in Raws :
         LET llm == Numbered(DropDuplicates(LlmFindings(text, raw), fast), Used \cup {i.id : i \in Range(after)}) IN
         /\ items' = Merged(after, {"llm"}, llm)
         /\ cache' = SetTracked(SetTracked(cache, items, after), after, items')
Check(full) ==
  /\ user # Absent /\ Acting("check")
  /\ IF text = <<>> THEN items' = <<>> /\ cache' = Empty
     ELSE \E fast \in {CheckRules(text, scene.parsed, scene.config) \cup CheckTerminology(text)} :
            \E after \in {Merged(items, {"rule", "terminology"}, Numbered(fast, Used))} :
              Received(full, fast, after)
  /\ UNCHANGED <<user, sitting, text, pending, questions>>

-----------------------------------------------------------------------------
(* Asking: fetchSuggestions, fetchRewrite. *)

Options(k, id) == IF id \in DOMAIN cache[k] THEN cache[k][id].options ELSE Absent
LlmActionPending == \E k \in FixKinds : pending[k] # Absent
\* The buttons show as long as nothing is there to apply.
Askable(k, item) == Options(k, item.id) = Absent /\ (k = "span" => item.fixes = {})
Without(k, id) == [cache EXCEPT ![k] = [i \in DOMAIN @ \ {id} |-> @[i]]]

Gist(item) == <<item.category, item.rule, item.said>>

Fetch(k, item) ==
  /\ ~LlmActionPending /\ Askable(k, item) /\ Acting("ask")
  /\ pending' = [pending EXCEPT ![k] = item.id]
  /\ cache' = Without(k, item.id)
  /\ questions' = questions \cup {[kind |-> k, id |-> item.id, text |-> text, place |-> Place(item.from, item.to),
                           rule |-> item.rule, about |-> Gist(item), sitting |-> sitting, reply |-> Absent]}
  /\ UNCHANGED <<user, sitting, text, items>>

\* create_suggestions: the sentence around the place, or the place itself.
Target(c) == IF c.kind = "sentence" THEN ExpandToSentences(c.text, c.place) ELSE c.place
Answer(status, original, split, vetted) ==
  [status |-> status, original |-> original, advice |-> split.advice, options |-> vetted.accepted,
   held |-> vetted.held, rejected |-> vetted.rejected]
NothingSplit == [replacements |-> {}, advice |-> {}]
NothingVetted == [accepted |-> {}, held |-> {}, rejected |-> 0]
ServeQuestion(c) ==
  LET target == Target(c)
      original == Slice(c.text, target.from, target.to)
      Says(answer) == questions' = (questions \ {c}) \cup {[c EXCEPT !.reply = answer]}
  IN /\ c.reply = Absent /\ UNCHANGED <<user, sitting, text, items, cache, pending>>
     /\ \/ \E offers \in Proposals[c.kind] :
             LET split == SplitAdvice({o \in offers : o.text # original}) IN
             /\ Says(Answer("ok", original, split,
                            VetSuggestions(split.replacements, c.text, target, c.rule, scene.parsed)))
             /\ UNCHANGED <<scene, left>>
        \* Refused, skipped or lost on the way.
        \/ Acting("fail") /\ Says(Answer("failed", original, NothingSplit, NothingVetted))

\* One answer of the server, as the store keeps it.
Entry(c) ==
  LET a == c.reply
      vetoed == a.options = {} /\ a.rejected > 0
      error == a.status # "ok" \/ vetoed
  IN [options |-> IF error THEN Absent ELSE a.options, original |-> a.original,
      held |-> IF vetoed THEN a.held ELSE {}, advice |-> a.advice, error |-> error,
      asked |-> [text |-> c.text, place |-> c.place, about |-> c.about, sitting |-> c.sitting]]
HeardByAnyone(c) == user # Absent
\* The generation it was asked under.
Heard(c) == c.sitting = sitting
Answered(c) ==
  /\ c.reply # Absent /\ UNCHANGED <<scene, user, sitting, text, items, left>>
  /\ questions' = questions \ {c}
  /\ cache' = IF Heard(c) THEN [cache EXCEPT ![c.kind] = (c.id :> Entry(c)) @@ @] ELSE cache
  /\ pending' = IF Heard(c) THEN [pending EXCEPT ![c.kind] = Absent] ELSE pending

-----------------------------------------------------------------------------
(* Applying: a fix of the checker, an option, or one that was held back. *)

\* The occurrences of the sentence that the finding is in.
Occurrences(item, original) ==
  {p \in {Place(i, i + Len(original)) : i \in Exact(text, original)} : Meets(p, item)}
Landing(k, item, e) ==
  IF k = "span" THEN {Place(item.from, item.to)}
  ELSE LET at == Occurrences(item, e.original) IN {p \in at : \A q \in at : p.from <= q.from}

ApplyFix(item) ==
  /\ Acting("apply")
  /\ \E fix \in item.fixes : Change([from |-> item.from, to |-> item.to, new |-> fix])
  /\ UNCHANGED <<user, sitting, pending, questions>>
Offered(e) == (IF e.options = Absent THEN {} ELSE e.options) \cup (IF e.error THEN e.held ELSE {})
Apply(k, item) ==
  /\ item.id \in DOMAIN cache[k] /\ Acting("apply")
  /\ LET e == cache[k][item.id] IN
     \E option \in Offered(e) :
       IF Landing(k, item, e) = {}
         THEN \* The sentence has changed: ask again.
              /\ cache' = [cache EXCEPT ![k][item.id] =
                             [@ EXCEPT !.options = Absent, !.held = {}, !.error = TRUE]]
              /\ UNCHANGED <<text, items>>
         ELSE \E p \in Landing(k, item, e) : Change([from |-> p.from, to |-> p.to, new |-> option])
  /\ UNCHANGED <<user, sitting, pending, questions>>

-----------------------------------------------------------------------------
(* The end of a session, and the next one with a document of its own. *)

SessionEnds ==
  /\ user # Absent /\ Acting("end")
  /\ user' = Absent /\ text' = <<>> /\ items' = <<>> /\ cache' = Empty
  /\ pending' = [k \in FixKinds |-> Absent]
  /\ sitting' = sitting + 1
  /\ UNCHANGED questions
SignIn ==
  /\ user = Absent /\ user' \in Writers /\ text' \in scene.texts
  /\ UNCHANGED <<scene, sitting, items, cache, pending, questions, left>>

SuggestNext ==
  \/ Edit \/ Open \/ SessionEnds \/ SignIn
  \/ \E full \in BOOLEAN : Check(full)
  \/ \E item \in Range(items) : ApplyFix(item) \/ \E k \in FixKinds : Fetch(k, item) \/ Apply(k, item)
  \/ \E c \in questions : ServeQuestion(c) \/ Answered(c)

SuggestSpec == SuggestInit /\ [][SuggestNext]_suggestVars
-----------------------------------------------------------------------------
(* Properties *)

\* Nothing that was asked in one session shows up in another, of the same user or
\* not, and no late answer of an earlier one clears the mark of a question that is
\* still under way: there is one at most, and the mark tells which.  An answer that
\* stands at a finding was asked for one that says the same, however often checks
\* gave it a fresh id meanwhile (suggest.ts:24-38, 82-89, 100-106).
NoForeignSuggestions ==
  LET now == {c \in questions : c.sitting = sitting} IN
  /\ \A k \in FixKinds : /\ \A i \in DOMAIN cache[k] : cache[k][i].asked.sitting = sitting
                         /\ \A item \in Range(items) : item.id \in DOMAIN cache[k] =>
                              cache[k][item.id].asked.about = Gist(item)
  /\ Cardinality(now) <= 1
  /\ \A k \in FixKinds : {pending[k]} \ {Absent} = {c.id : c \in {d \in now : d.kind = k}}

\* An option that the server accepted, applied to the text it was asked for, where
\* it lands: it brings no finding of a general rule that was not there, and one
\* less of the rule it is for (vetting.py:207-230, findings.ts:115-143).
AcceptedIsClean ==
  \A item \in Range(items), k \in FixKinds :
    LET e == cache[k][item.id]
        before == FindingCounts(text, scene.parsed) IN
    /\ item.id \in DOMAIN cache[k] /\ Options(k, item.id) # Absent
    /\ e.asked.text = text /\ e.asked.place = Place(item.from, item.to)
    => \A option \in e.options, p \in Landing(k, item, e) :
         LET after == FindingCounts(Spliced(text, p, option), scene.parsed) IN
         /\ \A r \in DOMAIN after : after[r] <= CountOf(before, r)
         /\ item.rule \in DOMAIN before => CountOf(after, item.rule) < before[item.rule]

\* A check that finds the same again keeps the answers that were paid for
\* (store.ts:297-311, equivalence.ts:28-43).
CachesSurviveChecks ==
  [][text' = text /\ user' = user /\ questions' = questions /\ left'.check < left.check =>
       \A old \in Range(items), k \in FixKinds :
         LET Same(new) == [f \in {"category", "rule", "said", "from", "to"} |-> new[f]]
                            = [f \in {"category", "rule", "said", "from", "to"} |-> old[f]]
             again == {new.id : new \in {x \in Range(items') : Same(x)}}
         IN old.id \in DOMAIN cache[k] /\ again # {}
            => \E i \in again \cap DOMAIN cache'[k] : cache'[k][i] = cache[k][old.id]]_suggestVars
=============================================================================
