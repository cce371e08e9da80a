------------------------------ MODULE Analysis ------------------------------
(***************************************************************************)
(* What the checkers say about a text: rules, terminology, the diagnoses of *)
(* a language model anchored in the text, and the vetting of its fixes.      *)
(*                                                                         *)
(* A text is a sequence of words and Stops (what ends a sentence); a place   *)
(* in it is [from |-> .., to |-> ..], counted from 0, `to' exclusive.  White  *)
(* space, case and inflection are left out: a rule lists the words it means,  *)
(* and where a parser decides (patterns over parts of speech, dependencies) *)
(* it lists the words that the parser would tag so.  A fix is a text.        *)
(*                                                                         *)
(* backend/app/checkers/.                                                  *)
(***************************************************************************)
EXTENDS Integers, Sequences, FiniteSets, FiniteSetsExt, SequencesExt, Functions

CONSTANTS
  Stop, Absent,
  Rules,       \* the rules of one language, in the order they are loaded
  Domains,     \* its terminology: a sequence of sets of terms
  Dictionary,  \* the words the spell checkers know
  Alike        \* pairs of words a fuzzy match takes for each other

Extends == {"existence", "substitution", "repetition", "occurrence",
            "token_pattern", "dependency", "consistency"}

\* What load_rules lets pass: RuleSpec.check_required_fields.
ASSUME RulesAssumption ==
  /\ \A r \in Range(Rules) :
       CASE r.extends = "existence" -> r.tokens # {}
         [] r.extends = "substitution" -> DOMAIN r.swap # {}
         [] r.extends = "occurrence" -> r.tokens # {} /\ r.fits \subseteq Nat
         [] r.extends \in {"token_pattern", "dependency"} -> r.pattern # <<>>
         [] r.extends = "consistency" ->
              /\ Len(r.variants) >= 2
              /\ Cardinality({i \in DOMAIN r.variants : r.variants[i].default}) <= 1
              /\ \A i \in DOMAIN r.variants :
                   LET v == r.variants[i] IN
                   IF v.default THEN v.pattern = {} /\ v.anchor = "anywhere" ELSE v.pattern # {}
         [] OTHER -> r.extends \in Extends
  /\ IsInjective([i \in DOMAIN Rules |-> Rules[i].id])

Slice(text, from, to) == SubSeq(text, from + 1, to)
Spliced(text, place, new) == Slice(text, 0, place.from) \o new \o Slice(text, place.to, Len(text))
Place(from, to) == [from |-> from, to |-> to]
Meets(a, b) == a.from < b.to /\ b.from < a.to
At(text, words) == {Place(i - 1, i) : i \in {j \in DOMAIN text : text[j] \in words}}

-----------------------------------------------------------------------------
(* Sentences: words and the stops behind them. *)

SplitSentences(text) ==
  LET starts == {i \in DOMAIN text : text[i] # Stop /\ (i = 1 \/ text[i - 1] = Stop)} IN
  {Place(i - 1, Min({j \in starts : j > i} \cup {Len(text) + 1}) - 1) : i \in starts}

ExpandToSentences(text, place) ==
  LET met == {s \in SplitSentences(text) : Meets(s, place)} IN
  IF met = {} THEN place ELSE Place(Min({s.from : s \in met}), Max({s.to : s \in met}))

-----------------------------------------------------------------------------
(* The rules.  A check maps a text to the places it objects to, each with the *)
(* fixes it offers.                                                        *)

Objects(places, fixes) == {<<p, fixes>> : p \in places}

CheckExistence(rule, text) == Objects(At(text, rule.tokens), {})

CheckSubstitution(rule, text) ==
  UNION {Objects(At(text, {bad}), {<<rule.swap[bad]>>}) : bad \in DOMAIN rule.swap}

CheckRepetition(text) ==
  LET Run(i, j) == text[i] # Stop /\ \A k \in i..j : text[k] = text[i]
      runs == {<<i, j>> \in (DOMAIN text) \X (DOMAIN text) :
                 /\ i < j /\ Run(i, j)
                 /\ i = 1 \/ ~Run(i - 1, j)
                 /\ j = Len(text) \/ ~Run(i, j + 1)}
  IN {<<Place(r[1] - 1, r[2]), {<<text[r[1]]>>}>> : r \in runs}

\* rule.fits: from its minimum to its maximum.
CheckOccurrence(rule, text) ==
  LET Count(s) == Cardinality({i \in (s.from + 1)..s.to : text[i] \in rule.tokens}) IN
  Objects({s \in SplitSentences(text) : Count(s) \notin rule.fits}, {})

\* The matcher keeps the earlier of two matches that overlap.
CheckTokenPattern(rule, text) ==
  LET n == Len(rule.pattern)
      Matches(i) == \A k \in 1..n : i + k - 1 <= Len(text) /\ text[i + k - 1] \in rule.pattern[k]
      Keep(kept, i) ==
        LET m == Place(i - 1, i - 1 + n) IN
        IF Matches(i) /\ \A p \in kept : ~Meets(p, m) THEN kept \cup {m} ELSE kept
  IN Objects(FoldLeft(Keep, {}, [i \in DOMAIN text |-> i]), rule.fixes)

\* A word and one that depends on it, in the same sentence.
CheckDependency(rule, text) ==
  Objects(UNION {{Place(Min({h.from, d.from}), Max({h.to, d.to})) :
                    <<h, d>> \in {x \in At(text, rule.pattern[1]) \X At(text, rule.pattern[2]) :
                                    Meets(x[1], s) /\ Meets(x[2], s)}} : s \in SplitSentences(text)},
          rule.fixes)

AnchorWindow == 3
Classify(rule, text, s) ==
  LET words == {i \in (s.from + 1)..s.to : text[i] # Stop}
      last == Max(words)
      Fits(v) == \E i \in words : text[i] \in v.pattern /\ (v.anchor = "end" => last - i < AnchorWindow)
      fitting == {k \in DOMAIN rule.variants : Fits(rule.variants[k])}
      default == {k \in DOMAIN rule.variants : rule.variants[k].default /\ text[last] \in rule.predicates}
  IN IF fitting # {} THEN Min(fitting) ELSE IF default # {} THEN Min(default) ELSE 0
\* The minority's sentences; of equals, the variant declared first is the majority.
CheckConsistency(rule, text) ==
  LET Votes(k) == {s \in SplitSentences(text) : Classify(rule, text, s) = k}
      voting == {k \in DOMAIN rule.variants : Votes(k) # {}}
      most == Max({Cardinality(Votes(k)) : k \in voting})
      majority == Min({k \in voting : Cardinality(Votes(k)) = most})
  IN IF Cardinality(voting) < 2 THEN {}
     ELSE Objects(UNION {Votes(k) : k \in voting \ {majority}}, {})

RequiresDoc(rule) ==
  \/ rule.extends \in {"token_pattern", "dependency", "consistency"}
  \/ rule.extends = "occurrence" /\ rule.count = "tokens"
Objections(rule, text, parsed) ==
  IF RequiresDoc(rule) /\ ~parsed THEN {}
  ELSE CASE rule.extends = "existence" -> CheckExistence(rule, text)
         [] rule.extends = "substitution" -> CheckSubstitution(rule, text)
         [] rule.extends = "repetition" -> CheckRepetition(text)
         [] rule.extends = "occurrence" -> CheckOccurrence(rule, text)
         [] rule.extends = "token_pattern" -> CheckTokenPattern(rule, text)
         [] rule.extends = "dependency" -> CheckDependency(rule, text)
         [] rule.extends = "consistency" -> CheckConsistency(rule, text)

Finding(source, rule, category, text, place, fixes) ==
  [source |-> source, rule |-> rule, category |-> category, said |-> Slice(text, place.from, place.to),
   from |-> place.from, to |-> place.to, fixes |-> fixes]

\* A profile's selection of rules.
DefaultConfig == [off |-> {}, packs |-> {}, exceptions |-> {}]
IsActive(config, rule) ==
  (rule.category \notin config.off /\ rule.pack \in config.packs \cup {Absent}) # (rule.id \in config.exceptions)

CheckRules(text, parsed, config) ==
  UNION {{Finding("rule", r.id, r.category, text, o[1], o[2]) : o \in Objections(r, text, parsed)} :
           r \in {x \in Range(Rules) : IsActive(config, x)}}
FindingCounts(text, parsed) ==
  LET found == CheckRules(text, parsed, DefaultConfig) IN
  [r \in {f.rule : f \in found} |-> Cardinality({f \in found : f.rule = r})]
CountOf(counts, rule) == IF rule \in DOMAIN counts THEN counts[rule] ELSE 0

-----------------------------------------------------------------------------
(* Duplicates. *)

SameTarget(a, b) ==
  LET overlap == Min({a.to, b.to}) - Max({a.from, b.from})
      union == Max({a.to, b.to}) - Min({a.from, b.from})
  IN overlap > 0 /\ 2 * overlap >= union
Duplicate(a, b) == Meets(a, b) /\ (a.category = b.category \/ SameTarget(a, b))
DropDuplicates(candidates, existing) ==
  {c \in candidates : \A e \in existing : ~Duplicate(c, e)}

-----------------------------------------------------------------------------
(* Terminology: variants that are forbidden, and preferred terms in the wrong  *)
(* case, but for the capital at the beginning of a sentence.               *)

SentenceStart(text, i) == i = 1 \/ text[i - 1] = Stop
TermFinding(term, text, place) ==
  Finding("terminology", term.id, "terminology", text, place, {<<term.preferred>>})
CheckTerms(terms, text) ==
  LET variants == UNION {{TermFinding(t, text, p) : p \in At(text, t.variants)} : t \in terms}
      miscased == UNION {{TermFinding(t, text, p) :
                            p \in {q \in At(text, t.casings) :
                                     ~(text[q.to] = t.capitalized /\ SentenceStart(text, q.to))}} : t \in terms}
  IN variants \cup {c \in miscased : \A v \in variants : ~Meets(c, v)}
\* Domain by domain, without what an earlier one says already.
CheckTerminology(text) ==
  FoldLeft(LAMBDA found, terms : found \cup DropDuplicates(CheckTerms(terms, text), found), {}, Domains)

-----------------------------------------------------------------------------
(* Where a quote of the model stands in the text. *)

IsAt(text, quote, i) == i + Len(quote) <= Len(text) /\ Slice(text, i, i + Len(quote)) = quote
Exact(text, quote) == {i \in 0..Len(text) : IsAt(text, quote, i)}
\* How much of what stands before the i-th word is what the model says stands there.
Likeness(text, i, before) ==
  Cardinality({k \in 1..Len(before) : i - Len(before) + k > 0 /\ text[i - Len(before) + k] = before[k]})
PickOccurrence(text, starts, before) ==
  LET best == Max({Likeness(text, i, before) : i \in starts}) IN
  Min({i \in starts : Likeness(text, i, before) = best})
FuzzyMatches(text, quote) ==
  {i \in 0..(Len(text) - Len(quote)) :
     \A k \in DOMAIN quote : text[i + k] = quote[k] \/ {text[i + k], quote[k]} \in Alike}
\* The places it may mean: one, or none.
Anchor(text, quote, before) ==
  LET exact == Exact(text, quote)
      fuzzy == FuzzyMatches(text, quote)
      Agree(i) == Cardinality({k \in DOMAIN quote : text[i + k] = quote[k]})
      i == IF exact # {} THEN PickOccurrence(text, exact, before)
           ELSE Min({j \in fuzzy : \A k \in fuzzy : Agree(k) <= Agree(j)})
  IN IF quote = <<>> \/ exact \cup fuzzy = {} THEN {} ELSE {Place(i, i + Len(quote))}

-----------------------------------------------------------------------------
(* Vetting.  What the model offers is [text |-> .., wrapped |-> ..]; in         *)
(* parentheses it is advice.                                               *)

SplitAdvice(offers) ==
  [replacements |-> {o.text : o \in {x \in offers : ~x.wrapped}},
   advice |-> {o.text : o \in {x \in offers : x.wrapped}}]
Sane(candidate, original) ==
  /\ candidate # <<>> /\ candidate # original
  /\ Len(original) <= 4 * Len(candidate) /\ Len(candidate) <= 4 * Max({Len(original), 1})
UnknownWords(candidate, text) ==
  ToSet(candidate) \ (Dictionary \cup {Stop} \cup ToSet(text))

RuleRecheckOfItsOwn(candidate, before, text, place, rule, parsed) ==
  LET after == FindingCounts(Spliced(text, place, candidate), parsed) IN
  {r \in {rule} \cap DOMAIN before : CountOf(after, r) >= before[r]}
\* The candidate brings a problem that was not there, or keeps the one it is for.
RuleRecheckFailures(candidate, before, text, place, rule, parsed) ==
  LET after == FindingCounts(Spliced(text, place, candidate), parsed) IN
  {r \in DOMAIN after : after[r] > CountOf(before, r)}
    \cup {r \in {rule} \cap DOMAIN before : CountOf(after, r) >= before[r]}

\* Sanity and spelling; what is insane is only counted.
VetCandidates(candidates, original, text) ==
  LET sane == {c \in candidates : Sane(c, original)}
      known == {c \in sane : UnknownWords(c, text) = {}}
  IN [accepted |-> known, held |-> sane \ known, rejected |-> Cardinality(candidates \ known)]
VetSuggestions(candidates, text, place, rule, parsed) ==
  LET vetted == VetCandidates(candidates, Slice(text, place.from, place.to), text)
      before == FindingCounts(text, parsed)
      failed == {c \in vetted.accepted : RuleRecheckFailures(c, before, text, place, rule, parsed) # {}}
  IN [accepted |-> vetted.accepted \ failed, held |-> vetted.held \cup failed,
      rejected |-> vetted.rejected + Cardinality(failed)]

-----------------------------------------------------------------------------
\* The model's diagnoses: raw is a set of [category, quote, before, offers].
LlmFindings(text, raw) ==
  UNION {LET split == SplitAdvice(r.offers) IN
         {Finding("llm", Absent, r.category, text, p,
                  VetCandidates(split.replacements, Slice(text, p.from, p.to), text).accepted) :
            p \in Anchor(text, r.quote, r.before)} : r \in raw}
=============================================================================
