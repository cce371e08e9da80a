---------------------------- MODULE MCSuggestions ----------------------------
(* One rule of each kind, two terminology domains, texts of up to seven words. *)
EXTENDS Suggestions

U == "utilize"
V == "very"
W == "use"
O == "often"
Base(id, extends, category, pack) ==
  [id |-> id, extends |-> extends, category |-> category, pack |-> pack, fixes |-> {}]

MCRules ==
  <<Base("long", "occurrence", "clarity", Absent)
      @@ [tokens |-> {U, V, W, O}, count |-> "tokens", fits |-> 0..3],
    Base("plain", "existence", "style", Absent) @@ [tokens |-> {U}],
    Base("repeat", "repetition", "grammar", Absent),
    Base("weak", "existence", "style", "strict") @@ [tokens |-> {V}],
    Base("degree", "token_pattern", "grammar", Absent) @@ [pattern |-> <<{V}, {W, U}>>],
    Base("adverb", "dependency", "style", Absent) @@ [pattern |-> <<{O}, {W}>>],
    Base("register", "consistency", "vividness", "strict")
      @@ [variants |-> <<[pattern |-> {U}, anchor |-> "anywhere", default |-> FALSE],
                         [pattern |-> {}, anchor |-> "anywhere", default |-> TRUE]>>,
          predicates |-> {W}],
    Base("simple", "substitution", "clarity", Absent) @@ [swap |-> (O :> V)]>>

MCDomains == <<{[id |-> "t1", preferred |-> W, variants |-> {}, casings |-> {"USE", "Use"}, capitalized |-> "Use"]},
               {[id |-> "t2", preferred |-> V, variants |-> {"USE"}, casings |-> {}, capitalized |-> "Very"]}>>
MCPastes == {<<>>, <<V>>, <<U, Stop>>}
MCAlike == {{W, U}}

Offer(t) == [text |-> t, wrapped |-> FALSE]
Advice(t) == [text |-> t, wrapped |-> TRUE]
MCProposals ==
  ("span" :> {{Offer(<<W>>), Offer(<<V, W>>), Advice(<<O>>)}, {Offer(<<"xyz">>)}})
  @@ ("sentence" :> {{Offer(<<W, Stop>>), Offer(<<U, W, Stop>>)}, {Offer(<<>>)}})
Raw(category, quote, before, offers) ==
  [category |-> category, quote |-> quote, before |-> before, offers |-> offers]
MCRaws == {{}, {Raw("style", <<W>>, <<V>>, {}), Raw("correctness", <<U, O>>, <<>>, {Offer(<<W>>)})}}

Config(packs, exceptions) == [off |-> {}, packs |-> packs, exceptions |-> exceptions]
Left(edit, check, ask, apply, open, end, fail) ==
  [edit |-> edit, check |-> check, ask |-> ask, apply |-> apply, open |-> open, end |-> end, fail |-> fail]
Scene(texts, parsed, config, n) == [texts |-> texts, parsed |-> parsed, config |-> config, left |-> n]

Editing == Scene({<<U, Stop, V, U, Stop>>}, TRUE, DefaultConfig, Left(1, 2, 1, 1, 0, 0, 0))
Pasting == Scene({<<U, Stop, U>>}, FALSE, Config({"strict"}, {}), Left(1, 2, 1, 1, 0, 0, 1))
Retyping == Scene({<<U, Stop, U>>}, FALSE, Config({"strict"}, {}), Left(2, 1, 1, 1, 0, 0, 1))
Cased == Scene({<<W, "USE", Stop, O, W>>}, TRUE, Config({"strict"}, {"plain"}), Left(1, 2, 1, 1, 0, 0, 0))
Leaving == Scene({<<U, Stop>>}, FALSE, DefaultConfig, Left(0, 2, 2, 1, 1, 1, 1))

MCSuggestScenes == {Editing, Pasting, Retyping, Cased, Leaving}
=============================================================================
