------------------------------ MODULE MCHeader ------------------------------
\* A small header: two languages, two users, three documents, four profiles.
EXTENDS Header

CONSTANTS a, b, d1, d2, d3, e1, g1, g2, n1, en, de, x, y, fast, best, all, few

MCPeople == {a, b}
MCManagers == {a}
MCDocIds == {d1, d2, d3}
MCProfs == {e1, g1, g2, n1}
MCLangs == {en, de}
MCDoms == {x, y}
MCLlms == {fast, best}
MCRules == {all, few}
MCDefault == [lang |-> en, dom |-> x, llm |-> fast, rules |-> all]

Common(l, m) == [lang |-> l, owner |-> None, std |-> TRUE, dom |-> x, llm |-> m, rules |-> all]
\* The standard profiles are global; a has one of his own for German.
SeedProfiles == [p \in MCProfs |->
  CASE p = e1 -> Common(en, None)
    [] p = g1 -> Common(de, fast)
    [] p = g2 -> [lang |-> de, owner |-> a, std |-> FALSE, dom |-> y, llm |-> best, rules |-> few]
    [] p = n1 -> None]
Doc(u, l, p, m) == [owner |-> u, head |-> [lang |-> l, dom |-> x, llm |-> m, pid |-> p]]
\* a has an English and a German document; b has a German one, or d3 is yet to be made.
TwoOfA == [d \in MCDocIds |-> CASE d = d1 -> Doc(a, en, e1, fast)
                                [] d = d2 -> Doc(a, de, g2, fast)
                                [] d = d3 -> None]
OneOfB == [TwoOfA EXCEPT ![d3] = Doc(b, de, g1, best)]

HeaderScene(as, m, f, ds) ==
  [acts |-> as, moves |-> m, fails |-> f, docs |-> ds, profs |-> SeedProfiles]
\* What happens at once is drawn from a few mixes; each is explored whole.
MCHeaderScenes ==
  {HeaderScene({"login", "open", "language"}, 4, 1, TwoOfA),
   HeaderScene({"login", "open", "new", "profile", "select"}, 3, 0, TwoOfA),
   HeaderScene({"login", "logout", "relogin", "language"}, 4, 0, OneOfB),
   HeaderScene({"login", "card", "rules", "overrides"}, 3, 0, TwoOfA),
   HeaderScene({"login", "create", "delete", "reset", "card", "language"}, 3, 1, TwoOfA)}
\* Nothing but documents that are opened.
MCOpening == {HeaderScene({"login", "open"}, 3, 0, TwoOfA)}
=============================================================================
