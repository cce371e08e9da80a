------------------------------ MODULE MCPages ------------------------------
(***************************************************************************)
(* The tables of the server (Library), the header of a tab with its profiles *)
(* (Header), and the terminology page (Terminology): two users, a global     *)
(* domain, one that is owned and one to be made, three terms.  The parts     *)
(* share no state; each is explored whole while the others stand still.     *)
(***************************************************************************)
EXTENDS MCLibrary, MCHeader, Terminology

CONSTANTS globe, owned, later, t1, t2, t3, one, two, both

MCMakers == {a}
MCDomains == {globe, owned, later}
MCTerms == {t1, t2, t3}
MCLabels == {x, y}
MCWords == {one, two, both}
\* A variant with a comma in it is two when it is read back.
MCParts == [w \in MCWords |-> IF w = both THEN {one, two} ELSE {w}]
MCDrafts == {[preferred |-> None, variants |-> {one}], [preferred |-> y, variants |-> {two}]}

SomeDomains(u) == [d \in MCDomains |-> CASE d = globe -> [owner |-> None, name |-> x]
                                         [] d = owned -> [owner |-> u, name |-> x]
                                         [] d = later -> None]
SomeTerms == [t \in MCTerms |-> CASE t = t1 -> [domain |-> globe, preferred |-> x, variants |-> {one}]
                                  [] t = t2 -> [domain |-> owned, preferred |-> x, variants |-> {both}]
                                  [] t = t3 -> None]
TermsScene(as, m, f, u) ==
  [acts |-> as, turns |-> m, drops |-> f, domains |-> SomeDomains(u), terms |-> SomeTerms]
\* What happens at once is drawn from a few mixes; each is explored whole.
MCTermsScenes ==
  {TermsScene({"login", "logout", "relogin", "view"}, 4, 1, b),
   TermsScene({"login", "view", "select", "term"}, 4, 0, a),
   TermsScene({"login", "view", "select", "edit"}, 4, 0, a),
   TermsScene({"login", "view", "add"}, 4, 0, a),
   TermsScene({"login", "view", "remove", "rename"}, 4, 0, a),
   TermsScene({"login", "view", "edit", "term", "remove"}, 3, 1, b)}

VARIABLE part  \* which of the three is explored

MCInit ==
  /\ part \in {"tables", "header", "terms"}
  /\ Init /\ HeaderInit /\ TermsInit
  /\ part # "tables" => load = CHOOSE l \in Loads : TRUE
  /\ part # "header" => scene = CHOOSE s \in HeaderScenes : TRUE
  /\ part # "terms" => mix = CHOOSE s \in TermsScenes : TRUE
MCNext ==
  \/ part = "tables" /\ Next /\ UNCHANGED <<part, headerVars, termsVars>>
  \/ part = "header" /\ HeaderNext /\ UNCHANGED <<part, vars, termsVars>>
  \/ part = "terms" /\ TermsNext /\ UNCHANGED <<part, vars, headerVars>>
MCSpec == MCInit /\ [][MCNext]_<<part, vars, headerVars, termsVars>>
=============================================================================
