----------------------------- MODULE MCLibrary -----------------------------
(* Six mixes of four requests: two users and an administrator, of the      *)
(* three profiles, two domains, two terms, two folders and two documents    *)
(* the tables have room for.                                                *)
EXTENDS Library

MCKind == <<"profile", "profile", "profile", "domain", "domain", "term", "term",
            "folder", "folder">>

Of4(a, b, c, d) ==
  [r \in Reqs |-> CASE r = "r1" -> a [] r = "r2" -> b [] r = "r3" -> c [] r = "r4" -> d]
A_Row(owner, name) == [Blank EXCEPT !.there = TRUE, !.born = TRUE, !.owner = owner, !.name = name]
Globals ==
  (1 :> [A_Row(Nobody, Standard) EXCEPT !.std = TRUE, !.seed = TRUE])
  @@ (4 :> [A_Row(Nobody, ProductDocs) EXCEPT !.seed = TRUE])
OneDocument == 1 :> [NoDocument EXCEPT !.there = TRUE, !.born = TRUE, !.owner = "u1"]
Mix(rows, docs, may) ==
  [rows |-> Globals @@ rows, docs |-> docs, seeded |-> TRUE, may |-> may, restarts |-> 0]

Naming == Mix(<<>>, OneDocument,
  Of4({<<"u1", "save">>}, {<<"u1", "rename">>, <<"u1", "save">>}, {<<"u1", "title">>},
      {<<"u1", "title">>, <<"u1", "drop">>, <<"u1", "rename">>}))
Filing == Mix(8 :> A_Row("u1", "a"), OneDocument,
  Of4({<<"u1", "move">>, <<"u1", "newDocument">>}, {<<"u1", "save">>, <<"u1", "move">>},
      {<<"u1", "deleteFolder">>, <<"u2", "createFolder">>}, {<<"u1", "save">>, <<"u1", "move">>}))
Folders == Mix(8 :> A_Row("u1", "a") @@ 5 :> A_Row("u1", "a"), <<>>,
  Of4({<<"u1", "setDefaults">>, <<"u1", "createFolder">>},
      {<<"u1", "renameFolder">>, <<"u1", "createFolder">>},
      {<<"u1", "deleteFolder">>}, {<<"u1", "deleteDomain">>, <<"u1", "newDocument">>}))
Profiles == [Mix((2 :> [A_Row("u1", "a") EXCEPT !.refs = {4, 5}]) @@ 5 :> A_Row("u1", "a"), <<>>,
  Of4({<<"admin", "deleteDomain">>, <<"admin", "resetProfile">>},
      {<<"u1", "updateProfile">>, <<"u1", "createProfile">>},
      {<<"u1", "deleteDomain">>, <<"u1", "deleteProfile">>}, {})) EXCEPT !.restarts = 1]
Vocabulary == Mix(5 :> A_Row("u1", "a") @@ 6 :> [A_Row(Nobody, "none") EXCEPT !.refs = {5}], <<>>,
  Of4({<<"u1", "createTerm">>, <<"u1", "updateDomain">>}, {<<"u1", "updateTerm">>},
      {<<"u1", "deleteTerm">>, <<"u1", "createDomain">>},
      {<<"u1", "deleteDomain">>, <<"u1", "describeDomain">>}))
Seeding ==
  [rows |-> <<>>, docs |-> <<>>, seeded |-> FALSE, restarts |-> 2,
   may |-> Of4({<<"admin", "deleteProfile">>}, {<<"admin", "updateProfile">>},
               {<<"admin", "deleteDomain">>, <<"u1", "createProfile">>}, {})]

MCLoads == {Naming, Filing, Folders, Profiles, Vocabulary, Seeding}
=============================================================================
