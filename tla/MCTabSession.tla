---------------------------- MODULE MCTabSession ----------------------------
(***************************************************************************)
(* What a tab does with answers that come late.  TabSession: two tabs of one *)
(* browser, two users, two or three sessions.  Suggestions: the answer to a  *)
(* question for a fix, in one tab.  The two share no state; each is explored *)
(* whole while the other stands still.                                     *)
(***************************************************************************)
EXTENDS TabSession, MCSuggestions

CONSTANTS t1, t2, ada, bea

Mix(owner, acts, n) == [owner |-> owner, acts |-> acts, moves |-> n]

Arriving == Mix(None, {"login", "logout", "fail"}, 3)
Switching == Mix(ada, {"login", "logout"}, 2)
Reloading == Mix(ada, {"login", "reload"}, 2)
Relieving == Mix(ada, {"login", "late"}, 2)
Resuming == Mix(ada, {"reload", "late"}, 2)
Working == Mix(ada, {"work", "retry", "logout", "fail", "late"}, 2)

MCLoads == {Arriving, Switching, Reloading, Relieving, Resuming, Working}
Symmetry == Permutations(Tabs)

VARIABLE part  \* which of the two is explored

MCInit ==
  /\ part \in {"session", "fixes"}
  /\ SessionInit /\ SuggestInit
  /\ part # "session" => load = Arriving
  /\ part # "fixes" => scene = Leaving /\ user = "u1" /\ text = <<U, Stop>>
MCNext ==
  \/ part = "session" /\ SessionNext /\ UNCHANGED <<part, suggestVars>>
  \/ part = "fixes" /\ SuggestNext /\ UNCHANGED <<part, sessionVars>>
MCSpec == MCInit /\ [][MCNext]_<<part, sessionVars, suggestVars>>
=============================================================================
