--------------------------- MODULE MCUsageLedger ---------------------------
(* Three requests of two users, two tiers and two credit windows; and, before *)
(* they are reserved, every selection of two providers and two models under   *)
(* every ladder of grants.                                                    *)
EXTENDS UsageLedger, LlmSelection, TLC

CONSTANTS r1, r2, r3, ann, bob, free, admin

MCUserCap == (free :> 1) @@ (admin :> 2)
MCLength == ("hour" :> 1) @@ ("day" :> 2)
MCBudget == (free :> ("hour" :> 2 @@ "day" :> 3)) @@ (admin :> ("hour" :> 4 @@ "day" :> 6))

LedgerSymmetry == Permutations({r1, r2, r3}) \cup Permutations({ann, bob})

MCDefaultModel == ("ollama" :> "m1") @@ ("claude" :> "m2") @@ ("qwen" :> Unset)
MCRouting ==
  "en" :> <<[provider |-> "claude", model |-> "m2"], Unset,
            [provider |-> "qwen", model |-> "m1"], [provider |-> "ollama", model |-> "m1"]>>
MCPolicies ==
  [tiers : SUBSET Rungs,
   providers : {Unset, <<>>, <<"ollama">>, <<"claude", "ollama">>},
   models : {NoModels, [NoModels EXCEPT !["ollama"] = <<"m2">>],
             [NoModels EXCEPT !["ollama"] = <<"m2", "m1">>, !["claude"] = <<"m1">>]}]
MCPlans ==
  ("basic" :> [llm |-> [FullPolicy EXCEPT !.tiers = {3}, !.providers = <<"ollama">>], chars |-> 1])
  @@ ("direct" :> [llm |-> [FullPolicy EXCEPT !.tiers = {}, !.providers = Unset], chars |-> 2])

(* The theorems of SessionAndGate_proofs, on this configuration. *)
ASSUME SelectionsAreGranted ==
  \A policy \in MCPolicies, ask \in Ask, language \in Languages :
    LET e == Resolve(policy, ask, language) IN
    /\ WithinPolicy(policy, language, e)
    /\ SaysSo(policy, ask, e)
    /\ NeverBetterThanNeeded(policy, ask, e)
ASSUME UnknownPlansGetNothing ==
  \A ask \in Ask, chars \in 0..3 :
    ~Reserves(Gate([plan |-> "gone", admin |-> FALSE], ask, "en", chars))
ASSUME AllPlansGetSomething ==
  \A plan \in {"basic", "direct"} : \E ask \in Ask :
    Reserves(Gate([plan |-> plan, admin |-> FALSE], ask, "en", 1))
=============================================================================
