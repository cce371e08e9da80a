---------------------------- MODULE LlmSelection ----------------------------
(***************************************************************************)
(* Which provider and model a request for an LLM gets.                     *)
(*                                                                         *)
(* A user's plan (the "user tier" of the configuration) grants quality     *)
(* tiers, providers and models; a request asks for a quality tier, for a   *)
(* provider and a model, or for nothing.  What the plan does not grant is  *)
(* degraded to something it does.  The gate puts the check of the name and *)
(* of the size before that, and the construction of the provider after it; *)
(* what passes is reserved (UsageLedger).                                  *)
(*                                                                         *)
(* core/permissions.py, the head of get_effective_provider in              *)
(* api/llm_gate.py, the provider factory of main.py.  Pure: no state.      *)
(***************************************************************************)
EXTENDS Integers, Sequences, FiniteSetsExt

CONSTANTS
  Providers, Known, \* provider names, and those this server can construct
  Models, Languages,
  Plans,            \* the tiers: block, [configured plans -> Plan]
  AdminChars,       \* limits.admin.max_llm_document_chars
  DefaultProvider,  \* providers.default_provider; nothing checks that it is known
  DefaultModel,     \* [Providers -> Models or Unset]
  Routing,          \* [Languages -> [Rungs -> Route or Unset]]
  Unset

\* The ladder of quality tiers, best first: quality, balanced, cheap, local.
Rungs == 1..4

\* tiers: "all" is all four; providers: Unset is "all", which has no order;
\* models: <<>> is a provider without an allowlist, an empty list is refused.
Policy == [tiers : SUBSET Rungs,
           providers : Seq(Providers) \cup {Unset},
           models : [Providers -> Seq(Models)]]
Plan == [llm : Policy, chars : Nat]
Route == [provider : Providers, model : Models]
RoutingTable == [Languages -> [Rungs -> Route \cup {Unset}]]
Ask == [tier : Rungs \cup {Unset}, provider : Providers \cup {Unset}, model : Models \cup {Unset}]
Caller == [plan : STRING, admin : BOOLEAN]

Reasons == {"unknown_provider", "document_too_large", "llm_unavailable"}

ASSUME UnsetAssumption ==
  /\ Unset \notin Providers /\ Unset \notin Models /\ Unset \notin Rungs
  /\ Unset \notin Reasons /\ Unset # <<>>
ASSUME ConfigurationAssumption ==
  /\ Known \subseteq Providers
  /\ DefaultProvider \in Providers
  /\ DefaultModel \in [Providers -> Models \cup {Unset}]
  /\ Routing \in RoutingTable
  /\ AdminChars \in Nat
  /\ Plans \in [DOMAIN Plans -> Plan]

NoModels == [p \in Providers |-> <<>>]
FullPolicy == [tiers |-> Rungs, providers |-> Unset, models |-> NoModels]
NoLlmPolicy == [tiers |-> {}, providers |-> <<>>, models |-> NoModels]

\* Administrators, and everyone when nothing is configured, are unrestricted; a
\* plan that is not configured grants nothing.
Unrestricted(who) == who.admin \/ DOMAIN Plans = {}
PolicyFor(who) ==
  IF Unrestricted(who) THEN FullPolicy
  ELSE IF who.plan \in DOMAIN Plans THEN Plans[who.plan].llm ELSE NoLlmPolicy
CharsFor(who) ==
  IF Unrestricted(who) \/ who.plan \notin DOMAIN Plans THEN AdminChars
  ELSE Plans[who.plan].chars

-----------------------------------------------------------------------------
Selected(tier, provider, model, degraded) ==
  [tier |-> tier, provider |-> provider, model |-> model, degraded |-> degraded,
   skipped |-> Unset]
Skipped(tier, degraded, why) ==
  [Selected(tier, Unset, Unset, degraded) EXCEPT !.skipped = why]

\* What a policy says of a provider and of a model.
Offers(policy, p) ==
  policy.providers = Unset \/ \E i \in 1..Len(policy.providers) : policy.providers[i] = p
Permits(policy, p, m) ==
  policy.models[p] = <<>> \/ \E i \in 1..Len(policy.models[p]) : policy.models[p][i] = m

\* A tier without an entry skips the LLM, it is not rerouted.
Routed(tier, language, degraded) ==
  LET entry == Routing[language][tier] IN
  IF entry = Unset THEN Skipped(tier, degraded, "llm_unavailable")
  ELSE Selected(tier, entry.provider, entry.model, degraded)

\* No tier to fall back on: the first provider of the list, its first model.
Substitute(policy) ==
  IF policy.providers = Unset THEN DefaultProvider
  ELSE IF policy.providers # <<>> THEN policy.providers[1] ELSE Unset
DirectFallback(policy) ==
  LET p == Substitute(policy) IN
  IF p = Unset THEN Skipped(Unset, FALSE, "llm_unavailable")
  ELSE Selected(Unset, p,
                IF policy.models[p] # <<>> THEN policy.models[p][1] ELSE DefaultModel[p], TRUE)

\* Down the ladder first, then up to the nearest.
Below(policy, tier) == {t \in policy.tiers : t > tier}
Above(policy, tier) == {t \in policy.tiers : t < tier}
ResolveTier(policy, tier, language) ==
  IF tier \in policy.tiers THEN Routed(tier, language, FALSE)
  ELSE IF Below(policy, tier) # {} THEN Routed(Min(Below(policy, tier)), language, TRUE)
  ELSE IF Above(policy, tier) # {} THEN Routed(Max(Above(policy, tier)), language, TRUE)
  ELSE DirectFallback(policy)

Wanted(p, model) == IF model = Unset THEN DefaultModel[p] ELSE model
ResolveDirect(policy, p, model, language) ==
  IF Offers(policy, p)
    THEN IF Permits(policy, p, Wanted(p, model)) THEN Selected(Unset, p, Wanted(p, model), FALSE)
         ELSE Selected(Unset, p, policy.models[p][1], TRUE)
  ELSE IF policy.tiers # {} THEN Routed(Min(policy.tiers), language, TRUE)
  ELSE DirectFallback(policy)

AskedProvider(ask) == IF ask.provider = Unset THEN DefaultProvider ELSE ask.provider
Resolve(policy, ask, language) ==
  IF ask.tier # Unset THEN ResolveTier(policy, ask.tier, language)
  ELSE ResolveDirect(policy, AskedProvider(ask), ask.model, language)

\* The factory raises for any other name, in a request's answer or a route's.
Constructible(p) == p \in Known

\* The gate up to the reservation.  An ignored field is not looked at, so only
\* a direct request can name a provider nobody knows.
Gate(who, ask, language, chars) ==
  LET e == Resolve(PolicyFor(who), ask, language) IN
  IF ask.tier = Unset /\ ask.provider # Unset /\ ~Constructible(ask.provider)
    THEN Skipped(Unset, FALSE, "unknown_provider")
  ELSE IF chars > CharsFor(who) THEN Skipped(Unset, FALSE, "document_too_large")
  ELSE IF e.provider # Unset /\ ~Constructible(e.provider)
    THEN [e EXCEPT !.skipped = "llm_unavailable"]
  ELSE e
Reserves(e) == e.provider # Unset /\ e.skipped = Unset

-----------------------------------------------------------------------------
(* What runs is what the policy grants, by whichever of the rules it was      *)
(* found: a granted quality tier with its routing entry, or a granted         *)
(* provider with a model of its allowlist (permissions.py:222, "the fallback  *)
(* must not bypass it").                                                      *)
WithinPolicy(policy, language, e) ==
  e.provider # Unset =>
    \/ /\ e.tier \in policy.tiers
       /\ Routing[language][e.tier] = [provider |-> e.provider, model |-> e.model]
    \/ /\ e.tier = Unset
       /\ Offers(policy, e.provider) /\ Permits(policy, e.provider, e.model)

(* A request is degraded only if the policy does not grant it, and then the   *)
(* answer says so, unless there is nothing at all to fall back on; a granted  *)
(* one gets what it asked for.                                                *)
Grants(policy, ask) ==
  IF ask.tier # Unset THEN ask.tier \in policy.tiers
  ELSE LET p == AskedProvider(ask) IN
       Offers(policy, p) /\ Permits(policy, p, Wanted(p, ask.model))
AsAsked(ask, e) ==
  IF ask.tier # Unset THEN e.tier = ask.tier
  ELSE /\ e.tier = Unset /\ e.provider = AskedProvider(ask)
       /\ e.model = Wanted(e.provider, ask.model)
SaysSo(policy, ask, e) ==
  IF Grants(policy, ask) THEN ~e.degraded /\ AsAsked(ask, e)
  ELSE e.degraded \/ (e.provider = Unset /\ e.skipped = "llm_unavailable")

(* A request for a tier gets a better one than it asked for only if the       *)
(* policy grants neither that tier nor any below it.                          *)
NeverBetterThanNeeded(policy, ask, e) ==
  ask.tier # Unset /\ e.tier # Unset /\ e.tier < ask.tier =>
    \A t \in policy.tiers : t < ask.tier
=============================================================================
