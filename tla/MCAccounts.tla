----------------------------- MODULE MCAccounts -----------------------------
(***************************************************************************)
(* The accounts of a server, in either of its two modes: with the provider *)
(* (Accounts), one address and two identities that can own it; or with     *)
(* local passwords (LocalLogin), two handlers, three keys of which one     *)
(* belongs to the account, and a table of two.  The mode is a setting, read *)
(* when the process starts; the other mode's state stays as it was.        *)
(***************************************************************************)
EXTENDS Accounts, LocalLogin, TLC

CONSTANTS a, b, c, t1, t2, home, spray1, spray2

Load(x, y, z, restarts_, faults_, ticks_) ==
  [may |-> (a :> x) @@ (b :> y) @@ (c :> z),
   restarts |-> restarts_, faults |-> faults_, ticks |-> ticks_]

MCLoads == {
  Load({"create"}, {"create"}, {"invite"}, 0, 0, 0),
  Load({"create"}, {"create"}, {}, 0, 1, 0),
  Load({"reset"}, {"confirm"}, {"retry"}, 0, 1, 0),
  Load({"reset"}, {"confirm"}, {"patch"}, 0, 0, 0),
  Load({"invite"}, {"resend"}, {"confirm"}, 0, 0, 0),
  Load({"invite"}, {"confirm"}, {}, 1, 0, 1),
  Load({"create"}, {"login"}, {}, 0, 1, 0),
  Load({"create"}, {"change"}, {}, 0, 0, 1),
  Load({"patch"}, {"change"}, {}, 0, 0, 1),
  Load({"login"}, {"refresh"}, {}, 0, 0, 0)}

MCBounds == {[time |-> 3, changes |-> 0], [time |-> 0, changes |-> 2]}
LoginSymmetry == Permutations({t1, t2}) \cup Permutations({spray1, spray2})

VARIABLE mode  \* settings.auth.mode

MCInit ==
  /\ mode \in {"supabase", "local"}
  /\ Init /\ LoginInit
  \* What the other mode would choose from is not tried.
  /\ mode = "supabase" => bound = CHOOSE x \in Bounds : TRUE
  /\ mode = "local" => /\ load = CHOOSE x \in Loads : TRUE
                       /\ row = [e \in Emails |-> NoUser] /\ others
MCNext ==
  \/ mode = "supabase" /\ Next /\ UNCHANGED <<mode, loginVars>>
  \/ mode = "local" /\ LoginNext /\ UNCHANGED <<mode, vars>>
MCSpec == MCInit /\ [][MCNext]_<<mode, vars, loginVars>>
=============================================================================
