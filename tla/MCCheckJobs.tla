----------------------------- MODULE MCCheckJobs -----------------------------
(***************************************************************************)
(* A check with an LLM: its job, with two readers, in a store of one that    *)
(* three owners contend for; and the slot the run takes in the ledger and    *)
(* must give back, with overlapping processes.  The two share no state; each *)
(* is explored whole while the other stands still at its start, where        *)
(* nothing it owes is enabled.                                             *)
(***************************************************************************)
EXTENDS CheckJobs, MCUsageLedger

CONSTANTS o1, o2, o3, d1, d2

\* Owners are interchangeable: the first job is o1's, o3 comes after o2.
OwnersInOrder ==
  /\ made > 0 => job[1].owner = o1
  /\ \A j \in Ids : job[j].owner = o3 => \E i \in 1..j : job[i].owner = o2

VARIABLE part  \* which of the two is explored

MCInit ==
  /\ part \in {"jobs", "ledger"}
  /\ JobsInit /\ Init
  /\ part # "ledger" => tier = [u \in Callers |-> free]
MCNext ==
  \/ part = "jobs" /\ JobsNext /\ UNCHANGED <<part, vars>>
  \/ part = "ledger" /\ Next /\ UNCHANGED <<part, jobVars>>
MCSpec == MCInit /\ [][MCNext]_<<part, jobVars, vars>> /\ JobsFairness /\ Fairness
=============================================================================
