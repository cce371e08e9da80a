---------------------------- MODULE UsageLedger ----------------------------
(***************************************************************************)
(* The ledger of LLM runs and the admission of a run.                      *)
(*                                                                         *)
(* An endpoint that calls an LLM asks the gate for a reservation: one      *)
(* database transaction that sweeps stale rows, inserts the run's own row  *)
(* with an estimated price and only then counts, so that the row is part   *)
(* of what it is judged by.  The endpoint settles the row when the call    *)
(* ends, however it ends.  The process can die at any point, a settling    *)
(* write can fail, a replacement process can sweep the table while the old *)
(* one still serves, and an administrator can move a user to another tier. *)
(*                                                                         *)
(* services/usage.py, api/llm_gate.py and the frames around a reservation  *)
(* in api/checks.py, api/suggestions.py and api/documents.py.              *)
(***************************************************************************)
EXTENDS Integers, FiniteSets, FiniteSetsExt

CONSTANTS
  Runs,         \* identities of the requests, and of the rows they insert
  Callers,
  Tiers,        \* the blocks limits_for chooses from; the admin ceiling is one
  UserCap,      \* [Tiers -> Nat]: concurrent_llm_runs
  ServerCap,    \* max_concurrent_llm_runs
  Windows,      \* the configured credit windows; "day" is the ledger's day column
  Length,       \* [Windows -> Nat]: ticks of a window, windows are aligned to it
  Budget,       \* [Tiers -> [Windows -> Nat]]
  Estimate,     \* credits a row holds while it is started
  Costs,        \* credits a run can turn out to have cost
  Unreported,   \* the provider reported no token count
  MaxAge,       \* llm_run_max_age, in ticks
  MaxTime,      \* bound of the clock
  Nobody,       \* the user and tier of a row or frame that does not exist
  Overlap       \* may a new process start while the old one still serves?

ASSUME RunsAssumption == IsFiniteSet(Runs)
ASSUME CapAssumption ==
  /\ ServerCap \in Nat \ {0}
  /\ UserCap \in [Tiers -> 1..ServerCap]
ASSUME PriceAssumption ==
  /\ Estimate \in Nat
  /\ Costs \subseteq Nat
  /\ Unreported \notin Costs
ASSUME TimeAssumption ==
  /\ MaxAge \in Nat \ {0}
  /\ MaxTime \in Nat
  /\ Length \in [Windows -> Nat \ {0}]
  /\ Budget \in [Tiers -> [Windows -> Nat]]
ASSUME OverlapAssumption == Overlap \in BOOLEAN
ASSUME NobodyAssumption == Nobody \notin Callers \cup Tiers

VARIABLES
  now,      \* the clock
  up,       \* a server process runs
  tier,     \* the tier of each user, as administrators set it
  row,      \* the llm_usage table
  phase,    \* where the coroutine that serves a request stands
  asked,    \* what that coroutine holds: its user, her tier, the moment it read
  outcome   \* the status and price it is about to write

vars == <<now, up, tier, row, phase, asked, outcome>>

Terminal == {"completed", "failed", "cancelled", "abandoned"}
Settled == Terminal \ {"abandoned"}

NoRow == [status |-> "none", user |-> Nobody, created |-> 0, credits |-> 0]
NotAsked == [user |-> Nobody, tier |-> Nobody, moment |-> 0]
NoOutcome == [status |-> "failed", credits |-> 0]

Row == [status : {"none", "started"} \cup Terminal, user : Callers \cup {Nobody},
        created : 0..MaxTime, credits : Nat]
Frame == [user : Callers \cup {Nobody}, tier : Tiers \cup {Nobody}, moment : 0..MaxTime]

\* reserving: the moment is read, the transaction waits for the write lock;
\* calling: admitted, the provider is at work; settling: the row was read as
\* started, the terminal write is next; unsettled: that write raised; lost: the
\* process died under the request.
Phase == {"idle", "reserving", "exhausted", "throttled", "calling",
          "settling", "ended", "unsettled", "lost"}

-----------------------------------------------------------------------------
(* The table, read the way the queries of usage.py read it. *)

IsStarted(rows, r) == rows[r].status = "started"
StartedRows(rows) == {r \in Runs : IsStarted(rows, r)}
StartedRowsOf(rows, u) == {r \in StartedRows(rows) : rows[r].user = u}

WindowStart(moment, w) == moment - (moment % Length[w])

\* The day window compares the day column; the others bound created_at below only.
InWindow(created, moment, w) ==
  IF w = "day" THEN WindowStart(created, w) = WindowStart(moment, w)
               ELSE created >= WindowStart(moment, w)

Spent(rows, u, moment, w) ==
  MapThenSumSet(LAMBDA r : rows[r].credits,
                {r \in Runs : /\ rows[r].status # "none"
                              /\ rows[r].user = u
                              /\ InWindow(rows[r].created, moment, w)})

SweepOf(rows, stale) ==
  [r \in Runs |-> IF IsStarted(rows, r) /\ r \in stale
                    THEN [rows[r] EXCEPT !.status = "abandoned"] ELSE rows[r]]

SettledCredits(status, cost, held) ==
  IF cost = Unreported THEN (IF status = "failed" THEN 0 ELSE held)
  ELSE IF status = "cancelled" THEN held ELSE cost

-----------------------------------------------------------------------------
Init ==
  /\ now = 0
  /\ up = TRUE
  /\ tier \in [Callers -> Tiers]
  /\ row = [r \in Runs |-> NoRow]
  /\ phase = [r \in Runs |-> "idle"]
  /\ asked = [r \in Runs |-> NotAsked]
  /\ outcome = [r \in Runs |-> NoOutcome]

(* The caller's tier and the moment are read before the transaction starts. *)
Request(r, u) ==
  /\ up /\ phase[r] = "idle"
  /\ phase' = [phase EXCEPT ![r] = "reserving"]
  /\ asked' = [asked EXCEPT ![r] = [user |-> u, tier |-> tier[u], moment |-> now]]
  /\ UNCHANGED <<now, up, tier, row, outcome>>

(* The reservation transaction: what the table would be if it commits. *)
\* The definitions named for what they leave undone (ReservedSweepingAll, ReservedUnswept,
\* ReservedFree, StartUnswept) are the mistakes the properties are tried against.
ReservedSweepingAll(r) ==
  [SweepOf(row, Runs) EXCEPT
     ![r] = [status |-> "started", user |-> asked[r].user,
             created |-> asked[r].moment, credits |-> Estimate]]
ReservedUnswept(r) ==
  [row EXCEPT ![r] = [status |-> "started", user |-> asked[r].user,
                      created |-> asked[r].moment, credits |-> Estimate]]
ReservedFree(r) ==
  LET m == asked[r].moment
      swept == SweepOf(row, {x \in Runs : row[x].created < m - MaxAge})
  IN  [swept EXCEPT ![r] = [status |-> "started", user |-> asked[r].user,
                            created |-> m, credits |-> 0]]
Reserved(r) ==
  LET m == asked[r].moment
      swept == SweepOf(row, {x \in Runs : row[x].created < m - MaxAge})
  IN  [swept EXCEPT ![r] = [status |-> "started", user |-> asked[r].user,
                            created |-> m, credits |-> Estimate]]

OverBudget(r) ==
  \E w \in Windows :
    Spent(Reserved(r), asked[r].user, asked[r].moment, w) > Budget[asked[r].tier][w]
OverUserCap(r) ==
  Cardinality(StartedRowsOf(Reserved(r), asked[r].user)) > UserCap[asked[r].tier]
OverServerCap(r) == Cardinality(StartedRows(Reserved(r))) > ServerCap

(* Each rejection rolls the whole transaction back, its sweep included. *)
Exhaust(r) ==
  /\ up /\ phase[r] = "reserving"
  /\ OverBudget(r)
  /\ phase' = [phase EXCEPT ![r] = "exhausted"]
  /\ asked' = [asked EXCEPT ![r] = NotAsked]
  /\ UNCHANGED <<now, up, tier, row, outcome>>

Throttle(r) ==
  /\ up /\ phase[r] = "reserving"
  /\ ~OverBudget(r)
  /\ OverUserCap(r) \/ OverServerCap(r)
  /\ phase' = [phase EXCEPT ![r] = "throttled"]
  /\ asked' = [asked EXCEPT ![r] = NotAsked]
  /\ UNCHANGED <<now, up, tier, row, outcome>>

Admit(r) ==
  /\ up /\ phase[r] = "reserving"
  /\ ~OverBudget(r) /\ ~OverUserCap(r) /\ ~OverServerCap(r)
  /\ row' = Reserved(r)
  /\ phase' = [phase EXCEPT ![r] = "calling"]
  /\ asked' = [asked EXCEPT ![r] = NotAsked]
  /\ UNCHANGED <<now, up, tier, outcome>>

(* The call ends and the finally block enters finish_run: it reads the row. A *)
(* row that is no longer started was swept, and the outcome is discarded.     *)
FinishRead(r) ==
  /\ up /\ phase[r] = "calling"
  /\ \/ /\ IsStarted(row, r)
        /\ \E status \in Settled, cost \in Costs \cup {Unreported} :
             outcome' = [outcome EXCEPT ![r] =
               [status |-> status,
                credits |-> SettledCredits(status, cost, row[r].credits)]]
        /\ phase' = [phase EXCEPT ![r] = "settling"]
     \/ /\ ~IsStarted(row, r)
        /\ phase' = [phase EXCEPT ![r] = "ended"]
        /\ UNCHANGED outcome
  /\ UNCHANGED <<now, up, tier, row, asked>>

(* The terminal UPDATE, conditional on the row still being started. *)
Written(r) ==
  IF IsStarted(row, r)
    THEN [row EXCEPT ![r].status = outcome[r].status, ![r].credits = outcome[r].credits]
    ELSE row

FinishWrite(r) ==
  /\ up /\ phase[r] = "settling"
  /\ row' = Written(r)
  /\ phase' = [phase EXCEPT ![r] = "ended"]
  /\ outcome' = [outcome EXCEPT ![r] = NoOutcome]
  /\ UNCHANGED <<now, up, tier, asked>>

(* The settling write raises; the row waits for a sweep. *)
FinishFails(r) ==
  /\ up /\ phase[r] \in {"calling", "settling"}
  /\ phase' = [phase EXCEPT ![r] = "unsettled"]
  /\ outcome' = [outcome EXCEPT ![r] = NoOutcome]
  /\ UNCHANGED <<now, up, tier, row, asked>>

-----------------------------------------------------------------------------
Tick ==
  /\ now < MaxTime
  /\ now' = now + 1
  /\ UNCHANGED <<up, tier, row, phase, asked, outcome>>

SetTier(u, t) ==
  /\ up /\ tier[u] # t
  /\ tier' = [tier EXCEPT ![u] = t]
  /\ UNCHANGED <<now, up, row, phase, asked, outcome>>

InMemory == {"reserving", "calling", "settling"}

Crash ==
  /\ up
  /\ up' = FALSE
  /\ phase' = [r \in Runs |-> IF phase[r] \in InMemory THEN "lost" ELSE phase[r]]
  /\ asked' = [r \in Runs |-> NotAsked]
  /\ outcome' = [r \in Runs |-> NoOutcome]
  /\ UNCHANGED <<now, tier, row>>

(* create_app: sweep_all_started before the routes are mounted. *)
StartUnswept ==
  /\ ~up
  /\ up' = TRUE
  /\ UNCHANGED <<now, tier, row, phase, asked, outcome>>
Start ==
  /\ ~up \/ Overlap
  /\ up' = TRUE
  /\ row' = SweepOf(row, Runs)
  /\ UNCHANGED <<now, tier, phase, asked, outcome>>

Reserve(r) == Exhaust(r) \/ Throttle(r) \/ Admit(r)
Finish(r) == FinishRead(r) \/ FinishWrite(r) \/ FinishFails(r)

Next ==
  \/ Tick \/ Crash \/ Start
  \/ \E u \in Callers, t \in Tiers : SetTier(u, t)
  \/ \E r \in Runs : \/ \E u \in Callers : Request(r, u)
                     \/ Exhaust(r) \/ Throttle(r) \/ Admit(r)
                     \/ FinishRead(r) \/ FinishWrite(r) \/ FinishFails(r)

Spec == Init /\ [][Next]_vars

(* Provider calls end (they carry a timeout), an await that is over resumes,  *)
(* and a supervisor restarts a dead process.  Users and administrators owe    *)
(* nothing, time need not pass.                                               *)
Fairness ==
  /\ WF_vars(~up /\ Start)
  /\ \A r \in Runs : WF_vars(Reserve(r)) /\ WF_vars(Finish(r))

FairSpec == Spec /\ Fairness

-----------------------------------------------------------------------------
TypeOK ==
  /\ now \in 0..MaxTime
  /\ up \in BOOLEAN
  /\ tier \in [Callers -> Tiers]
  /\ row \in [Runs -> Row]
  /\ phase \in [Runs -> Phase]
  /\ asked \in [Runs -> Frame]
  /\ outcome \in [Runs -> [status : Settled, credits : Nat]]

(* However reservations, settlements, crashes, sweeps and tier changes are    *)
(* interleaved, the rows that hold a slot never outnumber the server's cap.   *)
ServerCapRespected == Cardinality(StartedRows(row)) <= ServerCap

(* A row that reached a terminal status is never written again: a run that    *)
(* ends after a sweep took its slot discards its outcome instead of bringing  *)
(* the row back or repricing it (finish_run, "never resurrected").            *)
TerminalIsFinal ==
  [][\A r \in Runs : row[r].status \in Terminal => row'[r] = row[r]]_vars

(* A request is turned away with 429 only for runs that are younger than      *)
(* llm_run_max_age: rows leaked by a failed settlement or a dead process stop *)
(* costing anybody a slot, although the rejected transaction rolls its own    *)
(* sweep back and leaves them started.                                        *)
FreshStarted(moment) == {x \in StartedRows(row) : row[x].created >= moment - MaxAge}
OnlyFreshRunsThrottle ==
  [][\A r \in Runs :
       phase[r] = "reserving" /\ phase'[r] = "throttled" =>
         LET fresh == FreshStarted(asked[r].moment)
             own == {x \in fresh : row[x].user = asked[r].user}
         IN  \/ Cardinality(own) >= UserCap[asked[r].tier]
             \/ Cardinality(fresh) >= ServerCap]_vars

(* A run that was admitted not longer than llm_run_max_age ago and whose      *)
(* process lives still holds its slot, so that the calls in progress that are *)
(* that young respect the server's cap: no sweep takes the slot of a live     *)
(* run early.  It rests on there being one process.                           *)
LiveAndFresh == {r \in Runs : /\ phase[r] \in {"calling", "settling"}
                              /\ row[r].created >= now - MaxAge}
LiveRunsHoldSlots == ~Overlap => LiveAndFresh \subseteq StartedRows(row)

(* Nor do a caller's rows outnumber the cap of every tier, whatever tiers she *)
(* is moved between while her requests wait for the write lock.               *)
CallerCapsRespected ==
  \A u \in Callers : \E t \in Tiers : Cardinality(StartedRowsOf(row, u)) <= UserCap[t]

(* The caps hold, and they count every live run that is young enough, where    *)
(* no two processes overlap.                                                  *)
SlotsAreHeld == ServerCapRespected /\ CallerCapsRespected /\ LiveRunsHoldSlots

(* Settling can only overshoot a budget by what the runs in flight at the     *)
(* last admission turned out to cost: in every current window a user's spend  *)
(* stays below her budget plus, for each slot she may hold, what a settlement *)
(* can add to an estimate.  Concurrency cannot stretch it further.            *)
LargestRise == Max({0} \cup {c - Estimate : c \in Costs})
LargestBudget(w) == Max({Budget[t][w] : t \in Tiers})
LargestCap == Max({UserCap[t] : t \in Tiers})
OvershootBounded ==
  \A u \in Callers, w \in Windows :
    LET open == Cardinality(StartedRowsOf(row, u))
    IN  Spent(row, u, now, w) + open * LargestRise
          <= LargestBudget(w) + LargestCap * LargestRise

(* A slot that a serving coroutine holds is given back: by its settlement or, *)
(* when the process dies under it, by the sweep of the next start.  Only a    *)
(* settlement that raises leaves it to the age-based sweep.                   *)
SlotsAreReleased ==
  \A r \in Runs :
    (IsStarted(row, r) /\ phase[r] # "unsettled")
      ~> (~IsStarted(row, r) \/ phase[r] = "unsettled")

=============================================================================
