---------------------------- MODULE Checks_proofs ----------------------------
(***************************************************************************)
(* Checks, at both of their ends.                                          *)
(*                                                                         *)
(* The server: the store of check jobs and its streams, for every number   *)
(* of owners, jobs, readers and reports, and for all limits of the store.  *)
(*                                                                         *)
(* The tab: for any users, documents, texts and number of checks, a page   *)
(* shows only what its owner had checked, of another document only through *)
(* the gap of hydrateFromDocument, and a card that is not stale fits its   *)
(* text.  What carries it is that one check at most can still be applied,  *)
(* the one that took the last epoch; that it is of this generation; and    *)
(* that it was started for the document in the editor, or late, while a    *)
(* replay stood between the cancelled check and the document to be shown.  *)
(***************************************************************************)
EXTENDS CheckJobs, CheckController, FiniteSetTheorems, WellFoundedInduction, TLAPS

-----------------------------------------------------------------------------
(* Which jobs make room. *)

(* Every set of numbers that is not empty has a smallest element. *)
LEMMA Smallest ==
  ASSUME NEW ids \in SUBSET Nat, ids # {}
  PROVE  \E m \in ids : {i \in ids : i < m} = {}
<1>1. \E m \in ids : \A i \in ids : ~(<<i, m>> \in OpToRel(<, Nat))
  BY NatLessThanWellFounded, WFMin
<1>2. PICK m \in ids : \A i \in ids : ~(<<i, m>> \in OpToRel(<, Nat))
  BY <1>1
<1>3. \A i \in ids : ~(i < m)
  BY <1>2 DEF OpToRel
<1> QED
  BY <1>3

(* A set within its limit exceeds it by at most one new element. *)
LEMMA ExcessOfOneMore ==
  ASSUME NEW ids, IsFiniteSet(ids), NEW limit \in Nat, Cardinality(ids) <= limit,
         NEW new, new \notin ids
  PROVE  /\ Excess(ids \cup {new}, limit) \in {0, 1}
         /\ Excess(ids \cup {new}, limit) = 1 <=> Cardinality(ids) = limit
<1>1. Cardinality(ids \cup {new}) = Cardinality(ids) + 1 /\ Cardinality(ids) \in Nat
  BY FS_AddElement, FS_CardinalityType
<1> QED
  BY <1>1 DEF Excess

(* The oldest n of some jobs, for an n the store ever asks for: none of none,  *)
(* and one that exists if one is asked for.                                   *)
LEMMA OldestOfNone ==
  ASSUME NEW ids, IsFiniteSet(ids)
  PROVE  Oldest(0, ids) = {}
<1> SUFFICES ASSUME NEW j \in ids PROVE ~(Cardinality({i \in ids : i < j}) < 0)
  BY DEF Oldest
<1>1. Cardinality({i \in ids : i < j}) \in Nat
  BY FS_Subset, FS_CardinalityType, {i \in ids : i < j} \in SUBSET ids
<1> QED
  BY <1>1

LEMMA OldestOfOne ==
  ASSUME NEW ids \in SUBSET Nat, IsFiniteSet(ids), ids # {}
  PROVE  Oldest(1, ids) # {}
<1>1. PICK m \in ids : {i \in ids : i < m} = {}
  BY Smallest
<1>2. Cardinality({i \in ids : i < m}) < 1
  BY <1>1, FS_EmptySet
<1> QED
  BY <1>2 DEF Oldest

LEMMA OldestAmong ==
  ASSUME NEW n, NEW ids
  PROVE  Oldest(n, ids) \subseteq ids
BY DEF Oldest

(* Taking the oldest n of enough candidates out of a set makes it n smaller.  *)
LEMMA RoomIsMade ==
  ASSUME NEW all \in SUBSET Nat, IsFiniteSet(all), NEW ids \in SUBSET all,
         NEW n \in {0, 1}, Cardinality(ids) >= n
  PROVE  Cardinality(all \ Oldest(n, ids)) <= Cardinality(all) - n
<1>1. IsFiniteSet(ids) /\ Cardinality(ids) \in Nat /\ Cardinality(all) \in Nat
  BY FS_Subset, FS_CardinalityType
<1>2. CASE n = 0
  <2>1. all \ Oldest(n, ids) = all
    BY <1>1, <1>2, OldestOfNone
  <2>2. Cardinality(all) <= Cardinality(all) - n
    BY <1>1, <1>2
  <2> QED
    BY <2>1, <2>2
<1>3. CASE n = 1
  <2>1. ids # {}
    BY <1>1, <1>3, FS_EmptySet
  <2>2. PICK m : m \in Oldest(n, ids)
    BY <1>1, <1>3, <2>1, OldestOfOne
  <2>3. m \in all
    BY <2>2, OldestAmong
  <2>4. IsFiniteSet(all \ {m}) /\ Cardinality(all \ {m}) = Cardinality(all) - 1
    BY <2>3, FS_RemoveElement
  <2>5. all \ Oldest(n, ids) \in SUBSET (all \ {m})
    BY <2>2
  <2>6. Cardinality(all \ Oldest(n, ids)) <= Cardinality(all \ {m})
    BY <2>4, <2>5, FS_Subset
  <2>7. IsFiniteSet(all \ Oldest(n, ids))
    BY <2>4, <2>5, FS_Subset
  <2> QED
    BY <1>1, <1>3, <2>4, <2>6, <2>7, FS_CardinalityType
<1> QED
  BY <1>2, <1>3

-----------------------------------------------------------------------------
(* What a create keeps. *)

LEMMA StoreIsFinite ==
  ASSUME JobsTypeOK
  PROVE  /\ jobs \in SUBSET Nat /\ IsFiniteSet(jobs) /\ NewId \notin jobs
         /\ \A ids \in SUBSET jobs : IsFiniteSet(ids) /\ Cardinality(ids) \in Nat
<1>1. made \in Nat /\ jobs \in SUBSET (1..made)
  BY JobsAssumption DEF JobsTypeOK
<1>2. IsFiniteSet(1..made)
  BY <1>1, FS_Interval
<1>3. IsFiniteSet(jobs)
  BY <1>1, <1>2, FS_Subset
<1>4. NewId \notin jobs
  BY <1>1 DEF NewId
<1>5. jobs \in SUBSET Nat
  BY <1>1
<1>6. ASSUME NEW ids \in SUBSET jobs PROVE IsFiniteSet(ids) /\ Cardinality(ids) \in Nat
  BY <1>3, FS_Subset, FS_CardinalityType
<1> QED
  BY <1>3, <1>4, <1>5, <1>6

(* The two evictions of a create: each takes out none, or one where its limit *)
(* is reached, provided a finished job is there to go.                        *)
LEMMA OwnTrim ==
  ASSUME JobsTypeOK, StoreBounded, NEW o \in Owners
  PROVE  /\ OwnExcess(o) \in {0, 1}
         /\ OwnExcess(o) = 1 <=> Cardinality(Owned(jobs, o)) = MaxPerOwner
         /\ OwnEvicted(o) \subseteq Done(Owned(jobs, o))
         /\ OwnRefused(o) => Trimmed(o) = jobs
         /\ ~OwnRefused(o) =>
              /\ Cardinality(Trimmed(o)) <= Cardinality(jobs) - OwnExcess(o)
              /\ Cardinality(Owned(jobs, o) \ OwnEvicted(o)) < MaxPerOwner
<1> DEFINE own == Owned(jobs, o)
<1>1. own \in SUBSET jobs /\ Done(own) \in SUBSET own
  BY DEF Owned, Done
<1>2. /\ jobs \in SUBSET Nat /\ IsFiniteSet(jobs) /\ NewId \notin jobs
      /\ own \in SUBSET Nat /\ IsFiniteSet(own) /\ Cardinality(own) \in Nat
      /\ IsFiniteSet(Done(own)) /\ Cardinality(Done(own)) \in Nat
      /\ Done(own) \in SUBSET jobs
  BY <1>1, StoreIsFinite
<1>3. Cardinality(own) <= MaxPerOwner /\ MaxPerOwner \in Nat
  BY JobsAssumption DEF StoreBounded
<1>4. NewId \notin own
  BY <1>1, <1>2
<1> HIDE DEF own
<1>5. /\ OwnExcess(o) \in {0, 1}
      /\ OwnExcess(o) = 1 <=> Cardinality(own) = MaxPerOwner
  BY <1>2, <1>3, <1>4, ExcessOfOneMore DEF OwnExcess, own
<1>6. OwnEvicted(o) = Oldest(OwnExcess(o), Done(own)) /\ OwnEvicted(o) \subseteq Done(own)
  BY OldestAmong DEF OwnEvicted, own
<1>7. ASSUME OwnRefused(o) PROVE Trimmed(o) = jobs
  <2>1. Cardinality(Done(own)) = 0
    BY <1>2, <1>5, <1>7 DEF OwnRefused, own
  <2>2. Done(own) = {}
    BY <1>2, <2>1, FS_EmptySet
  <2> QED
    BY <1>6, <2>2 DEF Trimmed
<1>8. ASSUME ~OwnRefused(o)
      PROVE  /\ Cardinality(Trimmed(o)) <= Cardinality(jobs) - OwnExcess(o)
             /\ Cardinality(own \ OwnEvicted(o)) < MaxPerOwner
  <2>1. Cardinality(Done(own)) >= OwnExcess(o)
    BY <1>2, <1>5, <1>8 DEF OwnRefused, own
  <2>2. Cardinality(Trimmed(o)) <= Cardinality(jobs) - OwnExcess(o)
    BY <1>2, <1>5, <1>6, <2>1, RoomIsMade DEF Trimmed
  <2>3. Cardinality(own \ OwnEvicted(o)) <= Cardinality(own) - OwnExcess(o)
    BY <1>1, <1>2, <1>5, <1>6, <2>1, RoomIsMade DEF own
  <2>4. IsFiniteSet(own \ OwnEvicted(o))
    BY <1>2, FS_Subset, own \ OwnEvicted(o) \in SUBSET own
  <2>5. Cardinality(own \ OwnEvicted(o)) \in Nat
    BY <2>4, FS_CardinalityType
  <2> QED
    BY <1>2, <1>3, <1>5, <2>2, <2>3, <2>5
<1> QED
  BY <1>5, <1>6, <1>7, <1>8 DEF own

LEMMA GlobalTrim ==
  ASSUME JobsTypeOK, StoreBounded, NEW o \in Owners
  PROVE  /\ Trimmed(o) \subseteq jobs /\ Kept(o) \subseteq Trimmed(o)
         /\ GlobalExcess(o) \in {0, 1}
         /\ GlobalExcess(o) = 1 =>
              Cardinality(jobs) = MaxJobs /\ (~OwnRefused(o) => OwnExcess(o) = 0)
         /\ GlobalExcess(o) = 0 => GlobalEvicted(o) = {}
         /\ Refused(o) => Kept(o) = jobs
         /\ ~Refused(o) => Cardinality(Kept(o)) < MaxJobs
<1> DEFINE trimmed == Trimmed(o)
           ripe == Done(trimmed)
<1>1. trimmed \in SUBSET jobs /\ ripe \in SUBSET trimmed
  BY DEF Trimmed, Done
<1>2. /\ jobs \in SUBSET Nat /\ IsFiniteSet(jobs) /\ NewId \notin jobs
      /\ trimmed \in SUBSET Nat /\ IsFiniteSet(trimmed) /\ Cardinality(trimmed) \in Nat
      /\ IsFiniteSet(ripe) /\ Cardinality(ripe) \in Nat /\ Cardinality(jobs) \in Nat
  BY <1>1, StoreIsFinite
<1>3. /\ Cardinality(jobs) <= MaxJobs /\ MaxJobs \in Nat
  BY JobsAssumption DEF StoreBounded
<1>4. Cardinality(trimmed) <= Cardinality(jobs)
      /\ (Cardinality(jobs) = Cardinality(trimmed) => trimmed = jobs)
  BY <1>1, <1>2, FS_Subset
<1>5. NewId \notin trimmed
  BY <1>1, <1>2
<1> HIDE DEF trimmed, ripe
<1>6. /\ GlobalExcess(o) \in {0, 1}
      /\ GlobalExcess(o) = 1 <=> Cardinality(trimmed) = MaxJobs
  BY <1>2, <1>3, <1>4, <1>5, ExcessOfOneMore DEF GlobalExcess, trimmed
<1>7. GlobalEvicted(o) = Oldest(GlobalExcess(o), ripe) /\ GlobalEvicted(o) \subseteq ripe
  BY OldestAmong DEF GlobalEvicted, ripe, trimmed
<1>8. Kept(o) \subseteq trimmed
  BY DEF Kept, trimmed
<1>9. ASSUME GlobalExcess(o) = 1
      PROVE  Cardinality(jobs) = MaxJobs /\ (~OwnRefused(o) => OwnExcess(o) = 0)
  <2>1. Cardinality(jobs) = MaxJobs
    BY <1>2, <1>3, <1>4, <1>6, <1>9
  <2>2. ASSUME ~OwnRefused(o) PROVE OwnExcess(o) = 0
    <3>1. OwnExcess(o) \in {0, 1} /\ Cardinality(trimmed) <= Cardinality(jobs) - OwnExcess(o)
      BY <2>2, OwnTrim DEF trimmed
    <3> QED
      BY <1>2, <1>3, <1>6, <1>9, <2>1, <3>1
  <2> QED
    BY <2>1, <2>2
<1>10. GlobalExcess(o) = 0 => GlobalEvicted(o) = {}
  BY <1>2, <1>7, OldestOfNone
<1>11. ASSUME Refused(o) PROVE Kept(o) = jobs
  <2>1. CASE OwnRefused(o)
    BY <2>1, OwnTrim DEF Kept
  <2>2. CASE ~OwnRefused(o)
    <3>1. Cardinality(ripe) < GlobalExcess(o)
      BY <1>11, <2>2 DEF Refused, GlobalRefused, ripe, trimmed
    <3>2. GlobalExcess(o) = 1 /\ Cardinality(ripe) = 0
      BY <1>2, <1>6, <3>1
    <3>3. ripe = {}
      BY <1>2, <3>2, FS_EmptySet
    <3>4. Kept(o) = trimmed
      BY <1>7, <2>2, <3>3 DEF Kept, trimmed
    <3>5. Cardinality(trimmed) = Cardinality(jobs)
      BY <1>2, <1>3, <1>4, <1>6, <3>2
    <3> QED
      BY <1>4, <3>4, <3>5
  <2> QED
    BY <2>1, <2>2
<1>12. ASSUME ~Refused(o) PROVE Cardinality(Kept(o)) < MaxJobs
  <2>1. Kept(o) = trimmed \ GlobalEvicted(o)
    BY <1>12 DEF Refused, Kept, trimmed
  <2>2. Cardinality(ripe) >= GlobalExcess(o)
    BY <1>2, <1>6, <1>12 DEF Refused, GlobalRefused, ripe, trimmed
  <2>3. Cardinality(Kept(o)) <= Cardinality(trimmed) - GlobalExcess(o)
    BY <1>1, <1>2, <1>6, <1>7, <2>1, <2>2, RoomIsMade DEF ripe, trimmed
  <2>4. IsFiniteSet(Kept(o))
    BY <1>2, <1>8, FS_Subset, Kept(o) \in SUBSET trimmed
  <2>5. Cardinality(Kept(o)) \in Nat
    BY <2>4, FS_CardinalityType
  <2> QED
    BY <1>2, <1>3, <1>4, <1>6, <2>3, <2>5
<1> QED
  BY <1>1, <1>6, <1>8, <1>9, <1>10, <1>11, <1>12 DEF trimmed

-----------------------------------------------------------------------------
(* Types. *)

LEMMA EmitType ==
  ASSUME NEW j \in Job, NEW name \in EventName
  PROVE  Emit(j, name) \in Job
<1>1. Append(j.events, name) \in Seq(EventName)
  BY DEF Job
<1> QED
  BY <1>1 DEF Emit, Job

LEMMA FinishType ==
  ASSUME NEW j \in Job
  PROVE  Completed(j) \in Job
<1>1. Emit(j, "done") \in Job
  BY EmitType DEF EventName
<1> QED
  BY <1>1 DEF Completed, Job

LEMMA AddType ==
  ASSUME NEW j \in Job, NEW checker \in {"rules", "llm"}
  PROVE  Add(j, checker) \in Job
<1>1. Emit(j, checker) \in Job
  BY EmitType DEF EventName
<1> QED
  BY <1>1 DEF Add, Job

LEMMA ScoreType ==
  ASSUME NEW j \in Job
  PROVE  Score(j) \in Job
<1>1. Emit(j, "scorecard") \in Job
  BY EmitType DEF EventName
<1> QED
  BY <1>1 DEF Score, Job

LEMMA FailureType ==
  ASSUME NEW j \in Job
  PROVE  Failure(j) \in Job
BY EmitType, FinishType DEF Failure, EventName

LEMMA NewJobType ==
  ASSUME NEW o \in Owners
  PROVE  NewJob(o) \in Job
<1>1. <<>> \in Seq({"progress", "result", "failure"}) /\ <<>> \in Seq(EventName)
  OBVIOUS
<1>2. 0 \in 0..MaxProgress
  BY JobsAssumption
<1> QED
  BY <1>1, <1>2 DEF NewJob, NoJob, Job

LEMMA BecomesType ==
  ASSUME JobsTypeOK, NEW j \in Ids, NEW new \in Job, Becomes(j, new)
  PROVE  job' \in [Ids -> Job] /\ reader' \in [Readers -> Reader]
<1>1. Wake(j) \in [Readers -> Reader]
  BY DEF JobsTypeOK, Wake, Reader
<1> QED
  BY <1>1 DEF JobsTypeOK, Becomes

(* What a step of a job makes of it: the cases of GateAnswers and of Callback. *)
LEMMA GateType ==
  ASSUME JobsTypeOK, NEW j \in Ids
  PROVE  /\ [Emit(job[j], "effective_llm") EXCEPT !.stage = "llm"] \in Job
         /\ Completed(Emit(job[j], "effective_llm")) \in Job
         /\ [job[j] EXCEPT !.stage = "failed"] \in Job
<1>1. job[j] \in Job
  BY DEF JobsTypeOK
<1>2. Emit(job[j], "effective_llm") \in Job
  BY <1>1, EmitType DEF EventName
<1> QED
  BY <1>1, <1>2, FinishType DEF Job

LEMMA CallbackType ==
  ASSUME JobsTypeOK, NEW j \in Ids, job[j].posts # <<>>
  PROVE  /\ Taken(j) \in Job
         /\ Emit(Taken(j), "llm_progress") \in Job
         /\ Completed(Add(Taken(j), "llm")) \in Job
         /\ Completed(Score(Add(Taken(j), "llm"))) \in Job
         /\ Failure(Taken(j)) \in Job
<1>1. Taken(j) \in Job
  <2>1. job[j] \in Job
    BY DEF JobsTypeOK
  <2>2. Tail(job[j].posts) \in Seq({"progress", "result", "failure"})
    BY <2>1 DEF Job
  <2> QED
    BY <2>1, <2>2 DEF Taken, Job
<1> QED
  BY <1>1, EmitType, AddType, ScoreType, FinishType, FailureType DEF EventName

(* A job becomes another by what a step of it makes of it. *)
LEMMA StepOfJob ==
  ASSUME JobsTypeOK, NEW j \in Ids, GateAnswers(j) \/ Callback(j)
  PROVE  \/ \E new \in Job : Becomes(j, new) /\ jobs' = jobs
         \/ /\ job[j].stage = "setup" /\ jobs' = jobs \ {j}
            /\ Becomes(j, [job[j] EXCEPT !.stage = "failed"])
            /\ [job[j] EXCEPT !.stage = "failed"] \in Job
<1>1. CASE GateAnswers(j)
  BY <1>1, GateType DEF GateAnswers
<1>2. CASE Callback(j)
  BY <1>2, CallbackType DEF Callback
<1> QED
  BY <1>1, <1>2

LEMMA CreateType ==
  ASSUME JobsTypeOK, NEW o \in Owners, Create(o)
  PROVE  JobsTypeOK'
<1>1. made' \in 0..MaxCreates /\ made' = made + 1 /\ NewId \in Ids
  BY JobsAssumption DEF JobsTypeOK, Create, NewId, Ids
<1>2. Kept(o) \subseteq jobs
  BY DEF Kept, Trimmed
<1>3. jobs' \subseteq 1..made'
  BY <1>1, <1>2, JobsAssumption DEF JobsTypeOK, Create, NewId
<1>4. NewJob(o) \in Job /\ Add(NewJob(o), "rules") \in Job
  BY NewJobType, AddType
<1>5. /\ [NewJob(o) EXCEPT !.stage = "refused"] \in Job
      /\ [NewJob(o) EXCEPT !.stage = "failed"] \in Job
      /\ [Add(NewJob(o), "rules") EXCEPT !.stage = "setup"] \in Job
      /\ Completed(Add(NewJob(o), "rules")) \in Job
  BY <1>4, FinishType DEF Job
<1>6. \E new \in Job : job' = [job EXCEPT ![NewId] = new]
  BY <1>5 DEF Create
<1>7. job' \in [Ids -> Job]
  BY <1>1, <1>6 DEF JobsTypeOK
<1> QED
  BY <1>1, <1>3, <1>7 DEF JobsTypeOK, Create

(* A poll under way reads a job that exists. *)
PollAimed == poll.at # "off" => poll.job \in Ids

LEMMA TypeStep == JobsTypeOK /\ PollAimed /\ [JobsNext]_jobVars => JobsTypeOK'
<1> SUFFICES ASSUME JobsTypeOK, PollAimed, [JobsNext]_jobVars PROVE JobsTypeOK'
  OBVIOUS
<1>1. ASSUME NEW o \in Owners, Create(o) PROVE JobsTypeOK'
  BY <1>1, CreateType
<1>2. ASSUME NEW j \in Ids, GateAnswers(j) \/ Callback(j) PROVE JobsTypeOK'
  <2>1. jobs' \subseteq jobs
    BY <1>2, StepOfJob
  <2>2. job' \in [Ids -> Job] /\ reader' \in [Readers -> Reader]
    BY <1>2, StepOfJob, BecomesType
  <2>3. UNCHANGED <<made, poll>>
    BY <1>2 DEF GateAnswers, Callback
  <2> QED
    BY <2>1, <2>2, <2>3 DEF JobsTypeOK
<1>3. ASSUME NEW j \in Ids, NEW what \in {"progress", "result", "failure"}, Post(j, what),
             what = "progress" => job[j].reports < MaxProgress
      PROVE  JobsTypeOK'
  <2> DEFINE new == [job[j] EXCEPT
               !.posts = Append(@, what),
               !.stage = IF what = "progress" THEN @ ELSE "ending",
               !.reports = IF what = "progress" THEN @ + 1 ELSE @]
  <2>1. job' = [job EXCEPT ![j] = new]
    BY <1>3 DEF Post, JobsTypeOK
  <2>2. job[j] \in Job
    BY DEF JobsTypeOK
  <2>3. Append(job[j].posts, what) \in Seq({"progress", "result", "failure"})
    BY <2>2 DEF Job
  <2>4. (IF what = "progress" THEN job[j].reports + 1 ELSE job[j].reports) \in 0..MaxProgress
    BY <1>3, <2>2, JobsAssumption DEF Job
  <2>5. new \in Job
    BY <2>2, <2>3, <2>4 DEF Job
  <2> HIDE DEF new
  <2>6. job' \in [Ids -> Job]
    BY <2>1, <2>5 DEF JobsTypeOK
  <2> QED
    BY <1>3, <2>6 DEF Post, JobsTypeOK
<1>4. ASSUME NEW j \in Ids, Progress(j) \/ ProviderEnds(j) PROVE JobsTypeOK'
  BY <1>3, <1>4 DEF Progress, ProviderEnds
<1>5. ASSUME NEW r \in Readers, NEW o \in Owners, Follow(r, o) PROVE JobsTypeOK'
  BY <1>5, JobsAssumption DEF Follow, JobsTypeOK, Reader
<1>6. ASSUME NEW r \in Readers, Turn(r) PROVE JobsTypeOK'
  <2> DEFINE events == job[reader[r].job].events
             new == IF reader[r].index + 1 > Len(events) THEN [reader[r] EXCEPT !.at = "waits"]
                    ELSE [reader[r] EXCEPT !.index = reader[r].index + 1,
                            !.at = IF events[reader[r].index + 1] = "done" THEN "ended" ELSE "runs"]
  <2>1. reader' = [reader EXCEPT ![r] = new]
    BY <1>6 DEF Turn
  <2>2. new \in Reader
    <3>1. reader[r] \in Reader /\ reader[r].index + 1 \in Nat
      BY DEF JobsTypeOK, Reader
    <3> HIDE DEF events
    <3> QED
      BY <3>1 DEF Reader
  <2> HIDE DEF new
  <2> QED
    BY <1>6, <2>1, <2>2 DEF Turn, JobsTypeOK
<1>7. ASSUME NEW r \in Readers, Leave(r) PROVE JobsTypeOK'
  BY <1>7, JobsAssumption DEF Leave, JobsTypeOK, Reader, NoReader, None
<1>8. ASSUME NEW o \in Owners, PollStarts(o) PROVE JobsTypeOK'
  <2>1. PICK j \in Ids : poll' = Read([NoPoll EXCEPT !.job = j, !.at = "between"], "status")
    BY <1>8, JobsAssumption DEF PollStarts, Reads, Ids
  <2>2. job[j].status \in {"none", "running", "done"} /\ j \in 0..MaxCreates
    BY <2>1, JobsAssumption DEF JobsTypeOK, Job, Ids
  <2> QED
    BY <1>8, <2>1, <2>2 DEF PollStarts, Read, NoPoll, JobsTypeOK
<1>9. CASE PollAnswers
  BY <1>9 DEF PollAnswers, Read, Reads, JobsTypeOK, PollAimed, Job
<1>10. CASE PollEnds
  BY <1>10, JobsAssumption DEF PollEnds, JobsTypeOK, NoPoll, None
<1>11. CASE UNCHANGED jobVars
  BY <1>11 DEF jobVars, JobsTypeOK
<1> QED
  BY <1>1, <1>2, <1>4, <1>5, <1>6, <1>7, <1>8, <1>9, <1>10, <1>11 DEF JobsNext

LEMMA AimedStep == PollAimed /\ [JobsNext]_jobVars => PollAimed'
<1> SUFFICES ASSUME PollAimed, [JobsNext]_jobVars PROVE PollAimed'
  OBVIOUS
<1>1. CASE UNCHANGED poll
  BY <1>1 DEF PollAimed
<1>2. ASSUME NEW o \in Owners, PollStarts(o) PROVE PollAimed'
  BY <1>2, JobsAssumption DEF PollStarts, Read, Reads, NoPoll, PollAimed, Ids
<1>3. CASE PollAnswers
  BY <1>3 DEF PollAnswers, Read, Reads, PollAimed
<1>4. CASE PollEnds
  BY <1>4 DEF PollEnds, NoPoll, PollAimed
<1> QED
  BY <1>1, <1>2, <1>3, <1>4 DEF JobsNext, jobVars, Create, Follow, GateAnswers, Progress, ProviderEnds, Post,
     Callback, Turn, Leave

(* Type correctness of the store, its jobs, their readers and the poll. *)
THEOREM TypeCorrect == JobsSpec => []JobsTypeOK
<1>1. JobsInit => JobsTypeOK
  BY JobsAssumption DEF JobsInit, JobsTypeOK, NoJob, NoReader, NoPoll, Job, Reader, Ids, None
<1>2. JobsInit => PollAimed
  BY DEF JobsInit, NoPoll, PollAimed
<1>3. JobsTypeOK /\ PollAimed /\ [JobsNext]_jobVars => (JobsTypeOK /\ PollAimed)'
  BY TypeStep, AimedStep
<1> QED
  BY <1>1, <1>2, <1>3, PTL DEF JobsSpec

-----------------------------------------------------------------------------
(* The limits. *)

(* What a create makes of the new job; the others it leaves alone. *)
LEMMA CreateMakes ==
  ASSUME JobsTypeOK, NEW o \in Owners, Create(o)
  PROVE  /\ made' = NewId /\ NewId \in Ids
         /\ job'[NewId].owner = o
         /\ \A j \in Ids \ {NewId} : job'[j] = job[j]
         /\ job'[NewId].stage = "refused" <=> Refused(o)
         /\ jobs' \in {Kept(o), Kept(o) \cup {NewId}}
         /\ Refused(o) => jobs' = Kept(o)
<1>1. NewId \in Ids /\ made' = NewId
  BY JobsAssumption DEF JobsTypeOK, Create, NewId, Ids
<1>2. \/ /\ Refused(o) /\ jobs' = Kept(o)
         /\ job' = [job EXCEPT ![NewId] = [NewJob(o) EXCEPT !.stage = "refused"]]
      \/ /\ ~Refused(o) /\ jobs' \in {Kept(o), Kept(o) \cup {NewId}}
         /\ \E new \in {Completed(Add(NewJob(o), "rules")),
                       [Add(NewJob(o), "rules") EXCEPT !.stage = "setup"],
                       [NewJob(o) EXCEPT !.stage = "failed"]} : job' = [job EXCEPT ![NewId] = new]
  BY DEF Create
<1>3. \A new \in {Completed(Add(NewJob(o), "rules")),
                  [Add(NewJob(o), "rules") EXCEPT !.stage = "setup"],
                  [NewJob(o) EXCEPT !.stage = "failed"]} :
         new.owner = o /\ new.stage # "refused"
  <2>1. NewJob(o) \in Job /\ Add(NewJob(o), "rules") \in Job
        /\ NewJob(o).owner = o
    BY NewJobType, AddType DEF NewJob, NoJob
  <2>2. Add(NewJob(o), "rules").owner = o
    BY <2>1 DEF Add, Emit, Job
  <2>3. /\ Completed(Add(NewJob(o), "rules")).owner = o
        /\ Completed(Add(NewJob(o), "rules")).stage = "over"
    BY <2>1, <2>2 DEF Completed, Emit, Job
  <2> QED
    BY <2>1, <2>2, <2>3 DEF Job
<1>4. [NewJob(o) EXCEPT !.stage = "refused"].owner = o
      /\ [NewJob(o) EXCEPT !.stage = "refused"].stage = "refused"
  BY DEF NewJob, NoJob
<1>5. CASE Refused(o)
  BY <1>1, <1>2, <1>4, <1>5 DEF JobsTypeOK
<1>6. CASE ~Refused(o)
  <2>1. PICK new \in {Completed(Add(NewJob(o), "rules")),
                       [Add(NewJob(o), "rules") EXCEPT !.stage = "setup"],
                       [NewJob(o) EXCEPT !.stage = "failed"]} : job' = [job EXCEPT ![NewId] = new]
    BY <1>2, <1>6
  <2>2. new.owner = o /\ new.stage # "refused"
    BY <1>3
  <2> QED
    BY <1>1, <1>2, <1>6, <2>1, <2>2 DEF JobsTypeOK
<1> QED
  BY <1>5, <1>6

(* Nothing but a create adds to the store, and no job changes hands. *)
LEMMA OthersKeep ==
  ASSUME JobsTypeOK, [JobsNext]_jobVars, \A o \in Owners : ~Create(o)
  PROVE  /\ jobs' \subseteq jobs /\ made' = made
         /\ \A j \in Ids : job'[j].owner = job[j].owner
<1>1. ASSUME NEW i \in Ids, GateAnswers(i) \/ Callback(i)
      PROVE  jobs' \subseteq jobs /\ \A j \in Ids : job'[j].owner = job[j].owner
  <2>1. \A j \in Ids : job[j] \in Job
    BY DEF JobsTypeOK
  <2>2. /\ Taken(i).owner = job[i].owner
        /\ \A j \in Job, name \in EventName : Emit(j, name).owner = j.owner
        /\ \A j \in Job : Completed(j).owner = j.owner /\ Score(j).owner = j.owner
                        /\ Add(j, "llm").owner = j.owner /\ Failure(j).owner = j.owner
    BY <2>1 DEF Taken, Emit, Completed, Score, Add, Failure, Job
  <2>3. /\ Emit(job[i], "effective_llm") \in Job
        /\ job[i].posts # <<>> => Taken(i) \in Job /\ Add(Taken(i), "llm") \in Job
                                  /\ Score(Add(Taken(i), "llm")) \in Job
    BY <2>1, EmitType, AddType, ScoreType, CallbackType DEF EventName
  <2>4. \E new : Becomes(i, new) /\ new.owner = job[i].owner
    <3>1. CASE GateAnswers(i)
      <4>1. /\ Emit(job[i], "effective_llm").owner = job[i].owner
            /\ Completed(Emit(job[i], "effective_llm")).owner = job[i].owner
        BY <2>1, <2>2, <2>3 DEF EventName
      <4>2. /\ [Emit(job[i], "effective_llm") EXCEPT !.stage = "llm"].owner = job[i].owner
            /\ [job[i] EXCEPT !.stage = "failed"].owner = job[i].owner
        BY <2>1, <2>3, <4>1 DEF Job
      <4> QED
        BY <3>1, <4>1, <4>2 DEF GateAnswers
    <3>2. CASE Callback(i)
      <4>1. job[i].posts # <<>>
        BY <3>2 DEF Callback
      <4>2. /\ Emit(Taken(i), "llm_progress").owner = job[i].owner
            /\ Completed(Add(Taken(i), "llm")).owner = job[i].owner
            /\ Completed(Score(Add(Taken(i), "llm"))).owner = job[i].owner
            /\ Failure(Taken(i)).owner = job[i].owner
        BY <2>2, <2>3, <4>1 DEF EventName
      <4> QED
        BY <2>2, <3>2, <4>2 DEF Callback
    <3> QED
      BY <1>1, <3>1, <3>2
  <2>5. jobs' \subseteq jobs
    BY <1>1 DEF GateAnswers, Callback
  <2> QED
    BY <2>4, <2>5 DEF Becomes, JobsTypeOK
<1>2. ASSUME NEW i \in Ids, NEW what, Post(i, what)
      PROVE  \A j \in Ids : job'[j].owner = job[j].owner
  <2>1. job[i] \in Job
    BY DEF JobsTypeOK
  <2> QED
    BY <1>2, <2>1 DEF Post, JobsTypeOK, Job
<1>3. CASE UNCHANGED job
  BY <1>3 DEF JobsNext, jobVars, GateAnswers, Callback, Progress, ProviderEnds, Post, Follow, Turn, Leave,
     PollStarts, PollAnswers, PollEnds
<1> QED
  BY <1>1, <1>2, <1>3 DEF JobsNext, jobVars, GateAnswers, Callback, Progress, ProviderEnds, Post, Follow, Turn,
     Leave, PollStarts, PollAnswers, PollEnds

LEMMA CreateBounded ==
  ASSUME JobsTypeOK, StoreBounded, NEW o \in Owners, Create(o)
  PROVE  StoreBounded'
<1>1. Kept(o) \subseteq jobs /\ NewId \notin jobs
  BY GlobalTrim, StoreIsFinite
<1>2. \A p \in Owners : IsFiniteSet(Owned(jobs, p)) /\ Cardinality(Owned(jobs, p)) \in Nat
  BY StoreIsFinite DEF Owned
<1>3. \A j \in Kept(o) : job'[j] = job[j]
  <2>1. jobs \in SUBSET Ids
    BY JobsAssumption DEF JobsTypeOK, Ids
  <2> QED
    BY <1>1, <2>1, CreateMakes
<1>4. CASE Refused(o)
  <2>1. jobs' = jobs /\ \A p \in Owners : Owned(jobs, p)' = Owned(jobs, p)
    BY <1>3, <1>4, CreateMakes, GlobalTrim DEF Owned
  <2> QED
    BY <2>1 DEF StoreBounded
<1>5. CASE ~Refused(o)
  <2>1. IsFiniteSet(Kept(o)) /\ Cardinality(Kept(o)) \in Nat /\ Cardinality(Kept(o)) < MaxJobs
    BY <1>1, <1>5, GlobalTrim, StoreIsFinite
  <2>2. Cardinality(jobs') <= MaxJobs
    <3>1. Cardinality(Kept(o) \cup {NewId}) = Cardinality(Kept(o)) + 1
      BY <1>1, <2>1, FS_AddElement
    <3> QED
      BY <2>1, <3>1, CreateMakes, JobsAssumption
  <2>3. ASSUME NEW p \in Owners PROVE Cardinality(Owned(jobs, p)') <= MaxPerOwner
    <3>1. CASE p = o
      <4> DEFINE rest == Owned(jobs, o) \ OwnEvicted(o)
      <4>1. Cardinality(rest) < MaxPerOwner
        BY <1>5, OwnTrim DEF Refused
      <4>2. IsFiniteSet(rest) /\ Cardinality(rest) \in Nat
        BY <1>2, FS_Subset, FS_CardinalityType, rest \in SUBSET Owned(jobs, o)
      <4>3. Owned(jobs, p)' \in SUBSET (rest \cup {NewId})
        <5>1. Kept(o) \subseteq Trimmed(o)
          BY GlobalTrim
        <5>2. jobs' \subseteq Trimmed(o) \cup {NewId}
          BY <5>1, CreateMakes
        <5>3. ASSUME NEW j \in jobs', job'[j].owner = o, j # NewId PROVE j \in rest
          <6>1. j \in Kept(o) /\ j \in Trimmed(o)
            BY <5>1, <5>3, CreateMakes
          <6> QED
            BY <1>1, <1>3, <5>3, <6>1 DEF Owned, Trimmed
        <5> QED
          BY <3>1, <5>3 DEF Owned
      <4>4. Cardinality(rest \cup {NewId}) <= Cardinality(rest) + 1
            /\ IsFiniteSet(rest \cup {NewId})
        <5>1. /\ IsFiniteSet(rest \cup {NewId})
              /\ Cardinality(rest \cup {NewId}) = IF NewId \in rest THEN Cardinality(rest)
                                                  ELSE Cardinality(rest) + 1
          BY <4>2, FS_AddElement
        <5> QED
          BY <4>2, <5>1
      <4>5. Cardinality(Owned(jobs, p)') <= Cardinality(rest \cup {NewId})
            /\ IsFiniteSet(Owned(jobs, p)')
        BY <4>3, <4>4, FS_Subset
      <4> QED
        BY <4>1, <4>2, <4>4, <4>5, FS_CardinalityType, JobsAssumption
    <3>2. CASE p # o
      <4>1. Owned(jobs, p)' \in SUBSET Owned(jobs, p)
        BY <1>1, <1>3, <3>2, CreateMakes DEF Owned
      <4>2. Cardinality(Owned(jobs, p)') <= Cardinality(Owned(jobs, p))
            /\ IsFiniteSet(Owned(jobs, p)')
        BY <1>2, <4>1, FS_Subset
      <4> QED
        BY <1>2, <4>2, FS_CardinalityType, JobsAssumption DEF StoreBounded
    <3> QED
      BY <3>1, <3>2
  <2> QED
    BY <2>2, <2>3 DEF StoreBounded
<1> QED
  BY <1>4, <1>5

(* The store and the share of an owner never outgrow their limits: both       *)
(* evictions of JobManager.create leave room for one job, or it is refused.   *)
THEOREM LimitsHold == JobsSpec => []StoreBounded
<1>1. JobsInit => StoreBounded
  <2>1. Owned({}, NoOwner) = {} /\ \A o \in Owners : Owned({}, o) = {}
    BY DEF Owned
  <2> QED
    BY <2>1, FS_EmptySet, JobsAssumption DEF JobsInit, StoreBounded
<1>2. JobsTypeOK /\ StoreBounded /\ [JobsNext]_jobVars => StoreBounded'
  <2> SUFFICES ASSUME JobsTypeOK, StoreBounded, [JobsNext]_jobVars PROVE StoreBounded'
    OBVIOUS
  <2>1. ASSUME NEW o \in Owners, Create(o) PROVE StoreBounded'
    BY <2>1, CreateBounded
  <2>2. ASSUME \A o \in Owners : ~Create(o) PROVE StoreBounded'
    <3>1. jobs' \in SUBSET jobs /\ \A o \in Owners : Owned(jobs, o)' \in SUBSET Owned(jobs, o)
      <4>1. jobs \in SUBSET Ids
        BY JobsAssumption DEF JobsTypeOK, Ids
      <4>2. jobs' \in SUBSET jobs /\ \A j \in Ids : job'[j].owner = job[j].owner
        BY <2>2, OthersKeep
      <4> QED
        BY <4>1, <4>2 DEF Owned
    <3>2. IsFiniteSet(jobs) /\ \A o \in Owners : IsFiniteSet(Owned(jobs, o))
      BY StoreIsFinite DEF Owned
    <3>3. /\ Cardinality(jobs') <= Cardinality(jobs)
          /\ Cardinality(jobs) \in Nat /\ Cardinality(jobs') \in Nat
      BY <3>1, <3>2, FS_Subset, FS_CardinalityType
    <3>4. ASSUME NEW o \in Owners
          PROVE  /\ Cardinality(Owned(jobs, o)') <= Cardinality(Owned(jobs, o))
                 /\ Cardinality(Owned(jobs, o)) \in Nat /\ Cardinality(Owned(jobs, o)') \in Nat
      BY <3>1, <3>2, FS_Subset, FS_CardinalityType
    <3> QED
      BY <3>3, <3>4, JobsAssumption DEF StoreBounded
  <2> QED
    BY <2>1, <2>2
<1> QED
  BY <1>1, <1>2, TypeCorrect, PTL DEF JobsSpec

-----------------------------------------------------------------------------
(* Who pays for a new job. *)

LEMMA CreatedBySomeone ==
  ASSUME JobsTypeOK, [JobsNext]_jobVars, made' # made
  PROVE  \E o \in Owners : Create(o)
BY OthersKeep

(* A create takes finished jobs only: its owner's, and of all when the store  *)
(* is full.                                                                   *)
LEMMA CreateTakes ==
  ASSUME JobsTypeOK, StoreBounded, NEW o \in Owners, Create(o), NEW j \in jobs \ jobs'
  PROVE  /\ job[j].status = "done"
         /\ job[j].owner # o => /\ Cardinality(jobs) = MaxJobs
                                /\ Cardinality(Owned(jobs, o)) < MaxPerOwner
<1>1. j \notin Kept(o)
  BY CreateMakes
<1>2. OwnEvicted(o) \subseteq Done(Owned(jobs, o)) /\ GlobalEvicted(o) \subseteq Done(Trimmed(o))
  BY OwnTrim, OldestAmong DEF GlobalEvicted
<1>3. j \in OwnEvicted(o) \/ (~OwnRefused(o) /\ j \in GlobalEvicted(o))
  BY <1>1 DEF Kept, Trimmed
<1>4. job[j].status = "done"
  BY <1>2, <1>3 DEF Done
<1>5. ASSUME job[j].owner # o
      PROVE  Cardinality(jobs) = MaxJobs /\ Cardinality(Owned(jobs, o)) < MaxPerOwner
  <2>1. j \notin OwnEvicted(o)
    BY <1>2, <1>5 DEF Done, Owned
  <2>2. GlobalExcess(o) = 1
    BY <1>3, <2>1, GlobalTrim
  <2>3. Cardinality(jobs) = MaxJobs /\ OwnExcess(o) = 0
    BY <1>3, <2>1, <2>2, GlobalTrim
  <2>4. Cardinality(Owned(jobs, o)) # MaxPerOwner
    <3>1. OwnExcess(o) = 1 <=> Cardinality(Owned(jobs, o)) = MaxPerOwner
      BY OwnTrim
    <3> QED
      BY <2>3, <3>1
  <2>5. Cardinality(Owned(jobs, o)) <= MaxPerOwner /\ Cardinality(Owned(jobs, o)) \in Nat
    BY StoreIsFinite DEF StoreBounded, Owned
  <2> QED
    BY <2>3, <2>4, <2>5, JobsAssumption
<1> QED
  BY <1>4, <1>5

(* No flood of checks makes a running check unreachable. *)
THEOREM RunningStay == JobsSpec => RunningJobsStay
<1>1. JobsTypeOK /\ StoreBounded /\ [JobsNext]_jobVars =>
        \A j \in jobs \ jobs' :
          job[j].status = "done" \/ (job[j].stage = "setup" /\ job'[j].stage = "failed")
  <2> SUFFICES ASSUME JobsTypeOK, StoreBounded, [JobsNext]_jobVars, NEW j \in jobs \ jobs'
               PROVE  job[j].status = "done" \/ (job[j].stage = "setup" /\ job'[j].stage = "failed")
    OBVIOUS
  <2>1. ASSUME NEW o \in Owners, Create(o) PROVE job[j].status = "done"
    BY <2>1, CreateTakes
  <2>2. ASSUME NEW i \in Ids, GateAnswers(i) \/ Callback(i)
        PROVE  job[j].stage = "setup" /\ job'[j].stage = "failed"
    <3>1. /\ job[i].stage = "setup" /\ jobs' = jobs \ {i}
          /\ Becomes(i, [job[i] EXCEPT !.stage = "failed"])
      BY <2>2, StepOfJob
    <3>2. j = i /\ job[i] \in Job
      BY <3>1 DEF JobsTypeOK
    <3> QED
      BY <3>1, <3>2 DEF Becomes, JobsTypeOK, Job
  <2>3. CASE UNCHANGED jobs
    BY <2>3
  <2> QED
    BY <2>1, <2>2, <2>3 DEF JobsNext, jobVars, Progress, ProviderEnds, Post, Follow, Turn, Leave,
       PollStarts, PollAnswers, PollEnds
<1> QED
  BY <1>1, TypeCorrect, LimitsHold, PTL DEF JobsSpec, RunningJobsStay

(* A check that is refused takes nothing from anybody. *)
THEOREM RefusalIsFree == JobsSpec => RefusedChangesNothing
<1>1. JobsTypeOK /\ StoreBounded /\ [JobsNext]_jobVars =>
        (made' # made /\ job'[made'].stage = "refused" => jobs' = jobs)
  <2> SUFFICES ASSUME JobsTypeOK, StoreBounded, [JobsNext]_jobVars, made' # made,
                      job'[made'].stage = "refused"
               PROVE  jobs' = jobs
    OBVIOUS
  <2>1. PICK o \in Owners : Create(o)
    BY CreatedBySomeone
  <2>2. Refused(o) /\ jobs' = Kept(o)
    BY <2>1, CreateMakes
  <2> QED
    BY <2>2, GlobalTrim
<1> QED
  BY <1>1, TypeCorrect, LimitsHold, PTL DEF JobsSpec, RefusedChangesNothing

(* Another owner's results age out only when the store is full and the        *)
(* creator's own history leaves nothing to evict.                             *)
THEOREM NeighboursKeep == JobsSpec => NeighboursKeepTheirs
<1>1. JobsTypeOK /\ StoreBounded /\ [JobsNext]_jobVars =>
        (made' # made =>
           LET o == job'[made'].owner
           IN  (\E j \in jobs \ jobs' : job[j].owner # o)
                 => /\ Cardinality(jobs) = MaxJobs
                    /\ Cardinality(Owned(jobs, o)) < MaxPerOwner)
  <2> SUFFICES ASSUME JobsTypeOK, StoreBounded, [JobsNext]_jobVars, made' # made,
                      NEW j \in jobs \ jobs', job[j].owner # job'[made'].owner
               PROVE  /\ Cardinality(jobs) = MaxJobs
                      /\ Cardinality(Owned(jobs, job'[made'].owner)) < MaxPerOwner
    OBVIOUS
  <2>1. PICK o \in Owners : Create(o)
    BY CreatedBySomeone
  <2>2. job'[made'].owner = o
    BY <2>1, CreateMakes
  <2> QED
    BY <2>1, <2>2, CreateTakes
<1> QED
  BY <1>1, TypeCorrect, LimitsHold, PTL DEF JobsSpec, NeighboursKeepTheirs

-----------------------------------------------------------------------------
(* Readers. *)

(* A reader has not read further than its job has got. *)
ReadersFollow ==
  \A r \in Readers : reader[r].at # "off" =>
    reader[r].job \in 1..made /\ reader[r].index <= Len(job[reader[r].job].events)

Grown(j, new) == Len(j.events) <= Len(new.events)

LEMMA EmitGrows ==
  ASSUME NEW j \in Job, NEW name \in EventName
  PROVE  Emit(j, name) \in Job /\ Grown(j, Emit(j, name))
<1>1. Emit(j, name).events = Append(j.events, name) /\ j.events \in Seq(EventName)
  BY DEF Emit, Job
<1>2. Len(Append(j.events, name)) = Len(j.events) + 1 /\ Len(j.events) \in Nat
  BY <1>1
<1> QED
  BY <1>1, <1>2, EmitType DEF Grown

LEMMA OperationsGrow ==
  ASSUME NEW j \in Job
  PROVE  /\ Grown(j, Completed(j)) /\ Grown(j, Add(j, "llm")) /\ Grown(j, Score(j))
<1>1. /\ Completed(j).events = Emit(j, "done").events
      /\ Add(j, "llm").events = Emit(j, "llm").events
      /\ Score(j).events = Emit(j, "scorecard").events
  BY DEF Completed, Add, Score, Emit, Job
<1> QED
  BY <1>1, EmitGrows DEF Grown, EventName

LEMMA GrownTwice ==
  ASSUME NEW a \in Job, NEW b \in Job, NEW c \in Job, Grown(a, b), Grown(b, c)
  PROVE  Grown(a, c)
<1>1. Len(a.events) \in Nat /\ Len(b.events) \in Nat /\ Len(c.events) \in Nat
  BY DEF Job
<1> QED
  BY <1>1 DEF Grown

LEMMA EventsGrow ==
  ASSUME JobsTypeOK, NEW j \in Ids, GateAnswers(j) \/ Callback(j)
  PROVE  \E new \in Job : Becomes(j, new) /\ Grown(job[j], new)
<1>1. job[j] \in Job /\ \A a \in Job : Grown(a, a)
  BY DEF JobsTypeOK, Grown, Job
<1>2. CASE GateAnswers(j)
  <2> DEFINE told == Emit(job[j], "effective_llm")
  <2>1. told \in Job /\ Grown(job[j], told)
    BY <1>1, EmitGrows DEF EventName
  <2>2. Completed(told) \in Job /\ Grown(told, Completed(told))
    BY <2>1, OperationsGrow, FinishType
  <2>3. Grown(job[j], Completed(told))
    BY <1>1, <2>1, <2>2, GrownTwice
  <2>4. /\ [told EXCEPT !.stage = "llm"] \in Job /\ Grown(job[j], [told EXCEPT !.stage = "llm"])
        /\ [job[j] EXCEPT !.stage = "failed"] \in Job
        /\ Grown(job[j], [job[j] EXCEPT !.stage = "failed"])
    BY <1>1, <2>1 DEF Job, Grown
  <2> QED
    BY <1>2, <2>2, <2>3, <2>4 DEF GateAnswers
<1>3. CASE Callback(j)
  <2> DEFINE taken == Taken(j)
             added == Add(taken, "llm")
             failed == Emit(taken, "checker_error")
  <2>1. taken \in Job /\ Grown(job[j], taken)
    BY <1>1, <1>3, CallbackType DEF Callback, Taken, Grown, Job
  <2>2. Emit(taken, "llm_progress") \in Job /\ Grown(job[j], Emit(taken, "llm_progress"))
    BY <1>1, <2>1, EmitGrows, GrownTwice DEF EventName
  <2>3. added \in Job /\ Grown(job[j], added)
    BY <1>1, <2>1, AddType, OperationsGrow, GrownTwice
  <2>4. Score(added) \in Job /\ Grown(job[j], Score(added))
    BY <1>1, <2>3, ScoreType, OperationsGrow, GrownTwice
  <2>5. failed \in Job /\ Grown(job[j], failed)
    BY <1>1, <2>1, EmitGrows, GrownTwice DEF EventName
  <2>6. \A b \in Job : Grown(job[j], b) => Completed(b) \in Job /\ Grown(job[j], Completed(b))
    BY <1>1, FinishType, OperationsGrow, GrownTwice
  <2> HIDE DEF taken, added, failed
  <2> QED
    BY <1>3, <2>1, <2>2, <2>3, <2>4, <2>5, <2>6 DEF Callback, Failure, taken, added, failed
<1> QED
  BY <1>2, <1>3

LEMMA ReadersStep ==
  ASSUME JobsTypeOK, ReadersFollow, ReadersAreWoken, [JobsNext]_jobVars
  PROVE  ReadersFollow' /\ ReadersAreWoken'
<1> DEFINE Follows(r) == reader[r].at # "off" =>
               reader[r].job \in 1..made /\ reader[r].index <= Len(job[reader[r].job].events)
           Woken(r) == reader[r].at = "waits" => reader[r].index = Len(job[reader[r].job].events)
<1> SUFFICES ASSUME NEW r \in Readers PROVE Follows(r)' /\ Woken(r)'
  BY DEF ReadersFollow, ReadersAreWoken
<1>1. Follows(r) /\ Woken(r) /\ reader[r] \in Reader /\ 1..made \subseteq Ids
  BY JobsAssumption DEF ReadersFollow, ReadersAreWoken, JobsTypeOK, Ids
<1>2. ASSUME NEW o \in Owners, Create(o) PROVE Follows(r)' /\ Woken(r)'
  <2>1. reader' = reader /\ made' = made + 1 /\ \A j \in 1..made : job'[j] = job[j]
    <3>1. NewId \notin 1..made /\ made \in Nat
      BY DEF NewId, JobsTypeOK
    <3> QED
      BY <1>1, <1>2, <3>1, CreateMakes DEF Create, NewId
  <2>2. 1..made \subseteq 1..made' /\ (reader[r].at = "waits" => reader[r].at # "off")
    BY <2>1 DEF JobsTypeOK
  <2> QED
    BY <1>1, <2>1, <2>2
<1>3. ASSUME NEW j \in Ids, GateAnswers(j) \/ Callback(j) PROVE Follows(r)' /\ Woken(r)'
  <2>1. PICK new \in Job : Becomes(j, new) /\ Grown(job[j], new)
    BY <1>3, EventsGrow
  <2>2. /\ made' = made /\ job'[j] = new /\ \A i \in Ids \ {j} : job'[i] = job[i]
        /\ reader'[r].job = reader[r].job /\ reader'[r].index = reader[r].index
        /\ reader'[r].at # "off" <=> reader[r].at # "off"
        /\ reader'[r].at = "waits" => reader[r].at = "waits"
                                      /\ (reader[r].job = j => new.events = job[j].events)
    BY <1>1, <1>3, <2>1 DEF Becomes, Wake, GateAnswers, Callback, JobsTypeOK, Reader
  <2>3. \A i \in Ids : Len(job[i].events) \in Nat /\ Len(new.events) \in Nat
    BY DEF JobsTypeOK, Job
  <2>4. reader[r].index \in Nat
    BY <1>1 DEF Reader
  <2>5. Follows(r)'
    BY <1>1, <2>1, <2>2, <2>3, <2>4 DEF Grown
  <2>6. Woken(r)'
    BY <1>1, <2>2
  <2> QED
    BY <2>5, <2>6
<1>4. ASSUME NEW j \in Ids, Progress(j) \/ ProviderEnds(j) PROVE Follows(r)' /\ Woken(r)'
  <2>1. \A i \in Ids : job'[i].events = job[i].events
    <3>1. PICK what : Post(j, what)
      BY <1>4 DEF Progress, ProviderEnds
    <3>2. job[j] \in Job
      BY DEF JobsTypeOK
    <3>3. job' = [job EXCEPT ![j] = [job[j] EXCEPT
                   !.posts = Append(@, what),
                   !.stage = IF what = "progress" THEN @ ELSE "ending",
                   !.reports = IF what = "progress" THEN @ + 1 ELSE @]]
      BY <3>1 DEF Post, JobsTypeOK
    <3> QED
      BY <3>2, <3>3 DEF JobsTypeOK, Job
  <2>2. reader' = reader /\ made' = made
    BY <1>4 DEF Progress, ProviderEnds, Post
  <2> QED
    BY <1>1, <2>1, <2>2
<1>5. ASSUME NEW q \in Readers, NEW o \in Owners, Follow(q, o) PROVE Follows(r)' /\ Woken(r)'
  <2>1. PICK j \in jobs : reader' = [reader EXCEPT ![q] = [job |-> j, index |-> 0, at |-> "runs"]]
    BY <1>5 DEF Follow, Visible
  <2>2. j \in 1..made /\ Len(job[j].events) \in Nat
    BY <1>1 DEF JobsTypeOK, Job
  <2>3. job' = job /\ made' = made
    BY <1>5 DEF Follow
  <2> QED
    BY <1>1, <2>1, <2>2, <2>3 DEF JobsTypeOK
<1>6. ASSUME NEW q \in Readers, Turn(q) PROVE Follows(r)' /\ Woken(r)'
  <2>1. CASE q # r
    BY <1>1, <1>6, <2>1 DEF Turn, JobsTypeOK
  <2>2. CASE q = r
    <3> DEFINE events == job[reader[r].job].events
               next == reader[r].index + 1
    <3>1. /\ reader[r].job \in 1..made /\ reader[r].index <= Len(events)
          /\ reader[r].index \in Nat /\ Len(events) \in Nat
      BY <1>1, <1>6, <2>2 DEF Turn, JobsTypeOK, Reader, Job
    <3>2. reader' = [reader EXCEPT ![r] =
             IF next > Len(events) THEN [reader[r] EXCEPT !.at = "waits"]
             ELSE [reader[r] EXCEPT !.index = next,
                            !.at = IF events[next] = "done" THEN "ended" ELSE "runs"]]
          /\ job' = job /\ made' = made
      BY <1>6, <2>2 DEF Turn
    <3> HIDE DEF events
    <3>3. CASE next > Len(events)
      <4>1. reader'[r] = [reader[r] EXCEPT !.at = "waits"]
        BY <3>2, <3>3 DEF JobsTypeOK
      <4>2. reader'[r].index = Len(events) /\ reader'[r].job = reader[r].job
        BY <1>1, <3>1, <3>3, <4>1 DEF Reader
      <4> QED
        BY <3>1, <3>2, <4>2 DEF events
    <3>4. CASE ~(next > Len(events))
      <4>1. /\ reader'[r].index = next /\ reader'[r].job = reader[r].job
            /\ reader'[r].at # "waits"
        BY <1>1, <3>2, <3>4 DEF JobsTypeOK, Reader
      <4> QED
        BY <3>1, <3>2, <3>4, <4>1 DEF events
    <3> QED
      BY <3>3, <3>4
  <2> QED
    BY <2>1, <2>2
<1>7. ASSUME NEW q \in Readers, Leave(q) PROVE Follows(r)' /\ Woken(r)'
  BY <1>1, <1>7 DEF Leave, NoReader, JobsTypeOK
<1>8. CASE UNCHANGED <<made, job, reader>>
  BY <1>1, <1>8
<1> QED
  BY <1>2, <1>3, <1>4, <1>5, <1>6, <1>7, <1>8 DEF JobsNext, jobVars, PollStarts, PollAnswers, PollEnds

(* No wake-up is lost: a reader that waits has read all there is, whoever     *)
(* else cleared the event it waits for.                                       *)
THEOREM WokenReaders == JobsSpec => []ReadersAreWoken
<1>1. JobsInit => ReadersFollow /\ ReadersAreWoken
  BY DEF JobsInit, NoReader, ReadersFollow, ReadersAreWoken
<1>2. JobsTypeOK /\ ReadersFollow /\ ReadersAreWoken /\ [JobsNext]_jobVars
        => (ReadersFollow /\ ReadersAreWoken)'
  BY ReadersStep
<1> QED
  BY <1>1, <1>2, TypeCorrect, PTL DEF JobsSpec

-----------------------------------------------------------------------------
(* The life of a job. *)

(* What is posted and what was said, stage by stage: a task that runs has     *)
(* posted progress only, one that ends has its end posted last, and whoever   *)
(* said done is over.                                                         *)
Silent(events) == \A i \in 1..Len(events) : events[i] # "done"
Said(events) ==
  /\ events # <<>> /\ events[Len(events)] = "done"
  /\ \A i \in 1..(Len(events) - 1) : events[i] # "done"
Running(posts) == \A i \in 1..Len(posts) : posts[i] = "progress"
Ending(posts) ==
  /\ posts # <<>> /\ posts[Len(posts)] # "progress"
  /\ \A i \in 1..(Len(posts) - 1) : posts[i] = "progress"

Lives(j) ==
  \/ /\ j.stage \in {"none", "refused", "failed", "setup"} /\ j.posts = <<>>
     /\ j.status # "done" /\ Silent(j.events)
  \/ /\ j.stage = "llm" /\ Running(j.posts)
     /\ j.status # "done" /\ Silent(j.events)
  \/ /\ j.stage = "ending" /\ Ending(j.posts)
     /\ j.status # "done" /\ Silent(j.events)
  \/ /\ j.stage = "over" /\ j.posts = <<>>
     /\ j.status = "done" /\ Said(j.events)

JobsLive == \A j \in Ids : Lives(job[j])

(* One more event, and the end of a job. *)
LEMMA EmitSilent ==
  ASSUME NEW j \in Job, NEW name \in EventName, Silent(j.events), name # "done"
  PROVE  Silent(Emit(j, name).events)
<1>1. Emit(j, name).events = Append(j.events, name) /\ j.events \in Seq(EventName)
  BY DEF Emit, Job
<1> QED
  BY <1>1 DEF Silent

LEMMA FinishSaid ==
  ASSUME NEW j \in Job, Silent(j.events), j.posts = <<>>
  PROVE  Lives(Completed(j))
<1>1. /\ Completed(j).events = Append(j.events, "done") /\ j.events \in Seq(EventName)
      /\ Completed(j).stage = "over" /\ Completed(j).posts = <<>> /\ Completed(j).status = "done"
  BY DEF Completed, Emit, Job
<1>2. Said(Append(j.events, "done"))
  <2>1. /\ Len(Append(j.events, "done")) = Len(j.events) + 1 /\ Len(j.events) \in Nat
        /\ Append(j.events, "done")[Len(j.events) + 1] = "done"
        /\ \A i \in 1..Len(j.events) : Append(j.events, "done")[i] = j.events[i]
    BY <1>1
  <2>2. Append(j.events, "done") # <<>>
    BY <1>1
  <2> QED
    BY <2>1, <2>2 DEF Said, Silent
<1> QED
  BY <1>1, <1>2 DEF Lives

LEMMA OperationsSilent ==
  ASSUME NEW j \in Job, Silent(j.events)
  PROVE  /\ Silent(Add(j, "llm").events) /\ Add(j, "llm").posts = j.posts
         /\ Silent(Score(j).events) /\ Score(j).posts = j.posts
<1>1. /\ Add(j, "llm").events = Emit(j, "llm").events /\ Add(j, "llm").posts = j.posts
      /\ Score(j).events = Emit(j, "scorecard").events /\ Score(j).posts = j.posts
  BY DEF Add, Score, Emit, Job
<1> QED
  BY <1>1, EmitSilent DEF EventName

LEMMA EmptyHasNoLength ==
  ASSUME NEW S, NEW s \in Seq(S)
  PROVE  s = <<>> <=> Len(s) = 0
OBVIOUS

(* Posts are taken in order: an end is taken when nothing else is left. *)
LEMMA TakenPosts ==
  ASSUME NEW posts \in Seq({"progress", "result", "failure"}), posts # <<>>
  PROVE  /\ Running(posts) => Head(posts) = "progress" /\ Running(Tail(posts))
         /\ Ending(posts) /\ Head(posts) = "progress" => Ending(Tail(posts))
         /\ Ending(posts) /\ Head(posts) # "progress" => Tail(posts) = <<>>
<1>1. /\ Len(posts) \in Nat /\ Len(posts) >= 1 /\ Head(posts) = posts[1]
      /\ Tail(posts) \in Seq({"progress", "result", "failure"})
      /\ Len(Tail(posts)) = Len(posts) - 1
      /\ \A i \in 1..(Len(posts) - 1) : Tail(posts)[i] = posts[i + 1]
  OBVIOUS
<1>2. Tail(posts) = <<>> <=> Len(Tail(posts)) = 0
  <2> DEFINE rest == Tail(posts)
  <2>1. rest \in Seq({"progress", "result", "failure"})
    BY <1>1
  <2> HIDE DEF rest
  <2>2. rest = <<>> <=> Len(rest) = 0
    BY <2>1, EmptyHasNoLength
  <2> QED
    BY <2>2 DEF rest
<1>3. Running(posts) => Head(posts) = "progress" /\ Running(Tail(posts))
  BY <1>1 DEF Running
<1>4. Ending(posts) /\ Head(posts) = "progress" => Ending(Tail(posts))
  <2> SUFFICES ASSUME Ending(posts), Head(posts) = "progress" PROVE Ending(Tail(posts))
    OBVIOUS
  <2>1. Len(posts) > 1
    BY <1>1 DEF Ending
  <2>2. Tail(posts) # <<>> /\ Tail(posts)[Len(Tail(posts))] = posts[Len(posts)]
    BY <1>1, <2>1, <1>2
  <2> QED
    BY <1>1, <2>1, <2>2 DEF Ending
<1>5. Ending(posts) /\ Head(posts) # "progress" => Tail(posts) = <<>>
  <2> SUFFICES ASSUME Ending(posts), Head(posts) # "progress" PROVE Tail(posts) = <<>>
    OBVIOUS
  <2>1. Len(posts) = 1
    BY <1>1 DEF Ending
  <2> QED
    BY <1>1, <1>2, <2>1
<1> QED
  BY <1>3, <1>4, <1>5

LEMMA PostedPosts ==
  ASSUME NEW posts \in Seq({"progress", "result", "failure"}), Running(posts)
  PROVE  /\ Running(Append(posts, "progress"))
         /\ \A how \in {"result", "failure"} : Ending(Append(posts, how))
<1>1. /\ Len(posts) \in Nat
      /\ \A what \in {"progress", "result", "failure"} :
           /\ Len(Append(posts, what)) = Len(posts) + 1 /\ Append(posts, what) # <<>>
           /\ Append(posts, what)[Len(posts) + 1] = what
           /\ \A i \in 1..Len(posts) : Append(posts, what)[i] = posts[i]
  OBVIOUS
<1> QED
  BY <1>1 DEF Running, Ending

(* Each step of a job keeps it alive in this sense. *)
LEMMA CreateLives ==
  ASSUME JobsTypeOK, JobsLive, NEW o \in Owners, Create(o)
  PROVE  JobsLive'
<1>1. /\ NewJob(o) \in Job /\ NewJob(o).posts = <<>> /\ NewJob(o).status = "running"
      /\ NewJob(o).events = <<>>
  BY NewJobType DEF NewJob, NoJob
<1>2. Silent(NewJob(o).events)
  BY <1>1 DEF Silent
<1> DEFINE ruled == Add(NewJob(o), "rules")
<1>3. ruled \in Job /\ ruled.posts = <<>> /\ ruled.status = "running"
      /\ ruled.events = Emit(NewJob(o), "rules").events
  BY <1>1, AddType DEF Add, Emit, Job
<1>4. Silent(ruled.events)
  BY <1>1, <1>2, <1>3, EmitSilent DEF EventName
<1> HIDE DEF ruled
<1>5. Lives(Completed(ruled))
  BY <1>3, <1>4, FinishSaid
<1>6. Lives([ruled EXCEPT !.stage = "setup"])
  BY <1>3, <1>4 DEF Lives, Job
<1>7. Lives([NewJob(o) EXCEPT !.stage = "refused"]) /\ Lives([NewJob(o) EXCEPT !.stage = "failed"])
  BY <1>1, <1>2 DEF Lives, Job
<1>8. \E new : Lives(new) /\ job' = [job EXCEPT ![NewId] = new]
  BY <1>5, <1>6, <1>7 DEF Create, ruled
<1> QED
  BY <1>8, CreateMakes DEF JobsLive, JobsTypeOK

LEMMA GateLives ==
  ASSUME JobsTypeOK, JobsLive, NEW j \in Ids, GateAnswers(j)
  PROVE  \E new : Lives(new) /\ Becomes(j, new)
<1> DEFINE told == Emit(job[j], "effective_llm")
<1>1. /\ job[j] \in Job /\ job[j].stage = "setup" /\ job[j].posts = <<>>
      /\ job[j].status # "done" /\ Silent(job[j].events)
  BY DEF JobsTypeOK, JobsLive, Lives, GateAnswers
<1>2. told \in Job /\ told.posts = <<>> /\ told.status # "done"
  <2>1. told \in Job
    BY <1>1, EmitType DEF EventName
  <2>2. told.posts = job[j].posts /\ told.status = job[j].status
    BY <1>1 DEF Emit, Job
  <2> QED
    BY <1>1, <2>1, <2>2
<1>3. Silent(told.events)
  BY <1>1, EmitSilent DEF EventName
<1> HIDE DEF told
<1>4. Running(<<>>)
  BY DEF Running
<1>5. Lives([told EXCEPT !.stage = "llm"])
  BY <1>2, <1>3, <1>4 DEF Lives, Job
<1>6. Lives(Completed(told))
  BY <1>2, <1>3, FinishSaid
<1>7. Lives([job[j] EXCEPT !.stage = "failed"])
  BY <1>1 DEF Lives, Job
<1> QED
  BY <1>5, <1>6, <1>7 DEF GateAnswers, told

LEMMA CallbackLives ==
  ASSUME JobsTypeOK, JobsLive, NEW j \in Ids, Callback(j)
  PROVE  \E new : Lives(new) /\ Becomes(j, new)
<1> DEFINE posts == job[j].posts
           taken == Taken(j)
           added == Add(taken, "llm")
           failed == Emit(taken, "checker_error")
<1>1. /\ job[j] \in Job /\ posts # <<>> /\ taken \in Job
      /\ posts \in Seq({"progress", "result", "failure"}) /\ Due(j) = Head(posts)
  BY CallbackType DEF JobsTypeOK, Callback, Due, Job
<1>2. /\ taken.posts = Tail(posts) /\ taken.stage = job[j].stage
      /\ taken.status = job[j].status /\ taken.events = job[j].events
  BY <1>1 DEF Taken, Job
<1>3. /\ job[j].status # "done" /\ Silent(job[j].events)
      /\ \/ job[j].stage = "llm" /\ Running(posts)
         \/ job[j].stage = "ending" /\ Ending(posts)
  BY <1>1 DEF JobsLive, Lives
<1> HIDE DEF posts, taken
<1>4. CASE Due(j) = "progress"
  <2>1. Lives(taken)
    BY <1>1, <1>2, <1>3, <1>4, TakenPosts DEF Lives
  <2>2. /\ Silent(Emit(taken, "llm_progress").events)
        /\ Emit(taken, "llm_progress").stage = taken.stage
        /\ Emit(taken, "llm_progress").posts = taken.posts
        /\ Emit(taken, "llm_progress").status = taken.status
    BY <1>1, <1>2, <1>3, EmitSilent DEF EventName, Emit, Job
  <2>3. Lives(Emit(taken, "llm_progress"))
    BY <1>1, <1>2, <1>3, <1>4, <2>2, TakenPosts DEF Lives
  <2> QED
    BY <1>4, <2>1, <2>3 DEF Callback, taken
<1>5. CASE Due(j) # "progress"
  <2>1. taken.posts = <<>> /\ Silent(taken.events)
    BY <1>1, <1>2, <1>3, <1>5, TakenPosts
  <2>2. added \in Job /\ added.posts = <<>> /\ Silent(added.events)
    BY <1>1, <2>1, AddType, OperationsSilent
  <2>3. Score(added) \in Job /\ Score(added).posts = <<>> /\ Silent(Score(added).events)
    BY <2>2, ScoreType, OperationsSilent
  <2>4. failed \in Job /\ failed.posts = <<>>
    BY <1>1, <2>1, EmitType DEF EventName, Emit, Job
  <2>5. Silent(failed.events)
    BY <1>1, <2>1, EmitSilent DEF EventName
  <2> HIDE DEF added, failed
  <2>6. Lives(Completed(added)) /\ Lives(Completed(Score(added))) /\ Lives(Completed(failed))
    BY <2>2, <2>3, <2>4, <2>5, FinishSaid
  <2> QED
    BY <1>5, <2>6 DEF Callback, Failure, taken, added, failed
<1> QED
  BY <1>4, <1>5

LEMMA PostLives ==
  ASSUME JobsTypeOK, JobsLive, NEW j \in Ids, NEW what \in {"progress", "result", "failure"},
         job[j].stage = "llm", Post(j, what)
  PROVE  JobsLive'
<1> DEFINE new == [job[j] EXCEPT
             !.posts = Append(@, what),
             !.stage = IF what = "progress" THEN @ ELSE "ending",
             !.reports = IF what = "progress" THEN @ + 1 ELSE @]
<1>1. job' = [job EXCEPT ![j] = new]
  BY DEF Post, JobsTypeOK
<1>2. /\ job[j] \in Job /\ job[j].posts \in Seq({"progress", "result", "failure"})
      /\ job[j].status # "done" /\ Silent(job[j].events) /\ Running(job[j].posts)
  BY DEF JobsTypeOK, Job, JobsLive, Lives
<1>3. /\ new.posts = Append(job[j].posts, what) /\ new.status = job[j].status
      /\ new.stage = (IF what = "progress" THEN "llm" ELSE "ending")
      /\ new.events = job[j].events
  BY <1>2 DEF Job
<1> HIDE DEF new
<1>4. Lives(new)
  BY <1>2, <1>3, PostedPosts DEF Lives
<1> QED
  BY <1>1, <1>4 DEF JobsLive, JobsTypeOK

LEMMA LivesStep ==
  ASSUME JobsTypeOK, JobsLive, [JobsNext]_jobVars
  PROVE  JobsLive'
<1>1. ASSUME NEW o \in Owners, Create(o) PROVE JobsLive'
  BY <1>1, CreateLives
<1>2. ASSUME NEW j \in Ids, GateAnswers(j) \/ Callback(j) PROVE JobsLive'
  <2>1. \E new : Lives(new) /\ Becomes(j, new)
    BY <1>2, GateLives, CallbackLives
  <2> QED
    BY <2>1 DEF Becomes, JobsLive, JobsTypeOK
<1>3. ASSUME NEW j \in Ids, Progress(j) \/ ProviderEnds(j) PROVE JobsLive'
  BY <1>3, PostLives DEF Progress, ProviderEnds
<1>4. CASE UNCHANGED job
  BY <1>4 DEF JobsLive
<1> QED
  BY <1>1, <1>2, <1>3, <1>4 DEF JobsNext, jobVars, Follow, Turn, Leave, PollStarts, PollAnswers, PollEnds

(* done is the last word of a job and its status says so: what the provider's *)
(* thread still posts finds its job running.                                  *)
THEOREM DoneLast == JobsSpec => []DoneIsLast
<1>1. JobsInit => JobsLive
  BY DEF JobsInit, NoJob, JobsLive, Lives, Silent
<1>2. JobsTypeOK /\ JobsLive /\ [JobsNext]_jobVars => JobsLive'
  BY LivesStep
<1>3. JobsTypeOK /\ JobsLive => DoneIsLast
  <2> SUFFICES ASSUME JobsTypeOK, JobsLive, NEW j \in Ids
               PROVE  /\ job[j].status = "done" <=>
                           (job[j].events # <<>> /\ job[j].events[Len(job[j].events)] = "done")
                      /\ \A i \in 1..(Len(job[j].events) - 1) : job[j].events[i] # "done"
    BY DEF DoneIsLast
  <2> DEFINE events == job[j].events
  <2>1. /\ events \in Seq(EventName)
        /\ \/ job[j].status = "done" /\ Said(events)
           \/ job[j].status # "done" /\ Silent(events)
    BY DEF JobsTypeOK, Job, JobsLive, Lives
  <2> HIDE DEF events
  <2>2. Len(events) \in Nat /\ (events # <<>> => Len(events) # 0)
    BY <2>1, EmptyHasNoLength
  <2>3. /\ job[j].status = "done" <=> (events # <<>> /\ events[Len(events)] = "done")
        /\ \A i \in 1..(Len(events) - 1) : events[i] # "done"
    BY <2>1, <2>2 DEF Said, Silent
  <2> QED
    BY <2>3 DEF events
<1> QED
  BY <1>1, <1>2, <1>3, TypeCorrect, PTL DEF JobsSpec

-----------------------------------------------------------------------------
(* Polls. *)

(* Nothing happens any more to a job that is done. *)
LEMMA FinishedRests ==
  ASSUME JobsTypeOK, JobsLive, [JobsNext]_jobVars, NEW j \in 1..made, job[j].status = "done"
  PROVE  job'[j] = job[j]
<1>1. j \in Ids /\ j # NewId
  BY JobsAssumption DEF JobsTypeOK, Ids, NewId
<1>2. job[j].stage = "over" /\ job[j].posts = <<>>
  BY <1>1 DEF JobsLive, Lives
<1>3. ASSUME NEW o \in Owners, Create(o) PROVE job'[j] = job[j]
  BY <1>1, <1>3, CreateMakes
<1>4. ASSUME NEW i \in Ids, GateAnswers(i) \/ Callback(i) \/ Progress(i) \/ ProviderEnds(i)
      PROVE  job'[j] = job[j]
  <2>1. i # j
    BY <1>2, <1>4 DEF GateAnswers, Callback, Progress, ProviderEnds
  <2>2. \E new : job' = [job EXCEPT ![i] = new]
    BY <1>4 DEF GateAnswers, Callback, Progress, ProviderEnds, Post, Becomes
  <2> QED
    BY <1>1, <2>1, <2>2 DEF JobsTypeOK
<1>5. CASE UNCHANGED job
  BY <1>5
<1> QED
  BY <1>3, <1>4, <1>5 DEF JobsNext, jobVars, Follow, Turn, Leave, PollStarts, PollAnswers, PollEnds

(* A poll that has read `done' polls a job that is done, and has its results  *)
(* once it has read them.                                                     *)
PollKnows ==
  poll.at # "off" =>
    /\ poll.job \in 1..made
    /\ poll.status = "done" => job[poll.job].status = "done"
    /\ poll.status = "done" /\ poll.at = "answered" =>
         poll.found = job[poll.job].found /\ poll.scored = job[poll.job].scored

LEMMA PollKnowsStep ==
  ASSUME JobsTypeOK, JobsLive, PollKnows, [JobsNext]_jobVars
  PROVE  PollKnows'
<1>1. made \in Nat /\ made' \in Nat /\ made <= made'
  BY JobsAssumption, OthersKeep, CreateMakes DEF JobsTypeOK, NewId
<1>2. CASE UNCHANGED poll
  <2> SUFFICES ASSUME poll.at # "off"
               PROVE  /\ poll.job \in 1..made'
                      /\ poll.status = "done" => job'[poll.job] = job[poll.job]
    BY <1>2 DEF PollKnows
  <2>1. poll.job \in 1..made'
    BY <1>1 DEF PollKnows
  <2>2. ASSUME poll.status = "done" PROVE job'[poll.job] = job[poll.job]
    BY <2>2, FinishedRests DEF PollKnows
  <2> QED
    BY <2>1, <2>2
<1>3. ASSUME NEW o \in Owners, PollStarts(o) PROVE PollKnows'
  <2>1. PICK j \in jobs : poll' = Read([NoPoll EXCEPT !.job = j, !.at = "between"], "status")
    BY <1>3 DEF PollStarts, Visible, Reads
  <2>2. poll'.job = j /\ poll'.status = job[j].status /\ poll'.at = "between"
    BY <2>1 DEF Read, NoPoll
  <2>3. j \in 1..made /\ UNCHANGED <<made, job>>
    BY <1>3 DEF JobsTypeOK, PollStarts
  <2> QED
    BY <2>2, <2>3 DEF PollKnows
<1>4. CASE PollAnswers
  <2>1. poll' = [Read(poll, "results") EXCEPT !.at = "answered"] /\ poll.at = "between"
        /\ UNCHANGED <<made, job>>
    BY <1>4 DEF PollAnswers, Reads
  <2>2. /\ poll'.job = poll.job /\ poll'.status = poll.status
        /\ poll'.found = job[poll.job].found /\ poll'.scored = job[poll.job].scored
    BY <2>1 DEF Read, JobsTypeOK
  <2> QED
    BY <2>1, <2>2 DEF PollKnows
<1>5. CASE PollEnds
  BY <1>5 DEF PollEnds, NoPoll, PollKnows
<1> QED
  BY <1>2, <1>3, <1>4, <1>5 DEF JobsNext, jobVars, Create, Follow, GateAnswers, Progress, ProviderEnds, Post,
     Callback, Turn, Leave

(* A poll reads field after field while the loop writes; because it reads the *)
(* status first, an answer that says done has all the job found.              *)
THEOREM AnswersWhole == JobsSpec => []DoneAnswersAreWhole
<1>1. JobsInit => JobsLive /\ PollKnows
  BY DEF JobsInit, NoJob, NoPoll, JobsLive, Lives, Silent, PollKnows
<1>2. JobsTypeOK /\ JobsLive /\ PollKnows /\ [JobsNext]_jobVars => (JobsLive /\ PollKnows)'
  BY LivesStep, PollKnowsStep
<1>3. PollKnows => DoneAnswersAreWhole
  BY DEF PollKnows, DoneAnswersAreWhole
<1> QED
  BY <1>1, <1>2, <1>3, TypeCorrect, PTL DEF JobsSpec

(* No reader of a stream sleeps on what is there for it, and a poll that says  *)
(* done has all of it.                                                        *)
THEOREM ReadersServed == JobsSpec => []ReadersAreServed
BY WokenReaders, AnswersWhole, PTL DEF ReadersAreServed

-----------------------------------------------------------------------------
(* The controller of the tab, and what carries its safety. *)

Page == [text : Texts, fast : 0..MaxChecks, llm : 0..MaxChecks,
         card : [check : 0..MaxChecks, stale : BOOLEAN]]
Check == [state : {"unused", "posted", "findings", "card", "done", "over"},
          user : Users \cup {Nobody}, doc : Docs \cup {NoDoc}, text : Texts,
          llm : BOOLEAN, gen : Generations, late : BOOLEAN]

\* Each session begins once and ends once.
Counted == gen <= 2 * moves + (IF user = Nobody THEN 0 ELSE 1)
OwnsOpen ==
  /\ user = Nobody => open = NoDoc
  /\ open # NoDoc => Owner[open] = user
  /\ \A d \in Docs : opening[d] # "no" => Owner[d] = user

\* A check ran for the owner of its document, in her session.
RanBy(c, u, g) ==
  c.state # "unused" =>
    /\ c.doc \in Docs /\ c.user = Owner[c.doc]
    /\ c.gen <= g /\ (c.gen = g => c.user = u)
RanByOwner == \A c \in Checks : RanBy(check[c], user, gen)

\* The check that took the epoch, and the one stream that is still followed.
LatestRan ==
  latest # NoRun => check[latest].state # "unused" /\ check[latest].gen = gen /\ open # NoDoc
OneStream == \A c \in Checks : Stream(c) => latest = c /\ current = c
InTheGap ==
  latest # NoRun /\ ~check[latest].late =>
    check[latest].doc = open /\ \A d \in Docs : opening[d] # "replaying"

\* What a page may show of the checks.
Fits(checks, d, p) ==
  /\ \A c \in Shown(p) : /\ checks[c].state # "unused" /\ checks[c].user = Owner[d]
                         /\ checks[c].doc = d \/ checks[c].late
  /\ p.card.check # NoRun /\ ~p.card.stale => checks[p.card.check].text = p.text
PagesFit == \A d \in Docs : Fits(check, d, page[d])

\* The type invariant, with its two records named.
Plain ==
  /\ user \in Users \cup {Nobody} /\ gen \in Generations /\ moves \in 0..MaxMoves
  /\ open \in Docs \cup {NoDoc}
  /\ dirty \in BOOLEAN /\ emptied \in BOOLEAN
  /\ opening \in [Docs -> {"no", "fetching", "replaying"}]
  /\ timers \subseteq {"fast", "llm"} /\ phase \in {"idle", "fast", "llm"}
  /\ latest \in 0..MaxChecks /\ current \in 0..MaxChecks

Inv == /\ ControllerTypeOK /\ Counted /\ OwnsOpen /\ RanByOwner
       /\ LatestRan /\ OneStream /\ InTheGap /\ PagesFit

-----------------------------------------------------------------------------
(* Checks that only move on, and what that keeps.                           *)

\* The check c is the run it was.
SameRun(old, new) ==
  old.state # "unused" =>
    /\ new.state # "unused"
    /\ new.user = old.user /\ new.doc = old.doc /\ new.text = old.text
    /\ new.gen = old.gen /\ new.late = old.late /\ new.llm = old.llm

LEMMA StillFits ==
  ASSUME NEW old, NEW new, \A c \in Checks : SameRun(old[c], new[c]),
         NEW d, NEW p \in Page, Fits(old, d, p)
  PROVE  Fits(new, d, p)
<1>1. Shown(p) \subseteq Checks
  BY DEF Shown, Page, Checks, NoRun
<1>2. p.card.check # NoRun => p.card.check \in Shown(p)
  BY DEF Shown
<1> QED
  BY <1>1, <1>2 DEF Fits, SameRun

\* Each check has the fields of a check, and its state is the only one to change.
MovesOn(c) ==
  /\ check'[c] \in Check /\ check' \in [Checks -> Check]
  /\ SameRun(check[c], check'[c])

LEMMA ClosedChecks ==
  ASSUME ControllerTypeOK
  PROVE  /\ Unsubscribed \in [Checks -> Check]
         /\ \A c \in Checks : /\ SameRun(check[c], Unsubscribed[c])
                              /\ Unsubscribed[c].state \notin {"findings", "card", "done"}
                              /\ Unsubscribed[c].state # "unused" => check[c].state # "unused"
                              /\ Unsubscribed[c] \in {check[c], [check[c] EXCEPT !.state = "over"]}
<1>1. check \in [Checks -> Check]
  BY DEF ControllerTypeOK, Check
<1> QED
  BY <1>1 DEF Unsubscribed, HasState, SameRun, Check

LEMMA AdvancedChecks ==
  ASSUME ControllerTypeOK, NEW c \in Checks, check[c].state # "unused",
         NEW s \in {"posted", "findings", "card", "done", "over"}, Advance(c, s)
  PROVE  /\ check' \in [Checks -> Check]
         /\ \A d \in Checks : SameRun(check[d], check'[d])
         /\ \A d \in Checks : d # c => check'[d] = check[d]
         /\ check'[c] = [check[c] EXCEPT !.state = s]
<1>1. check \in [Checks -> Check]
  BY DEF ControllerTypeOK, Check
<1> QED
  BY <1>1 DEF Advance, SameRun, Check

\* What the checks say of themselves, when the session stays.
LEMMA RunsStay ==
  ASSUME Inv, NEW new, \A c \in Checks : SameRun(check[c], new[c]),
         \A c \in Checks : new[c].state # "unused" => check[c].state # "unused"
  PROVE  \A c \in Checks : RanBy(new[c], user, gen)
BY DEF Inv, RanByOwner, RanBy, SameRun

LEMMA PagesStay ==
  ASSUME Inv, NEW new, \A c \in Checks : SameRun(check[c], new[c])
  PROVE  \A d \in Docs : Fits(new, d, page[d])
<1>1. \A d \in Docs : page[d] \in Page
  BY DEF Inv, ControllerTypeOK, Page
<1> QED
  BY <1>1, StillFits DEF Inv, PagesFit

-----------------------------------------------------------------------------
LEMMA InitInv == ControllerInit => Inv
<1> SUFFICES ASSUME ControllerInit PROVE Inv
  OBVIOUS
<1> USE ControllerAssumption DEF ControllerInit, NoCheck, NewPage, NoCard, Checks, NoRun
<1>1. ControllerTypeOK
  <2>1. gen \in Generations /\ moves \in 0..MaxMoves
    BY DEF Generations
  <2>2. page \in [Docs -> Page]
    BY DEF Page
  <2>3. check \in [Checks -> Check]
    BY <2>1 DEF Check
  <2>4. /\ opening \in [Docs -> {"no", "fetching", "replaying"}]
        /\ timers \subseteq {"fast", "llm"}
    OBVIOUS
  <2>5. 0 \in 0..MaxChecks
    OBVIOUS
  <2>6. Plain
    BY <2>1, <2>4, <2>5, Zenon DEF Plain
  <2> QED
    BY <2>2, <2>3, <2>6 DEF ControllerTypeOK, Plain, Page, Check
<1>2. Counted /\ OwnsOpen /\ LatestRan /\ InTheGap
  BY DEF Counted, OwnsOpen, LatestRan, InTheGap
<1>3. RanByOwner /\ OneStream
  BY DEF RanByOwner, RanBy, OneStream, Stream, HasState
<1>4. PagesFit
  BY DEF PagesFit, Fits, Shown
<1> QED
  BY <1>1, <1>2, <1>3, <1>4 DEF Inv

-----------------------------------------------------------------------------
(* Starting a check. *)

LEMMA RunCheckInv ==
  ASSUME Inv, NEW full \in BOOLEAN, RunCheck(full),
         timers' \subseteq {"fast", "llm"}
  PROVE  Inv'
<1> USE DEF Inv
<1>1. UNCHANGED <<user, gen, open, dirty, opening, current, moves>>
  BY DEF RunCheck
<1>2. check \in [Checks -> Check] /\ page \in [Docs -> Page] /\ open \in Docs \cup {NoDoc}
  BY DEF ControllerTypeOK, Check, Page
<1>3. CASE Text = Blank
  <2>1. /\ page' = IF open = NoDoc THEN page
                   ELSE [page EXCEPT ![open].fast = NoRun, ![open].llm = NoRun]
        /\ check' = Unsubscribed /\ latest' = NoRun /\ emptied' = TRUE /\ phase' = phase
    BY <1>3 DEF RunCheck
  <2>2. page' \in [Docs -> Page]
    BY <1>2, <2>1 DEF Page, NoRun
  <2>3. \A d \in Docs : Shown(page'[d]) \subseteq Shown(page[d]) /\ page'[d].card = page[d].card
                        /\ page'[d].text = page[d].text
    BY <1>2, <2>1 DEF Shown, Page
  <2>4. ControllerTypeOK'
    <3>1. Plain'
      BY <1>1, <2>1, ControllerAssumption DEF ControllerTypeOK, Plain, NoRun
    <3>2. check' \in [Checks -> Check]
      BY <2>1, ClosedChecks
    <3> QED
      BY <2>2, <3>1, <3>2 DEF ControllerTypeOK, Plain, Page, Check
  <2>5. Counted' /\ OwnsOpen'
    BY <1>1 DEF Counted, OwnsOpen
  <2>6. RanByOwner'
    BY <1>1, <2>1, ClosedChecks, RunsStay DEF RanByOwner
  <2>7. LatestRan' /\ InTheGap'
    BY <2>1 DEF LatestRan, InTheGap
  <2>8. OneStream'
    BY <2>1, ClosedChecks DEF OneStream, Stream, HasState
  <2>9. PagesFit'
    <3> SUFFICES ASSUME NEW d \in Docs PROVE Fits(check', d, page'[d])
      BY DEF PagesFit
    <3>1. Fits(check', d, page[d])
      BY <2>1, ClosedChecks, PagesStay
    <3> QED
      BY <2>3, <3>1 DEF Fits
  <2> QED
    BY <2>4, <2>5, <2>6, <2>7, <2>8, <2>9
<1>4. CASE Text # Blank
  <2>1. PICK c \in Unused, llm \in {FALSE, full} :
          /\ \A other \in Unused : c <= other
          /\ check' = [Unsubscribed EXCEPT
                         ![c] = [state |-> "posted", user |-> user, doc |-> open,
                                 text |-> Text, llm |-> llm, gen |-> gen,
                                 late |-> \E d \in Docs : opening[d] = "replaying"]]
          /\ latest' = c /\ emptied' = FALSE
          /\ phase' = IF llm THEN "llm" ELSE "fast"
          /\ UNCHANGED page
    BY <1>4 DEF RunCheck
  <2> DEFINE new == [state |-> "posted", user |-> user, doc |-> open,
                     text |-> Text, llm |-> llm, gen |-> gen,
                     late |-> \E d \in Docs : opening[d] = "replaying"]
  <2>2. c \in Checks /\ check[c].state = "unused" /\ c # NoRun /\ c \in 0..MaxChecks
    BY DEF Unused, HasState, Checks, NoRun
  <2>3. open \in Docs /\ Text \in Texts /\ Owner[open] = user /\ user \in Users \cup {Nobody}
        /\ gen \in Generations
    BY <1>2, <1>4 DEF Text, OwnsOpen, ControllerTypeOK, Page
  <2>4. new \in Check
    BY <2>3 DEF Check
  <2>5. check' \in [Checks -> Check] /\ check'[c] = new
        /\ \A d \in Checks : d # c => check'[d] = Unsubscribed[d]
    BY <2>1, <2>2, <2>4, ClosedChecks
  <2> HIDE DEF new
  <2>6. \A d \in Checks : SameRun(check[d], check'[d])
    BY <2>2, <2>5, ClosedChecks DEF SameRun
  <2>7. ControllerTypeOK'
    <3>1. Plain'
      BY <1>1, <2>1, <2>2 DEF ControllerTypeOK, Plain
    <3>2. page' \in [Docs -> Page]
      BY <1>2, <2>1
    <3> QED
      BY <2>5, <3>1, <3>2 DEF ControllerTypeOK, Plain, Page, Check
  <2>8. Counted' /\ OwnsOpen'
    BY <1>1 DEF Counted, OwnsOpen
  <2>9. RanByOwner'
    <3>1. RanBy(new, user, gen)
      BY <2>3 DEF RanBy, new, Generations
    <3>2. ASSUME NEW d \in Checks, d # c PROVE RanBy(check'[d], user, gen)
      <4>1. check'[d].state # "unused" => check[d].state # "unused"
        BY <2>5, <3>2, ClosedChecks
      <4> QED
        BY <2>6, <4>1 DEF RanByOwner, RanBy, SameRun
    <3> QED
      BY <1>1, <2>5, <3>1, <3>2 DEF RanByOwner
  <2>10. LatestRan' /\ InTheGap'
    <3>1. open # NoDoc
      BY <2>3, ControllerAssumption
    <3> QED
      BY <1>1, <2>1, <2>5, <3>1 DEF LatestRan, InTheGap, new
  <2>11. OneStream'
    BY <2>5, ClosedChecks DEF OneStream, Stream, HasState, new
  <2>12. PagesFit'
    BY <2>1, <2>6, PagesStay DEF PagesFit
  <2> QED
    BY <2>7, <2>8, <2>9, <2>10, <2>11, <2>12
<1> QED
  BY <1>3, <1>4

-----------------------------------------------------------------------------
(* The answers. *)

\* A check moves on, and the open page takes something of it at most.
LEMMA AnswerInv ==
  ASSUME Inv, NEW c \in Checks, check[c].state # "unused",
         NEW s \in {"findings", "card", "done", "over"}, Advance(c, s),
         UNCHANGED <<Rest, latest>>, dirty' \in BOOLEAN,
         phase' \in {"idle", "fast", "llm"}, current' \in 0..MaxChecks,
         page' \in [Docs -> Page],
         \A d \in Docs : page'[d] # page[d] => Fits(check, d, page'[d]),
         s \in {"findings", "card", "done"} => latest = c /\ current' = c,
         s = "over" => current' = current \/ current = c \/ ~Stream(current)
  PROVE  Inv'
<1> USE DEF Inv
<1>1. /\ check' \in [Checks -> Check]
      /\ \A d \in Checks : SameRun(check[d], check'[d])
      /\ \A d \in Checks : d # c => check'[d] = check[d]
      /\ check'[c] = [check[c] EXCEPT !.state = s]
  BY AdvancedChecks
<1>2. UNCHANGED <<user, gen, open, opening, timers, emptied, moves, latest>>
  BY DEF Rest
<1>3. check \in [Checks -> Check] /\ page \in [Docs -> Page]
  BY DEF ControllerTypeOK, Check, Page
<1>4. ControllerTypeOK'
  <2>1. Plain'
    BY <1>2 DEF ControllerTypeOK, Plain
  <2> QED
    BY <1>1, <2>1 DEF ControllerTypeOK, Plain, Page, Check
<1>5. Counted' /\ OwnsOpen'
  BY <1>2 DEF Counted, OwnsOpen
<1>6. RanByOwner'
  BY <1>1, <1>2, RunsStay DEF RanByOwner
<1>7. LatestRan' /\ InTheGap'
  <2>1. latest # NoRun => latest \in Checks
    BY DEF ControllerTypeOK, Checks, NoRun
  <2> QED
    BY <1>1, <1>2, <2>1 DEF LatestRan, InTheGap, SameRun
<1>8. OneStream'
  <2>1. ASSUME NEW d \in Checks, Stream(d)' PROVE latest = d /\ current' = d
    <3>1. CASE d = c
      BY <1>1, <1>3, <2>1, <3>1 DEF Stream, HasState, Check
    <3>2. CASE d # c
      <4>1. Stream(d)
        BY <1>1, <2>1, <3>2 DEF Stream, HasState
      <4>2. latest = d /\ current = d
        BY <4>1 DEF OneStream
      <4> QED
        BY <3>2, <4>1, <4>2
    <3> QED
      BY <3>1, <3>2
  <2> QED
    BY <1>2, <2>1 DEF OneStream
<1>9. PagesFit'
  <2> SUFFICES ASSUME NEW d \in Docs PROVE Fits(check', d, page'[d])
    BY DEF PagesFit
  <2>1. Fits(check, d, page'[d])
    BY DEF PagesFit
  <2> QED
    BY <1>1, <2>1, StillFits
<1> QED
  BY <1>4, <1>5, <1>6, <1>7, <1>8, <1>9

\* The check that may be applied, to the page in the editor.
LEMMA WantedFits ==
  ASSUME Inv, NEW c \in Checks, latest = c, open # NoDoc,
         NEW sources \in SUBSET {"fast", "llm"}
  PROVE  /\ open \in Docs
         /\ Merge(c, sources, page[open]) \in Page
         /\ Fits(check, open, Merge(c, sources, page[open]))
         /\ Scored(c, page[open]) \in Page
         /\ Fits(check, open, Scored(c, page[open]))
<1>1. open \in Docs /\ page[open] \in Page /\ Fits(check, open, page[open])
  BY DEF Inv, ControllerTypeOK, Page, PagesFit
<1>2. c # NoRun /\ c \in 0..MaxChecks
  BY DEF Checks, NoRun
<1>3. /\ check[c].state # "unused" /\ check[c].user = Owner[open]
      /\ check[c].doc = open \/ check[c].late
  BY <1>1, <1>2 DEF Inv, LatestRan, RanByOwner, RanBy, OwnsOpen, InTheGap
<1>4. Merge(c, sources, page[open]) \in Page /\ Scored(c, page[open]) \in Page
  BY <1>1, <1>2 DEF Merge, MergeAnyText, Scored, Page
<1>5. Shown(Merge(c, sources, page[open])) \subseteq Shown(page[open]) \cup {c}
  BY <1>1, <1>2 DEF Merge, MergeAnyText, Shown, Page
<1>6. Shown(Scored(c, page[open])) \subseteq Shown(page[open]) \cup {c}
  BY <1>1, <1>2 DEF Scored, Shown, Page
<1>7. Fits(check, open, Merge(c, sources, page[open]))
  BY <1>1, <1>3, <1>5 DEF Fits, Merge, MergeAnyText, Page
<1>8. Fits(check, open, Scored(c, page[open]))
  BY <1>1, <1>3, <1>6 DEF Fits, Scored, Page
<1> QED
  BY <1>1, <1>4, <1>7, <1>8

LEMMA AppliedFits ==
  ASSUME Inv, NEW c \in Checks, latest = c, NEW sources \in SUBSET {"fast", "llm"}, Apply(sources, c)
  PROVE  /\ page' \in [Docs -> Page] /\ dirty' \in BOOLEAN
         /\ \A d \in Docs : page'[d] # page[d] => Fits(check, d, page'[d])
<1>1. page \in [Docs -> Page] /\ dirty \in BOOLEAN
  BY DEF Inv, ControllerTypeOK, Page
<1>2. CASE open = NoDoc
  BY <1>1, <1>2 DEF Apply
<1>3. CASE open # NoDoc
  BY <1>1, <1>3, WantedFits DEF Apply
<1> QED
  BY <1>2, <1>3

LEMMA StreamsAreWanted ==
  ASSUME Inv, NEW c \in Checks, Stream(c)
  PROVE  latest = c /\ current = c /\ check[c].state # "unused"
BY DEF Inv, OneStream, Stream, HasState

LEMMA AnsweredInv ==
  ASSUME Inv, NEW c \in Checks, PostAnswered(c) \/ Failed(c)
  PROVE  Inv'
<1> USE DEF Inv
<1>1. check[c].state # "unused" /\ ~Stream(c) /\ c \in 0..MaxChecks
  BY DEF PostAnswered, Failed, Posted, HasState, Stream, Checks
<1>2. /\ page \in [Docs -> Page] /\ dirty \in BOOLEAN /\ current \in 0..MaxChecks
      /\ phase \in {"idle", "fast", "llm"}
  BY DEF ControllerTypeOK, Page
<1>3. CASE Failed(c)
  <2>1. Advance(c, "over") /\ UNCHANGED <<Rest, latest, page, dirty, current>>
        /\ phase' \in {"idle", "fast", "llm"}
    BY <1>2, <1>3 DEF Failed, Settled
  <2> QED
    BY <1>1, <1>2, <2>1, AnswerInv
<1>4. CASE PostAnswered(c) /\ ~Wanted(c)
  <2>1. Advance(c, "over") /\ UNCHANGED <<Rest, latest, page, dirty, phase, current>>
    BY <1>4 DEF PostAnswered
  <2> QED
    BY <1>1, <1>2, <2>1, AnswerInv
<1>5. CASE PostAnswered(c) /\ Wanted(c)
  <2>1. latest = c /\ Apply({"fast"}, c) /\ UNCHANGED <<Rest, latest>>
    BY <1>5 DEF PostAnswered, Wanted
  <2>2. \/ Advance(c, "over") /\ Settled /\ UNCHANGED current
        \/ Advance(c, "findings") /\ current' = c /\ UNCHANGED phase
    BY <1>5 DEF PostAnswered
  <2>3. /\ page' \in [Docs -> Page] /\ dirty' \in BOOLEAN
        /\ \A d \in Docs : page'[d] # page[d] => Fits(check, d, page'[d])
    BY <2>1, AppliedFits
  <2>4. CASE Advance(c, "over") /\ Settled /\ UNCHANGED current
    BY <1>1, <1>2, <2>1, <2>3, <2>4, AnswerInv DEF Settled
  <2>5. CASE Advance(c, "findings") /\ current' = c /\ UNCHANGED phase
    BY <1>1, <1>2, <2>1, <2>3, <2>5, AnswerInv
  <2> QED
    BY <2>2, <2>4, <2>5
<1> QED
  BY <1>3, <1>4, <1>5

LEMMA StreamInv ==
  ASSUME Inv, NEW c \in Checks, FindingsArrive(c) \/ CardArrives(c) \/ StreamEnds(c)
  PROVE  Inv'
<1> USE DEF Inv
<1>1. Stream(c)
  BY DEF FindingsArrive, CardArrives, StreamEnds, Stream, HasState
<1>2. latest = c /\ current = c /\ check[c].state # "unused" /\ c \in 0..MaxChecks
  BY <1>1, StreamsAreWanted DEF Checks
<1>3. /\ page \in [Docs -> Page] /\ dirty \in BOOLEAN /\ current \in 0..MaxChecks
      /\ phase \in {"idle", "fast", "llm"}
  BY DEF ControllerTypeOK, Page
<1>4. CASE FindingsArrive(c)
  <2>1. Advance(c, "card") /\ Apply({"llm"}, c) /\ UNCHANGED <<Rest, phase, latest, current>>
    BY <1>2, <1>4 DEF FindingsArrive
  <2>2. /\ page' \in [Docs -> Page] /\ dirty' \in BOOLEAN
        /\ \A d \in Docs : page'[d] # page[d] => Fits(check, d, page'[d])
    BY <1>2, <2>1, AppliedFits
  <2> QED
    BY <1>2, <1>3, <2>1, <2>2, AnswerInv
<1>5. CASE CardArrives(c)
  <2>1. Advance(c, "done") /\ UNCHANGED <<Rest, phase, latest, current>>
    BY <1>5 DEF CardArrives
  <2>2. /\ page' \in [Docs -> Page] /\ dirty' \in BOOLEAN
        /\ \A d \in Docs : page'[d] # page[d] => Fits(check, d, page'[d])
    <3>1. CASE open = NoDoc
      BY <1>3, <1>5, <3>1 DEF CardArrives
    <3>2. CASE open # NoDoc
      BY <1>2, <1>3, <1>5, <3>2, WantedFits DEF CardArrives
    <3> QED
      BY <3>1, <3>2
  <2> QED
    BY <1>2, <1>3, <2>1, <2>2, AnswerInv
<1>6. CASE StreamEnds(c)
  <2>1. Advance(c, "over") /\ UNCHANGED <<Rest, page, dirty, latest>> /\ phase' = "idle" /\ current' = NoRun
    BY <1>2, <1>6 DEF StreamEnds, Settled
  <2>2. current' \in 0..MaxChecks
    BY <2>1, ControllerAssumption DEF NoRun
  <2> QED
    BY <1>2, <1>3, <2>1, <2>2, AnswerInv
<1> QED
  BY <1>4, <1>5, <1>6

-----------------------------------------------------------------------------
(* The text. *)

LEMMA TextInv ==
  ASSUME Inv, NEW t \in Texts, Type(t) \/ LoadExample(t) \/ Saved
  PROVE  Inv'
<1> USE DEF Inv
<1>1. UNCHANGED <<user, gen, open, opening, phase, latest, current, emptied, check, moves>>
  BY DEF Type, LoadExample, Saved, Untouched
<1>2. page \in [Docs -> Page]
  BY DEF ControllerTypeOK, Page
<1>3. page' \in [Docs -> Page] /\ \A d \in Docs : Fits(check, d, page'[d])
  <2>1. CASE Saved
    BY <1>2, <2>1 DEF Saved, PagesFit
  <2>2. CASE Type(t) \/ LoadExample(t)
    <3> DEFINE typed == [Stale(page[open]) EXCEPT !.text = t]
               loaded == [page[open] EXCEPT !.text = t, !.card = NoCard]
    <3>1. open \in Docs /\ page[open] \in Page /\ Fits(check, open, page[open])
      BY <2>2 DEF Type, LoadExample, ControllerTypeOK, Page, PagesFit
    <3>2. typed \in Page /\ loaded \in Page
      <4>1. NoCard \in [check : 0..MaxChecks, stale : BOOLEAN]
        BY ControllerAssumption DEF NoCard, NoRun
      <4>2. loaded \in Page
        BY <3>1, <4>1 DEF Page
      <4>3. Stale(page[open]) \in Page
        BY <3>1 DEF Page, Stale
      <4> QED
        BY <4>2, <4>3 DEF Page
    <3>3. Shown(typed) = Shown(page[open]) /\ Shown(loaded) \subseteq Shown(page[open])
      BY <3>1 DEF Page, Stale, NoCard, Shown
    <3>4. Fits(check, open, typed) /\ Fits(check, open, loaded)
      BY <3>1, <3>3 DEF Fits, Page, Stale, NoCard
    <3>5. page' = [page EXCEPT ![open] = typed] \/ page' = [page EXCEPT ![open] = loaded]
      BY <1>2, <2>2, <3>1 DEF Type, LoadExample, Stale, Page
    <3> HIDE DEF typed, loaded
    <3> QED
      BY <1>2, <3>1, <3>2, <3>4, <3>5 DEF PagesFit
  <2> QED
    BY <2>1, <2>2
<1>4. dirty' \in BOOLEAN /\ timers' \subseteq {"fast", "llm"}
  BY DEF Type, LoadExample, Saved, Armed, ControllerTypeOK
<1>5. ControllerTypeOK'
  <2>1. Plain'
    BY <1>1, <1>4 DEF ControllerTypeOK, Plain
  <2> QED
    BY <1>1, <1>3, <2>1 DEF ControllerTypeOK, Plain, Page, Check
<1>6. Counted' /\ OwnsOpen' /\ RanByOwner' /\ LatestRan' /\ OneStream' /\ InTheGap'
  BY <1>1 DEF Counted, OwnsOpen, RanByOwner, LatestRan, OneStream, Stream, HasState, InTheGap
<1> QED
  BY <1>1, <1>3, <1>5, <1>6 DEF PagesFit

-----------------------------------------------------------------------------
(* The document. *)

\* A document is fetched: only this touches nothing but how far it has come.
LEMMA OpeningInv ==
  ASSUME Inv, NEW d \in Docs, Open(d) \/ FetchFails(d)
  PROVE  Inv'
<1> USE DEF Inv
<1>1. UNCHANGED <<user, gen, open, page, dirty, timers, phase, latest, current, emptied, check>>
  BY DEF Open, FetchFails
<1>2. /\ opening' \in [Docs -> {"no", "fetching", "replaying"}]
      /\ \A e \in Docs : opening'[e] = opening[e] \/ opening'[e] = "no"
                         \/ (opening'[e] = "fetching" /\ Owner[e] = user)
  BY DEF Open, FetchFails, ControllerTypeOK
<1>3. moves' \in 0..MaxMoves /\ moves' >= moves
  BY ControllerAssumption DEF Open, FetchFails, ControllerTypeOK
<1>4. ControllerTypeOK'
  <2>1. Plain'
    BY <1>1, <1>2, <1>3 DEF ControllerTypeOK, Plain
  <2> QED
    BY <1>1, <2>1 DEF ControllerTypeOK, Plain, Page, Check
<1>5. Counted'
  <2>1. gen \in Int /\ moves \in Int /\ moves' \in Int
    BY <1>3 DEF ControllerTypeOK, Generations
  <2>2. user' = user /\ gen' = gen
    BY <1>1
  <2>3. PICK n \in {0, 1} : n = (IF user = Nobody THEN 0 ELSE 1)
    OBVIOUS
  <2>4. gen <= 2 * moves + n
    BY <2>3 DEF Counted
  <2>5. ASSUME NEW g \in Int, NEW k \in Int, NEW l \in Int, k <= l, g <= 2 * k + n
        PROVE  g <= 2 * l + n
    BY <2>5
  <2>6. gen' <= 2 * moves' + n
    <3>1. moves <= moves'
      BY <1>3, <2>1
    <3> QED
      BY <2>1, <2>2, <2>4, <2>5, <3>1
  <2> QED
    BY <2>2, <2>3, <2>6 DEF Counted
<1>6. OwnsOpen' /\ RanByOwner' /\ LatestRan' /\ OneStream' /\ InTheGap' /\ PagesFit'
  BY <1>1, <1>2
  DEF OwnsOpen, RanByOwner, LatestRan, OneStream, Stream, HasState, InTheGap, PagesFit
<1> QED
  BY <1>4, <1>5, <1>6

LEMMA ShownDocument ==
  ASSUME Inv, NEW d \in Docs, opening[d] # "no", Show(d)
  PROVE  /\ open' = d /\ Owner[d] = user /\ dirty' \in BOOLEAN
         /\ opening' \in [Docs -> {"no", "fetching", "replaying"}]
         /\ \A e \in Docs : opening'[e] \in {opening[e], "no"}
         /\ timers' \subseteq {"fast", "llm"}
<1>1. Owner[d] = user
  BY DEF Inv, OwnsOpen
<1>2. /\ opening' \in [Docs -> {"no", "fetching", "replaying"}]
      /\ \A e \in Docs : opening'[e] \in {opening[e], "no"}
  BY DEF Show, Inv, ControllerTypeOK
<1>3. timers' \subseteq {"fast", "llm"}
  BY DEF Show, Armed, Inv, ControllerTypeOK
<1> QED
  BY <1>1, <1>2, <1>3 DEF Show

\* Whatever cancels the check in flight and leaves the pages: no stream is left.
LEMMA CancelledInv ==
  ASSUME Inv, latest' = NoRun, phase' = "idle", current' = NoRun, emptied' = FALSE,
         check' \in [Checks -> Check],
         \A c \in Checks : /\ SameRun(check[c], check'[c]) /\ ~Stream(c)'
                           /\ check'[c].state # "unused" => check[c].state # "unused",
         page' = page, user' \in Users \cup {Nobody}, open' \in Docs \cup {NoDoc},
         (gen' = gen /\ user' = user) \/ gen' = gen + 1,
         moves' \in 0..MaxMoves, Counted', OwnsOpen', dirty' \in BOOLEAN,
         opening' \in [Docs -> {"no", "fetching", "replaying"}],
         timers' \subseteq {"fast", "llm"}
  PROVE  Inv'
<1> USE DEF Inv
<1>1. gen \in 0..(2 * MaxMoves + 1) /\ gen' \in 0..(2 * MaxMoves + 1)
  BY ControllerAssumption DEF Counted, ControllerTypeOK, Generations
<1>2. ControllerTypeOK'
  <2>1. gen' \in Generations
    BY <1>1 DEF Generations
  <2>2. latest' \in 0..MaxChecks /\ current' \in 0..MaxChecks
    BY ControllerAssumption DEF NoRun
  <2>3. Plain'
    BY <2>1, <2>2 DEF Plain
  <2> QED
    BY <2>3 DEF ControllerTypeOK, Plain, Page, Check
<1>3. RanByOwner'
  <2> SUFFICES ASSUME NEW c \in Checks, check'[c].state # "unused" PROVE RanBy(check'[c], user', gen')
    BY DEF RanByOwner, RanBy
  <2>1. RanBy(check[c], user, gen) /\ SameRun(check[c], check'[c]) /\ check[c].state # "unused"
    BY DEF RanByOwner
  <2>2. check[c].gen \in Generations
    BY DEF ControllerTypeOK
  <2> QED
    BY <1>1, <2>1, <2>2 DEF RanBy, SameRun, Generations
<1>4. LatestRan' /\ InTheGap' /\ OneStream'
  BY DEF LatestRan, InTheGap, OneStream
<1>5. PagesFit'
  BY PagesStay DEF PagesFit
<1> QED
  BY <1>2, <1>3, <1>4, <1>5

LEMMA FetchedInv ==
  ASSUME Inv, NEW d \in Docs, Fetched(d)
  PROVE  Inv'
<1>1. /\ latest' = NoRun /\ current' = NoRun /\ phase' = "idle" /\ emptied' = FALSE
      /\ check' = Unsubscribed /\ UNCHANGED <<user, gen, page, moves>> /\ opening[d] = "fetching"
  BY DEF Fetched, CancelCheck
<1>2. /\ Owner[d] = user /\ open' \in {open, d} /\ dirty' \in BOOLEAN
      /\ opening' \in [Docs -> {"no", "fetching", "replaying"}]
      /\ \A e \in Docs : opening'[e] \in {opening[e], "no"} \/ e = d
      /\ timers' \subseteq {"fast", "llm"}
  <2>1. CASE dirty /\ d # open
    BY <1>1, <2>1 DEF Fetched, Inv, ControllerTypeOK, OwnsOpen
  <2>2. CASE ~(dirty /\ d # open)
    <3>1. Show(d)
      BY <2>2 DEF Fetched
    <3> QED
      BY <1>1, <3>1, ShownDocument
  <2> QED
    BY <2>1, <2>2
<1>3. OwnsOpen'
  BY <1>1, <1>2, ControllerAssumption DEF Inv, OwnsOpen
<1>4. Counted'
  BY <1>1 DEF Inv, Counted
<1>5. /\ check' \in [Checks -> Check]
      /\ \A c \in Checks : /\ SameRun(check[c], check'[c]) /\ ~Stream(c)'
                           /\ check'[c].state # "unused" => check[c].state # "unused"
  BY <1>1, ClosedChecks DEF Inv, Stream, HasState
<1>6. /\ user' \in Users \cup {Nobody} /\ open' \in Docs \cup {NoDoc} /\ moves' \in 0..MaxMoves
      /\ gen' = gen /\ user' = user
  BY <1>1, <1>2 DEF Inv, ControllerTypeOK
<1> QED
  BY <1>1, <1>2, <1>3, <1>4, <1>5, <1>6, CancelledInv

\* A document is shown without cancelling anything: the check in flight, if there
\* is one, was started in the gap.
LEMMA ReplayedInv ==
  ASSUME Inv, NEW d \in Docs, Replayed(d)
  PROVE  Inv'
<1> USE DEF Inv
<1>1. UNCHANGED <<user, gen, page, phase, latest, current, emptied, check, moves>>
      /\ opening[d] = "replaying" /\ Show(d)
  BY DEF Replayed
<1>2. /\ open' = d /\ Owner[d] = user /\ dirty' \in BOOLEAN
      /\ opening' \in [Docs -> {"no", "fetching", "replaying"}]
      /\ \A e \in Docs : opening'[e] \in {opening[e], "no"}
      /\ timers' \subseteq {"fast", "llm"}
  BY <1>1, ShownDocument
<1>3. ControllerTypeOK'
  <2>1. Plain'
    BY <1>1, <1>2 DEF ControllerTypeOK, Plain
  <2> QED
    BY <1>1, <2>1 DEF ControllerTypeOK, Plain, Page, Check
<1>4. OwnsOpen' /\ LatestRan'
  BY <1>1, <1>2, ControllerAssumption DEF OwnsOpen, LatestRan
<1>5. InTheGap'
  BY <1>1 DEF InTheGap
<1>6. Counted' /\ RanByOwner' /\ OneStream' /\ PagesFit'
  BY <1>1 DEF Counted, RanByOwner, OneStream, Stream, HasState, PagesFit
<1> QED
  BY <1>3, <1>4, <1>5, <1>6

-----------------------------------------------------------------------------
(* The session. *)

LEMMA SignInInv ==
  ASSUME Inv, NEW u \in Users, SignIn(u)
  PROVE  Inv'
<1>1. /\ latest' = NoRun /\ current' = NoRun /\ phase' = "idle" /\ emptied' = FALSE
      /\ check' = Unsubscribed /\ user = Nobody /\ user' = u /\ gen' = gen + 1
      /\ UNCHANGED <<open, page, dirty, timers, moves>>
  BY DEF SignIn, CancelCheck
<1>2. PICK d \in Docs : Owner[d] = u /\ opening' = [opening EXCEPT ![d] = "fetching"]
  BY DEF SignIn
<1>3. /\ open = NoDoc /\ u # Nobody
      /\ \A e \in Docs : opening[e] = "no"
  BY <1>1, ControllerAssumption DEF Inv, OwnsOpen
<1>4. opening' \in [Docs -> {"no", "fetching", "replaying"}]
      /\ \A e \in Docs : opening'[e] # "no" => e = d
  BY <1>2, <1>3 DEF Inv, ControllerTypeOK
<1>5. OwnsOpen'
  BY <1>1, <1>2, <1>3, <1>4 DEF OwnsOpen
<1>6. Counted'
  BY <1>1, <1>3 DEF Inv, Counted, ControllerTypeOK, Generations
<1>7. /\ check' \in [Checks -> Check]
      /\ \A c \in Checks : /\ SameRun(check[c], check'[c]) /\ ~Stream(c)'
                           /\ check'[c].state # "unused" => check[c].state # "unused"
  BY <1>1, ClosedChecks DEF Inv, Stream, HasState
<1>8. /\ user' \in Users \cup {Nobody} /\ open' \in Docs \cup {NoDoc} /\ moves' \in 0..MaxMoves
      /\ timers' \subseteq {"fast", "llm"} /\ dirty' \in BOOLEAN
  BY <1>1 DEF Inv, ControllerTypeOK
<1> QED
  BY <1>1, <1>4, <1>5, <1>6, <1>7, <1>8, CancelledInv

LEMMA SessionEndsInv ==
  ASSUME Inv, NEW answered \in SUBSET Checks, SessionEnds(answered),
         \A c \in answered : check[c].state # "unused"
  PROVE  Inv'
<1>1. /\ latest' = NoRun /\ current' = NoRun /\ phase' = "idle" /\ emptied' = FALSE
      /\ user # Nobody /\ user' = Nobody /\ gen' = gen + 1 /\ moves < MaxMoves /\ moves' = moves + 1
      /\ open' = NoDoc /\ dirty' = FALSE /\ timers' = {} /\ opening' = [d \in Docs |-> "no"]
      /\ page' = page
      /\ check' = [c \in Checks |-> IF c \in answered THEN [check[c] EXCEPT !.state = "over"]
                                                      ELSE Unsubscribed[c]]
  BY DEF SessionEnds
<1>2. /\ check' \in [Checks -> Check]
      /\ \A c \in Checks : /\ SameRun(check[c], check'[c]) /\ ~Stream(c)'
                           /\ check'[c].state # "unused" => check[c].state # "unused"
  <2>1. check \in [Checks -> Check]
    BY DEF Inv, ControllerTypeOK, Check
  <2>2. ASSUME NEW c \in Checks
        PROVE  /\ check'[c] \in Check /\ SameRun(check[c], check'[c])
               /\ check'[c].state \notin {"findings", "card", "done"}
               /\ check'[c].state # "unused" => check[c].state # "unused"
    <3>1. CASE c \in answered
      BY <1>1, <2>1, <3>1 DEF SameRun, Check
    <3>2. CASE c \notin answered
      BY <1>1, <3>2, ClosedChecks DEF Inv
    <3> QED
      BY <3>1, <3>2
  <2> QED
    BY <1>1, <2>2 DEF Stream, HasState
<1>3. OwnsOpen'
  BY <1>1 DEF OwnsOpen
<1>4. Counted' /\ moves' \in 0..MaxMoves
  BY <1>1, ControllerAssumption DEF Inv, Counted, ControllerTypeOK, Generations
<1>5. /\ user' \in Users \cup {Nobody} /\ open' \in Docs \cup {NoDoc}
      /\ timers' \subseteq {"fast", "llm"} /\ dirty' \in BOOLEAN
      /\ opening' \in [Docs -> {"no", "fetching", "replaying"}]
  BY <1>1
<1> QED
  BY <1>1, <1>2, <1>3, <1>4, <1>5, CancelledInv

-----------------------------------------------------------------------------
LEMMA StepInv == Inv /\ [ControllerNext]_controllerVars => Inv'
<1> SUFFICES ASSUME Inv, [ControllerNext]_controllerVars PROVE Inv'
  OBVIOUS
<1>1. CASE FastTimer
  <2>1. RunCheck(FALSE) /\ timers' \subseteq {"fast", "llm"}
    BY <1>1 DEF FastTimer, Inv, ControllerTypeOK
  <2> QED
    BY <2>1, RunCheckInv
<1>2. CASE LlmTimer \/ CheckButton
  <2>1. RunCheck(TRUE) /\ timers' \subseteq {"fast", "llm"}
    BY <1>2 DEF LlmTimer, CheckButton, Inv, ControllerTypeOK
  <2> QED
    BY <2>1, RunCheckInv
<1>3. ASSUME NEW c \in Checks, Unauthorized(c) PROVE Inv'
  <2>1. check[c].state # "unused" /\ SessionEnds({c})
    BY <1>3 DEF Unauthorized, Posted, Stream, HasState
  <2> QED
    BY <2>1, SessionEndsInv
<1>4. CASE SignOut
  BY <1>4, SessionEndsInv DEF SignOut
<1>5. CASE UNCHANGED controllerVars
  BY <1>5 DEF controllerVars, Inv, ControllerTypeOK, Counted, OwnsOpen, RanByOwner,
              LatestRan, OneStream, Stream, HasState, InTheGap, PagesFit
<1>6. CASE Saved
  BY <1>6, TextInv, ControllerAssumption
<1> QED
  BY <1>1, <1>2, <1>3, <1>4, <1>5, <1>6, AnsweredInv, StreamInv, TextInv, OpeningInv, FetchedInv,
     ReplayedInv, SignInInv DEF ControllerNext

LEMMA AlwaysInv == ControllerSpec => []Inv
BY InitInv, StepInv, PTL DEF ControllerSpec

(* The editor, the pages, the timers and the checks keep their shape, and the *)
(* generations are bounded by the sessions.                                   *)
THEOREM ControllerTypeCorrect == ControllerSpec => []ControllerTypeOK
<1>1. Inv => ControllerTypeOK
  BY DEF Inv
<1> QED
  BY <1>1, AlwaysInv, PTL

(* No page shows a finding or a card of a check of another user, nor one of   *)
(* another document that was not started in the gap of hydrateFromDocument.   *)
THEOREM LeaksOnlyInTheGap == ControllerSpec => []OnlyTheGapLeaks
<1>1. Inv => OnlyTheGapLeaks
  BY DEF Inv, PagesFit, Fits, OnlyTheGapLeaks
<1> QED
  BY <1>1, AlwaysInv, PTL

(* A scorecard that is not marked stale was computed for the text beside it.  *)
THEOREM CardsFit == ControllerSpec => []CardFitsText
<1>1. Inv => CardFitsText
  BY DEF Inv, PagesFit, Fits, CardFitsText
<1> QED
  BY <1>1, AlwaysInv, PTL
=============================================================================
