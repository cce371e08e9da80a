------------------------------ MODULE CheckJobs ------------------------------
(***************************************************************************)
(* The backend's check jobs: the in-memory store of                        *)
(* backend/app/services/jobs.py with its two limits, the requests of       *)
(* backend/app/api/checks.py that create, run, poll and follow a job, and  *)
(* the streams that replay its events to any number of readers.            *)
(*                                                                         *)
(* Everything runs on one event loop, so a step is what happens between    *)
(* two awaits; only a poll (get_check, a plain def) runs in a thread of    *)
(* its own and reads field after field.  What a provider reports reaches   *)
(* the loop as callbacks in the order they were posted: progress, and at   *)
(* last the result or the failure.  Ids are given in the order of          *)
(* creation, so that "oldest" is "smallest".                               *)
(***************************************************************************)
EXTENDS Integers, Sequences, FiniteSets

CONSTANTS
  Owners, NoOwner,
  Readers,                 \* streams that may be open at a time
  MaxJobs, MaxPerOwner,    \* the limits of jobs.py
  MaxCreates, MaxProgress, \* bounds: jobs created, progress reports of a job
  LlmJobs, Watched         \* bounds: the jobs that may ask for the LLM; those that
                           \* report their progress and are followed and polled

ASSUME JobsAssumption ==
  /\ NoOwner \notin Owners
  /\ MaxJobs \in Nat \ {0} /\ MaxPerOwner \in Nat \ {0}
  /\ MaxCreates \in Nat /\ MaxProgress \in Nat
  /\ LlmJobs \subseteq 1..MaxCreates /\ Watched \subseteq 1..MaxCreates

VARIABLES
  made,    \* how many jobs were created
  jobs,    \* the ids in the store
  job,     \* every job, in the store or not
  reader,  \* the generator of a stream: its job, how far it is, where it stands
  poll     \* a poll in its thread: the status it read, then what it answers

jobVars == <<made, jobs, job, reader, poll>>

Ids == 1..MaxCreates
None == 0
NoJob == [owner |-> NoOwner, status |-> "none", stage |-> "none", posts |-> <<>>,
          reports |-> 0, found |-> {}, scored |-> FALSE, events |-> <<>>]
NoReader == [job |-> None, index |-> 0, at |-> "off"]
NoPoll == [job |-> None, status |-> "none", found |-> {}, scored |-> FALSE, at |-> "off"]

JobsInit ==
  /\ made = 0 /\ jobs = {}
  /\ job = [j \in Ids |-> NoJob]
  /\ reader = [r \in Readers |-> NoReader]
  /\ poll = NoPoll

-----------------------------------------------------------------------------
(* A job. *)

Emit(j, name) == [j EXCEPT !.events = Append(@, name)]
Completed(j) == [Emit(j, "done") EXCEPT !.status = "done", !.stage = "over"]
Add(j, checker) == [Emit(j, checker) EXCEPT !.found = @ \cup {checker}]
Score(j) == [Emit(j, "scorecard") EXCEPT !.scored = TRUE]

\* _new_event.set() resolves every wait on the job's event.
Wake(j) ==
  [r \in Readers |-> IF reader[r].job = j /\ reader[r].at = "waits"
                       THEN [reader[r] EXCEPT !.at = "runs"] ELSE reader[r]]
Becomes(j, new) ==
  /\ job' = [job EXCEPT ![j] = new]
  /\ reader' = IF new.events = job[j].events THEN reader ELSE Wake(j)

-----------------------------------------------------------------------------
(* The store. *)

Done(ids) == {j \in ids : job[j].status = "done"}
Owned(ids, o) == {j \in ids : job[j].owner = o}
Excess(ids, limit) == IF Cardinality(ids) > limit THEN Cardinality(ids) - limit ELSE 0
Oldest(n, ids) == {j \in ids : Cardinality({i \in ids : i < j}) < n}

\* JobManager.create: the new job is inserted, then its owner's oldest finished
\* jobs make room for it, then anybody's.  Where too few are finished the new
\* job is taken out again and the create refused.
NewId == made + 1
OwnExcess(o) == Excess(Owned(jobs, o) \cup {NewId}, MaxPerOwner)
OwnEvicted(o) == Oldest(OwnExcess(o), Done(Owned(jobs, o)))
OwnRefused(o) == Cardinality(Done(Owned(jobs, o))) < OwnExcess(o)
Trimmed(o) == jobs \ OwnEvicted(o)
GlobalExcess(o) == Excess(Trimmed(o) \cup {NewId}, MaxJobs)
GlobalEvicted(o) == Oldest(GlobalExcess(o), Done(Trimmed(o)))
GlobalRefused(o) == Cardinality(Done(Trimmed(o))) < GlobalExcess(o)

Refused(o) == OwnRefused(o) \/ GlobalRefused(o)
Kept(o) == IF OwnRefused(o) THEN Trimmed(o) ELSE Trimmed(o) \ GlobalEvicted(o)

NewJob(o) == [NoJob EXCEPT !.owner = o, !.status = "running"]

\* create_check up to its await: the rules and the terminology run at once, the
\* LLM has to pass the gate.  A checker that raises discards the job.
Create(o) ==
  /\ made < MaxCreates
  /\ made' = NewId
  /\ \/ /\ Refused(o)
        /\ jobs' = Kept(o)
        /\ job' = [job EXCEPT ![NewId] = [NewJob(o) EXCEPT !.stage = "refused"]]
     \/ /\ ~Refused(o)
        /\ \/ /\ jobs' = Kept(o) \cup {NewId}
              /\ \/ job' = [job EXCEPT ![NewId] = Completed(Add(NewJob(o), "rules"))]
                 \/ /\ NewId \in LlmJobs
                    /\ job' = [job EXCEPT ![NewId] = [Add(NewJob(o), "rules") EXCEPT !.stage = "setup"]]
           \/ /\ jobs' = Kept(o)
              /\ job' = [job EXCEPT ![NewId] = [NewJob(o) EXCEPT !.stage = "failed"]]
  /\ UNCHANGED <<reader, poll>>

\* The gate lets the LLM pass, skips it, or raises: no slot, no budget, a
\* cancelled request.  Then the job is discarded.
GateAnswers(j) ==
  /\ job[j].stage = "setup"
  /\ \/ /\ Becomes(j, [Emit(job[j], "effective_llm") EXCEPT !.stage = "llm"])
        /\ UNCHANGED jobs
     \/ /\ Becomes(j, Completed(Emit(job[j], "effective_llm")))
        /\ UNCHANGED jobs
     \/ /\ Becomes(j, [job[j] EXCEPT !.stage = "failed"])
        /\ jobs' = jobs \ {j}
  /\ UNCHANGED <<made, poll>>

-----------------------------------------------------------------------------
(* The LLM's task. *)

Post(j, what) ==
  /\ job' = [job EXCEPT ![j].posts = Append(@, what),
                        ![j].stage = IF what = "progress" THEN @ ELSE "ending",
                        ![j].reports = IF what = "progress" THEN @ + 1 ELSE @]
  /\ UNCHANGED <<made, jobs, reader, poll>>

Progress(j) ==
  /\ j \in Watched /\ job[j].stage = "llm" /\ job[j].reports < MaxProgress
  /\ Post(j, "progress")
ProviderEnds(j) ==
  /\ job[j].stage = "llm"
  /\ \E how \in {"result", "failure"} : Post(j, how)

\* The callback that is due.
Due(j) == Head(job[j].posts)
Taken(j) == [job[j] EXCEPT !.posts = Tail(@)]

FailureOpen(j) == [Emit(j, "checker_error") EXCEPT !.stage = "over"]
Failure(j) == Completed(Emit(j, "checker_error"))

\* on_progress passes a report on when enough tokens have come since the last.
\* A result or a failure runs _run_llm to its end: the settlement of the ledger
\* may raise, the finally block finishes the job all the same.
Callback(j) ==
  /\ job[j].posts # <<>>
  /\ \/ /\ Due(j) = "progress"
        /\ \/ Becomes(j, Emit(Taken(j), "llm_progress"))
           \/ Becomes(j, Taken(j))
     \/ /\ Due(j) = "result"
        /\ \/ Becomes(j, Completed(Add(Taken(j), "llm")))
           \/ Becomes(j, Completed(Score(Add(Taken(j), "llm"))))
     \/ /\ Due(j) = "failure"
        /\ Becomes(j, Failure(Taken(j)))
  /\ UNCHANGED <<made, jobs, poll>>

-----------------------------------------------------------------------------
(* Streams and polls.  A client knows the id of its job once create_check has *)
(* answered; the store answers for a foreign job as for a missing one.        *)

Answered(j) == job[j].stage \in {"llm", "ending", "over"}
Visible(j, o) == j \in jobs /\ job[j].owner = o /\ Answered(j)

Follow(r, o) ==
  /\ reader[r].at = "off"
  /\ \E j \in Watched : /\ Visible(j, o)
                        /\ reader' = [reader EXCEPT ![r] = [job |-> j, index |-> 0, at |-> "runs"]]
  /\ UNCHANGED <<made, jobs, job, poll>>

\* One turn of the generator: it yields the next event, ends after `done', or
\* clears the event and waits - with no await between the test and the wait.
Turn(r) ==
  /\ reader[r].at = "runs"
  /\ LET events == job[reader[r].job].events
         next == reader[r].index + 1
     IN  reader' = [reader EXCEPT ![r] =
           IF next > Len(events) THEN [@ EXCEPT !.at = "waits"]
           ELSE [@ EXCEPT !.index = next,
                          !.at = IF events[next] = "done" THEN "ended" ELSE "runs"]]
  /\ UNCHANGED <<made, jobs, job, poll>>

\* The client is gone, or has what it came for.
Leave(r) ==
  /\ reader[r].at # "off"
  /\ reader' = [reader EXCEPT ![r] = NoReader]
  /\ UNCHANGED <<made, jobs, job, poll>>

\* get_check reads the status first and the results after it.
ResultsFirst == <<"results", "status">>
Reads == <<"status", "results">>
Read(p, what) ==
  IF what = "status" THEN [p EXCEPT !.status = job[p.job].status]
  ELSE [p EXCEPT !.found = job[p.job].found, !.scored = job[p.job].scored]
PollStarts(o) ==
  /\ poll.at = "off"
  /\ \E j \in Watched : /\ Visible(j, o)
                        /\ poll' = Read([NoPoll EXCEPT !.job = j, !.at = "between"], Reads[1])
  /\ UNCHANGED <<made, jobs, job, reader>>
PollAnswers ==
  /\ poll.at = "between"
  /\ poll' = [Read(poll, Reads[2]) EXCEPT !.at = "answered"]
  /\ UNCHANGED <<made, jobs, job, reader>>
PollEnds ==
  /\ poll.at = "answered" /\ poll' = NoPoll
  /\ UNCHANGED <<made, jobs, job, reader>>

-----------------------------------------------------------------------------
JobsNext ==
  \/ \E o \in Owners : Create(o) \/ PollStarts(o) \/ \E r \in Readers : Follow(r, o)
  \/ \E j \in Ids : GateAnswers(j) \/ Progress(j) \/ ProviderEnds(j) \/ Callback(j)
  \/ \E r \in Readers : Turn(r) \/ Leave(r)
  \/ PollAnswers \/ PollEnds

JobsSpec == JobsInit /\ [][JobsNext]_jobVars

\* The loop runs what is ready, clients that stay read on, a gate decides and
\* a provider ends (its client carries a timeout).
JobsFairness ==
  /\ \A j \in Ids : WF_jobVars(GateAnswers(j)) /\ WF_jobVars(ProviderEnds(j)) /\ WF_jobVars(Callback(j))
  /\ \A r \in Readers : WF_jobVars(Turn(r))
JobsFairSpec == JobsSpec /\ JobsFairness

-----------------------------------------------------------------------------
EventName == {"rules", "effective_llm", "llm_progress", "llm", "scorecard", "checker_error", "done"}
Job == [owner : Owners \cup {NoOwner}, status : {"none", "running", "done"},
        stage : {"none", "refused", "failed", "setup", "llm", "ending", "over"},
        posts : Seq({"progress", "result", "failure"}), reports : 0..MaxProgress,
        found : SUBSET {"rules", "llm"}, scored : BOOLEAN, events : Seq(EventName)]
Reader == [job : 0..MaxCreates, index : Nat, at : {"off", "runs", "waits", "ended"}]

JobsTypeOK ==
  /\ made \in 0..MaxCreates
  /\ jobs \subseteq 1..made
  /\ job \in [Ids -> Job]
  /\ reader \in [Readers -> Reader]
  /\ poll \in [job : 0..MaxCreates, status : {"none", "running", "done"},
               found : SUBSET {"rules", "llm"}, scored : BOOLEAN,
               at : {"off", "between", "answered"}]

(* The store never holds more than MAX_JOBS jobs, nor more than               *)
(* MAX_JOBS_PER_OWNER of one owner.                                           *)
StoreBounded ==
  /\ Cardinality(jobs) <= MaxJobs
  /\ \A o \in Owners : Cardinality(Owned(jobs, o)) <= MaxPerOwner

(* A job that is not finished leaves the store only when its own set-up       *)
(* fails: no flood of checks, its owner's or another's, makes a running       *)
(* check unreachable ("its status and its stream stay reachable for its whole *)
(* lifetime").                                                                *)
RunningJobsStay ==
  [][\A j \in jobs \ jobs' :
       job[j].status = "done" \/ (job[j].stage = "setup" /\ job'[j].stage = "failed")]_jobVars

(* A check that is refused with 429 costs nobody anything: although jobs are  *)
(* evicted before the refusal is known, none is.                              *)
RefusedChangesNothing ==
  [][made' # made /\ job'[made'].stage = "refused" => jobs' = jobs]_jobVars

(* One user's checks age out another's results only when the store is full    *)
(* and she has room left herself: her own history goes first.                 *)
NeighboursKeepTheirs ==
  [][made' # made =>
       LET o == job'[made'].owner
       IN  (\E j \in jobs \ jobs' : job[j].owner # o)
             => /\ Cardinality(jobs) = MaxJobs
                /\ Cardinality(Owned(jobs, o)) < MaxPerOwner]_jobVars

(* A reader that waits has read everything: of several readers of one job     *)
(* each clears the event they share, and no wake-up is lost.                  *)
ReadersAreWoken ==
  \A r \in Readers : reader[r].at = "waits" => reader[r].index = Len(job[reader[r].job].events)

(* `done' is said once, of finished jobs only, and it is the last word: what  *)
(* the provider's thread still reports does not come after it.                *)
DoneIsLast ==
  \A j \in Ids : LET events == job[j].events IN
    /\ job[j].status = "done" <=> (events # <<>> /\ events[Len(events)] = "done")
    /\ \A i \in 1..(Len(events) - 1) : events[i] # "done"

(* A poll that says done carries all the job found, although its thread reads *)
(* while the loop writes.                                                     *)
DoneAnswersAreWhole ==
  poll.at = "answered" /\ poll.status = "done" =>
    poll.found = job[poll.job].found /\ poll.scored = job[poll.job].scored

(* Whoever asks for a job, by the stream or by polls, misses nothing of it.    *)
ReadersAreServed == ReadersAreWoken /\ DoneAnswersAreWhole

(* Every stream ends, whatever became of the LLM, of the ledger and of the    *)
(* job's place in the store; it ends after done.                              *)
StreamsEnd == \A r \in Readers : (reader[r].at # "off") ~> (reader[r].at \in {"off", "ended"})
=============================================================================
