--------------------------- MODULE TrainingWorker ---------------------------
(***************************************************************************)
(* The cluster's half of one training run: the queue worker, which runs    *)
(* once per invocation and may be killed between any two steps, the jobs   *)
(* it launches, each of which reports its own end from its compute node,   *)
(* and the files they share: the run's record and the spool of reports the *)
(* backend has not answered.  The backend is kept to what its routes       *)
(* accept of one run.                                                      *)
(*                                                                         *)
(* Every call may be lost, or be applied with its answer lost.  A file is  *)
(* replaced whole, but the record is read, merged and replaced without a   *)
(* lock, so that two writers may each undo the other.                      *)
(***************************************************************************)
EXTENDS Naturals, FiniteSets

CONSTANT MaxJobs        \* a bound: jobs the scheduler ever starts for the run

ASSUME MaxJobsAssumption == MaxJobs \in Nat \ {0}

NoJob == 0
Jobs == 1 .. MaxJobs
Worker == 0
Actors == {Worker} \cup Jobs
Files == {"train", "validation"}
Ends == {"succeeded", "failed"}

VARIABLES
    run,      \* the backend's row: state, job and whether a retry retired it
    record,   \* state/runs/<run>.json
    spool,    \* the job whose report lies in state/pending, or NoJob
    slurm,    \* each job: unused, running, ended with an outcome, lost
    at,       \* where each actor is
    job,      \* the job the worker is handling
    draft,    \* a record being written: what was read and what is merged in
    disk,     \* for each exported file, whether it is the described one
    named,    \* history: the jobs put in the record as they were launched
    queued    \* history: the jobs that ever spooled their report

vars == <<run, record, spool, slurm, at, job, draft, disk, named, queued>>

NoRecord == [kept |-> FALSE, job |-> NoJob, reported |-> FALSE]
NoDraft == [base |-> NoRecord, job |-> NoJob, reported |-> FALSE, next |-> "off"]

Init ==
    /\ run = [state |-> "queued", job |-> NoJob, retired |-> FALSE]
    /\ record = NoRecord
    /\ spool = NoJob
    /\ slurm = [j \in Jobs |-> "unused"]
    /\ at = [a \in Actors |-> "off"]
    /\ job = NoJob
    /\ draft = [a \in Actors |-> NoDraft]
    /\ disk \in [Files -> BOOLEAN]
    /\ named = {} /\ queued = {}

Go(a, place) == at' = [at EXCEPT ![a] = place]

\* An invocation that is over remembers nothing.
Forget == job' = IF at'[Worker] = "off" THEN NoJob ELSE job

---------------------------------------------------------------------------
(* What the backend accepts.                                               *)

Terminal == run.state \in Ends

Claimable == run.job = NoJob /\ run.state \in {"queued", "claimed"}

AcceptsSubmission == ~run.retired /\ ~Terminal

AcceptsCompletion(j, end) ==
    /\ ~run.retired
    /\ Terminal => run.state = end
    /\ run.job \in {NoJob, j}

Submitted(j) == [run EXCEPT !.state = "submitted", !.job = j]
Completed(j, end) == [run EXCEPT !.state = end, !.job = j]
Requeued == [run EXCEPT !.state = "queued"]
GivenUp == [run EXCEPT !.state = "failed"]

\* An admin's retry retires the run for a replacement: it may have failed,
\* waited with an error or changed data, lost its lease, or gone silent.
Retire ==
    /\ ~run.retired /\ run.state # "succeeded"
    /\ run' = [run EXCEPT !.state = "failed", !.retired = TRUE]
    /\ UNCHANGED <<record, spool, slurm, at, job, draft, disk, named, queued>>

---------------------------------------------------------------------------
(* One call: answered with acceptance or with a refusal the backend meant  *)
(* (404, 409), or not answered, applied or not.                            *)

Call(a, accepts, after, onAccepted, onRefused, onUnanswered) ==
    \/ accepts /\ run' = after /\ Go(a, onAccepted)
    \/ ~accepts /\ UNCHANGED run /\ Go(a, onRefused)
    \/ accepts /\ run' = after /\ Go(a, onUnanswered)
    \/ UNCHANGED run /\ Go(a, onUnanswered)

---------------------------------------------------------------------------
(* Writing the record.                                                     *)

\* A field that is not given keeps its value; `reported` is always written.
Merged(d) ==
    [kept |-> TRUE, reported |-> d.reported,
     job |-> IF d.job = NoJob THEN d.base.job ELSE d.job]

\* read_json
BeginWrite(a, j, reported, next) ==
    /\ draft' = [draft EXCEPT ![a] =
                    [base |-> record, job |-> j, reported |-> reported, next |-> next]]
    /\ Go(a, "writing")

\* write_json_atomic
FinishWrite(a) ==
    /\ at[a] = "writing"
    /\ record' = Merged(draft[a])
    /\ named' = IF draft[a].next = "submit" THEN named \cup {draft[a].job}
                ELSE named
    /\ Go(a, draft[a].next)
    /\ draft' = [draft EXCEPT ![a] = NoDraft]
    /\ Forget
    /\ UNCHANGED <<run, spool, slurm, disk, queued>>

\* mark_run_reported: nothing to mark when there is no record.
MarkReported(a, next) ==
    \/ record.kept /\ BeginWrite(a, NoJob, TRUE, next)
    \/ ~record.kept /\ Go(a, next) /\ UNCHANGED draft

---------------------------------------------------------------------------
(* A job, from its start to its report.                                    *)

\* The job ends by itself, or its node dies with it and nobody reports.
JobEnds(j) ==
    /\ slurm[j] = "running"
    /\ \E end \in Ends \cup {"lost"} : slurm' = [slurm EXCEPT ![j] = end]
    /\ UNCHANGED <<run, record, spool, at, job, draft, disk, named, queued>>

\* The record as the reporter found it is written back with the job's own id,
\* `reported` included, after the payload has been built.
ReadRecord(j) ==
    /\ slurm[j] \in Ends /\ at[j] = "off"
    /\ draft' = [draft EXCEPT ![j].reported = record.reported]
    /\ Go(j, "facts")
    /\ UNCHANGED <<run, record, spool, slurm, job, disk, named, queued>>

RecordEnd(j) ==
    /\ at[j] = "facts"
    /\ BeginWrite(j, j, draft[j].reported, "ended")
    /\ UNCHANGED <<run, record, spool, slurm, job, disk, named, queued>>

\* Mutant: the report is spooled only after the first attempt has failed.
SpoolReportLate(j) ==
    /\ at[j] = "ended"
    /\ queued' = queued \cup {j}
    /\ Go(j, "sending")
    /\ UNCHANGED <<run, record, spool, slurm, job, draft, disk, named>>

\* One file for the run, overwritten.
SpoolReport(j) ==
    /\ at[j] = "ended"
    /\ spool' = j
    /\ queued' = queued \cup {j}
    /\ Go(j, "sending")
    /\ UNCHANGED <<run, record, slurm, job, draft, disk, named>>

SendReport(j) ==
    /\ at[j] = "sending"
    /\ Call(j, AcceptsCompletion(j, slurm[j]), Completed(j, slurm[j]),
            "clearing", "clearing", "done")
    /\ UNCHANGED <<record, spool, slurm, job, draft, disk, named, queued>>

\* The file goes whoever's report it now holds.
ClearReport(j) ==
    /\ at[j] = "clearing"
    /\ spool' = NoJob
    /\ Go(j, "marking")
    /\ UNCHANGED <<run, record, slurm, job, draft, disk, named, queued>>

MarkEnd(j) ==
    /\ at[j] = "marking"
    /\ MarkReported(j, "done")
    /\ UNCHANGED <<run, record, spool, slurm, job, disk, named, queued>>

NodeDies(j) ==
    /\ at[j] \notin {"off", "done"}
    /\ Go(j, "done")
    /\ draft' = [draft EXCEPT ![j] = NoDraft]
    /\ UNCHANGED <<run, record, spool, slurm, job, disk, named, queued>>

Reporter(j) ==
    ReadRecord(j) \/ RecordEnd(j) \/ SpoolReport(j) \/ SendReport(j)
        \/ ClearReport(j) \/ MarkEnd(j)

---------------------------------------------------------------------------
(* One invocation of the worker: deliver what is spooled, report what was  *)
(* launched and never acknowledged, then claim a run.                      *)

StartSession ==
    /\ at[Worker] = "off"
    /\ job' = spool
    /\ Go(Worker, IF spool = NoJob THEN "reconcile" ELSE "flush")
    /\ UNCHANGED <<run, record, spool, slurm, draft, disk, named, queued>>

\* Mutant: a refused report stays in the spool to be refused again.
FlushReportKeepsRefused ==
    /\ at[Worker] = "flush"
    /\ Call(Worker, AcceptsCompletion(job, slurm[job]), Completed(job, slurm[job]),
            "clear", "reconcile", "reconcile")
    /\ UNCHANGED <<record, spool, slurm, job, draft, disk, named, queued>>

FlushReport ==
    /\ at[Worker] = "flush"
    /\ Call(Worker, AcceptsCompletion(job, slurm[job]), Completed(job, slurm[job]),
            "clear", "clear", "reconcile")
    /\ UNCHANGED <<record, spool, slurm, job, draft, disk, named, queued>>

FlushClear ==
    /\ at[Worker] = "clear"
    /\ spool' = NoJob
    /\ Go(Worker, "mark")
    /\ UNCHANGED <<run, record, slurm, job, draft, disk, named, queued>>

FlushMark ==
    /\ at[Worker] = "mark"
    /\ MarkReported(Worker, "reconcile")
    /\ UNCHANGED <<run, record, spool, slurm, job, disk, named, queued>>

Unreported == record.job # NoJob /\ ~record.reported

\* unreported_submissions: read once, before any of them is reported.
Reconcile ==
    /\ at[Worker] = "reconcile"
    /\ job' = IF Unreported THEN record.job ELSE NoJob
    /\ Go(Worker, IF Unreported THEN "resubmit" ELSE "claim")
    /\ UNCHANGED <<run, record, spool, slurm, draft, disk, named, queued>>

\* A refusal is final: it is recorded like an acceptance.
Resubmit ==
    /\ at[Worker] = "resubmit"
    /\ Call(Worker, AcceptsSubmission, Submitted(job), "resubmitted", "resubmitted", "claim")
    /\ UNCHANGED <<record, spool, slurm, job, draft, disk, named, queued>>

RecordResubmission ==
    /\ at[Worker] = "resubmitted"
    /\ BeginWrite(Worker, job, TRUE, "claim")
    /\ UNCHANGED <<run, record, spool, slurm, job, disk, named, queued>>

\* discover_claimable, then the claim; a claim whose answer is lost waits for
\* its lease to run out.
Claim ==
    /\ at[Worker] = "claim"
    /\ \/ ~Claimable /\ UNCHANGED run /\ Go(Worker, "off")
       \/ Claimable /\ \E next \in {"check", "off"} :
            /\ run' = [run EXCEPT !.state = "claimed"]
            /\ Go(Worker, next)
    /\ job' = NoJob
    /\ UNCHANGED <<record, spool, slurm, draft, disk, named, queued>>

\* Mutant: only the backend's record of a job is asked.
CheckExistingRemote ==
    /\ at[Worker] = "check"
    /\ job' = run.job
    /\ Go(Worker, IF job' = NoJob THEN "fetch" ELSE "rereport")
    /\ UNCHANGED <<run, record, spool, slurm, draft, disk, named, queued>>

\* Either record of a job is enough not to launch another; the local one is
\* read here and not again.
CheckExisting ==
    /\ at[Worker] = "check"
    /\ job' = IF run.job # NoJob THEN run.job ELSE record.job
    /\ Go(Worker, IF job' = NoJob THEN "fetch" ELSE "rereport")
    /\ UNCHANGED <<run, record, spool, slurm, draft, disk, named, queued>>

\* A refusal here ends the invocation with the record as it was.
Rereport ==
    /\ at[Worker] = "rereport"
    /\ Call(Worker, AcceptsSubmission, Submitted(job), "reported", "off", "off")
    /\ Forget
    /\ UNCHANGED <<record, spool, slurm, draft, disk, named, queued>>

---------------------------------------------------------------------------
(* The prepared files.                                                     *)

LocalMatches == \A f \in Files : disk[f]

\* Described and already here; described and downloaded, every digest right;
\* refused for good (dataset_changed); or not to be had now.
Fetch ==
    /\ at[Worker] = "fetch"
    /\ \/ LocalMatches /\ Go(Worker, "prepared")
       \/ ~LocalMatches /\ Go(Worker, "install")
       \/ Go(Worker, "refuse")
       \/ Go(Worker, "release")
    /\ UNCHANGED <<run, record, spool, slurm, job, draft, disk, named, queued>>

\* Each file is replaced by itself; killed in between, a worker leaves one new
\* and one old.
Install ==
    /\ at[Worker] = "install"
    /\ \E f \in Files :
        /\ disk[f] => LocalMatches
        /\ disk' = [disk EXCEPT ![f] = TRUE]
    /\ Go(Worker, IF \A f \in Files : disk'[f] THEN "prepared" ELSE "install")
    /\ UNCHANGED <<run, record, spool, slurm, job, draft, named, queued>>

Release ==
    /\ at[Worker] = "release"
    /\ Call(Worker, ~Terminal, Requeued, "off", "off", "off")
    /\ Forget
    /\ UNCHANGED <<record, spool, slurm, draft, disk, named, queued>>

Refuse ==
    /\ at[Worker] = "refuse"
    /\ Call(Worker, AcceptsSubmission /\ run.job = NoJob, GivenUp, "off", "off", "off")
    /\ Forget
    /\ UNCHANGED <<record, spool, slurm, draft, disk, named, queued>>

\* validate_run_against_prepared_data.
Validate ==
    /\ at[Worker] = "prepared"
    /\ \/ Go(Worker, "release") /\ UNCHANGED draft
       \/ BeginWrite(Worker, NoJob, FALSE, "launch")
    /\ UNCHANGED <<run, record, spool, slurm, job, disk, named, queued>>

---------------------------------------------------------------------------
(* Launching.                                                              *)

Unused == {j \in Jobs : slurm[j] = "unused"}
NextJob == CHOOSE j \in Unused : \A k \in Unused : j <= k

\* The launcher prints the id of the job it submitted; it submits one and is
\* stopped before it prints (its time limit); or it submits none.
Launch ==
    /\ at[Worker] = "launch"
    /\ \/ /\ Unused # {}
          /\ slurm' = [slurm EXCEPT ![NextJob] = "running"]
          /\ \/ job' = NextJob /\ Go(Worker, "launched")
             \/ job' = NoJob /\ Go(Worker, "unseen")
       \/ job' = NoJob /\ Go(Worker, "unseen") /\ UNCHANGED slurm
    /\ UNCHANGED <<run, record, spool, draft, disk, named, queued>>

RecordLaunch ==
    /\ at[Worker] = "launched"
    /\ BeginWrite(Worker, job, FALSE, "submit")
    /\ UNCHANGED <<run, record, spool, slurm, job, disk, named, queued>>

\* Refused or unanswered, it is left to the next invocation.
Submit ==
    /\ at[Worker] = "submit"
    /\ Call(Worker, AcceptsSubmission, Submitted(job), "reported", "off", "off")
    /\ Forget
    /\ UNCHANGED <<record, spool, slurm, draft, disk, named, queued>>

RecordReported ==
    /\ at[Worker] = "reported"
    /\ BeginWrite(Worker, job, TRUE, "off")
    /\ UNCHANGED <<run, record, spool, slurm, job, disk, named, queued>>

SubmissionFailed ==
    /\ at[Worker] = "unseen"
    /\ Call(Worker, AcceptsSubmission, Requeued, "off", "off", "off")
    /\ UNCHANGED <<record, spool, slurm, job, draft, disk, named, queued>>

WorkerKilled ==
    /\ at[Worker] # "off"
    /\ Go(Worker, "off")
    /\ draft' = [draft EXCEPT ![Worker] = NoDraft]
    /\ Forget
    /\ UNCHANGED <<run, record, spool, slurm, disk, named, queued>>

Deliver == FlushReport \/ FlushClear \/ FlushMark
Repair == Reconcile \/ Resubmit \/ RecordResubmission
Take == Claim \/ CheckExisting \/ Rereport
Prepare == Fetch \/ Install \/ Validate \/ Release \/ Refuse
Start == Launch \/ RecordLaunch \/ Submit \/ RecordReported \/ SubmissionFailed

Session == StartSession \/ Deliver \/ Repair \/ Take \/ Prepare \/ Start
              \/ FinishWrite(Worker)

Next ==
    \/ Retire
    \/ Session
    \/ WorkerKilled
    \/ \E j \in Jobs : JobEnds(j) \/ Reporter(j) \/ FinishWrite(j) \/ NodeDies(j)

Spec == Init /\ [][Next]_vars

\* The operator keeps running the worker, which is not always killed at the
\* same place, and the backend answers again and again.
FlushAnswered == FlushReport /\ at'[Worker] = "clear"

Fairness ==
    /\ WF_vars(Session)
    /\ SF_vars(FlushAnswered) /\ SF_vars(FlushClear)

FairSpec == Spec /\ Fairness

---------------------------------------------------------------------------
(* Properties.                                                             *)

RecordTyped(r) ==
    r \in [kept : BOOLEAN, job : Jobs \cup {NoJob}, reported : BOOLEAN]

TypeOK ==
    /\ run \in [state : {"queued", "claimed", "submitted"} \cup Ends,
                job : Jobs \cup {NoJob}, retired : BOOLEAN]
    /\ RecordTyped(record)
    /\ spool \in Jobs \cup {NoJob} /\ job \in Jobs \cup {NoJob}
    /\ slurm \in [Jobs -> {"unused", "running", "lost"} \cup Ends]
    /\ disk \in [Files -> BOOLEAN]
    /\ named \subseteq Jobs /\ queued \subseteq Jobs
    /\ \A a \in Actors : RecordTyped(draft[a].base)

\* However the worker is killed and its reports are lost, it records at most
\* one job for the run: a second one is launched only when the id of the first
\* never reached its record (run_training_queue.py run_once).
OneRecordedJob == Cardinality(named) <= 1

\* A record that says the submission needs no further report is right: the
\* backend has a job for the run or has finished with it, although the worker
\* and the job's own node write the record without a lock.
ReportedIsHeard == record.reported => run.job # NoJob \/ Terminal

\* A report that was spooled stays in the spool until the backend has
\* answered it, when the run has launched one job only.
ReportKept ==
    (queued # {} /\ Cardinality(Unused) = MaxJobs - 1) => spool # NoJob \/ Terminal

\* The launcher only ever starts on the files the backend described, a kill
\* between two files or a directory left half replaced notwithstanding.
LaunchesDescribedData == at[Worker] = "launch" => \A f \in Files : disk[f]

WorkerSafety == TypeOK /\ OneRecordedJob /\ ReportedIsHeard /\ LaunchesDescribedData

\* Every spooled report leaves the spool: delivered, or refused for good.
SpoolDrains == spool # NoJob ~> spool = NoJob

=============================================================================
