--------------------------- MODULE TrainingQueue ---------------------------
(***************************************************************************)
(* One course's training runs, its model request and its registered        *)
(* versions, as the backend keeps them in PostgreSQL                       *)
(* (backend/app/db_training_runs.py, db_model_requests.py,                 *)
(* training_retry.py) and as the browser and the cluster workers move them *)
(* (backend/app/db_routes.py, training_queue_routes.py).                   *)
(*                                                                         *)
(* Every HTTP request is one READ COMMITTED transaction.  A transaction    *)
(* whose decision rests on an unlocked read takes two steps: Begin, which  *)
(* reads, and a commit step, which takes the row locks and writes.  What   *)
(* other handlers commit in between is visible to the second step only.    *)
(*                                                                         *)
(* Time is two events: a lease runs out, a submitted run has been silent   *)
(* for SUBMITTED_STALE_AFTER_SECONDS.                                      *)
(***************************************************************************)
EXTENDS Naturals, FiniteSets, SequencesExt

CONSTANTS
    Handlers,     \* requests the backend serves at the same time
    NumRuns,      \* bound: runs this course ever queues
    MaxClaims,    \* bound: claims, of all the runs together
    Digests       \* the contents the prepared dataset can have on disk

ASSUME BoundsAssumption == NumRuns \in Nat /\ MaxClaims \in Nat
ASSUME DigestsAssumption == Digests # {}

VARIABLES
    runs,      \* training_runs, by run in the order they were queued
    request,   \* the model_requests row
    versions,  \* course_model_versions: the run of v1, v2, ...
    disk,      \* digest of the prepared dataset files
    tries,     \* per run, what became of each claim on the cluster
    tx,        \* what each handler is in the middle of
    overtaken  \* history: a transaction committed on a reading others had changed

vars == <<runs, request, versions, disk, tries, tx, overtaken>>

Runs == 1..NumRuns
NoRun == 0
NoJob == 0   \* job a of a run is the one its a-th claim launched

Terminal == {"succeeded", "failed"}
RunStates == {"absent", "queued", "claimed", "submitted"} \cup Terminal
RequestStates == {"none", "requested", "preparing", "training", "ready", "failed"}
ActiveRequest == {"requested", "preparing", "training"}

Run == [state : RunStates, job : 0..MaxClaims, lease : {"none", "held", "expired"},
        error : BOOLEAN, pin : Digests, silent : BOOLEAN]

\* What a report's handler keeps of the run it read.
Seen == [state : RunStates, job : 0..MaxClaims]

Reports == {"release", "submitted", "submission_failed", "refused", "failed", "completed"}
Idle == [op |-> "idle"]
Transaction ==
    {Idle, [op |-> "create"]}
    \cup [op : {"prepare", "rebuild"}]
    \cup [op : {"patch"}, status : {"requested", "preparing"}]
    \cup [op : {"enqueue"}, pin : Digests, free : BOOLEAN]
    \cup [op : {"point"}, run : Runs]
    \cup [op : {"retry"}, run : Runs, pin : Digests]
    \cup [op : Reports, run : Runs, seen : Seen, attempt : 1..MaxClaims]

TypeOK ==
    /\ runs \in [Runs -> Run]
    /\ request \in [status : RequestStates, current : 0..NumRuns]
    /\ versions \in Seq(Runs)
    /\ disk \in Digests
    /\ tries \in [Runs -> Seq({"open", "cleared", "closed", "running"} \cup Terminal)]
    /\ tx \in [Handlers -> Transaction]
    /\ overtaken \in BOOLEAN

Init ==
    /\ disk \in Digests
    /\ runs = [r \in Runs |-> [state |-> "absent", job |-> NoJob, lease |-> "none",
                               error |-> FALSE, pin |-> disk, silent |-> FALSE]]
    /\ request = [status |-> "none", current |-> NoRun]
    /\ versions = <<>>
    /\ tries = [r \in Runs |-> <<>>]
    /\ tx = [h \in Handlers |-> Idle]
    /\ overtaken = FALSE

Queued == {r \in Runs : runs[r].state # "absent"}
Active == {r \in Queued : runs[r].state \notin Terminal}

---------------------------------------------------------------------------
(* Transactions.                                                           *)

Start(h, t) == tx[h] = Idle /\ tx' = [tx EXCEPT ![h] = t]
End(h) == tx' = [tx EXCEPT ![h] = Idle]

\* Retry holds the request row from its first statement; writers of the row
\* wait for it.
LockFree(h) == \A g \in Handlers \ {h} : tx[g].op # "retry"

\* A connection lost before its commit rolls the transaction back; a browser
\* closed between its two calls never makes the second.
Abort(h) ==
    /\ tx[h] # Idle
    /\ End(h)
    /\ UNCHANGED <<runs, request, versions, disk, tries>>

---------------------------------------------------------------------------
(* The professor asks for a model, the admin prepares its data.            *)

\* create_model_request: INSERT ... WHERE NOT EXISTS an active row, judged on
\* the statement's snapshot ...
BeginCreate(h) ==
    /\ request.status \notin ActiveRequest
    /\ Start(h, [op |-> "create"])
    /\ UNCHANGED <<runs, request, versions, disk, tries>>

\* ... ON CONFLICT DO UPDATE, which waits for the row and then resets it,
\* whatever it has become.
CommitCreate(h) ==
    /\ tx[h].op = "create" /\ LockFree(h)
    /\ request' = [status |-> "requested", current |-> NoRun]
    /\ End(h)
    /\ UNCHANGED <<runs, versions, disk, tries>>

\* _refuse_while_training_run_active: the oldest active run is neither claimed
\* nor submitted.
FilesFree ==
    \A r \in Active : (\A s \in Active : r <= s) => runs[r].state = "queued"

\* prepareTrainingDataForRequest and Admin's Rebuild dataset both ask first ...
BeginRewrite(h, op) ==
    /\ op = "prepare" => request.status \in {"requested", "preparing"}
    /\ FilesFree
    /\ Start(h, [op |-> op])
    /\ UNCHANGED <<runs, request, versions, disk, tries>>

\* ... and then write the files.  Preparation goes on to patch the request.
Rewrite(h) ==
    /\ tx[h].op \in {"prepare", "rebuild"}
    /\ disk' \in Digests
    /\ tx' = [tx EXCEPT ![h] = IF tx[h].op = "rebuild" THEN Idle
                              ELSE [op |-> "patch", status |-> "preparing"]]
    /\ UNCHANGED <<runs, request, versions, tries>>

\* A preparation that failed, or was refused, puts the request back.
PrepareFails(h) ==
    /\ \/ tx[h].op = "prepare"
       \/ tx[h] = Idle /\ request.status \in {"requested", "preparing"} /\ ~FilesFree
    /\ tx' = [tx EXCEPT ![h] = [op |-> "patch", status |-> "requested"]]
    /\ UNCHANGED <<runs, request, versions, disk, tries>>

\* update_model_request judges nothing: the patch lands on whatever the request
\* has become.
PatchRequest(h) ==
    /\ tx[h].op = "patch" /\ LockFree(h)
    /\ request' = [request EXCEPT !.status = tx[h].status]
    /\ End(h)
    /\ UNCHANGED <<runs, versions, disk, tries>>

---------------------------------------------------------------------------
(* Queueing a run.                                                         *)

NewRun(pin) == [state |-> "queued", job |-> NoJob, lease |-> "none",
                error |-> FALSE, pin |-> pin, silent |-> FALSE]
NextRun == 1 + Cardinality(Queued)

\* The INSERT ... WHERE NOT EXISTS reads the committed rows of its snapshot.
\* The page offers the button in these request states.
BeginEnqueue(h) ==
    /\ request.status \in {"preparing", "ready", "failed"}
    /\ Active = {}
    /\ Start(h, [op |-> "enqueue", pin |-> disk, free |-> Active = {}])
    /\ UNCHANGED <<runs, request, versions, disk, tries>>

\* No unique index stops a second active run: the row is simply added.  The
\* page then points the request at it with a call of its own.
CommitEnqueue(h) ==
    /\ tx[h].op = "enqueue"
    /\ NextRun \in Runs
    /\ runs' = [runs EXCEPT ![NextRun] = NewRun(tx[h].pin)]
    /\ tx' = [tx EXCEPT ![h] = [op |-> "point", run |-> NextRun]]
    /\ UNCHANGED <<request, versions, disk, tries>>

PointRequest(h) ==
    /\ tx[h].op = "point" /\ LockFree(h)
    /\ request' = [request EXCEPT !.current = tx[h].run]
    /\ End(h)
    /\ UNCHANGED <<runs, versions, disk, tries>>

---------------------------------------------------------------------------
(* Admin retry: one transaction under the request's row lock.              *)

\* training_run_retry_block is None.
MayReplace(run, pin) ==
    \/ run.state = "failed"
    \/ run.state = "queued" /\ (run.error \/ run.pin # pin)
    \/ run.state = "submitted" /\ run.silent
    \/ run.state = "claimed" /\ run.lease # "held"

BeginRetry(h) ==
    /\ LockFree(h)
    /\ request.status # "none" /\ request.current # NoRun
    /\ MayReplace(runs[request.current], disk)
    /\ Start(h, [op |-> "retry", run |-> request.current, pin |-> disk])
    /\ UNCHANGED <<runs, request, versions, disk, tries>>

\* supersede_training_run keeps the job id; the conditional INSERT must find
\* no other active run, or the whole transaction is rolled back.
Fail(run) == [run EXCEPT !.state = "failed", !.error = TRUE, !.lease = "none",
                         !.silent = FALSE]

CommitRetry(h) ==
    /\ tx[h].op = "retry"
    /\ End(h)
    /\ IF Active \subseteq {tx[h].run}
       THEN /\ NextRun \in Runs
            /\ runs' = [runs EXCEPT ![tx[h].run] = Fail(@),
                                    ![NextRun] = NewRun(tx[h].pin)]
            /\ request' = [status |-> "preparing", current |-> NextRun]
       ELSE UNCHANGED <<runs, request>>
    /\ UNCHANGED <<versions, disk, tries>>

---------------------------------------------------------------------------
(* The cluster.  A claim is an attempt; an attempt ends without a job, or  *)
(* launches one, which ends in its own time.                               *)

Claimable(r) ==
    /\ runs[r].job = NoJob
    /\ \/ runs[r].state = "queued"
       \/ runs[r].state = "claimed" /\ runs[r].lease # "held"

Claims == UNION {{r} \X DOMAIN tries[r] : r \in Runs}

\* claim_next_training_run: oldest first, FOR UPDATE SKIP LOCKED, one statement
\* pair under the row lock.
Claim ==
    /\ Cardinality(Claims) < MaxClaims
    /\ \E r \in Runs :
        /\ Claimable(r) /\ \A s \in Runs : Claimable(s) => r <= s
        /\ runs' = [runs EXCEPT ![r].state = "claimed", ![r].lease = "held"]
        /\ tries' = [tries EXCEPT ![r] = Append(@, "open")]
    /\ UNCHANGED <<request, versions, disk, tx>>

LeaseRunsOut(r) ==
    /\ runs[r].lease = "held"
    /\ runs' = [runs EXCEPT ![r].lease = "expired"]
    /\ UNCHANGED <<request, versions, disk, tries, tx>>

GoesSilent(r) ==
    /\ runs[r].state = "submitted" /\ ~runs[r].silent
    /\ runs' = [runs EXCEPT ![r].silent = TRUE]
    /\ UNCHANGED <<request, versions, disk, tries, tx>>

\* The worker's local record of a job already launched for the run.
Launched(r) == \E a \in DOMAIN tries[r] : tries[r][a] \in {"running"} \cup Terminal
Undecided(r, a) == tries[r][a] = "open" /\ ~Launched(r)

\* ensure_dataset: the backend serves the files only while they match the pin,
\* and the worker keeps a copy.
Fetch(r, a) ==
    /\ Undecided(r, a)
    /\ runs[r].pin = disk
    /\ tries' = [tries EXCEPT ![r][a] = "cleared"]
    /\ UNCHANGED <<runs, request, versions, disk, tx>>

\* sbatch returned a job id; the worker may no longer hold the lease.
Launch(r, a) ==
    /\ tries[r][a] = "cleared"
    /\ tries' = [tries EXCEPT ![r][a] = "running"]
    /\ UNCHANGED <<runs, request, versions, disk, tx>>

JobEnds(r, a) ==
    /\ tries[r][a] = "running"
    /\ \E outcome \in Terminal : tries' = [tries EXCEPT ![r][a] = outcome]
    /\ UNCHANGED <<runs, request, versions, disk, tx>>

\* What an attempt may report, as often as it likes: a launched job its
\* submission and, once it has ended, its completion; an attempt that launches
\* nothing, once, that it gives up.
MayReport(op, r, a) ==
    \/ op = "release" /\ (Undecided(r, a) \/ tries[r][a] = "cleared")
    \/ op = "submission_failed" /\ tries[r][a] = "cleared"
    \/ op = "refused" /\ Undecided(r, a) /\ runs[r].pin # disk
    \/ op = "submitted" /\ tries[r][a] \in {"running"} \cup Terminal
    \/ op = "failed" /\ tries[r][a] = "failed"
    \/ op = "completed" /\ tries[r][a] \in Terminal

\* _require_run: an unlocked read of the run.
BeginReport(h, op, r, a) ==
    /\ MayReport(op, r, a)
    /\ Start(h, [op |-> op, run |-> r, attempt |-> a,
                 seen |-> [state |-> runs[r].state, job |-> runs[r].job]])
    /\ tries' = [tries EXCEPT ![r][a] = IF @ \in {"open", "cleared"} THEN "closed" ELSE @]
    /\ UNCHANGED <<runs, request, versions, disk>>

---------------------------------------------------------------------------
(* Committing a report.                                                    *)

\* _require_current_run, under the request's row lock.
Owns(r) == request.current \in {NoRun, r}

\* update_model_request_for_run: one conditional UPDATE, which also claims an
\* unowned request for the run.
Tell(r, status) ==
    IF request.status = "none" \/ ~Owns(r) THEN UNCHANGED request
    ELSE request' = [status |-> status, current |-> r]

Requeue(run) == [run EXCEPT !.state = "queued", !.lease = "none", !.silent = FALSE]

\* Mutant: a release requeues whatever it is given.
ReleaseAny(h) ==
    /\ tx[h].op = "release"
    /\ runs' = [runs EXCEPT ![tx[h].run] = Requeue(@)]
    /\ End(h)
    /\ UNCHANGED <<request, versions, disk, tries>>

\* The release route checks neither the lease nor who owns the request.
Release(h) ==
    LET r == tx[h].run IN
    /\ tx[h].op = "release"
    /\ IF tx[h].seen.state \in Terminal
       THEN UNCHANGED runs
       ELSE \E error \in BOOLEAN : runs' = [runs EXCEPT ![r] =
                [Requeue(runs[r]) EXCEPT !.error = error \/ @]]
    /\ End(h)
    /\ UNCHANGED <<request, versions, disk, tries>>

\* The order of every other report route: read the run, lock the request and
\* check it is still this run's, then judge the run as it was read.
Accepted(h, op) ==
    /\ tx[h].op = op /\ LockFree(h)
    /\ Owns(tx[h].run)
    /\ End(h)
    /\ UNCHANGED <<disk, tries>>

Submitted(h) ==
    LET r == tx[h].run IN
    /\ Accepted(h, "submitted")
    /\ tx[h].seen.state \notin Terminal
    /\ runs' = [runs EXCEPT ![r].state = "submitted", ![r].job = tx[h].attempt,
                            ![r].error = FALSE, ![r].lease = "none", ![r].silent = FALSE]
    /\ Tell(r, "training")
    /\ UNCHANGED versions

SubmissionFailed(h) ==
    LET r == tx[h].run IN
    /\ Accepted(h, "submission_failed")
    /\ tx[h].seen.state \notin Terminal
    /\ runs' = [runs EXCEPT ![r] = [Requeue(@) EXCEPT !.error = TRUE]]
    /\ Tell(r, request.status)
    /\ UNCHANGED versions

\* Terminal for the run; the professor is not told a job failed.
Refused(h) ==
    LET r == tx[h].run IN
    /\ Accepted(h, "refused")
    /\ tx[h].seen.state \notin Terminal /\ tx[h].seen.job = NoJob
    /\ runs' = [runs EXCEPT ![r] = Fail(@)]
    /\ Tell(r, request.status)
    /\ UNCHANGED versions

TrainingFailed(h) ==
    LET r == tx[h].run IN
    /\ Accepted(h, "failed")
    /\ tx[h].seen.state \notin Terminal
    /\ runs' = [runs EXCEPT ![r] = Fail(@)]
    /\ Tell(r, "failed")
    /\ UNCHANGED versions

\* A completion may be redelivered, but neither rewritten nor sent by a job
\* other than the recorded one.  A lost /submitted is made good: the run takes
\* the job id the completion carries.
MayComplete(h, outcome) ==
    LET seen == tx[h].seen IN
    /\ seen.state \in Terminal => seen.state = outcome
    /\ seen.job \in {NoJob, tx[h].attempt}

WithJob(run, seen, job) ==
    [run EXCEPT !.job = IF seen.job = NoJob THEN job ELSE @, !.lease = "none",
                !.silent = FALSE]

CompletedFailed(h) ==
    LET t == tx[h] IN
    /\ Accepted(h, "completed")
    /\ tries[t.run][t.attempt] = "failed"
    /\ MayComplete(h, "failed")
    /\ runs' = [runs EXCEPT ![t.run] =
                    [WithJob(@, t.seen, t.attempt) EXCEPT !.state = "failed", !.error = TRUE]]
    /\ Tell(t.run, "failed")
    /\ UNCHANGED versions

\* Mutants: every delivery allocates a version; the version goes to the run the
\* request points at.
RegisterAgain(r) == versions' = Append(versions, r)

RegisterPointed(r) == versions' = Append(versions, request.current)

\* _register_version_in_transaction: idempotent by run.
Register(r) ==
    IF Contains(versions, r) THEN UNCHANGED versions
    ELSE versions' = Append(versions, r)

CompletedSucceeded(h) ==
    LET t == tx[h] IN
    /\ Accepted(h, "completed")
    /\ tries[t.run][t.attempt] = "succeeded"
    /\ MayComplete(h, "succeeded")
    /\ runs' = [runs EXCEPT ![t.run] =
                    [WithJob(@, t.seen, t.attempt) EXCEPT !.state = "succeeded",
                                                          !.error = FALSE]]
    /\ Register(t.run)
    /\ Tell(t.run, "ready")

\* A 409: nothing is recorded.
Declined(h) ==
    /\ tx[h].op \in Reports \ {"release"} /\ LockFree(h)
    /\ \/ ~Owns(tx[h].run)
       \/ tx[h].op # "completed" /\ tx[h].seen.state \in Terminal
       \/ tx[h].op = "refused" /\ tx[h].seen.job # NoJob
       \/ tx[h].op = "completed" /\ ~MayComplete(h, tries[tx[h].run][tx[h].attempt])
    /\ End(h)
    /\ UNCHANGED <<runs, request, versions, disk, tries>>

Commit(h) ==
    \/ CommitCreate(h) \/ Rewrite(h) \/ PatchRequest(h) \/ CommitEnqueue(h) \/ PointRequest(h) \/ CommitRetry(h)
    \/ Release(h) \/ Submitted(h) \/ SubmissionFailed(h) \/ Refused(h)
    \/ TrainingFailed(h) \/ CompletedFailed(h) \/ CompletedSucceeded(h) \/ Declined(h)

\* A commit whose transaction judged a run, or the absence of one, that is no
\* longer as it was read.
Overtakes(h) ==
    LET t == tx[h] IN
    \/ t.op \in Reports /\ t.seen # [state |-> runs[t.run].state, job |-> runs[t.run].job]
    \/ t.op = "enqueue" /\ t.free /\ Active # {}
    \/ t.op = "retry" /\ ~MayReplace(runs[t.run], t.pin)

CommitNoted(h) == Commit(h) /\ overtaken' = (overtaken \/ Overtakes(h))

Step ==
    \/ Claim
    \/ \E r \in Runs : LeaseRunsOut(r) \/ GoesSilent(r)
    \/ \E r \in Runs : \E a \in DOMAIN tries[r] :
          \/ Fetch(r, a) \/ Launch(r, a) \/ JobEnds(r, a)
          \/ \E h \in Handlers, op \in Reports : BeginReport(h, op, r, a)
    \/ \E h \in Handlers :
          \/ BeginCreate(h) \/ BeginEnqueue(h) \/ BeginRetry(h)
          \/ \E op \in {"prepare", "rebuild"} : BeginRewrite(h, op)
          \/ PrepareFails(h) \/ Abort(h)

Next ==
    \/ Step /\ UNCHANGED overtaken
    \/ \E h \in Handlers : CommitNoted(h)

Spec == Init /\ [][Next]_vars

---------------------------------------------------------------------------
\* Four of the properties are excused by one thing, which the code does not
\* defend against: a transaction that commits on what others have since changed.

\* A registered version is the result of a run that succeeded, one version per
\* run however often its completion is delivered.
VersionsAreResults ==
    /\ IsInjective(versions)
    /\ overtaken \/ \A v \in DOMAIN versions : runs[versions[v]].state = "succeeded"

\* Every variable keeps its type, and no two runs of one course are outstanding
\* at once.
QueueSafety == TypeOK /\ (overtaken \/ Cardinality(Active) <= 1) /\ VersionsAreResults

\* A finished run keeps the outcome it ended with: no submission report, release or
\* late failure reopens it; and once an admin has retired a run, no report of its job
\* ever registers its adapter.
EndsAreFinal ==
    [][\A r \in Runs : ~overtaken' =>
         /\ runs[r].state \in Terminal => runs'[r].state = runs[r].state
         /\ runs[r].state = "failed" /\ ~Contains(versions, r) => ~Contains(versions', r)]_vars
=============================================================================
