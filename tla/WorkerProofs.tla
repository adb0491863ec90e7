---------------------------- MODULE WorkerProofs ----------------------------
(* Proofs about the queue worker of the cluster and the jobs it launches    *)
(* for one run: for any number of jobs.  Further down, what one job does:   *)
(* for any order and any files.                                             *)
EXTENDS TrainingWorker, TrainingJob, ListLemmas, FiniteSetTheorems, WellFoundedInduction, TLAPS

---------------------------------------------------------------------------
(* The invariant.                                                          *)

WorkerPlaces ==
    {"off", "flush", "clear", "mark", "reconcile", "resubmit", "resubmitted", "claim",
     "check", "rereport", "fetch", "install", "prepared", "refuse", "release",
     "launch", "launched", "submit", "reported", "unseen", "writing"}
JobPlaces == {"off", "facts", "ended", "sending", "clearing", "marking", "done", "writing"}
Names == Jobs \cup {NoJob}
Records == [kept : BOOLEAN, job : Names, reported : BOOLEAN]
Drafts == [base : Records, job : Names, reported : BOOLEAN,
           next : WorkerPlaces \cup JobPlaces]

ActorsTyped ==
    /\ at \in [Actors -> WorkerPlaces \cup JobPlaces]
    /\ draft \in [Actors -> Drafts]

\* The backend knows of a job of the run, or is done with it.  It never unlearns that.
Heard == run.job # NoJob \/ Terminal

Started == {j \in Jobs : slurm[j] # "unused"}
Known(j) == j = NoJob \/ j \in Started

\* A job reports after it has ended, and marks a report only after an answer.
JobFit(j) ==
    /\ at[j] \in JobPlaces
    /\ at[j] # "off" => slurm[j] \in Ends
    /\ at[j] = "writing" => /\ draft[j].next \in {"ended", "done"}
                            /\ draft[j].job = NoJob => Heard
    /\ at[j] \in {"clearing", "marking"} => Heard

\* The worker remembers the job it reports, and marks a report only after an answer.
WorkerFit ==
    /\ at[Worker] \in WorkerPlaces
    /\ at[Worker] = "flush" => job # NoJob /\ slurm[job] \in Ends
    /\ at[Worker] \in {"resubmit", "resubmitted", "rereport", "launched", "submit", "reported"}
       => job # NoJob
    /\ at[Worker] = "writing" =>
        /\ draft[Worker].next \in {"reconcile", "claim", "launch", "submit", "off"}
        /\ draft[Worker].next = "submit" => draft[Worker].job = job /\ job # NoJob
    /\ at[Worker] \in {"clear", "mark", "resubmitted", "reported"} => Heard

\* Every job that is named anywhere was started; whatever is written as reported has
\* been heard.
FilesFit ==
    /\ Known(run.job) /\ Known(record.job) /\ Known(spool) /\ Known(job)
    /\ spool # NoJob => slurm[spool] \in Ends
    /\ \A a \in Actors : Known(draft[a].job) /\ Known(draft[a].base.job)
    /\ named \subseteq Started /\ queued \subseteq Started
    /\ run.retired => Terminal
    /\ record.reported => Heard
    /\ \A a \in Actors : draft[a].reported => Heard

BaseInv ==
    /\ TypeOK /\ ActorsTyped
    /\ \A j \in Jobs : JobFit(j)
    /\ WorkerFit /\ FilesFit

\* The record names a job, and so does whatever is about to replace it.
Recorded ==
    /\ record.job # NoJob
    /\ \A a \in Actors : at[a] = "writing" => Merged(draft[a]).job # NoJob

\* Between the look for an earlier job and the record of a new one.
Launching ==
    \/ at[Worker] \in {"fetch", "install", "prepared", "launch", "launched"}
    \/ at[Worker] = "writing" /\ draft[Worker].next \in {"launch", "submit"}

\* Once a job was recorded as launched, the next worker finds a job, its own record's
\* or the backend's.
NamedInv ==
    /\ \A i, j \in named : i = j
    /\ named # {} => Heard \/ Recorded
    /\ named # {} /\ at[Worker] = "check" => run.job # NoJob \/ Recorded
    /\ Launching => named = {}

\* From the check of the files to the launch they are the described ones.
Prepared ==
    \/ at[Worker] \in {"prepared", "launch"}
    \/ at[Worker] = "writing" /\ draft[Worker].next = "launch"
DataInv == Prepared => LocalMatches

\* With one job, an answer to its report closes the run.
SpoolInv ==
    (\A i, j \in Started : i = j) =>
        /\ queued # {} => spool # NoJob \/ Terminal
        /\ \A a \in Actors : at[a] \in {"clearing", "clear"} => Terminal

WorkerInv == BaseInv /\ NamedInv /\ DataInv /\ SpoolInv

---------------------------------------------------------------------------
(* Who moves.                                                              *)

LEMMA Apart ==
    /\ Worker \notin Jobs /\ NoJob \notin Jobs /\ Actors = Jobs \cup {Worker}
    /\ Worker \in Actors /\ Jobs \subseteq Actors
BY DEF Worker, NoJob, Jobs, Actors

\* The least of finitely many numbers is one of them.  (The set of those that are
\* smaller than x, for the x for which it is smallest, is empty.)
LEMMA LeastIsOne ==
    ASSUME NEW S \in SUBSET Nat, IsFiniteSet(S), S # {}
    PROVE  \E x \in S : \A y \in S : x <= y
<1> DEFINE Below(x) == {y \in S : y < x}
           T == {Below(x) : x \in S}
<1>1. IsWellFoundedOn(StrictSubsetOrdering(S), FiniteSubsetsOf(S))
  BY FS_StrictSubsetOrderingWellFounded
<1>2. T \subseteq FiniteSubsetsOf(S) /\ T # {}
  <2>1. \A x \in S : Below(x) \subseteq S /\ IsFiniteSet(Below(x))
    BY FS_Subset
  <2> QED  BY <2>1 DEF FiniteSubsetsOf
<1> HIDE DEF T
<1>3. PICK U \in T : \A V \in T : ~(<<V, U>> \in StrictSubsetOrdering(S))
  BY <1>1, <1>2, WFMin
<1>4. PICK x \in S : U = Below(x)
  BY <1>3 DEF T
<1>5. ASSUME NEW y \in S, y < x PROVE FALSE
  <2>1. Below(y) \subseteq Below(x) /\ Below(y) # Below(x)
    <3>1. x \in Nat /\ y \in Nat /\ \A z \in S : z \in Nat
      OBVIOUS
    <3>2. \A z \in S : z < y => z < x
      BY <1>5, <3>1
    <3>3. ~(y < y)
      BY <3>1
    <3>4. Below(y) \subseteq Below(x)
      BY <3>2
    <3>5. y \in Below(x) /\ y \notin Below(y)
      BY <1>5, <3>3
    <3> QED  BY <3>4, <3>5
  <2>2. Below(y) \in SUBSET S /\ Below(x) \in SUBSET S /\ Below(y) \in T
    BY DEF T
  <2> HIDE DEF Below
  <2>3. <<Below(y), Below(x)>> \in StrictSubsetOrdering(S)
    BY <2>1, <2>2 DEF StrictSubsetOrdering
  <2> QED  BY <1>3, <1>4, <2>2, <2>3
<1>6. \A y \in S : x <= y
  BY <1>5
<1> QED  BY <1>6

LEMMA NextIsUnused == Unused # {} => NextJob \in Unused
<1> SUFFICES ASSUME Unused # {} PROVE NextJob \in Unused
  OBVIOUS
<1>1. IsFiniteSet(Jobs)
  BY MaxJobsAssumption, FS_Interval DEF Jobs
<1>2. Unused \subseteq Jobs /\ Unused \in SUBSET Nat
  BY DEF Unused, Jobs
<1>3. IsFiniteSet(Unused)
  BY <1>1, <1>2, FS_Subset
<1>4. \E x \in Unused : \A y \in Unused : x <= y
  BY <1>2, <1>3, LeastIsOne
<1> QED  BY <1>4 DEF NextJob

WorkerStep == Session \/ WorkerKilled
JobStep(j) == JobEnds(j) \/ Reporter(j) \/ FinishWrite(j) \/ NodeDies(j)

\* What the worker does leaves the jobs where they are.
LEMMA WorkerMoves ==
    ASSUME BaseInv, WorkerStep
    PROVE  /\ \A j \in Jobs : at'[j] = at[j] /\ draft'[j] = draft[j]
           /\ \A j \in Jobs : slurm[j] # "unused" => slurm'[j] = slurm[j]
           /\ queued' = queued
<1>1. /\ at \in [Actors -> WorkerPlaces \cup JobPlaces] /\ draft \in [Actors -> Drafts]
      /\ slurm \in [Jobs -> {"unused", "running", "lost"} \cup Ends]
  BY DEF BaseInv, ActorsTyped, TypeOK
<1>2. \A j \in Jobs : slurm[j] # "unused" => slurm'[j] = slurm[j]
  <2>1. CASE Launch
    <3>1. Unused # {} => slurm[NextJob] = "unused" /\ NextJob \in Jobs
      BY NextIsUnused DEF Unused
    <3> QED  BY <1>1, <2>1, <3>1 DEF Launch
  <2>2. CASE UNCHANGED slurm
    BY <2>2
  <2>3. Launch \/ UNCHANGED slurm
    BY DEF WorkerStep, Session, StartSession, Deliver, Repair, Take, Prepare, Start, FinishWrite,
           FlushReport, FlushClear, FlushMark, Reconcile, Resubmit, RecordResubmission, Claim,
           CheckExisting, Rereport, Fetch, Install, Validate, Release, Refuse, RecordLaunch,
           Submit, RecordReported, SubmissionFailed, WorkerKilled
  <2> QED  BY <2>1, <2>2, <2>3
<1>3. queued' = queued
  BY DEF WorkerStep, Session, StartSession, Deliver, Repair, Take, Prepare, Start, FinishWrite,
         FlushReport, FlushClear, FlushMark, Reconcile, Resubmit, RecordResubmission, Claim,
         CheckExisting, Rereport, Fetch, Install, Validate, Release, Refuse, Launch, RecordLaunch,
         Submit, RecordReported, SubmissionFailed, WorkerKilled
<1>4. \E p : at' = [at EXCEPT ![Worker] = p]
  BY DEF WorkerStep, Session, StartSession, Deliver, Repair, Take, Prepare, Start, FinishWrite,
         FlushReport, FlushClear, FlushMark, Reconcile, Resubmit, RecordResubmission, Claim,
         CheckExisting, Rereport, Fetch, Install, Validate, Release, Refuse, Launch, RecordLaunch,
         Submit, RecordReported, SubmissionFailed, WorkerKilled, Call, Go, MarkReported, BeginWrite
<1>5. draft' = draft \/ \E d : draft' = [draft EXCEPT ![Worker] = d]
  BY DEF WorkerStep, Session, StartSession, Deliver, Repair, Take, Prepare, Start, FinishWrite,
         FlushReport, FlushClear, FlushMark, Reconcile, Resubmit, RecordResubmission, Claim,
         CheckExisting, Rereport, Fetch, Install, Validate, Release, Refuse, Launch, RecordLaunch,
         Submit, RecordReported, SubmissionFailed, WorkerKilled, MarkReported, BeginWrite
<1> QED  BY <1>1, <1>2, <1>3, <1>4, <1>5, Apart

\* What a job does leaves the worker and the other jobs where they are.
LEMMA JobMoves ==
    ASSUME BaseInv, NEW j \in Jobs, JobStep(j)
    PROVE  /\ \A a \in Actors \ {j} : at'[a] = at[a] /\ draft'[a] = draft[a]
           /\ \A k \in Jobs : /\ slurm'[k] = "unused" <=> slurm[k] = "unused"
                              /\ slurm[k] \in Ends => slurm'[k] = slurm[k]
           /\ UNCHANGED <<disk, named>>
           /\ job' = job \/ (at[Worker] = "off" /\ job' = NoJob)
<1>1. /\ at \in [Actors -> WorkerPlaces \cup JobPlaces] /\ draft \in [Actors -> Drafts]
      /\ slurm \in [Jobs -> {"unused", "running", "lost"} \cup Ends]
      /\ JobFit(j)
  BY DEF BaseInv, ActorsTyped, TypeOK
<1>2. \A k \in Jobs : /\ slurm'[k] = "unused" <=> slurm[k] = "unused"
                      /\ slurm[k] \in Ends => slurm'[k] = slurm[k]
  <2>1. CASE JobEnds(j)
    BY <1>1, <2>1 DEF JobEnds, Ends
  <2>2. CASE UNCHANGED slurm
    BY <2>2
  <2>3. JobEnds(j) \/ UNCHANGED slurm
    BY DEF JobStep, Reporter, FinishWrite, NodeDies, ReadRecord, RecordEnd, SpoolReport,
           SendReport, ClearReport, MarkEnd
  <2> QED  BY <2>1, <2>2, <2>3
<1>3. UNCHANGED <<disk, named>>
  <2>1. CASE FinishWrite(j)
    <3>1. draft[j].next # "submit"
      BY <1>1, <2>1 DEF FinishWrite, JobFit
    <3> QED  BY <2>1, <3>1 DEF FinishWrite
  <2>2. CASE ~FinishWrite(j)
    BY <2>2 DEF JobStep, JobEnds, Reporter, NodeDies, ReadRecord, RecordEnd, SpoolReport,
           SendReport, ClearReport, MarkEnd
  <2> QED  BY <2>1, <2>2
<1>4. at' = at \/ \E p : at' = [at EXCEPT ![j] = p]
  BY DEF JobStep, JobEnds, Reporter, FinishWrite, NodeDies, ReadRecord, RecordEnd, SpoolReport,
         SendReport, ClearReport, MarkEnd, Call, Go, MarkReported, BeginWrite
<1>5. \/ draft' = draft
      \/ \E d : draft' = [draft EXCEPT ![j] = d]
      \/ \E d : draft' = [draft EXCEPT ![j].reported = d]
  BY DEF JobStep, JobEnds, Reporter, FinishWrite, NodeDies, ReadRecord, RecordEnd, SpoolReport,
         SendReport, ClearReport, MarkEnd, MarkReported, BeginWrite
<1>6. \A a \in Actors \ {j} : at'[a] = at[a] /\ draft'[a] = draft[a]
  BY <1>1, <1>4, <1>5
<1>7. job' = job \/ (at[Worker] = "off" /\ job' = NoJob)
  <2>1. at'[Worker] = at[Worker]
    BY <1>6, Apart
  <2>2. Forget \/ job' = job
    BY DEF JobStep, JobEnds, Reporter, FinishWrite, NodeDies, ReadRecord, RecordEnd,
           SpoolReport, SendReport, ClearReport, MarkEnd
  <2>3. job' = job \/ job' = IF at'[Worker] = "off" THEN NoJob ELSE job
    BY <2>2 DEF Forget
  <2> QED  BY <2>1, <2>3
<1> QED  BY <1>2, <1>3, <1>6, <1>7

\* What the backend has heard it does not forget, and a retired run stays closed.
RunOnward ==
    /\ run' \in [state : {"queued", "claimed", "submitted"} \cup Ends, job : Names, retired : BOOLEAN]
    /\ run.job # NoJob => run'.job # NoJob
    /\ Heard => Heard'
    /\ Terminal => Terminal'
    /\ run'.retired => Terminal'
    /\ Known(run.job)'

LEMMA KnownStays ==
    ASSUME \A j \in Jobs : slurm[j] # "unused" => slurm'[j] # "unused", NEW j, Known(j)
    PROVE  Known(j)'
BY DEF Known, Started

LEMMA RunMoves ==
    ASSUME BaseInv, [Next]_vars
    PROVE  RunOnward
<1>1. /\ run \in [state : {"queued", "claimed", "submitted"} \cup Ends, job : Names, retired : BOOLEAN]
      /\ run.retired => Terminal
      /\ job \in Names /\ slurm \in [Jobs -> {"unused", "running", "lost"} \cup Ends]
      /\ Known(run.job) /\ Known(job)
  BY DEF BaseInv, TypeOK, Names, FilesFit
<1>2. \A j \in Jobs : slurm[j] # "unused" => slurm'[j] # "unused"
  <2>1. CASE WorkerStep  BY <2>1, WorkerMoves
  <2>2. CASE \E j \in Jobs : JobStep(j)  BY <2>2, JobMoves
  <2>3. CASE Retire \/ UNCHANGED vars  BY <2>3 DEF Retire, vars
  <2> QED  BY <2>1, <2>2, <2>3 DEF Next, WorkerStep, JobStep
<1>3. Known(run.job)'  \/ run' # run
  BY <1>1, <1>2 DEF Known, Started
<1>4. CASE UNCHANGED run
  BY <1>1, <1>3, <1>4 DEF RunOnward, Heard, Terminal
<1>5. CASE run' = [run EXCEPT !.state = "failed", !.retired = TRUE]
  <2>1. run'.job = run.job /\ run'.state = "failed"
    BY <1>1, <1>5
  <2> QED  BY <1>1, <1>2, <1>5, <2>1 DEF RunOnward, Heard, Terminal, Ends, Known, Started
<1>6. ASSUME NEW j \in Jobs, Known(j), slurm[j] \in Ends, AcceptsCompletion(j, slurm[j]),
             run' = Completed(j, slurm[j])
      PROVE  RunOnward
  <2>1. run'.job = j /\ run'.state = slurm[j] /\ run'.retired = run.retired
    BY <1>1, <1>6 DEF Completed
  <2>2. j # NoJob /\ j \in Names
    BY Apart DEF Names
  <2>3. run' \in [state : {"queued", "claimed", "submitted"} \cup Ends, job : Names, retired : BOOLEAN]
    BY <1>1, <1>6, <2>2 DEF Completed
  <2>4. Heard' /\ Terminal'
    BY <1>6, <2>1, <2>2 DEF Heard, Terminal
  <2>5. Known(run.job)'
    BY <1>2, <1>6, <2>1 DEF Known, Started
  <2> QED  BY <2>1, <2>2, <2>3, <2>4, <2>5 DEF RunOnward
<1>7. ASSUME job # NoJob, AcceptsSubmission, run' = Submitted(job)
      PROVE  RunOnward
  <2>1. run'.job = job /\ run'.state = "submitted" /\ run'.retired = run.retired
    BY <1>1, <1>7 DEF Submitted
  <2> QED  BY <1>1, <1>2, <1>7, <2>1 DEF RunOnward, Heard, Terminal, Submitted, AcceptsSubmission,
                                        Known, Started, Names
<1>8. CASE ~Terminal /\ run' = Requeued
  <2>1. run'.job = run.job /\ run'.state = "queued" /\ run'.retired = run.retired
    BY <1>1, <1>8 DEF Requeued
  <2> QED  BY <1>1, <1>2, <1>8, <2>1 DEF RunOnward, Heard, Terminal, Requeued, Known, Started
<1>9. CASE ~Terminal /\ run' = GivenUp
  <2>1. run'.job = run.job /\ run'.state = "failed" /\ run'.retired = run.retired
    BY <1>1, <1>9 DEF GivenUp
  <2> QED  BY <1>1, <1>2, <1>9, <2>1 DEF RunOnward, Heard, Terminal, GivenUp, Known, Started, Ends
<1>10. CASE Claimable /\ run' = [run EXCEPT !.state = "claimed"]
  <2>1. run'.job = run.job /\ run'.state = "claimed" /\ run'.retired = run.retired
    BY <1>1, <1>10
  <2> QED  BY <1>1, <1>2, <1>10, <2>1 DEF RunOnward, Heard, Terminal, Claimable, Known, Started, Ends
<1>11. CASE WorkerStep
  <2>1. CASE FlushReport
    <3>1. job \in Jobs /\ slurm[job] \in Ends
      BY <1>1, <2>1 DEF FlushReport, BaseInv, WorkerFit, Names
    <3> QED  BY <1>1, <1>4, <1>6, <2>1, <3>1 DEF FlushReport, Call
  <2>2. CASE Resubmit \/ Rereport \/ Submit
    <3>1. job # NoJob
      BY <2>2 DEF Resubmit, Rereport, Submit, BaseInv, WorkerFit
    <3> QED  BY <1>4, <1>7, <2>2, <3>1 DEF Resubmit, Rereport, Submit, Call
  <2>3. CASE Claim
    BY <1>4, <1>10, <2>3 DEF Claim
  <2>4. CASE Release \/ SubmissionFailed
    BY <1>4, <1>8, <2>4 DEF Release, SubmissionFailed, AcceptsSubmission, Call
  <2>5. CASE Refuse
    BY <1>4, <1>9, <2>5 DEF Refuse, AcceptsSubmission, Call
  <2>6. CASE UNCHANGED run
    BY <1>4, <2>6
  <2>7. \/ FlushReport \/ Resubmit \/ Rereport \/ Submit \/ Claim \/ Release
        \/ SubmissionFailed \/ Refuse \/ UNCHANGED run
    BY <1>11 DEF WorkerStep, Session, StartSession, Deliver, Repair, Take, Prepare, Start, FinishWrite,
           FlushClear, FlushMark, Reconcile, RecordResubmission, CheckExisting, Fetch, Install,
           Validate, Launch, RecordLaunch, RecordReported, WorkerKilled
  <2> QED  BY <2>1, <2>2, <2>3, <2>4, <2>5, <2>6, <2>7
<1>12. ASSUME NEW j \in Jobs, JobStep(j) PROVE RunOnward
  <2>1. CASE SendReport(j)
    <3>1. Known(j) /\ slurm[j] \in Ends
      BY <1>1, <2>1 DEF SendReport, BaseInv, JobFit, Known, Started, Ends
    <3> QED  BY <1>4, <1>6, <2>1, <3>1 DEF SendReport, Call
  <2>2. SendReport(j) \/ UNCHANGED run
    BY <1>12 DEF JobStep, JobEnds, Reporter, FinishWrite, NodeDies, ReadRecord, RecordEnd, SpoolReport,
           ClearReport, MarkEnd
  <2> QED  BY <1>4, <2>1, <2>2
<1> QED  BY <1>4, <1>5, <1>11, <1>12 DEF Next, WorkerStep, JobStep, Retire, vars

---------------------------------------------------------------------------
(* Types.                                                                  *)

LEMMA Goes ==
    ASSUME at \in [Actors -> WorkerPlaces \cup JobPlaces], NEW a \in Actors,
           NEW p \in WorkerPlaces \cup JobPlaces, Go(a, p)
    PROVE  at' \in [Actors -> WorkerPlaces \cup JobPlaces] /\ at'[a] = p
BY DEF Go

LEMMA Begins ==
    ASSUME TypeOK, ActorsTyped, NEW a \in Actors, NEW j \in Names, NEW r \in BOOLEAN,
           NEW n \in WorkerPlaces \cup JobPlaces, BeginWrite(a, j, r, n)
    PROVE  /\ ActorsTyped' /\ at'[a] = "writing"
           /\ draft'[a] = [base |-> record, job |-> j, reported |-> r, next |-> n]
<1>1. record \in Records
  BY DEF TypeOK, RecordTyped, Records, Names
<1>2. [base |-> record, job |-> j, reported |-> r, next |-> n] \in Drafts
  BY <1>1 DEF Drafts
<1>3. draft' = [draft EXCEPT ![a] = [base |-> record, job |-> j, reported |-> r, next |-> n]]
      /\ Go(a, "writing")
  BY DEF BeginWrite
<1>4. "writing" \in WorkerPlaces \cup JobPlaces
  BY DEF WorkerPlaces
<1>5. at' \in [Actors -> WorkerPlaces \cup JobPlaces] /\ at'[a] = "writing"
  BY <1>3, <1>4, Goes DEF ActorsTyped
<1> QED  BY <1>2, <1>3, <1>5 DEF ActorsTyped

LEMMA NoDraftTyped == NoDraft \in Drafts /\ NoRecord \in Records
<1>1. NoRecord \in Records
  BY DEF NoRecord, Records, Names
<1>2. "off" \in WorkerPlaces /\ NoJob \in Names
  BY DEF WorkerPlaces, Names
<1> QED  BY <1>1, <1>2 DEF NoDraft, Drafts

LEMMA Finishes ==
    ASSUME BaseInv, NEW a \in Actors, FinishWrite(a)
    PROVE  /\ ActorsTyped' /\ at'[a] = draft[a].next /\ draft'[a] = NoDraft
           /\ record' = Merged(draft[a]) /\ record' \in Records
<1>1. /\ draft[a] \in Drafts /\ draft \in [Actors -> Drafts]
      /\ at \in [Actors -> WorkerPlaces \cup JobPlaces]
  BY DEF BaseInv, ActorsTyped
<1>2. /\ draft[a].next \in WorkerPlaces \cup JobPlaces /\ draft[a].job \in Names
      /\ draft[a].reported \in BOOLEAN /\ draft[a].base.job \in Names
  BY <1>1 DEF Drafts, Records
<1>3. at' \in [Actors -> WorkerPlaces \cup JobPlaces] /\ at'[a] = draft[a].next
  BY <1>1, <1>2, Goes DEF FinishWrite
<1>4. draft' \in [Actors -> Drafts] /\ draft'[a] = NoDraft
  BY <1>1, NoDraftTyped DEF FinishWrite
<1>5. record' = Merged(draft[a])
  BY DEF FinishWrite
<1>6. Merged(draft[a]) \in Records
  BY <1>2 DEF Merged, Records
<1> QED  BY <1>3, <1>4, <1>5, <1>6 DEF ActorsTyped

\* A mark of a report either begins a write or goes on.
LEMMA Marks ==
    ASSUME TypeOK, ActorsTyped, NEW a \in Actors, NEW n \in WorkerPlaces \cup JobPlaces,
           MarkReported(a, n)
    PROVE  /\ ActorsTyped'
           /\ \/ at'[a] = "writing"
                 /\ draft'[a] = [base |-> record, job |-> NoJob, reported |-> TRUE, next |-> n]
              \/ at'[a] = n /\ draft' = draft
<1>1. CASE BeginWrite(a, NoJob, TRUE, n)
  BY <1>1, Begins DEF Names
<1>2. CASE Go(a, n) /\ draft' = draft
  BY <1>2, Goes DEF ActorsTyped
<1> QED  BY <1>1, <1>2 DEF MarkReported

---------------------------------------------------------------------------
(* Where an actor is after a step of its own.                              *)

\* What is being written names started jobs, and is reported only if heard of.
DraftFit(a) ==
    Known(draft[a].job) /\ Known(draft[a].base.job) /\ (draft[a].reported => Heard)

LEMMA NoDraftFits ==
    ASSUME NEW a, draft'[a] = NoDraft
    PROVE  DraftFit(a)'
BY DEF DraftFit, NoDraft, NoRecord, Known

LEMMA StartedStay ==
    ASSUME BaseInv, [Next]_vars
    PROVE  \A j \in Jobs : /\ slurm[j] # "unused" => slurm'[j] # "unused"
                           /\ slurm[j] \in Ends => slurm'[j] = slurm[j]
<1>1. CASE WorkerStep  BY <1>1, WorkerMoves DEF Ends
<1>2. CASE \E j \in Jobs : JobStep(j)  BY <1>2, JobMoves
<1>3. CASE Retire \/ UNCHANGED vars  BY <1>3 DEF Retire, vars
<1> QED  BY <1>1, <1>2, <1>3 DEF Next, WorkerStep, JobStep

LEMMA JobGoes ==
    ASSUME BaseInv, NEW j \in Jobs, JobStep(j), [Next]_vars
    PROVE  ActorsTyped' /\ JobFit(j)' /\ DraftFit(j)'
<1>1. /\ TypeOK /\ ActorsTyped /\ JobFit(j) /\ DraftFit(j) /\ j \in Actors /\ draft[j] \in Drafts
      /\ at \in [Actors -> WorkerPlaces \cup JobPlaces] /\ draft \in [Actors -> Drafts]
      /\ Known(record.job) /\ record.reported \in BOOLEAN /\ (record.reported => Heard)
  BY Apart DEF BaseInv, ActorsTyped, FilesFit, DraftFit, TypeOK, RecordTyped
<1>2. /\ slurm[j] # "unused" => slurm'[j] # "unused"
      /\ slurm[j] \in Ends => slurm'[j] = slurm[j]
      /\ Heard => Heard'
  BY StartedStay, RunMoves DEF RunOnward
<1>3. ASSUME NEW i, Known(i) PROVE Known(i)'
  BY <1>3, StartedStay DEF Known, Started
<1>4. CASE at' = at /\ draft' = draft
  BY <1>1, <1>2, <1>3, <1>4 DEF ActorsTyped, JobFit, DraftFit
<1>5. ASSUME NEW p \in {"ended", "sending", "done"}, Go(j, p), draft' = draft, slurm[j] \in Ends
      PROVE  ActorsTyped' /\ JobFit(j)' /\ DraftFit(j)'
  <2>1. p \in JobPlaces /\ p \notin {"off", "writing", "clearing", "marking"}
    BY DEF JobPlaces
  <2>2. ActorsTyped' /\ at'[j] = p
    BY <1>1, <1>5, <2>1, Goes DEF ActorsTyped
  <2> QED  BY <1>1, <1>2, <1>3, <1>5, <2>1, <2>2 DEF JobFit, DraftFit
<1>6. ASSUME NEW p \in {"clearing", "marking"}, Go(j, p), draft' = draft, slurm[j] \in Ends, Heard'
      PROVE  ActorsTyped' /\ JobFit(j)' /\ DraftFit(j)'
  <2>1. p \in JobPlaces /\ p \notin {"off", "writing"}
    BY DEF JobPlaces
  <2>2. ActorsTyped' /\ at'[j] = p
    BY <1>1, <1>6, <2>1, Goes DEF ActorsTyped
  <2> QED  BY <1>1, <1>2, <1>3, <1>6, <2>1, <2>2 DEF JobFit, DraftFit
<1>7. ASSUME NEW i \in Names, Known(i), NEW r \in BOOLEAN, r => Heard, NEW n \in {"ended", "done"},
             i = NoJob => Heard, slurm[j] \in Ends, ActorsTyped', at'[j] = "writing",
             draft'[j] = [base |-> record, job |-> i, reported |-> r, next |-> n]
      PROVE  JobFit(j)' /\ DraftFit(j)'
  <2>1. /\ draft'[j].job = i /\ draft'[j].base.job = record.job /\ draft'[j].reported = r
        /\ draft'[j].next = n
    BY <1>7
  <2>2. "writing" \in JobPlaces
    BY DEF JobPlaces
  <2>3. DraftFit(j)'
    BY <1>1, <1>2, <1>3, <1>7, <2>1 DEF DraftFit
  <2> QED  BY <1>1, <1>2, <1>7, <2>1, <2>2, <2>3 DEF JobFit
<1>8. CASE JobEnds(j)
  BY <1>4, <1>8 DEF JobEnds
<1>9. CASE ReadRecord(j)
  <2>1. "facts" \in JobPlaces
    BY DEF JobPlaces
  <2>2. at' \in [Actors -> WorkerPlaces \cup JobPlaces] /\ at'[j] = "facts" /\ slurm[j] \in Ends
    BY <1>1, <1>9, <2>1, Goes DEF ReadRecord
  <2>3. /\ draft' \in [Actors -> Drafts] /\ draft'[j].reported = record.reported
        /\ draft'[j].job = draft[j].job /\ draft'[j].base = draft[j].base
    BY <1>1, <1>9 DEF ReadRecord, Drafts
  <2> QED  BY <1>1, <1>2, <1>3, <2>1, <2>2, <2>3 DEF ActorsTyped, JobFit, DraftFit
<1>10. CASE RecordEnd(j)
  <2>1. /\ slurm[j] \in Ends /\ j \in Names /\ j # NoJob /\ Known(j)
        /\ draft[j].reported \in BOOLEAN /\ (draft[j].reported => Heard)
    BY <1>1, <1>10, Apart DEF RecordEnd, JobFit, DraftFit, Names, Known, Started, Ends, Drafts
  <2>2. "ended" \in JobPlaces
    BY DEF JobPlaces
  <2>3. /\ ActorsTyped' /\ at'[j] = "writing"
        /\ draft'[j] = [base |-> record, job |-> j, reported |-> draft[j].reported, next |-> "ended"]
    BY <1>1, <1>10, <2>1, <2>2, Begins DEF RecordEnd
  <2> QED  BY <1>7, <2>1, <2>3
<1>11. CASE SpoolReport(j)
  BY <1>1, <1>5, <1>11 DEF SpoolReport, JobFit
<1>12. CASE SendReport(j)
  <2>1. slurm[j] \in Ends /\ run \in [state : {"queued", "claimed", "submitted"} \cup Ends, job : Names, retired : BOOLEAN]
    BY <1>1, <1>12 DEF SendReport, JobFit, TypeOK, Names
  <2>2. CASE AcceptsCompletion(j, slurm[j]) /\ run' = Completed(j, slurm[j])
    <3>1. Heard'
      BY <2>1, <2>2 DEF Completed, Heard, Terminal
    <3> QED  BY <1>5, <1>6, <1>12, <2>1, <3>1 DEF SendReport, Call
  <2>3. CASE ~AcceptsCompletion(j, slurm[j]) /\ UNCHANGED run
    <3>1. Heard
      BY <2>3, <2>1 DEF AcceptsCompletion, BaseInv, FilesFit, Heard
    <3> QED  BY <1>2, <1>5, <1>6, <1>12, <2>1, <3>1 DEF SendReport, Call
  <2>4. CASE Go(j, "done")
    BY <1>5, <1>12, <2>1, <2>4 DEF SendReport
  <2> QED  BY <1>12, <2>2, <2>3, <2>4 DEF SendReport, Call
<1>13. CASE ClearReport(j)
  BY <1>1, <1>2, <1>6, <1>13 DEF ClearReport, JobFit
<1>14. CASE MarkEnd(j)
  <2>1. slurm[j] \in Ends /\ Heard /\ "done" \in JobPlaces
    BY <1>1, <1>14 DEF MarkEnd, JobFit, JobPlaces
  <2>2. /\ ActorsTyped'
        /\ \/ at'[j] = "writing"
              /\ draft'[j] = [base |-> record, job |-> NoJob, reported |-> TRUE, next |-> "done"]
           \/ at'[j] = "done" /\ draft' = draft
    BY <1>1, <1>14, <2>1, Marks DEF MarkEnd
  <2>3. CASE at'[j] = "writing"
             /\ draft'[j] = [base |-> record, job |-> NoJob, reported |-> TRUE, next |-> "done"]
    BY <1>7, <2>1, <2>2, <2>3 DEF Names, Known
  <2>4. CASE at'[j] = "done" /\ draft' = draft
    BY <1>1, <1>2, <1>3, <2>1, <2>2, <2>4 DEF JobFit, DraftFit
  <2> QED  BY <2>2, <2>3, <2>4
<1>15. CASE FinishWrite(j)
  <2>1. ActorsTyped' /\ at'[j] = draft[j].next /\ draft'[j] = NoDraft
    BY <1>1, <1>15, Finishes
  <2>2. draft[j].next \in {"ended", "done"} /\ slurm[j] \in Ends
    BY <1>1, <1>15 DEF FinishWrite, JobFit
  <2> QED  BY <1>2, <2>1, <2>2, NoDraftFits DEF JobFit, JobPlaces
<1>16. CASE NodeDies(j)
  <2>1. at' \in [Actors -> WorkerPlaces \cup JobPlaces] /\ at'[j] = "done" /\ "done" \in JobPlaces
    BY <1>1, <1>16, Goes DEF NodeDies, JobPlaces
  <2>2. draft' \in [Actors -> Drafts] /\ draft'[j] = NoDraft /\ slurm[j] \in Ends
    BY <1>1, <1>16, NoDraftTyped DEF NodeDies, JobFit
  <2> QED  BY <1>2, <2>1, <2>2, NoDraftFits DEF JobFit, ActorsTyped
<1> QED  BY <1>8, <1>9, <1>10, <1>11, <1>12, <1>13, <1>14, <1>15, <1>16 DEF JobStep, Reporter

\* The places the worker only leaves by itself, and those it may come to freely.
Carrying == {"resubmit", "resubmitted", "rereport", "launched", "submit", "reported"}
Answered == {"clear", "mark", "resubmitted", "reported"}
Plain == WorkerPlaces \ (Carrying \cup Answered \cup {"flush", "writing"})

LEMMA WorkerGoes ==
    ASSUME BaseInv, WorkerStep, [Next]_vars
    PROVE  ActorsTyped' /\ WorkerFit' /\ DraftFit(Worker)' /\ job' \in Names /\ Known(job)'
<1> DEFINE Good == ActorsTyped' /\ WorkerFit' /\ DraftFit(Worker)' /\ job' \in Names /\ Known(job)'
<1>1. /\ TypeOK /\ ActorsTyped /\ WorkerFit /\ DraftFit(Worker) /\ Worker \in Actors
      /\ draft[Worker] \in Drafts /\ job \in Names /\ Known(job) /\ NoJob \in Names /\ Known(NoJob)
      /\ at \in [Actors -> WorkerPlaces \cup JobPlaces] /\ draft \in [Actors -> Drafts]
      /\ record.job \in Names /\ Known(record.job) /\ record.reported \in BOOLEAN
      /\ (record.reported => Heard)
  BY Apart DEF BaseInv, ActorsTyped, FilesFit, DraftFit, TypeOK, RecordTyped, Names, Known
<1>2. /\ \A j \in Jobs : slurm[j] \in Ends => slurm'[j] = slurm[j]
      /\ Heard => Heard'
  BY StartedStay, RunMoves DEF RunOnward
<1>3. ASSUME NEW i, Known(i) PROVE Known(i)'
  BY <1>3, StartedStay DEF Known, Started
\* Without a write.
<1>4. ASSUME NEW p \in WorkerPlaces \ {"writing", "flush"}, Go(Worker, p), draft' = draft,
             job' \in Names, Known(job)',
             p \in Carrying => job' # NoJob, p \in Answered => Heard'
      PROVE  Good
  <2>1. ActorsTyped' /\ at'[Worker] = p
    BY <1>1, <1>4, Goes DEF ActorsTyped
  <2>2. DraftFit(Worker)'
    BY <1>1, <1>2, <1>3, <1>4 DEF DraftFit
  <2>3. WorkerFit'
    BY <1>4, <2>1 DEF WorkerFit, Carrying, Answered
  <2> QED  BY <1>4, <2>1, <2>2, <2>3
<1>5. ASSUME NEW p \in Plain, Go(Worker, p), draft' = draft, job' = job \/ job' = NoJob
      PROVE  Good
  <2>1. job' \in Names /\ Known(job)' /\ p \in WorkerPlaces \ {"writing", "flush"}
    BY <1>1, <1>3, <1>5 DEF Plain
  <2> QED  BY <1>4, <1>5, <2>1 DEF Plain
\* The beginning of a write.
<1>6. ASSUME NEW i \in Names, Known(i), NEW r \in BOOLEAN, r => Heard,
             NEW n \in {"reconcile", "claim", "launch", "submit", "off"},
             n = "submit" => i = job /\ job # NoJob,
             ActorsTyped', at'[Worker] = "writing", job' = job,
             draft'[Worker] = [base |-> record, job |-> i, reported |-> r, next |-> n]
      PROVE  Good
  <2>1. /\ draft'[Worker].job = i /\ draft'[Worker].base.job = record.job
        /\ draft'[Worker].reported = r /\ draft'[Worker].next = n
    BY <1>6
  <2>2. DraftFit(Worker)'
    BY <1>1, <1>2, <1>3, <1>6, <2>1 DEF DraftFit
  <2>3. WorkerFit'
    BY <1>6, <2>1 DEF WorkerFit, WorkerPlaces
  <2> QED  BY <1>1, <1>3, <1>6, <2>2, <2>3
<1>7. ASSUME NEW i \in Names, Known(i), NEW r \in BOOLEAN, r => Heard,
             NEW n \in {"reconcile", "claim", "launch", "submit", "off"},
             n = "submit" => i = job /\ job # NoJob, job' = job, BeginWrite(Worker, i, r, n)
      PROVE  Good
  <2>1. n \in WorkerPlaces \cup JobPlaces
    BY DEF WorkerPlaces
  <2>2. ActorsTyped' /\ at'[Worker] = "writing"
        /\ draft'[Worker] = [base |-> record, job |-> i, reported |-> r, next |-> n]
    BY <1>1, <1>7, <2>1, Begins
  <2> QED  BY <1>6, <1>7, <2>2
\* A call that was accepted.
<1>8. ASSUME AcceptsSubmission, job # NoJob, run' = Submitted(job)
      PROVE  Heard'
  <2>1. run \in [state : {"queued", "claimed", "submitted"} \cup Ends, job : Names, retired : BOOLEAN]
    BY <1>1 DEF TypeOK, Names
  <2> QED  BY <1>8, <2>1 DEF Heard, Submitted
<1>9. /\ {"claim", "off", "reconcile", "launch", "unseen", "check", "fetch", "install",
          "prepared", "refuse", "release"} \subseteq Plain
      /\ {"clear", "mark", "resubmit", "resubmitted", "rereport", "launched", "submit", "reported"}
         \subseteq WorkerPlaces \ {"writing", "flush"}
  BY DEF Plain, WorkerPlaces, Carrying, Answered
<1>10. ASSUME Forget, NEW p \in WorkerPlaces, Go(Worker, p)
       PROVE  job' = IF p = "off" THEN NoJob ELSE job
  BY <1>1, <1>10, Goes DEF Forget
<1>11. CASE StartSession
  <2>1. spool \in Names /\ Known(spool)' /\ (spool # NoJob => slurm'[spool] \in Ends)
    <3>1. spool \in Names /\ Known(spool) /\ (spool # NoJob => spool \in Jobs /\ slurm[spool] \in Ends)
      BY <1>1 DEF TypeOK, Names, BaseInv, FilesFit
    <3>2. Known(spool)'
      BY <1>11, <3>1, StartedStay DEF Known, Started, StartSession
    <3> QED  BY <1>2, <3>1, <3>2
  <2>2. CASE spool = NoJob
    BY <1>5, <1>9, <1>11, <2>2 DEF StartSession
  <2>3. CASE spool # NoJob
    <3>1. ActorsTyped' /\ at'[Worker] = "flush"
      BY <1>1, <1>11, <2>3, Goes DEF StartSession, WorkerPlaces, ActorsTyped
    <3>2. DraftFit(Worker)'
      BY <1>1, <1>2, <1>3, <1>11 DEF DraftFit, StartSession
    <3>3. WorkerFit'
      BY <1>11, <2>1, <2>3, <3>1 DEF WorkerFit, WorkerPlaces, StartSession
    <3> QED  BY <1>11, <2>1, <3>1, <3>2, <3>3 DEF StartSession
  <2> QED  BY <2>2, <2>3
<1>12. CASE FlushReport
  <2>1. /\ job \in Jobs /\ slurm[job] \in Ends /\ draft' = draft /\ job' = job
        /\ run \in [state : {"queued", "claimed", "submitted"} \cup Ends, job : Names, retired : BOOLEAN]
    BY <1>1, <1>12 DEF FlushReport, WorkerFit, Names, TypeOK
  <2>2. CASE AcceptsCompletion(job, slurm[job]) /\ run' = Completed(job, slurm[job]) /\ Go(Worker, "clear")
    <3>1. Heard'
      BY <2>1, <2>2 DEF Completed, Heard, Terminal
    <3> QED  BY <1>1, <1>3, <1>4, <1>9, <2>1, <2>2, <3>1 DEF Carrying
  <2>3. CASE ~AcceptsCompletion(job, slurm[job]) /\ UNCHANGED run /\ Go(Worker, "clear")
    <3>1. Heard
      BY <2>1, <2>3 DEF AcceptsCompletion, BaseInv, FilesFit, Heard
    <3> QED  BY <1>1, <1>2, <1>3, <1>4, <1>9, <2>1, <2>3, <3>1 DEF Carrying
  <2>4. CASE Go(Worker, "reconcile")
    BY <1>5, <1>9, <2>1, <2>4
  <2> QED  BY <1>12, <2>2, <2>3, <2>4 DEF FlushReport, Call
<1>13. CASE FlushClear
  <2>1. Heard /\ Go(Worker, "mark") /\ UNCHANGED <<job, draft>>
    BY <1>1, <1>13 DEF FlushClear, WorkerFit
  <2> QED  BY <1>1, <1>2, <1>3, <1>4, <1>9, <2>1 DEF Carrying
<1>14. CASE FlushMark
  <2>1. Heard /\ MarkReported(Worker, "reconcile") /\ job' = job
    BY <1>1, <1>14 DEF FlushMark, WorkerFit
  <2>2. CASE BeginWrite(Worker, NoJob, TRUE, "reconcile")
    BY <1>1, <1>7, <2>1, <2>2
  <2>3. CASE Go(Worker, "reconcile") /\ draft' = draft
    BY <1>5, <1>9, <2>1, <2>3
  <2> QED  BY <2>1, <2>2, <2>3 DEF MarkReported
<1>15. CASE Reconcile
  <2>1. CASE Unreported
    <3>1. record.job # NoJob /\ job' = record.job /\ Go(Worker, "resubmit") /\ draft' = draft
      BY <1>15, <2>1 DEF Reconcile, Unreported
    <3> QED  BY <1>1, <1>3, <1>4, <1>9, <3>1 DEF Answered
  <2>2. CASE ~Unreported
    BY <1>5, <1>9, <1>15, <2>2 DEF Reconcile
  <2> QED  BY <2>1, <2>2
<1>16. CASE Resubmit
  <2>1. job # NoJob /\ draft' = draft /\ job' = job
    BY <1>1, <1>16 DEF Resubmit, WorkerFit
  <2>2. CASE AcceptsSubmission /\ run' = Submitted(job) /\ Go(Worker, "resubmitted")
    BY <1>1, <1>3, <1>4, <1>8, <1>9, <2>1, <2>2
  <2>3. CASE ~AcceptsSubmission /\ UNCHANGED run /\ Go(Worker, "resubmitted")
    <3>1. Heard
      BY <2>3 DEF AcceptsSubmission, BaseInv, FilesFit, Heard
    <3> QED  BY <1>1, <1>2, <1>3, <1>4, <1>9, <2>1, <2>3, <3>1
  <2>4. CASE Go(Worker, "claim")
    BY <1>5, <1>9, <2>1, <2>4
  <2> QED  BY <1>16, <2>2, <2>3, <2>4 DEF Resubmit, Call
<1>17. CASE RecordResubmission
  <2>1. Heard /\ BeginWrite(Worker, job, TRUE, "claim") /\ job' = job
    BY <1>1, <1>17 DEF RecordResubmission, WorkerFit
  <2> QED  BY <1>1, <1>7, <2>1
<1>18. CASE Claim
  BY <1>5, <1>9, <1>18 DEF Claim
<1>19. CASE CheckExisting
  <2>1. /\ job' = (IF run.job # NoJob THEN run.job ELSE record.job) /\ draft' = draft
        /\ Go(Worker, IF job' = NoJob THEN "fetch" ELSE "rereport")
    BY <1>19 DEF CheckExisting
  <2>2. run.job \in Names /\ Known(run.job)
    BY <1>1 DEF TypeOK, Names, BaseInv, FilesFit
  <2>3. job' \in Names /\ Known(job')
    BY <1>1, <2>1, <2>2
  <2>4. Known(job)'
    BY <2>3, StartedStay DEF Known, Started
  <2>5. CASE job' = NoJob
    BY <1>5, <1>9, <2>1, <2>5
  <2>6. CASE job' # NoJob
    BY <1>4, <1>9, <2>1, <2>3, <2>4, <2>6 DEF Answered
  <2> QED  BY <2>5, <2>6
<1>20. CASE Rereport \/ Submit
  <2>1. job # NoJob /\ draft' = draft /\ Forget
    BY <1>1, <1>20 DEF Rereport, Submit, WorkerFit
  <2>2. CASE AcceptsSubmission /\ run' = Submitted(job) /\ Go(Worker, "reported")
    <3>1. job' = job
      BY <1>9, <1>10, <2>1, <2>2
    <3> QED  BY <1>1, <1>3, <1>4, <1>8, <1>9, <2>1, <2>2, <3>1
  <2>3. CASE Go(Worker, "off")
    <3>1. job' = NoJob
      BY <1>10, <2>1, <2>3 DEF WorkerPlaces
    <3> QED  BY <1>5, <1>9, <2>1, <2>3, <3>1
  <2> QED  BY <1>20, <2>2, <2>3 DEF Rereport, Submit, Call
<1>21. CASE Fetch \/ Install
  <2>1. /\ draft' = draft /\ job' = job
        /\ \E p \in {"prepared", "install", "refuse", "release"} : Go(Worker, p)
    BY <1>21 DEF Fetch, Install
  <2> QED  BY <1>5, <1>9, <2>1
<1>22. CASE Release \/ Refuse
  <2>1. draft' = draft /\ Forget /\ Go(Worker, "off")
    BY <1>22 DEF Release, Refuse, Call
  <2> QED  BY <1>5, <1>9, <2>1 DEF Forget
<1>23. CASE SubmissionFailed
  BY <1>5, <1>9, <1>23 DEF SubmissionFailed, Call
<1>24. CASE Validate
  <2>1. CASE Go(Worker, "release") /\ UNCHANGED draft
    BY <1>5, <1>9, <1>24, <2>1 DEF Validate
  <2>2. CASE BeginWrite(Worker, NoJob, FALSE, "launch")
    BY <1>1, <1>7, <1>24, <2>2 DEF Validate
  <2> QED  BY <1>24, <2>1, <2>2 DEF Validate
<1>25. CASE Launch
  <2>1. CASE job' = NoJob /\ Go(Worker, "unseen")
    BY <1>5, <1>9, <1>25, <2>1 DEF Launch
  <2>2. CASE /\ Unused # {} /\ slurm' = [slurm EXCEPT ![NextJob] = "running"]
             /\ job' = NextJob /\ Go(Worker, "launched")
    <3>1. NextJob \in Jobs
      BY <2>2, NextIsUnused DEF Unused
    <3>2. slurm'[NextJob] = "running"
      BY <1>1, <2>2, <3>1 DEF TypeOK
    <3>3. NextJob \in Names /\ NextJob # NoJob
      BY <3>1, Apart DEF Names
    <3>4. job' \in Jobs /\ slurm'[job'] = "running"
      BY <2>2, <3>1, <3>2
    <3>5. Known(job)'
      BY <3>4 DEF Known, Started
    <3> QED  BY <1>4, <1>9, <1>25, <2>2, <3>3, <3>5 DEF Launch, Answered
  <2> QED  BY <1>25, <2>1, <2>2 DEF Launch
<1>26. CASE RecordLaunch
  <2>1. job # NoJob /\ BeginWrite(Worker, job, FALSE, "submit") /\ job' = job
    BY <1>1, <1>26 DEF RecordLaunch, WorkerFit
  <2> QED  BY <1>1, <1>7, <2>1
<1>27. CASE RecordReported
  <2>1. Heard /\ BeginWrite(Worker, job, TRUE, "off") /\ job' = job
    BY <1>1, <1>27 DEF RecordReported, WorkerFit
  <2> QED  BY <1>1, <1>7, <2>1
<1>28. CASE FinishWrite(Worker)
  <2>1. ActorsTyped' /\ at'[Worker] = draft[Worker].next /\ draft'[Worker] = NoDraft /\ Forget
    BY <1>1, <1>28, Finishes DEF FinishWrite
  <2>2. /\ draft[Worker].next \in {"reconcile", "claim", "launch", "submit", "off"}
        /\ draft[Worker].next = "submit" => job # NoJob
    BY <1>1, <1>28 DEF FinishWrite, WorkerFit
  <2>3. job' = IF draft[Worker].next = "off" THEN NoJob ELSE job
    BY <2>1 DEF Forget
  <2>4. WorkerFit'
    BY <2>1, <2>2, <2>3 DEF WorkerFit, WorkerPlaces
  <2> QED  BY <1>1, <1>3, <2>1, <2>3, <2>4, NoDraftFits
<1>29. CASE WorkerKilled
  <2>1. at' \in [Actors -> WorkerPlaces \cup JobPlaces] /\ at'[Worker] = "off"
    BY <1>1, <1>29, Goes DEF WorkerKilled, WorkerPlaces
  <2>2. draft' \in [Actors -> Drafts] /\ draft'[Worker] = NoDraft
    BY <1>1, <1>29, NoDraftTyped DEF WorkerKilled
  <2>3. job' = NoJob
    BY <1>29, <2>1 DEF WorkerKilled, Forget
  <2>4. WorkerFit'
    BY <2>1 DEF WorkerFit, WorkerPlaces
  <2> QED  BY <1>1, <1>3, <2>1, <2>2, <2>3, <2>4, NoDraftFits DEF ActorsTyped
<1> QED  BY <1>11, <1>12, <1>13, <1>14, <1>15, <1>16, <1>17, <1>18, <1>19, <1>20, <1>21, <1>22,
            <1>23, <1>24, <1>25, <1>26, <1>27, <1>28, <1>29
         DEF WorkerStep, Session, Deliver, Repair, Take, Prepare, Start

---------------------------------------------------------------------------
(* What the actors share.                                                  *)

LEMMA SharedMoves ==
    ASSUME BaseInv, [Next]_vars
    PROVE  /\ record' = record \/ \E a \in Actors : FinishWrite(a) /\ record' = Merged(draft[a])
           /\ \/ spool' = spool /\ queued' = queued
              \/ spool' = NoJob /\ queued' = queued /\ \E a \in Actors : at[a] \in {"clearing", "clear"}
              \/ \E j \in Jobs : at[j] = "ended" /\ spool' = j /\ queued' = queued \cup {j}
           /\ \/ named' = named
              \/ /\ at[Worker] = "writing" /\ draft[Worker].next = "submit"
                 /\ FinishWrite(Worker) /\ named' = named \cup {draft[Worker].job}
           /\ disk' = disk \/ \E f \in Files : disk' = [disk EXCEPT ![f] = TRUE]
           /\ \/ slurm' = slurm
              \/ \E j \in Jobs : \E end \in Ends \cup {"lost"} :
                    slurm[j] = "running" /\ slurm' = [slurm EXCEPT ![j] = end]
              \/ Launch /\ Unused # {} /\ slurm' = [slurm EXCEPT ![NextJob] = "running"]
<1>1. CASE WorkerStep
  <2>1. record' = record \/ (FinishWrite(Worker) /\ record' = Merged(draft[Worker]))
    BY <1>1 DEF WorkerStep, Session, StartSession, Deliver, Repair, Take, Prepare, Start, FinishWrite,
         FlushReport, FlushClear, FlushMark, Reconcile, Resubmit, RecordResubmission, Claim,
         CheckExisting, Rereport, Fetch, Install, Validate, Release, Refuse, Launch, RecordLaunch,
         Submit, RecordReported, SubmissionFailed, WorkerKilled
  <2>2. \/ spool' = spool /\ queued' = queued
        \/ spool' = NoJob /\ queued' = queued /\ at[Worker] = "clear"
    BY <1>1 DEF WorkerStep, Session, StartSession, Deliver, Repair, Take, Prepare, Start, FinishWrite,
         FlushReport, FlushClear, FlushMark, Reconcile, Resubmit, RecordResubmission, Claim,
         CheckExisting, Rereport, Fetch, Install, Validate, Release, Refuse, Launch, RecordLaunch,
         Submit, RecordReported, SubmissionFailed, WorkerKilled
  <2>3. \/ named' = named
        \/ /\ at[Worker] = "writing" /\ draft[Worker].next = "submit"
           /\ FinishWrite(Worker) /\ named' = named \cup {draft[Worker].job}
    BY <1>1 DEF WorkerStep, Session, StartSession, Deliver, Repair, Take, Prepare, Start, FinishWrite,
         FlushReport, FlushClear, FlushMark, Reconcile, Resubmit, RecordResubmission, Claim,
         CheckExisting, Rereport, Fetch, Install, Validate, Release, Refuse, Launch, RecordLaunch,
         Submit, RecordReported, SubmissionFailed, WorkerKilled
  <2>4. disk' = disk \/ \E f \in Files : disk' = [disk EXCEPT ![f] = TRUE]
    BY <1>1 DEF WorkerStep, Session, StartSession, Deliver, Repair, Take, Prepare, Start, FinishWrite,
         FlushReport, FlushClear, FlushMark, Reconcile, Resubmit, RecordResubmission, Claim,
         CheckExisting, Rereport, Fetch, Install, Validate, Release, Refuse, Launch, RecordLaunch,
         Submit, RecordReported, SubmissionFailed, WorkerKilled
  <2>5. slurm' = slurm \/ (Launch /\ Unused # {} /\ slurm' = [slurm EXCEPT ![NextJob] = "running"])
    BY <1>1 DEF WorkerStep, Session, StartSession, Deliver, Repair, Take, Prepare, Start, FinishWrite,
         FlushReport, FlushClear, FlushMark, Reconcile, Resubmit, RecordResubmission, Claim,
         CheckExisting, Rereport, Fetch, Install, Validate, Release, Refuse, Launch, RecordLaunch,
         Submit, RecordReported, SubmissionFailed, WorkerKilled
  <2> QED  BY <2>1, <2>2, <2>3, <2>4, <2>5, Apart
<1>2. ASSUME NEW j \in Jobs, JobStep(j)
      PROVE  /\ record' = record \/ (FinishWrite(j) /\ record' = Merged(draft[j]))
             /\ \/ spool' = spool /\ queued' = queued
                \/ spool' = NoJob /\ queued' = queued /\ at[j] = "clearing"
                \/ at[j] = "ended" /\ spool' = j /\ queued' = queued \cup {j}
             /\ UNCHANGED <<named, disk>>
             /\ \/ slurm' = slurm
                \/ \E end \in Ends \cup {"lost"} :
                     slurm[j] = "running" /\ slurm' = [slurm EXCEPT ![j] = end]
  <2>1. UNCHANGED <<named, disk>>
    BY <1>2, JobMoves
  <2>2. record' = record \/ (FinishWrite(j) /\ record' = Merged(draft[j]))
    BY <1>2 DEF JobStep, JobEnds, Reporter, FinishWrite, NodeDies, ReadRecord, RecordEnd, SpoolReport,
           SendReport, ClearReport, MarkEnd
  <2>3. \/ spool' = spool /\ queued' = queued
        \/ spool' = NoJob /\ queued' = queued /\ at[j] = "clearing"
        \/ at[j] = "ended" /\ spool' = j /\ queued' = queued \cup {j}
    BY <1>2 DEF JobStep, JobEnds, Reporter, FinishWrite, NodeDies, ReadRecord, RecordEnd, SpoolReport,
           SendReport, ClearReport, MarkEnd
  <2>4. \/ slurm' = slurm
        \/ \E end \in Ends \cup {"lost"} : slurm[j] = "running" /\ slurm' = [slurm EXCEPT ![j] = end]
    BY <1>2 DEF JobStep, JobEnds, Reporter, FinishWrite, NodeDies, ReadRecord, RecordEnd, SpoolReport,
           SendReport, ClearReport, MarkEnd
  <2> QED  BY <2>1, <2>2, <2>3, <2>4
<1>3. CASE \E j \in Jobs : JobStep(j)
  <2>1. PICK j \in Jobs : JobStep(j)
    BY <1>3
  <2> QED  BY <1>2, <2>1, Apart
<1>4. CASE Retire \/ UNCHANGED vars
  BY <1>4 DEF Retire, vars
<1> QED  BY <1>1, <1>3, <1>4 DEF Next, WorkerStep, JobStep

LEMMA FilesNext ==
    ASSUME BaseInv, [Next]_vars
    PROVE  /\ record' \in Records /\ Known(record.job)' /\ (record'.reported => Heard')
           /\ spool' \in Names /\ Known(spool)' /\ (spool' # NoJob => slurm'[spool'] \in Ends)
           /\ slurm' \in [Jobs -> {"unused", "running", "lost"} \cup Ends]
           /\ disk' \in [Files -> BOOLEAN]
           /\ named' \subseteq Started' /\ queued' \subseteq Started'
<1>1. /\ record \in Records /\ Known(record.job) /\ (record.reported => Heard)
      /\ spool \in Names /\ Known(spool) /\ (spool # NoJob => slurm[spool] \in Ends)
      /\ slurm \in [Jobs -> {"unused", "running", "lost"} \cup Ends]
      /\ disk \in [Files -> BOOLEAN]
      /\ named \subseteq Started /\ queued \subseteq Started
      /\ \A a \in Actors : draft[a] \in Drafts /\ DraftFit(a)
      /\ \A j \in Jobs : JobFit(j)
  BY DEF BaseInv, TypeOK, RecordTyped, Records, Names, FilesFit, ActorsTyped, DraftFit
<1>2. /\ \A j \in Jobs : /\ slurm[j] # "unused" => slurm'[j] # "unused"
                         /\ slurm[j] \in Ends => slurm'[j] = slurm[j]
      /\ Heard => Heard'
  BY StartedStay, RunMoves DEF RunOnward
<1>3. ASSUME NEW i, Known(i) PROVE Known(i)'
  BY <1>2, <1>3 DEF Known, Started
<1>4. record' \in Records /\ Known(record.job)' /\ (record'.reported => Heard')
  <2>1. CASE record' = record
    BY <1>1, <1>2, <1>3, <2>1 DEF Known, Started
  <2>2. ASSUME NEW a \in Actors, FinishWrite(a), record' = Merged(draft[a])
        PROVE  record' \in Records /\ Known(record.job)' /\ (record'.reported => Heard')
    <3>1. record' \in Records
      BY <2>2, Finishes
    <3>2. /\ record'.reported = draft[a].reported
          /\ record'.job = draft[a].job \/ record'.job = draft[a].base.job
      BY <2>2 DEF Merged
    <3>3. Known(record.job)'
      BY <1>1, <1>2, <3>2 DEF DraftFit, Known, Started
    <3>4. record'.reported => Heard'
      BY <1>1, <1>2, <3>2 DEF DraftFit
    <3> QED  BY <3>1, <3>3, <3>4
  <2> QED  BY <2>1, <2>2, SharedMoves
<1>5. spool' \in Names /\ Known(spool)' /\ (spool' # NoJob => slurm'[spool'] \in Ends)
  <2>1. CASE spool' = spool
    BY <1>1, <1>2, <2>1 DEF Known, Started, Names
  <2>2. CASE spool' = NoJob
    BY <2>2 DEF Known, Names
  <2>3. ASSUME NEW j \in Jobs, at[j] = "ended", spool' = j
        PROVE  spool' \in Names /\ Known(spool)' /\ (spool' # NoJob => slurm'[spool'] \in Ends)
    <3>1. slurm[j] \in Ends
      BY <1>1, <2>3 DEF JobFit
    <3> QED  BY <1>2, <2>3, <3>1 DEF Known, Started, Names, Ends
  <2> QED  BY <2>1, <2>2, <2>3, SharedMoves
<1>6. slurm' \in [Jobs -> {"unused", "running", "lost"} \cup Ends]
  BY <1>1, SharedMoves, NextIsUnused DEF Unused
<1>7. disk' \in [Files -> BOOLEAN]
  BY <1>1, SharedMoves
<1>8. Started \subseteq Started'
  BY <1>2 DEF Started
<1>9. queued' \subseteq Started'
  <2>1. ASSUME NEW j \in Jobs, at[j] = "ended" PROVE j \in Started'
    <3>1. slurm[j] \in Ends
      BY <1>1, <2>1 DEF JobFit
    <3> QED  BY <1>2, <3>1 DEF Started, Ends
  <2> QED  BY <1>1, <1>8, <2>1, SharedMoves
<1>10. named' \subseteq Started'
  <2>1. CASE named' = named
    BY <1>1, <1>8, <2>1
  <2>2. CASE /\ at[Worker] = "writing" /\ draft[Worker].next = "submit"
             /\ named' = named \cup {draft[Worker].job}
    <3>1. draft[Worker].job # NoJob
      BY <2>2 DEF BaseInv, WorkerFit
    <3>2. draft[Worker].job \in Started
      BY <1>1, <3>1, Apart DEF DraftFit, Known
    <3> QED  BY <1>1, <1>8, <2>2, <3>2
  <2> QED  BY <2>1, <2>2, SharedMoves
<1> QED  BY <1>4, <1>5, <1>6, <1>7, <1>9, <1>10

LEMMA BaseInit == Init => BaseInv
<1> SUFFICES ASSUME Init PROVE BaseInv
  OBVIOUS
<1>1. /\ run = [state |-> "queued", job |-> NoJob, retired |-> FALSE]
      /\ record = NoRecord /\ spool = NoJob /\ slurm = [j \in Jobs |-> "unused"]
      /\ at = [a \in Actors |-> "off"] /\ job = NoJob /\ draft = [a \in Actors |-> NoDraft]
      /\ disk \in [Files -> BOOLEAN] /\ named = {} /\ queued = {}
  BY DEF Init
<1>2. ActorsTyped
  BY <1>1, NoDraftTyped DEF ActorsTyped, WorkerPlaces
<1>3. \A a \in Actors : DraftFit(a)
  BY <1>1 DEF DraftFit, NoDraft, NoRecord, Known
<1>4. TypeOK
  <2>1. RecordTyped(NoRecord)
    BY DEF RecordTyped, NoRecord
  <2>2. \A a \in Actors : draft[a].base = NoRecord
    BY <1>1 DEF NoDraft
  <2> QED  BY <1>1, <2>1, <2>2 DEF TypeOK
<1>5. FilesFit
  BY <1>1, <1>3 DEF FilesFit, DraftFit, Known, NoRecord
<1>6. WorkerFit
  BY <1>1, Apart DEF WorkerFit, WorkerPlaces
<1>7. \A j \in Jobs : JobFit(j)
  BY <1>1, Apart DEF JobFit, JobPlaces
<1> QED  BY <1>2, <1>4, <1>5, <1>6, <1>7 DEF BaseInv

\* An actor's step leaves the others fit: what they rely on only grows.
LEMMA OthersStay ==
    ASSUME BaseInv, [Next]_vars
    PROVE  /\ ActorsTyped' /\ WorkerFit' /\ job' \in Names /\ Known(job)'
           /\ \A j \in Jobs : JobFit(j)'
           /\ \A a \in Actors : DraftFit(a)'
<1>1. /\ WorkerFit /\ ActorsTyped /\ job \in Names /\ Known(job)
      /\ \A j \in Jobs : JobFit(j)
      /\ \A a \in Actors : DraftFit(a)
  BY DEF BaseInv, TypeOK, Names, FilesFit, DraftFit
<1>2. /\ \A j \in Jobs : /\ slurm[j] # "unused" => slurm'[j] # "unused"
                         /\ slurm[j] \in Ends => slurm'[j] = slurm[j]
      /\ Heard => Heard'
  BY StartedStay, RunMoves DEF RunOnward
<1>3. ASSUME NEW i, Known(i) PROVE Known(i)'
  BY <1>2, <1>3 DEF Known, Started
<1>4. ASSUME NEW a \in Actors, draft'[a] = draft[a] PROVE DraftFit(a)'
  BY <1>1, <1>2, <1>4 DEF DraftFit, Known, Started
<1>5. ASSUME NEW j \in Jobs, at'[j] = at[j], draft'[j] = draft[j] PROVE JobFit(j)'
  BY <1>1, <1>2, <1>5 DEF JobFit
<1>6. ASSUME at'[Worker] = at[Worker], draft'[Worker] = draft[Worker],
             job' = job \/ (at[Worker] = "off" /\ job' = NoJob)
      PROVE  WorkerFit' /\ job' \in Names /\ Known(job)'
  <2>1. job' \in Names /\ Known(job)'
    BY <1>1, <1>3, <1>6 DEF Names, Known, Started
  <2>2. CASE at[Worker] = "off"
    BY <1>6, <2>1, <2>2 DEF WorkerFit, WorkerPlaces
  <2>3. CASE job' = job
    <3>1. job # NoJob => job \in Jobs
      BY <1>1 DEF Names
    <3>2. at[Worker] = "flush" => slurm'[job] \in Ends
      BY <1>1, <1>2, <3>1 DEF WorkerFit
    <3>3. at'[Worker] = at[Worker] /\ draft'[Worker] = draft[Worker]
      BY <1>6
    <3>4. WorkerFit'
      BY <1>1, <1>2, <2>3, <3>2, <3>3 DEF WorkerFit
    <3> QED  BY <2>1, <3>4
  <2> QED  BY <1>6, <2>1, <2>2, <2>3
<1>7. CASE WorkerStep
  <2>1. ActorsTyped' /\ WorkerFit' /\ DraftFit(Worker)' /\ job' \in Names /\ Known(job)'
    BY <1>7, WorkerGoes
  <2>2. \A j \in Jobs : at'[j] = at[j] /\ draft'[j] = draft[j]
    BY <1>7, WorkerMoves
  <2> QED  BY <1>4, <1>5, <2>1, <2>2, Apart
<1>8. ASSUME NEW j \in Jobs, JobStep(j)
      PROVE  /\ ActorsTyped' /\ WorkerFit' /\ job' \in Names /\ Known(job)'
             /\ \A k \in Jobs : JobFit(k)'
             /\ \A a \in Actors : DraftFit(a)'
  <2>1. ActorsTyped' /\ JobFit(j)' /\ DraftFit(j)'
    BY <1>8, JobGoes
  <2>2. /\ \A a \in Actors \ {j} : at'[a] = at[a] /\ draft'[a] = draft[a]
        /\ job' = job \/ (at[Worker] = "off" /\ job' = NoJob)
    BY <1>8, JobMoves
  <2>3. WorkerFit' /\ job' \in Names /\ Known(job)'
    BY <1>6, <2>2, Apart
  <2>4. \A k \in Jobs : JobFit(k)'
    BY <1>5, <2>1, <2>2, Apart
  <2>5. \A a \in Actors : DraftFit(a)'
    BY <1>4, <2>1, <2>2
  <2> QED  BY <2>1, <2>3, <2>4, <2>5
<1>9. CASE Retire \/ UNCHANGED vars
  <2>1. UNCHANGED <<at, draft, job>>
    BY <1>9 DEF Retire, vars
  <2>2. ActorsTyped'
    BY <1>1, <2>1 DEF ActorsTyped
  <2> QED  BY <1>4, <1>5, <1>6, <2>1, <2>2
<1> QED  BY <1>7, <1>8, <1>9 DEF Next, WorkerStep, JobStep

LEMMA BaseNext == BaseInv /\ [Next]_vars => BaseInv'
<1> SUFFICES ASSUME BaseInv, [Next]_vars PROVE BaseInv'
  OBVIOUS
<1>1. /\ ActorsTyped' /\ WorkerFit' /\ job' \in Names /\ Known(job)'
      /\ \A j \in Jobs : JobFit(j)'
      /\ \A a \in Actors : DraftFit(a)'
  BY OthersStay
<1>2. /\ record' \in Records /\ Known(record.job)' /\ (record'.reported => Heard')
      /\ spool' \in Names /\ Known(spool)' /\ (spool' # NoJob => slurm'[spool'] \in Ends)
      /\ slurm' \in [Jobs -> {"unused", "running", "lost"} \cup Ends]
      /\ disk' \in [Files -> BOOLEAN]
      /\ named' \subseteq Started' /\ queued' \subseteq Started'
  BY FilesNext
<1>3. /\ run' \in [state : {"queued", "claimed", "submitted"} \cup Ends, job : Names, retired : BOOLEAN]
      /\ (run'.retired => Terminal') /\ Known(run.job)'
  BY RunMoves DEF RunOnward
<1>4. FilesFit'
  BY <1>1, <1>2, <1>3 DEF FilesFit, DraftFit
<1>5. TypeOK'
  <2>1. \A a \in Actors : draft'[a].base \in Records
    BY <1>1 DEF ActorsTyped, Drafts
  <2>2. Started' \subseteq Jobs
    BY DEF Started
  <2> QED  BY <1>1, <1>2, <1>3, <2>1, <2>2 DEF TypeOK, RecordTyped, Records, Names
<1> QED  BY <1>1, <1>4, <1>5 DEF BaseInv

---------------------------------------------------------------------------
(* How the worker comes to a place.                                        *)

\* The places of interest: where the properties of a place begin or go on.
Watched == {"check", "fetch", "install", "prepared", "launch", "launched", "clear", "writing"}

Ways ==
    /\ at'[Worker] = "check" => Claimable
    /\ Launching' => Launching \/ (at[Worker] = "check" /\ run.job = NoJob /\ record.job = NoJob)
    /\ at'[Worker] = "writing" => draft'[Worker].base = record
    /\ Prepared' => (Prepared /\ disk' = disk) \/ LocalMatches'
    /\ at'[Worker] = "clear" => at[Worker] = "flush" /\ (AcceptsCompletion(job, slurm[job]) => Terminal')

LEMMA WorkerWays ==
    ASSUME BaseInv, WorkerStep
    PROVE  Ways
<1>1. /\ TypeOK /\ ActorsTyped /\ WorkerFit /\ Worker \in Actors /\ draft[Worker] \in Drafts
      /\ job \in Names /\ NoJob \in Names
      /\ at \in [Actors -> WorkerPlaces \cup JobPlaces] /\ draft \in [Actors -> Drafts]
  BY Apart DEF BaseInv, ActorsTyped, TypeOK, Names
<1>2. CASE at'[Worker] \notin Watched
  BY <1>2 DEF Ways, Watched, Launching, Prepared
<1>3. ASSUME NEW p \in WorkerPlaces, Go(Worker, p) PROVE at'[Worker] = p
  BY <1>1, <1>3, Goes
<1>4. ASSUME NEW p \in WorkerPlaces \ Watched, Go(Worker, p) PROVE Ways
  BY <1>2, <1>3, <1>4
<1>5. /\ WorkerPlaces \ Watched = {"off", "flush", "mark", "reconcile", "resubmit", "resubmitted", "claim",
                                   "rereport", "refuse", "release", "submit", "reported", "unseen"}
      /\ Watched \subseteq WorkerPlaces
  BY DEF WorkerPlaces, Watched
<1>6. ASSUME NEW i \in Names, NEW r \in BOOLEAN, NEW n \in {"reconcile", "claim", "launch", "submit", "off"},
             BeginWrite(Worker, i, r, n),
             n = "submit" => Launching, n = "launch" => Launching /\ Prepared /\ disk' = disk
      PROVE  Ways
  <2>1. n \in WorkerPlaces \cup JobPlaces
    BY DEF WorkerPlaces
  <2>2. at'[Worker] = "writing"
        /\ draft'[Worker] = [base |-> record, job |-> i, reported |-> r, next |-> n]
    BY <1>1, <1>6, <2>1, Begins
  <2>3. draft'[Worker].next = n /\ draft'[Worker].base = record
    BY <2>2
  <2>4. (Launching' => n \in {"submit", "launch"}) /\ (Prepared' => n = "launch")
    BY <2>2, <2>3 DEF Launching, Prepared
  <2> QED  BY <1>6, <2>2, <2>3, <2>4 DEF Ways
<1>7. CASE StartSession \/ FlushClear \/ Reconcile \/ Resubmit \/ Rereport \/ Submit \/ Release
           \/ Refuse \/ SubmissionFailed \/ WorkerKilled
  <2>1. \E p \in WorkerPlaces \ Watched : Go(Worker, p)
    BY <1>5, <1>7 DEF StartSession, FlushClear, Reconcile, Resubmit, Rereport, Submit, Release, Refuse,
                      SubmissionFailed, WorkerKilled, Call
  <2> QED  BY <1>4, <2>1
<1>8. CASE FlushReport
  <2>1. CASE Go(Worker, "reconcile")
    BY <1>4, <1>5, <2>1
  <2>2. CASE /\ Go(Worker, "clear")
             /\ \/ AcceptsCompletion(job, slurm[job]) /\ run' = Completed(job, slurm[job])
                \/ ~AcceptsCompletion(job, slurm[job])
    <3>1. at'[Worker] = "clear" /\ at[Worker] = "flush"
      BY <1>3, <1>5, <1>8, <2>2 DEF FlushReport, Watched
    <3>2. slurm[job] \in Ends
      BY <1>1, <3>1 DEF WorkerFit
    <3>3. run \in [state : {"queued", "claimed", "submitted"} \cup Ends, job : Names, retired : BOOLEAN]
      BY <1>1 DEF TypeOK, Names
    <3>4. AcceptsCompletion(job, slurm[job]) => Terminal'
      BY <2>2, <3>2, <3>3 DEF Completed, Terminal
    <3> QED  BY <3>1, <3>4 DEF Ways, Launching, Prepared
  <2> QED  BY <1>8, <2>1, <2>2 DEF FlushReport, Call
<1>9. CASE FlushMark
  BY <1>1, <1>4, <1>5, <1>6, <1>9 DEF FlushMark, MarkReported
<1>10. CASE RecordResubmission \/ RecordReported
  BY <1>1, <1>6, <1>10 DEF RecordResubmission, RecordReported
<1>11. CASE Claim
  <2>1. CASE Claimable /\ Go(Worker, "check")
    BY <1>3, <1>5, <2>1 DEF Ways, Launching, Prepared, Watched
  <2> QED  BY <1>4, <1>5, <1>11, <2>1 DEF Claim
<1>12. CASE CheckExisting
  <2>1. CASE Go(Worker, "rereport")
    BY <1>4, <1>5, <2>1
  <2>2. CASE job' = NoJob /\ Go(Worker, "fetch")
    <3>1. at'[Worker] = "fetch" /\ at[Worker] = "check"
      BY <1>3, <1>5, <1>12, <2>2 DEF CheckExisting, Watched
    <3>2. run.job = NoJob /\ record.job = NoJob
      BY <1>12, <2>2 DEF CheckExisting
    <3> QED  BY <3>1, <3>2 DEF Ways, Launching, Prepared
  <2> QED  BY <1>12, <2>1, <2>2 DEF CheckExisting
<1>13. CASE Fetch
  <2>1. Launching /\ disk' = disk
    BY <1>13 DEF Fetch, Launching
  <2>2. CASE LocalMatches /\ Go(Worker, "prepared")
    <3>1. LocalMatches'
      BY <2>1, <2>2 DEF LocalMatches
    <3> QED  BY <1>3, <1>5, <2>1, <2>2, <3>1 DEF Ways, Watched
  <2>3. CASE Go(Worker, "install")
    <3>1. at'[Worker] = "install"
      BY <1>3, <1>5, <2>3 DEF Watched
    <3> QED  BY <2>1, <3>1 DEF Ways, Prepared
  <2> QED  BY <1>4, <1>5, <1>13, <2>2, <2>3 DEF Fetch
<1>14. CASE Install
  <2>1. Launching
    BY <1>14 DEF Install, Launching
  <2>2. CASE Go(Worker, "prepared") /\ \A f \in Files : disk'[f]
    <3>1. LocalMatches' /\ at'[Worker] = "prepared"
      BY <1>3, <1>5, <2>2 DEF LocalMatches, Watched
    <3> QED  BY <2>1, <3>1 DEF Ways
  <2>3. CASE Go(Worker, "install")
    <3>1. at'[Worker] = "install"
      BY <1>3, <1>5, <2>3 DEF Watched
    <3> QED  BY <2>1, <3>1 DEF Ways, Prepared
  <2> QED  BY <1>14, <2>2, <2>3 DEF Install
<1>15. CASE Validate
  <2>1. Launching /\ Prepared /\ disk' = disk
    BY <1>15 DEF Validate, Launching, Prepared
  <2> QED  BY <1>1, <1>4, <1>5, <1>6, <1>15, <2>1 DEF Validate
<1>16. CASE Launch
  <2>1. Launching
    BY <1>16 DEF Launch, Launching
  <2>2. CASE Go(Worker, "launched")
    BY <1>3, <1>5, <2>1, <2>2 DEF Ways, Prepared, Watched
  <2>3. Go(Worker, "launched") \/ Go(Worker, "unseen")
    BY <1>16 DEF Launch
  <2> QED  BY <1>4, <1>5, <2>2, <2>3
<1>17. CASE RecordLaunch
  <2>1. Launching
    BY <1>17 DEF RecordLaunch, Launching
  <2> QED  BY <1>1, <1>6, <1>17, <2>1 DEF RecordLaunch
<1>18. CASE FinishWrite(Worker)
  <2>1. at[Worker] = "writing" /\ at'[Worker] = draft[Worker].next /\ disk' = disk
    BY <1>1, <1>18, Finishes DEF FinishWrite
  <2>2. draft[Worker].next \in {"reconcile", "claim", "launch", "submit", "off"}
    BY <1>1, <2>1 DEF WorkerFit
  <2> QED  BY <2>1, <2>2 DEF Ways, Launching, Prepared
<1> QED  BY <1>7, <1>8, <1>9, <1>10, <1>11, <1>12, <1>13, <1>14, <1>15, <1>16, <1>17, <1>18
         DEF WorkerStep, Session, Deliver, Repair, Take, Prepare, Start

JobWays(j) ==
    /\ at'[j] = "writing" => \/ at[j] = "writing" /\ draft'[j] = draft[j]
                             \/ draft'[j].base = record
    /\ at'[j] = "clearing" => \/ at[j] = "clearing"
                              \/ /\ at[j] = "sending"
                                 /\ AcceptsCompletion(j, slurm[j]) => Terminal'

LEMMA JobWay ==
    ASSUME BaseInv, NEW j \in Jobs, JobStep(j)
    PROVE  JobWays(j)
<1>1. /\ TypeOK /\ ActorsTyped /\ JobFit(j) /\ j \in Actors /\ draft[j] \in Drafts
      /\ at \in [Actors -> WorkerPlaces \cup JobPlaces] /\ draft \in [Actors -> Drafts]
  BY Apart DEF BaseInv, ActorsTyped
<1>2. ASSUME NEW p \in JobPlaces, Go(j, p) PROVE at'[j] = p
  BY <1>1, <1>2, Goes
<1>3. ASSUME NEW p \in {"facts", "ended", "sending", "marking", "done"}, Go(j, p) PROVE JobWays(j)
  <2>1. p \in JobPlaces
    BY DEF JobPlaces
  <2>2. at'[j] = p
    BY <1>2, <1>3, <2>1
  <2> QED  BY <1>3, <2>2 DEF JobWays
<1>4. CASE JobEnds(j)
  BY <1>4 DEF JobEnds, JobWays
<1>5. CASE ReadRecord(j) \/ SpoolReport(j) \/ ClearReport(j) \/ NodeDies(j)
  BY <1>3, <1>5 DEF ReadRecord, SpoolReport, ClearReport, NodeDies
<1>6. CASE RecordEnd(j)
  <2>1. j \in Names /\ draft[j].reported \in BOOLEAN /\ "ended" \in JobPlaces
    BY <1>1 DEF Names, Drafts, JobPlaces
  <2>2. /\ at'[j] = "writing"
        /\ draft'[j] = [base |-> record, job |-> j, reported |-> draft[j].reported, next |-> "ended"]
    BY <1>1, <1>6, <2>1, Begins DEF RecordEnd
  <2> QED  BY <2>2 DEF JobWays
<1>7. CASE SendReport(j)
  <2>1. CASE Go(j, "done")
    BY <1>3, <2>1
  <2>2. CASE /\ Go(j, "clearing")
             /\ \/ AcceptsCompletion(j, slurm[j]) /\ run' = Completed(j, slurm[j])
                \/ ~AcceptsCompletion(j, slurm[j])
    <3>1. at'[j] = "clearing" /\ at[j] = "sending" /\ slurm[j] \in Ends
      BY <1>1, <1>2, <1>7, <2>2 DEF SendReport, JobPlaces, JobFit
    <3>2. run \in [state : {"queued", "claimed", "submitted"} \cup Ends, job : Names, retired : BOOLEAN]
      BY <1>1 DEF TypeOK, Names
    <3>3. AcceptsCompletion(j, slurm[j]) => Terminal'
      BY <2>2, <3>1, <3>2 DEF Completed, Terminal
    <3> QED  BY <3>1, <3>3 DEF JobWays
  <2> QED  BY <1>7, <2>1, <2>2 DEF SendReport, Call
<1>8. CASE MarkEnd(j)
  <2>1. "done" \in JobPlaces
    BY DEF JobPlaces
  <2>2. \/ at'[j] = "writing"
           /\ draft'[j] = [base |-> record, job |-> NoJob, reported |-> TRUE, next |-> "done"]
        \/ at'[j] = "done" /\ draft' = draft
    BY <1>1, <1>8, <2>1, Marks DEF MarkEnd
  <2> QED  BY <2>2 DEF JobWays
<1>9. CASE FinishWrite(j)
  <2>1. at'[j] \in {"ended", "done"}
    BY <1>1, <1>9, Finishes DEF FinishWrite, JobFit
  <2> QED  BY <2>1 DEF JobWays
<1> QED  BY <1>4, <1>5, <1>6, <1>7, <1>8, <1>9 DEF JobStep, Reporter

---------------------------------------------------------------------------
(* One recorded job.                                                       *)

\* Whoever replaces the record read it before, and found a job there.
LEMMA RecordedStays ==
    ASSUME BaseInv, [Next]_vars, Recorded
    PROVE  Recorded'
<1>1. record'.job # NoJob
  <2>1. CASE record' = record
    BY <2>1 DEF Recorded
  <2>2. ASSUME NEW a \in Actors, FinishWrite(a), record' = Merged(draft[a]) PROVE record'.job # NoJob
    BY <2>2 DEF Recorded, FinishWrite
  <2> QED  BY <2>1, <2>2, SharedMoves
<1>2. ASSUME NEW d, d.base = record PROVE Merged(d).job # NoJob
  BY <1>2 DEF Recorded, Merged
<1>3. ASSUME NEW a \in Actors, at'[a] = "writing"
      PROVE  (at[a] = "writing" /\ draft'[a] = draft[a]) \/ draft'[a].base = record
  <2>1. CASE WorkerStep
    <3>1. CASE a = Worker
      BY <1>3, <2>1, <3>1, WorkerWays DEF Ways
    <3>2. CASE a \in Jobs
      BY <1>3, <2>1, <3>2, WorkerMoves
    <3> QED  BY <3>1, <3>2, Apart
  <2>2. ASSUME NEW j \in Jobs, JobStep(j)
        PROVE  (at[a] = "writing" /\ draft'[a] = draft[a]) \/ draft'[a].base = record
    <3>1. CASE a = j
      BY <1>3, <2>2, <3>1, JobWay DEF JobWays
    <3>2. CASE a # j
      BY <1>3, <2>2, <3>2, JobMoves
    <3> QED  BY <3>1, <3>2
  <2>3. CASE Retire \/ UNCHANGED vars
    BY <1>3, <2>3 DEF Retire, vars
  <2> QED  BY <2>1, <2>2, <2>3 DEF Next, WorkerStep, JobStep
<1>4. ASSUME NEW a \in Actors, at'[a] = "writing" PROVE Merged(draft'[a]).job # NoJob
  <2>1. CASE at[a] = "writing" /\ draft'[a] = draft[a]
    BY <2>1 DEF Recorded
  <2>2. CASE draft'[a].base = record
    BY <1>2, <2>2
  <2> QED  BY <1>3, <1>4, <2>1, <2>2
<1> QED  BY <1>1, <1>4 DEF Recorded, Merged

LEMMA NamedNext ==
    ASSUME BaseInv, NamedInv, [Next]_vars
    PROVE  NamedInv'
<1>1. Heard => Heard'
  BY RunMoves DEF RunOnward
<1>2. run.job # NoJob => run'.job # NoJob
  BY RunMoves DEF RunOnward
<1>3. Recorded => Recorded'
  BY RecordedStays
<1>4. CASE named' = named
  <2>1. ASSUME named # {}, at'[Worker] = "check" PROVE run'.job # NoJob \/ Recorded'
    <3>1. CASE at[Worker] = "check"
      BY <1>2, <1>3, <2>1, <3>1 DEF NamedInv
    <3>2. CASE WorkerStep
      <4>1. Claimable
        BY <2>1, <3>2, WorkerWays DEF Ways
      <4>2. ~Heard
        BY <4>1 DEF Claimable, Heard, Terminal, Ends
      <4> QED  BY <1>3, <2>1, <4>2 DEF NamedInv
    <3>3. WorkerStep \/ at'[Worker] = at[Worker]
      <4>1. CASE \E j \in Jobs : JobStep(j)
        BY <4>1, JobMoves, Apart
      <4>2. CASE Retire \/ UNCHANGED vars
        BY <4>2 DEF Retire, vars
      <4> QED  BY <4>1, <4>2 DEF Next, WorkerStep, JobStep
    <3> QED  BY <2>1, <3>1, <3>2, <3>3
  <2>2. Launching' => named = {}
    <3>1. CASE WorkerStep
      <4>1. CASE at[Worker] = "check" /\ run.job = NoJob /\ record.job = NoJob
        BY <4>1 DEF NamedInv, Recorded
      <4> QED  BY <3>1, <4>1, WorkerWays DEF Ways, NamedInv
    <3>2. CASE at'[Worker] = at[Worker] /\ draft'[Worker] = draft[Worker]
      BY <3>2 DEF Launching, NamedInv
    <3>3. WorkerStep \/ (at'[Worker] = at[Worker] /\ draft'[Worker] = draft[Worker])
      <4>1. CASE \E j \in Jobs : JobStep(j)
        BY <4>1, JobMoves, Apart
      <4>2. CASE Retire \/ UNCHANGED vars
        BY <4>2 DEF Retire, vars
      <4> QED  BY <4>1, <4>2 DEF Next, WorkerStep, JobStep
    <3> QED  BY <3>1, <3>2, <3>3
  <2> QED  BY <1>1, <1>3, <1>4, <2>1, <2>2 DEF NamedInv
<1>5. CASE /\ at[Worker] = "writing" /\ draft[Worker].next = "submit"
           /\ FinishWrite(Worker) /\ named' = named \cup {draft[Worker].job}
  <2>1. named = {}
    BY <1>5 DEF NamedInv, Launching
  <2>2. at'[Worker] = "submit" /\ record' = Merged(draft[Worker]) /\ draft[Worker].job # NoJob
    BY <1>5, Finishes, Apart DEF BaseInv, WorkerFit
  <2>3. record'.job # NoJob
    BY <2>2 DEF Merged
  <2>4. WorkerStep
    BY <1>5 DEF WorkerStep, Session
  <2>5. Heard' \/ Recorded'
    <3>1. SUFFICES ASSUME ~Heard PROVE Recorded'
      BY <1>1
    <3>2. ASSUME NEW j \in Jobs, at'[j] = "writing" PROVE Merged(draft'[j]).job # NoJob
      <4>1. at[j] = "writing" /\ draft'[j] = draft[j]
        BY <2>4, <3>2, WorkerMoves
      <4>2. draft[j].job # NoJob
        BY <3>1, <4>1 DEF BaseInv, JobFit
      <4> QED  BY <4>1, <4>2 DEF Merged
    <3>3. \A a \in Actors : at'[a] = "writing" => Merged(draft'[a]).job # NoJob
      BY <2>2, <3>2, Apart
    <3> QED  BY <2>3, <3>3 DEF Recorded, Merged
  <2>6. ~Launching' /\ at'[Worker] # "check"
    BY <2>2 DEF Launching
  <2>7. \A i, j \in named' : i = j
    BY <1>5, <2>1
  <2> QED  BY <2>5, <2>6, <2>7 DEF NamedInv
<1> QED  BY <1>4, <1>5, SharedMoves

---------------------------------------------------------------------------
(* The files, and the spool.                                               *)

LEMMA DataNext ==
    ASSUME BaseInv, DataInv, [Next]_vars
    PROVE  DataInv'
<1>1. CASE WorkerStep
  BY <1>1, WorkerWays DEF Ways, DataInv, LocalMatches
<1>2. CASE \E j \in Jobs : JobStep(j)
  <2>1. at'[Worker] = at[Worker] /\ draft'[Worker] = draft[Worker] /\ disk' = disk
    BY <1>2, JobMoves, Apart
  <2> QED  BY <2>1 DEF DataInv, Prepared, LocalMatches
<1>3. CASE Retire \/ UNCHANGED vars
  BY <1>3 DEF Retire, vars, DataInv, Prepared, LocalMatches
<1> QED  BY <1>1, <1>2, <1>3 DEF Next, WorkerStep, JobStep

LEMMA SpoolNext ==
    ASSUME BaseInv, SpoolInv, [Next]_vars
    PROVE  SpoolInv'
<1> SUFFICES ASSUME \A i, j \in Started' : i = j
             PROVE  /\ queued' # {} => spool' # NoJob \/ Terminal'
                    /\ \A a \in Actors : at'[a] \in {"clearing", "clear"} => Terminal'
  BY DEF SpoolInv
<1>1. \A i, j \in Started : i = j
  BY StartedStay DEF Started
<1>2. Terminal => Terminal'
  BY RunMoves DEF RunOnward
<1>3. /\ queued # {} => spool # NoJob \/ Terminal
      /\ \A a \in Actors : at[a] \in {"clearing", "clear"} => Terminal
  BY <1>1 DEF SpoolInv
<1>4. queued' # {} => spool' # NoJob \/ Terminal'
  BY <1>2, <1>3, SharedMoves, Apart
\* The only job's report is refused only by a run that is closed.
<1>5. ASSUME NEW j \in Jobs, slurm[j] \in Ends, ~AcceptsCompletion(j, slurm[j])
      PROVE  Terminal
  <2>1. Known(run.job) /\ (run.retired => Terminal)
    BY DEF BaseInv, FilesFit
  <2>2. j \in Started
    BY <1>5 DEF Started, Ends
  <2>3. run.job \in {NoJob, j}
    BY <1>1, <2>1, <2>2 DEF Known
  <2> QED  BY <1>5, <2>1, <2>3 DEF AcceptsCompletion
<1>6. CASE WorkerStep
  <2>1. at'[Worker] = "clear" => Terminal'
    <3>1. SUFFICES ASSUME at'[Worker] = "clear" PROVE Terminal'
      OBVIOUS
    <3>2. at[Worker] = "flush" /\ (AcceptsCompletion(job, slurm[job]) => Terminal')
      BY <1>6, <3>1, WorkerWays DEF Ways
    <3>3. job \in Jobs /\ slurm[job] \in Ends
      BY <3>2 DEF BaseInv, WorkerFit, TypeOK
    <3> QED  BY <1>2, <1>5, <3>2, <3>3
  <2>2. at'[Worker] # "clearing"
    BY <1>6, OthersStay DEF WorkerFit, WorkerPlaces
  <2>3. \A j \in Jobs : at'[j] = at[j]
    BY <1>6, WorkerMoves
  <2> QED  BY <1>2, <1>3, <1>4, <2>1, <2>2, <2>3, Apart
<1>7. ASSUME NEW j \in Jobs, JobStep(j)
      PROVE  \A a \in Actors : at'[a] \in {"clearing", "clear"} => Terminal'
  <2>1. at'[j] = "clearing" => Terminal'
    <3>1. slurm[j] \in Ends \/ at[j] = "off"
      BY DEF BaseInv, JobFit
    <3> QED  BY <1>2, <1>3, <1>5, <1>7, <3>1, JobWay, Apart DEF JobWays
  <2>2. at'[j] # "clear"
    BY <1>7, OthersStay DEF JobFit, JobPlaces
  <2>3. \A a \in Actors \ {j} : at'[a] = at[a]
    BY <1>7, JobMoves
  <2> QED  BY <1>2, <1>3, <2>1, <2>2, <2>3
<1>8. CASE Retire \/ UNCHANGED vars
  BY <1>2, <1>3, <1>4, <1>8 DEF Retire, vars
<1> QED  BY <1>4, <1>6, <1>7, <1>8 DEF Next, WorkerStep, JobStep

---------------------------------------------------------------------------
(* The theorems.                                                           *)

LEMMA WorkerInvariant == Spec => []WorkerInv
<1>1. Init => WorkerInv
  <2> SUFFICES ASSUME Init PROVE WorkerInv
    OBVIOUS
  <2>1. at[Worker] = "off" /\ named = {} /\ queued = {} /\ \A a \in Actors : at[a] = "off"
    BY Apart DEF Init
  <2> QED  BY <2>1, BaseInit DEF WorkerInv, NamedInv, DataInv, SpoolInv, Launching, Prepared
<1>2. WorkerInv /\ [Next]_vars => WorkerInv'
  BY BaseNext, NamedNext, DataNext, SpoolNext DEF WorkerInv
<1> QED  BY <1>1, <1>2, PTL DEF Spec

\* However often the worker is killed and its calls are lost: one job is recorded as
\* launched, a record that says a job was reported is right, and the launcher starts
\* on the described files (run_training_queue.py run_once, scripts/lib).
THEOREM WorkerIsSafe == Spec => []WorkerSafety
<1>1. WorkerInv => WorkerSafety
  <2> SUFFICES ASSUME WorkerInv PROVE WorkerSafety
    OBVIOUS
  <2>1. TypeOK /\ LaunchesDescribedData
    BY DEF WorkerInv, BaseInv, DataInv, Prepared, LocalMatches, LaunchesDescribedData
  <2>2. ReportedIsHeard
    BY DEF WorkerInv, BaseInv, FilesFit, Heard, ReportedIsHeard
  <2>3. OneRecordedJob
    <3>1. CASE named = {}
      BY <3>1, FS_EmptySet DEF OneRecordedJob
    <3>2. CASE named # {}
      <4>1. PICK j \in named : TRUE
        BY <3>2
      <4>2. named = {j}
        BY <4>1 DEF WorkerInv, NamedInv
      <4>3. Cardinality(named) = 1
        BY <4>2, FS_Singleton
      <4> QED  BY <4>3 DEF OneRecordedJob
    <3> QED  BY <3>1, <3>2
  <2> QED  BY <2>1, <2>2, <2>3 DEF WorkerSafety
<1> QED  BY <1>1, WorkerInvariant, PTL

\* A spooled report waits for an answer, where the run has launched one job
\* (report_training_result.py, run_training_queue.py flush_pending).
THEOREM ReportIsKept == Spec => []ReportKept
<1>1. WorkerInv => ReportKept
  <2> SUFFICES ASSUME WorkerInv, queued # {}, Cardinality(Unused) = MaxJobs - 1
               PROVE  spool # NoJob \/ Terminal
    BY DEF ReportKept
  <2>1. IsFiniteSet(Jobs) /\ Cardinality(Jobs) = MaxJobs
    <3>1. MaxJobs \in Nat
      BY MaxJobsAssumption
    <3> QED  BY <3>1, FS_Interval DEF Jobs
  <2>2. Started \subseteq Jobs /\ Unused = Jobs \ Started
    BY DEF Started, Unused
  <2>3. Cardinality(Unused) = Cardinality(Jobs) - Cardinality(Jobs \cap Started)
    BY <2>1, <2>2, FS_Difference
  <2>4. IsFiniteSet(Started) /\ Jobs \cap Started = Started /\ Cardinality(Started) \in Nat
    BY <2>1, <2>2, FS_Subset, FS_CardinalityType
  <2>5. Cardinality(Started) = 1
    BY <2>1, <2>3, <2>4, MaxJobsAssumption
  <2>6. PICK x : Started = {x}
    BY <2>4, <2>5, FS_Singleton
  <2> QED  BY <2>6 DEF WorkerInv, SpoolInv
<1> QED  BY <1>1, WorkerInvariant, PTL

---------------------------------------------------------------------------
(* A training job: the records it takes.                                    *)

\* The n first of a set of lines are n at most.
LEMMA EarliestIsShort ==
    ASSUME NEW m \in Nat, NEW u \in SUBSET (1 .. m), NEW n \in Nat
    PROVE  /\ Earliest(u, n) \subseteq u
           /\ IsFiniteSet(Earliest(u, n)) /\ Cardinality(Earliest(u, n)) <= n
<1> DEFINE Before(i) == {j \in u : j < i}
           rank == [i \in Earliest(u, n) |-> Cardinality(Before(i))]
<1>1. IsFiniteSet(1 .. m) /\ IsFiniteSet(0 .. n - 1) /\ Cardinality(0 .. n - 1) = n
  BY FS_Interval
<1>2. IsFiniteSet(u)  BY <1>1, FS_Subset
<1>3. ASSUME NEW i \in u PROVE IsFiniteSet(Before(i)) /\ Cardinality(Before(i)) \in Nat
  <2>1. Before(i) \in SUBSET u  OBVIOUS
  <2> QED  BY <1>2, <2>1, FS_Subset, FS_CardinalityType
<1>4. ASSUME NEW i \in u, NEW j \in u, i < j PROVE Cardinality(Before(i)) # Cardinality(Before(j))
  <2>1. i \in Int /\ j \in Int /\ \A k \in u : k \in Int  OBVIOUS
  <2>2. Before(i) \in SUBSET Before(j)
    <3>1. ASSUME NEW k \in Before(i) PROVE k \in Before(j)
      <4>1. k \in u /\ k < i /\ k \in Int  OBVIOUS
      <4>2. k < j  BY <1>4, <2>1, <4>1
      <4> QED  BY <4>1, <4>2
    <3> QED  BY <3>1
  <2>3. i \in Before(j) /\ i \notin Before(i)  BY <1>4, <2>1
  <2> QED  BY <1>3, <2>2, <2>3, FS_Subset
<1>5. \A i \in Earliest(u, n) : i \in u /\ Cardinality(Before(i)) < n  BY DEF Earliest
<1> HIDE DEF Before
<1>6. ASSUME NEW i \in Earliest(u, n) PROVE rank[i] \in 0 .. n - 1
  <2>1. i \in u /\ Cardinality(Before(i)) < n  BY <1>5
  <2>2. PICK c \in Nat : c = Cardinality(Before(i))  BY <1>3, <2>1
  <2>3. rank[i] = c /\ c < n  BY <2>1, <2>2
  <2> QED  BY <2>3
<1>7. \A i, j \in Earliest(u, n) : rank[i] = rank[j] => i = j
  <2> TAKE i, j \in Earliest(u, n)
  <2>1. i \in u /\ j \in u /\ i \in Int /\ j \in Int
    <3>1. i \in u /\ j \in u  BY <1>5
    <3> QED  BY <3>1
  <2>2. rank[i] = Cardinality(Before(i)) /\ rank[j] = Cardinality(Before(j))  OBVIOUS
  <2>3. i < j \/ j < i \/ i = j  BY <2>1
  <2> QED  BY <1>4, <2>1, <2>2, <2>3
<1>8. rank \in Injection(Earliest(u, n), 0 .. n - 1)  BY <1>6, <1>7 DEF Injection, IsInjective
<1>9. Earliest(u, n) \subseteq u  BY <1>5
<1> QED  BY <1>1, <1>8, <1>9, FS_Injection

\* All of a set that is not larger are among the first of it.
LEMMA EarliestOfFew ==
    ASSUME NEW m \in Nat, NEW u \in SUBSET (1 .. m), NEW n \in Nat, Cardinality(u) <= n
    PROVE  Earliest(u, n) = u
<1>1. IsFiniteSet(u)
  <2>1. IsFiniteSet(1 .. m)  BY FS_Interval
  <2> QED  BY <2>1, FS_Subset
<1>2. ASSUME NEW i \in u PROVE Cardinality({j \in u : j < i}) < n
  <2> DEFINE b == {j \in u : j < i}
  <2>1. b \in SUBSET u /\ i \in u /\ i \notin b  OBVIOUS
  <2> HIDE DEF b
  <2>2. Cardinality(b) <= Cardinality(u) /\ Cardinality(b) # Cardinality(u)  BY <1>1, <2>1, FS_Subset
  <2>3. Cardinality(b) \in Nat /\ Cardinality(u) \in Nat  BY <1>1, <2>1, FS_Subset, FS_CardinalityType
  <2>4. Cardinality(b) < n  BY <2>2, <2>3
  <2> QED  BY <2>4 DEF b
<1> QED  BY <1>2 DEF Earliest

Record == [format : Formats, fits : BOOLEAN]

\* There are two formats, so two first records at most, and every record has the
\* format of one of them.
LEMMA FirstRecords ==
    ASSUME NEW s \in Seq(Record)
    PROVE  /\ FirstOfFormat(s) \subseteq 1 .. Len(s)
           /\ IsFiniteSet(FirstOfFormat(s)) /\ Cardinality(FirstOfFormat(s)) <= 2
           /\ \A i \in 1 .. Len(s) : \E h \in FirstOfFormat(s) : s[h].format = s[i].format
<1>1. PICK n \in Nat : Len(s) = n /\ DOMAIN s = 1 .. n  BY LenProperties
<1>2. \A i \in 1 .. n : s[i].format \in Formats
  <2>1. \A i \in 1 .. n : s[i] \in Record  BY <1>1, ElementOfSeq
  <2> QED  BY <2>1 DEF Record
<1> DEFINE H == FirstOfFormat(s)
           name == [h \in H |-> s[h].format]
           G == {m \in 0 .. n : \A i \in 1 .. m : \E h \in H : s[h].format = s[i].format}
<1>3. \A i \in 1 .. n : i \in H <=> \A j \in 1 .. i - 1 : s[j].format # s[i].format
  BY <1>1 DEF FirstOfFormat
<1>4. H \subseteq 1 .. n  BY <1>1 DEF FirstOfFormat
<1> HIDE DEF H
<1>5. \A g, h \in H : s[g].format = s[h].format => g = h
  <2> TAKE g, h \in H
  <2>1. g \in 1 .. n /\ h \in 1 .. n  BY <1>4
  <2>2. g < h => g \in 1 .. h - 1  BY <2>1
  <2>3. h < g => h \in 1 .. g - 1  BY <2>1
  <2>4. g < h \/ h < g \/ g = h  BY <2>1
  <2> QED  BY <1>3, <2>1, <2>2, <2>3, <2>4
<1>6. IsFiniteSet(Formats) /\ Cardinality(Formats) = 2
  <2>1. "bare" # "grounded"  OBVIOUS
  <2>2. IsFiniteSet({"bare"}) /\ Cardinality({"bare"}) = 1  BY FS_Singleton
  <2>3. Formats = {"bare"} \cup {"grounded"} /\ "grounded" \notin {"bare"}  BY <2>1 DEF Formats
  <2>4. IsFiniteSet({"bare"} \cup {"grounded"}) /\ Cardinality({"bare"} \cup {"grounded"}) = Cardinality({"bare"}) + 1
    BY <2>2, <2>3, FS_AddElement
  <2> QED  BY <2>2, <2>3, <2>4
<1>7. name \in Injection(H, Formats)  BY <1>2, <1>4, <1>5 DEF Injection, IsInjective
<1>8. IsFiniteSet(H) /\ Cardinality(H) <= 2  BY <1>6, <1>7, FS_Injection
<1>9. 0 \in G
  <2>1. 0 \in 0 .. n /\ 1 .. 0 = {}  OBVIOUS
  <2> QED  BY <2>1
<1>10. ASSUME NEW m \in 0 .. n - 1, m \in G PROVE m + 1 \in G
  <2>1. m + 1 \in 0 .. n /\ m + 1 \in 1 .. n /\ m + 1 - 1 = m  OBVIOUS
  <2>2. ASSUME NEW i \in 1 .. m + 1 PROVE \E h \in H : s[h].format = s[i].format
    <3>1. CASE i \in 1 .. m  BY <1>10, <3>1
    <3>2. CASE i = m + 1
      <4>1. CASE \A j \in 1 .. m : s[j].format # s[i].format
        <5>1. i \in H  BY <1>3, <2>1, <3>2, <4>1
        <5> QED  BY <5>1
      <4>2. CASE \E j \in 1 .. m : s[j].format = s[i].format  BY <1>10, <4>2
      <4> QED  BY <4>1, <4>2
    <3>3. i \in 1 .. m \/ i = m + 1  BY <2>1
    <3> QED  BY <3>1, <3>2, <3>3
  <2> QED  BY <2>1, <2>2
<1>11. n \in G
  <2> HIDE DEF G
  <2>1. n \in 0 .. n  OBVIOUS
  <2> QED  BY <1>9, <1>10, <2>1, UpTo
<1>12. \A i \in 1 .. n : \E h \in H : s[h].format = s[i].format  BY <1>11
<1> QED  BY <1>1, <1>4, <1>8, <1>12 DEF H

\* A smoke run takes no more than its limit; with room for two, a record of each
\* format.
LEMMA SmokeTakes ==
    ASSUME NEW s \in Seq(Record), NEW n \in Nat
    PROVE  /\ SmokeSubset(s, n) \subseteq 1 .. Len(s)
           /\ Cardinality(SmokeSubset(s, n)) <= n
           /\ n >= 2 => \A i \in 1 .. Len(s) : \E p \in SmokeSubset(s, n) : s[p].format = s[i].format
<1>1. PICK m \in Nat : Len(s) = m /\ DOMAIN s = 1 .. m  BY LenProperties
<1> DEFINE heads == Earliest(FirstOfFormat(s), n)
           more == Earliest((1 .. m) \ heads, n - Cardinality(heads))
<1>2. FirstOfFormat(s) \in SUBSET (1 .. m)  BY <1>1, FirstRecords
<1>3. heads \subseteq FirstOfFormat(s) /\ IsFiniteSet(heads) /\ Cardinality(heads) <= n  BY <1>2, EarliestIsShort
<1>4. PICK c \in Nat : c = Cardinality(heads)  BY <1>3, FS_CardinalityType
<1>5. n - c \in Nat  BY <1>3, <1>4
<1>6. SmokeSubset(s, n) = heads \cup more  BY <1>1 DEF SmokeSubset
<1> HIDE DEF heads
<1>7. (1 .. m) \ heads \in SUBSET (1 .. m)  OBVIOUS
<1>8. more \subseteq (1 .. m) \ heads /\ IsFiniteSet(more) /\ Cardinality(more) <= n - c
  BY <1>4, <1>5, <1>7, EarliestIsShort
<1> HIDE DEF more
<1>9. heads \cup more \subseteq 1 .. m  BY <1>2, <1>3, <1>8
<1>10. Cardinality(heads \cup more) <= n
  <2>1. heads \cap more = {}  BY <1>8
  <2>2. Cardinality(heads \cap more) = 0  BY <2>1, FS_EmptySet
  <2>3. PICK d \in Nat : d = Cardinality(more)  BY <1>8, FS_CardinalityType
  <2>4. Cardinality(heads \cup more) = c + d - 0  BY <1>3, <1>4, <1>8, <2>2, <2>3, FS_Union
  <2> QED  BY <1>4, <1>5, <1>8, <2>3, <2>4
<1>11. ASSUME n >= 2 PROVE \A i \in 1 .. m : \E p \in heads \cup more : s[p].format = s[i].format
  <2>1. PICK k \in Nat : k = Cardinality(FirstOfFormat(s))  BY FirstRecords, FS_CardinalityType
  <2>2. k <= n
    <3>1. k <= 2  BY <2>1, FirstRecords
    <3> QED  BY <1>11, <3>1
  <2>3. heads = FirstOfFormat(s)  BY <1>2, <2>1, <2>2, EarliestOfFew DEF heads
  <2> QED  BY <1>1, <2>3, FirstRecords
<1> QED  BY <1>1, <1>6, <1>9, <1>10, <1>11

---------------------------------------------------------------------------
(* How many steps.                                                         *)

\* Steps for n records: enough to see each of them in every epoch, and more of them
\* for more records.
LEMMA Batches ==
    ASSUME NEW n \in Nat, NEW d \in Nat, d >= 1
    PROVE  /\ StepsFor(n, d) \in Nat
           /\ StepsFor(n, 1) * 8 >= 3 * n
           /\ \A m \in 0 .. n : StepsFor(m, 1) <= StepsFor(n, 1)
<1>1. StepsFor(n, 1) = AtLeastOne((n + 7) \div 8) * 3  BY DEF StepsFor, CeilDiv, Accumulation, Epochs
<1>2. \A m \in 0 .. n : StepsFor(m, 1) = AtLeastOne((m + 7) \div 8) * 3  BY DEF StepsFor, CeilDiv, Accumulation, Epochs
<1>3. StepsFor(n, d) \in Nat
  <2>1. PICK b \in Nat : b = 8 * d /\ b >= 1  OBVIOUS
  <2>2. PICK a \in Nat : a = n + b - 1  BY <2>1
  <2>3. a \div b \in Nat  BY <2>1
  <2>4. StepsFor(n, d) = AtLeastOne(a \div b) * 3  BY <2>1, <2>2 DEF StepsFor, CeilDiv, Accumulation, Epochs
  <2> QED  BY <2>3, <2>4 DEF AtLeastOne
<1>4. PICK q \in Nat : q = (n + 7) \div 8 /\ 8 * q >= n  OBVIOUS
<1>5. StepsFor(n, 1) * 8 >= 3 * n  BY <1>1, <1>4 DEF AtLeastOne
<1>6. ASSUME NEW m \in 0 .. n PROVE StepsFor(m, 1) <= StepsFor(n, 1)
  <2>1. PICK p \in Nat : p = (m + 7) \div 8 /\ p <= q  BY <1>4
  <2> QED  BY <1>1, <1>2, <1>4, <2>1 DEF AtLeastOne
<1> QED  BY <1>3, <1>5, <1>6

\* The budget of an order is a number.
LEMMA PlannedSteps ==
    ASSUME order \in Orders, NEW c \in Nat
    PROVE  Devices \in Nat \ {0} /\ MaxSteps(c) \in Nat
<1>1. order.cpu \in BOOLEAN /\ order.gpus \in Nat  BY JobAssumption
<1>2. PICK d \in Nat : d = Devices /\ d >= 1  BY <1>1 DEF Devices, AtLeastOne
<1>3. StepsFor(c, d) \in Nat  BY <1>2, Batches
<1> QED  BY <1>2, <1>3 DEF MaxSteps, SmokeSteps

---------------------------------------------------------------------------
(* The invariant of a job.                                                 *)

Running == {"auditing", "planning", "configuring", "training", "saving"}
JobPlace == {"submitting", "refused", "pending", "preflight", "reading", "telling", "over"} \cup Running
KeptLines == [train |-> Kept(data["train"], SmokeTrain), validation |-> Kept(data["validation"], SmokeValidation)]

\* The variables keep their types, and what was picked are lines of the file.
JobTyped ==
    /\ order \in Orders /\ exports \in Exports /\ data \in Exports \cup {NoFiles}
    /\ DOMAIN picked = {"train", "validation"}
    /\ picked["train"] \subseteq DOMAIN data["train"]
    /\ budget \in Nat /\ steps \in Nat /\ written \in 0 .. 9 /\ claimed \in BOOLEAN
    /\ doing \in JobPlace

\* Where the job is says how much is written.
WrittenInv ==
    /\ doing \in {"submitting", "pending", "preflight", "reading", "auditing"} => written = 0
    /\ doing = "planning" => written = 1
    /\ doing \in {"configuring", "training"} => written = 2
    /\ doing = "saving" => written >= 2

\* What is planned is for the records that were picked, which fit.
PlanInv ==
    /\ doing \in {"auditing", "planning"} => picked = KeptLines
    /\ written >= 2 =>
         /\ \A i \in picked["train"] : data["train"][i].fits
         /\ budget = MaxSteps(Cardinality(picked["train"]))
         /\ picked["train"] # {}
         /\ order.policy = "fail" => picked = KeptLines

\* Unless the files were replaced, the job reads those it was submitted with.
SubmittedInv ==
    /\ doing \in Running => data = exports
    /\ doing \notin {"submitting", "refused"} /\ order.by # "direct" =>
         "moved" \in mishaps \/ walltime = Walltime(Len(exports["train"]))

\* The settings are those adapted to the release, which accepts them.
ConfigInv ==
    doing \in {"training", "saving"} =>
        config = Adapted(order.release) /\ Adapted(order.release) \subseteq order.release

\* What is being told, and what was, of a job of the queue.
Finished == written = 9 /\ ~FellShort
TellingInv ==
    /\ claimed => order.by = "queue"
    /\ doing = "telling" =>
         /\ claimed /\ told = <<>> /\ ending.outcome \in {"succeeded", "failed"} /\ ending.next \in {"preflight", "over"}
         /\ ending.next = "preflight" => ending.outcome = "failed" /\ written = 0
         /\ ending.outcome = "succeeded" => Finished
    /\ told # <<>> => claimed
    /\ claimed /\ doing # "telling" => told # <<>> \/ mishaps \cap {"killed", "cut"} # {}
    /\ doing = "over" /\ order.by = "queue" => claimed \/ mishaps \cap {"killed", "cut", "unseen"} # {}
    /\ told = <<>> \/ \E r \in [outcome : {"succeeded", "failed"}, registers : BOOLEAN] :
         /\ told = <<r>>
         /\ r.outcome = "succeeded" => Finished /\ doing = "over"
         /\ r.registers => r.outcome = "succeeded" /\ order.mode = "full"

JobInv == JobTyped /\ WrittenInv /\ PlanInv /\ SubmittedInv /\ ConfigInv /\ TellingInv /\ SmokeSeesEveryFormat

LEMMA JobInitInv == JobInit => JobInv
<1> SUFFICES ASSUME JobInit PROVE JobInv  OBVIOUS
<1>1. JobTyped
  <2>1. data \in Exports \cup {NoFiles}  BY DEF JobInit
  <2>2. DOMAIN picked = {"train", "validation"} /\ picked["train"] \subseteq DOMAIN data["train"]
    BY DEF JobInit, NoLines
  <2>3. budget \in Nat /\ steps \in Nat /\ claimed \in BOOLEAN /\ doing \in JobPlace
    BY DEF JobInit, JobPlace
  <2>4. 0 \in 0 .. 9  OBVIOUS
  <2>5. written \in 0 .. 9  BY <2>4 DEF JobInit
  <2> QED  BY <2>1, <2>2, <2>3, <2>5 DEF JobTyped, JobInit
<1>2. WrittenInv /\ PlanInv /\ SubmittedInv /\ ConfigInv  BY DEF JobInit, WrittenInv, PlanInv, SubmittedInv, ConfigInv, Running
<1>3. TellingInv  BY DEF JobInit, TellingInv
<1>4. SmokeSeesEveryFormat
  <2>1. picked["train"] = {} /\ picked["validation"] = {} /\ data["train"] = <<>>  BY DEF JobInit, NoLines, NoFiles
  <2>2. Cardinality(picked["train"]) = 0 /\ Cardinality(picked["validation"]) = 0  BY <2>1, FS_EmptySet
  <2> QED  BY <2>1, <2>2 DEF SmokeSeesEveryFormat, SmokeTrain, SmokeValidation
<1> QED  BY <1>1, <1>2, <1>3, <1>4 DEF JobInv

\* What the trainer decided stays as long as it does nothing.
LEMMA TrainerRests ==
    ASSUME JobInv, UNCHANGED <<order, data, picked, config, budget, written>>,
           doing' \in {"auditing", "planning"} => doing \in {"auditing", "planning"},
           doing' \in {"training", "saving"} => doing \in {"training", "saving"}
    PROVE  PlanInv' /\ ConfigInv' /\ SmokeSeesEveryFormat'
<1>1. PlanInv'  BY DEF JobInv, PlanInv, KeptLines, Kept, MaxSteps, Devices
<1>2. ConfigInv'  BY DEF JobInv, ConfigInv
<1>3. SmokeSeesEveryFormat'  BY DEF JobInv, SmokeSeesEveryFormat, Lines
<1> QED  BY <1>1, <1>2, <1>3

LEMMA SameWalltime ==
    ASSUME UNCHANGED <<order, exports>>
    PROVE  Walltime(Len(exports["train"]))' = Walltime(Len(exports["train"]))
BY DEF Walltime

LEMMA SameEnd ==
    ASSUME UNCHANGED <<order, budget, steps, written>>
    PROVE  Finished' <=> Finished
BY DEF Finished, FellShort

\* The scripts.
LEMMA ScriptKeeps ==
    ASSUME JobInv, SubmitJob \/ RefuseToSubmit \/ CallDirectly \/ ExportMoves \/ StartJob \/ ExitUnseen \/ PassPreflight
    PROVE  JobInv'
<1>1. UNCHANGED <<order, data, picked, config, budget, steps, written, claimed, ending, told>>
  BY DEF SubmitJob, RefuseToSubmit, CallDirectly, ExportMoves, StartJob, ExitUnseen, PassPreflight, trainerVars, shellVars
<1>2. /\ doing \in {"submitting", "pending", "preflight"}
      /\ doing' \in {"refused", "pending", "preflight", "reading", "over"}
  BY DEF SubmitJob, RefuseToSubmit, CallDirectly, ExportMoves, StartJob, ExitUnseen, PassPreflight, Reach
<1>3. PlanInv' /\ ConfigInv' /\ SmokeSeesEveryFormat'  BY <1>1, <1>2, TrainerRests
<1>4. JobTyped'
  <2>1. exports' \in Exports
    BY DEF SubmitJob, RefuseToSubmit, CallDirectly, ExportMoves, StartJob, ExitUnseen, PassPreflight, JobInv, JobTyped
  <2> QED  BY <1>1, <1>2, <2>1 DEF JobInv, JobTyped, JobPlace
<1>5. WrittenInv'  BY <1>1, <1>2 DEF JobInv, WrittenInv
<1>6. SubmittedInv'
  <2>1. doing' \notin Running  BY <1>2 DEF Running
  <2>2. ASSUME doing' \notin {"submitting", "refused"}, order'.by # "direct"
        PROVE  "moved" \in mishaps' \/ walltime' = Walltime(Len(exports["train"]))'
    <3>1. CASE SubmitJob
      <4>1. UNCHANGED <<order, exports>> /\ walltime' = Walltime(Len(exports["train"]))  BY <3>1 DEF SubmitJob
      <4> QED  BY <4>1, SameWalltime
    <3>2. CASE ExportMoves  BY <3>2 DEF ExportMoves
    <3>3. CASE StartJob \/ ExitUnseen \/ PassPreflight
      <4>1. UNCHANGED <<order, exports, walltime>> /\ mishaps \subseteq mishaps' /\ doing \notin {"submitting", "refused"}
        BY <3>3 DEF StartJob, ExitUnseen, PassPreflight
      <4> QED  BY <2>2, <4>1, SameWalltime DEF JobInv, SubmittedInv
    <3>4. ~RefuseToSubmit /\ ~CallDirectly  BY <2>2, <1>1 DEF RefuseToSubmit, CallDirectly, Reach
    <3> QED  BY <3>1, <3>2, <3>3, <3>4
  <2> QED  BY <2>1, <2>2 DEF SubmittedInv
<1>7. TellingInv'
  <2>1. Finished' <=> Finished  BY <1>1, SameEnd
  <2>2. mishaps \subseteq mishaps'
    BY DEF SubmitJob, RefuseToSubmit, CallDirectly, ExportMoves, StartJob, ExitUnseen, PassPreflight
  <2>3. doing' = "over" => "unseen" \in mishaps'
    BY <1>2 DEF SubmitJob, RefuseToSubmit, CallDirectly, ExportMoves, StartJob, ExitUnseen, PassPreflight, Reach
  <2> QED  BY <1>1, <1>2, <2>1, <2>2, <2>3 DEF JobInv, TellingInv
<1> QED  BY <1>3, <1>4, <1>5, <1>6, <1>7 DEF JobInv

\* The report of an end, from wherever.
LEMMA ReportKeeps ==
    ASSUME JobInv, NEW outcome \in {"succeeded", "failed"}, NEW next \in {"preflight", "over"},
           doing \notin {"submitting", "refused", "telling", "over"},
           Report(outcome, next), UNCHANGED <<order, exports, walltime, trainerVars, mishaps>>,
           next = "preflight" => doing = "preflight" /\ outcome = "failed",
           outcome = "succeeded" => Finished
    PROVE  JobInv'
<1>1. UNCHANGED <<order, exports, walltime, data, picked, config, budget, steps, written, mishaps, told>>
  BY DEF Report, trainerVars, shellVars
<1>2. doing' \in {"telling", "preflight", "over"}  BY DEF Report, Reach
<1>3. PlanInv' /\ ConfigInv' /\ SmokeSeesEveryFormat'  BY <1>1, <1>2, TrainerRests
<1>4. JobTyped'
  <2>1. claimed' \in BOOLEAN  BY DEF Report, shellVars, JobInv, JobTyped
  <2> QED  BY <1>1, <1>2, <2>1 DEF JobInv, JobTyped, JobPlace
<1>5. WrittenInv'
  <2>1. doing' = "preflight" => written = 0
    BY DEF Report, Reach, JobInv, WrittenInv
  <2> QED  BY <1>1, <1>2, <2>1 DEF WrittenInv
<1>6. SubmittedInv'
  <2>1. doing' \notin Running  BY <1>2 DEF Running
  <2> QED  BY <1>1, <2>1, SameWalltime DEF JobInv, SubmittedInv
<1>7. Finished' <=> Finished  BY <1>1, SameEnd
<1>8. TellingInv'
  <2>1. CASE order.by = "queue" /\ ~claimed
    <3>1. /\ claimed' = TRUE /\ ending' = [outcome |-> outcome, next |-> next] /\ doing' = "telling" /\ told' = told
      BY <2>1 DEF Report, Reach
    <3>2. told = <<>>  BY <2>1 DEF JobInv, TellingInv
    <3>3. next = "preflight" => written = 0  BY DEF JobInv, WrittenInv
    <3> QED  BY <1>1, <1>7, <2>1, <3>1, <3>2, <3>3 DEF TellingInv
  <2>2. CASE ~(order.by = "queue" /\ ~claimed)
    <3>1. UNCHANGED <<claimed, ending, told>> /\ doing' = next  BY <2>2 DEF Report, Reach, shellVars
    <3> QED  BY <1>1, <1>7, <2>2, <3>1 DEF JobInv, TellingInv
  <2> QED  BY <2>1, <2>2
<1> QED  BY <1>3, <1>4, <1>5, <1>6, <1>8 DEF JobInv

\* The job's ends.
LEMMA EndKeeps ==
    ASSUME JobInv, FailPreflight \/ TrainerFails \/ Succeed \/ Terminate \/ Kill
    PROVE  JobInv'
<1>1. CASE FailPreflight  BY <1>1, ReportKeeps DEF FailPreflight
<1>2. CASE TrainerFails
  <2>1. doing \notin {"submitting", "refused", "telling", "over"}  BY <1>2 DEF TrainerFails, TrainerPlaces
  <2> QED  BY <1>2, <2>1, ReportKeeps DEF TrainerFails
<1>3. CASE Succeed
  <2>1. Finished  BY <1>3 DEF Succeed, Finished, Artefacts
  <2> QED  BY <1>3, <2>1, ReportKeeps DEF Succeed
<1>4. CASE Terminate /\ doing # "telling"
  <2>1. CASE doing \in TrainerPlaces /\ Report("failed", "over") /\ UNCHANGED <<order, exports, walltime, trainerVars, mishaps>>
    <3>1. doing \notin {"submitting", "refused", "telling", "over"}  BY <2>1 DEF TrainerPlaces
    <3> QED  BY <2>1, <3>1, ReportKeeps
  <2>2. CASE doing = "preflight" /\ (\E next \in {"preflight", "over"} : Report("failed", next))
             /\ UNCHANGED <<order, exports, walltime, trainerVars, mishaps>>
    <3>1. PICK next \in {"preflight", "over"} : Report("failed", next)  BY <2>2
    <3> QED  BY <2>2, <3>1, ReportKeeps
  <2> QED  BY <1>4, <2>1, <2>2 DEF Terminate
<1>5. CASE Kill \/ (Terminate /\ doing = "telling")
  <2>1. /\ UNCHANGED <<order, exports, walltime, data, picked, config, budget, steps, written, claimed, told>>
        /\ doing' = "over" /\ doing \notin {"submitting", "refused", "over"}
        /\ mishaps \subseteq mishaps' /\ mishaps' \cap {"killed", "cut"} # {}
    BY <1>5 DEF Kill, Terminate, Reach, TrainerPlaces, trainerVars
  <2>2. PlanInv' /\ ConfigInv' /\ SmokeSeesEveryFormat'  BY <2>1, TrainerRests
  <2>3. JobTyped' /\ WrittenInv'  BY <2>1 DEF JobInv, JobTyped, JobPlace, WrittenInv
  <2>4. SubmittedInv'
    <3>1. doing' \notin Running  BY <2>1 DEF Running
    <3> QED  BY <2>1, <3>1, SameWalltime DEF JobInv, SubmittedInv
  <2>5. TellingInv'
    <3>1. Finished' <=> Finished  BY <2>1, SameEnd
    <3> QED  BY <2>1, <3>1 DEF JobInv, TellingInv
  <2> QED  BY <2>2, <2>3, <2>4, <2>5 DEF JobInv
<1> QED  BY <1>1, <1>2, <1>3, <1>4, <1>5

\* The report is in the spool.
LEMMA TellKeeps ==
    ASSUME JobInv, Tell
    PROVE  JobInv'
<1>1. UNCHANGED <<order, exports, walltime, data, picked, config, budget, steps, written, claimed, mishaps>>
  BY DEF Tell, trainerVars
<1>2. /\ doing = "telling" /\ claimed /\ told = <<>> /\ doing' = ending.next /\ ending.next \in {"preflight", "over"}
      /\ ending.next = "preflight" => ending.outcome = "failed" /\ written = 0
      /\ ending.outcome \in {"succeeded", "failed"}
      /\ ending.outcome = "succeeded" => Finished
  BY DEF Tell, Reach, JobInv, TellingInv
<1>3. PlanInv' /\ ConfigInv' /\ SmokeSeesEveryFormat'  BY <1>1, <1>2, TrainerRests
<1>4. JobTyped' /\ WrittenInv'  BY <1>1, <1>2 DEF JobInv, JobTyped, JobPlace, WrittenInv
<1>5. SubmittedInv'
  <2>1. doing' \notin Running  BY <1>2 DEF Running
  <2> QED  BY <1>1, <1>2, <2>1, SameWalltime DEF JobInv, SubmittedInv
<1>6. TellingInv'
  <2>1. Finished' <=> Finished  BY <1>1, SameEnd
  <2>2. PICK r \in [outcome : {"succeeded", "failed"}, registers : BOOLEAN] :
          /\ told' = Append(<<>>, r)
          /\ r.outcome = "succeeded" => ending.outcome = "succeeded"
          /\ r.registers => r.outcome = "succeeded" /\ order.mode = "full"
    <3> DEFINE outcome == IF ending.outcome = "succeeded" /\ ~AdapterIsPresent THEN "failed" ELSE ending.outcome
               r == [outcome |-> outcome, registers |-> outcome = "succeeded" /\ order.mode = "full"]
    <3>1. told' = Append(<<>>, r)  BY <1>2 DEF Tell
    <3>2. outcome \in {"succeeded", "failed"} /\ (outcome = "succeeded" => ending.outcome = "succeeded")  BY <1>2
    <3> HIDE DEF outcome
    <3>3. r \in [outcome : {"succeeded", "failed"}, registers : BOOLEAN]  BY <3>2
    <3>4. (r.outcome = "succeeded" => ending.outcome = "succeeded") /\ (r.registers => r.outcome = "succeeded" /\ order.mode = "full")
      BY <3>2
    <3> HIDE DEF r
    <3> QED  BY <3>1, <3>3, <3>4
  <2>3. told' = <<r>>  BY <2>2
  <2> QED  BY <1>1, <1>2, <2>1, <2>2, <2>3 DEF JobInv, TellingInv
<1> QED  BY <1>3, <1>4, <1>5, <1>6 DEF JobInv

\* Every file is a list of records.
LEMMA FilesAreRecords ==
    ASSUME NEW e \in Exports
    PROVE  e["train"] \in Seq(Record) /\ e["validation"] \in Seq(Record)
<1>1. DOMAIN e = {"train", "validation"} /\ \A f \in DOMAIN e : e[f] \in Seq(Record)  BY JobAssumption DEF Record
<1> QED  BY <1>1

\* What a run keeps of a file.
LEMMA KeptOf ==
    ASSUME NEW s \in Seq(Record), NEW n \in Nat
    PROVE  /\ Kept(s, n) \subseteq DOMAIN s
           /\ order.mode # "smoke" => Kept(s, n) = DOMAIN s
           /\ order.mode = "smoke" =>
                /\ Cardinality(Kept(s, n)) <= n
                /\ n >= 2 => \A i \in DOMAIN s : \E p \in Kept(s, n) : s[p].format = s[i].format
<1>1. DOMAIN s = 1 .. Len(s)  BY LenProperties
<1> QED  BY <1>1, SmokeTakes DEF Kept

LEMMA ReadKeeps ==
    ASSUME JobInv, Read
    PROVE  JobInv'
<1>1. /\ UNCHANGED <<order, exports, walltime, config, budget, steps, written, claimed, ending, told, mishaps>>
      /\ doing = "reading" /\ doing' = "auditing" /\ written = 0
      /\ data' = exports /\ exports["train"] # <<>>
      /\ picked' = [train |-> Kept(exports["train"], SmokeTrain), validation |-> Kept(exports["validation"], SmokeValidation)]
  BY DEF Read, Reach, shellVars, JobInv, WrittenInv
<1>2. /\ exports \in Exports
      /\ exports["train"] \in Seq(Record) /\ exports["validation"] \in Seq(Record)
  BY FilesAreRecords DEF JobInv, JobTyped
<1>3. SmokeTrain = 4 /\ SmokeValidation = 2 /\ 4 \in Nat /\ 2 \in Nat  BY DEF SmokeTrain, SmokeValidation
<1>4. JobTyped'
  <2>1. picked'["train"] = Kept(exports["train"], SmokeTrain)  BY <1>1
  <2>2. picked'["train"] \subseteq DOMAIN exports["train"]  BY <1>2, <1>3, <2>1, KeptOf
  <2>3. DOMAIN picked' = {"train", "validation"}  BY <1>1
  <2>4. doing' \in JobPlace  BY <1>1 DEF JobPlace, Running
  <2> QED  BY <1>1, <1>2, <2>2, <2>3, <2>4 DEF JobInv, JobTyped
<1>5. WrittenInv' /\ ConfigInv'  BY <1>1 DEF WrittenInv, ConfigInv
<1>6. PlanInv'
  <2>1. picked' = KeptLines'  BY <1>1 DEF KeptLines, Kept
  <2> QED  BY <1>1, <2>1 DEF PlanInv
<1>7. SubmittedInv'  BY <1>1, SameWalltime DEF JobInv, SubmittedInv
<1>8. TellingInv'
  <2>1. Finished' <=> Finished  BY <1>1, SameEnd
  <2> QED  BY <1>1, <2>1 DEF JobInv, TellingInv
<1>9. SmokeSeesEveryFormat'
  <2>1. picked'["train"] = Kept(exports["train"], SmokeTrain) /\ picked'["validation"] = Kept(exports["validation"], SmokeValidation)
    BY <1>1
  <2>2. order.mode = "smoke" =>
          /\ Cardinality(picked'["train"]) <= 4 /\ Cardinality(picked'["validation"]) <= 2
          /\ \A i \in DOMAIN exports["train"] : \E p \in picked'["train"] : exports["train"][p].format = exports["train"][i].format
    <3>1. picked'["train"] = Kept(exports["train"], 4) /\ picked'["validation"] = Kept(exports["validation"], 2)
      BY <1>3, <2>1
    <3>2. order.mode = "smoke" => Cardinality(Kept(exports["train"], 4)) <= 4 /\ Cardinality(Kept(exports["validation"], 2)) <= 2
      BY <1>2, <1>3, KeptOf
    <3>3. order.mode = "smoke" => \A i \in DOMAIN exports["train"] :
            \E p \in Kept(exports["train"], 4) : exports["train"][p].format = exports["train"][i].format
      BY <1>2, <1>3, KeptOf
    <3> QED  BY <3>1, <3>2, <3>3
  <2> QED  BY <1>1, <1>3, <2>2 DEF SmokeSeesEveryFormat, Lines
<1> QED  BY <1>4, <1>5, <1>6, <1>7, <1>8, <1>9 DEF JobInv

LEMMA PlanKeeps ==
    ASSUME JobInv, PlanSteps
    PROVE  JobInv'
<1>1. /\ UNCHANGED <<order, exports, walltime, data, config, steps, claimed, ending, told, mishaps>>
      /\ doing = "planning" /\ doing' = "configuring" /\ written' = 2 /\ written = 1
      /\ Oversized => order.policy = "drop"
      /\ Fitting("train") # {}
      /\ picked' = [f \in DOMAIN picked |-> Fitting(f)]
      /\ budget' = MaxSteps(Cardinality(Fitting("train")))
  BY DEF PlanSteps, Reach, shellVars, JobInv, WrittenInv
<1>2. /\ DOMAIN picked = {"train", "validation"} /\ picked = KeptLines /\ data = exports /\ exports \in Exports
      /\ picked["train"] \subseteq DOMAIN data["train"]
  BY <1>1 DEF JobInv, JobTyped, PlanInv, SubmittedInv, Running
<1>3. /\ picked'["train"] = Fitting("train") /\ picked'["validation"] = Fitting("validation")
      /\ DOMAIN picked' = {"train", "validation"}
      /\ Fitting("train") \subseteq picked["train"] /\ Fitting("validation") \subseteq picked["validation"]
  BY <1>1, <1>2 DEF Fitting
<1>4. order.policy = "fail" => picked' = picked
  <2>1. ASSUME order.policy = "fail" PROVE \A f \in DOMAIN picked : Fitting(f) = picked[f]
    BY <1>1, <2>1 DEF Oversized
  <2>2. picked = [f \in {"train", "validation"} |-> picked[f]]  BY <1>2 DEF KeptLines
  <2> QED  BY <1>1, <1>2, <2>1, <2>2
<1>5. /\ exports["train"] \in Seq(Record) /\ exports["validation"] \in Seq(Record)  BY <1>2, FilesAreRecords
<1>6. SmokeTrain = 4 /\ SmokeValidation = 2 /\ 4 \in Nat /\ 2 \in Nat  BY DEF SmokeTrain, SmokeValidation
<1>7. /\ picked["train"] \subseteq DOMAIN exports["train"] /\ picked["validation"] \subseteq DOMAIN exports["validation"]
      /\ order.mode = "smoke" => Cardinality(picked["train"]) <= 4 /\ Cardinality(picked["validation"]) <= 2
  <2>1. picked["train"] = Kept(exports["train"], 4) /\ picked["validation"] = Kept(exports["validation"], 2)
    BY <1>2, <1>6 DEF KeptLines
  <2> QED  BY <1>5, <1>6, <2>1, KeptOf
<1>8. ASSUME NEW f \in {"train", "validation"}
      PROVE  /\ IsFiniteSet(picked[f]) /\ Cardinality(picked[f]) \in Nat /\ Cardinality(Fitting(f)) \in Nat
             /\ Cardinality(Fitting(f)) <= Cardinality(picked[f])
  <2>1. exports[f] \in Seq(Record) /\ picked[f] \subseteq DOMAIN exports[f] /\ Fitting(f) \subseteq picked[f]
    BY <1>3, <1>5, <1>7
  <2>2. PICK m \in Nat : DOMAIN exports[f] = 1 .. m  BY <2>1, LenProperties
  <2>3. IsFiniteSet(1 .. m)  BY FS_Interval
  <2>4. IsFiniteSet(picked[f])  BY <2>1, <2>2, <2>3, FS_Subset
  <2> QED  BY <2>1, <2>4, FS_Subset, FS_CardinalityType
<1>9. budget' \in Nat
  <2>1. PICK c \in Nat : c = Cardinality(Fitting("train"))  BY <1>8
  <2>2. MaxSteps(c) \in Nat  BY PlannedSteps DEF JobInv, JobTyped
  <2> QED  BY <1>1, <2>1, <2>2
<1>10. JobTyped'
  <2>1. picked'["train"] \subseteq DOMAIN data["train"]  BY <1>2, <1>3
  <2>2. doing' \in JobPlace /\ written' \in 0 .. 9  BY <1>1 DEF JobPlace, Running
  <2> QED  BY <1>1, <1>3, <1>9, <2>1, <2>2 DEF JobInv, JobTyped
<1>11. WrittenInv' /\ ConfigInv'  BY <1>1 DEF WrittenInv, ConfigInv
<1>12. PlanInv'
  <2>1. \A i \in picked'["train"] : data["train"][i].fits  BY <1>3 DEF Fitting
  <2>2. budget' = MaxSteps(Cardinality(picked'["train"])) /\ picked'["train"] # {}  BY <1>1, <1>3
  <2>3. MaxSteps(Cardinality(picked["train"]))' = MaxSteps(Cardinality(picked'["train"]))  BY <1>1 DEF MaxSteps, Devices
  <2>4. KeptLines' = KeptLines  BY <1>1 DEF KeptLines, Kept
  <2>5. order.policy = "fail" => picked' = KeptLines  BY <1>2, <1>4
  <2> QED  BY <1>1, <2>1, <2>2, <2>3, <2>4, <2>5 DEF PlanInv
<1>13. SubmittedInv'  BY <1>1, <1>2, SameWalltime DEF JobInv, SubmittedInv
<1>14. TellingInv'
  <2>1. doing' # "over" /\ doing # "over"  BY <1>1
  <2>2. told # <<>> => ~Finished
    BY <1>1 DEF Finished
  <2> QED  BY <1>1, <2>1, <2>2 DEF JobInv, TellingInv
<1>15. SmokeSeesEveryFormat'
  <2>1. order.mode = "smoke" => Cardinality(picked'["train"]) <= 4 /\ Cardinality(picked'["validation"]) <= 2
    BY <1>3, <1>7, <1>8
  <2>2. order.policy = "fail" => UNCHANGED <<order, data, picked>>  BY <1>1, <1>4
  <2> QED  BY <1>1, <1>6, <2>1, <2>2 DEF SmokeSeesEveryFormat, Lines, JobInv
<1> QED  BY <1>10, <1>11, <1>12, <1>13, <1>14, <1>15 DEF JobInv

\* Audit, Configure, Step, StopTraining and Save.
LEMMA TrainKeeps ==
    ASSUME JobInv, Audit \/ Configure \/ Step \/ StopTraining \/ Save
    PROVE  JobInv'
<1>1. /\ UNCHANGED <<order, exports, walltime, data, picked, budget, claimed, ending, told, mishaps>>
      /\ doing \in Running /\ doing' \in Running \ {"auditing"}
      /\ doing \in {"auditing", "planning"} <=> Audit
  BY DEF Audit, Configure, Step, StopTraining, Save, trainerVars, shellVars, Running, Reach
<1>2. /\ steps' \in Nat /\ written' \in 0 .. 9
      /\ written >= 2 <=> written' >= 2
      /\ doing' = "planning" => doing = "auditing" /\ written' = 1
      /\ doing' = "configuring" => FALSE
      /\ doing' = "training" => written' = 2
      /\ doing' = "saving" => written' >= 2
  <2>1. Len(Artefacts) = 9  BY DEF Artefacts
  <2>2. CASE Audit  BY <2>2 DEF Audit, Reach, JobInv, JobTyped, WrittenInv
  <2>3. CASE Configure  BY <2>3 DEF Configure, Reach, JobInv, JobTyped, WrittenInv
  <2>4. CASE Step  BY <2>4 DEF Step, JobInv, JobTyped, WrittenInv
  <2>5. CASE StopTraining  BY <2>5 DEF StopTraining, Reach, JobInv, JobTyped, WrittenInv, trainerVars
  <2>6. CASE Save  BY <2>1, <2>6 DEF Save, JobInv, JobTyped, WrittenInv
  <2> QED  BY <2>2, <2>3, <2>4, <2>5, <2>6
<1>3. JobTyped' /\ WrittenInv'
  <2>1. doing' \in JobPlace  BY <1>1 DEF JobPlace
  <2>2. doing' \notin {"submitting", "pending", "preflight", "reading", "auditing"}  BY <1>1 DEF Running
  <2>3. JobTyped'  BY <1>1, <1>2, <2>1 DEF JobInv, JobTyped
  <2> QED  BY <1>2, <2>2, <2>3 DEF WrittenInv
<1>4. PlanInv'
  <2>1. KeptLines' = KeptLines /\ MaxSteps(Cardinality(picked["train"]))' = MaxSteps(Cardinality(picked["train"]))
    BY <1>1 DEF KeptLines, Kept, MaxSteps, Devices
  <2>2. doing' \in {"auditing", "planning"} => doing = "auditing"  BY <1>1, <1>2
  <2> QED  BY <1>1, <1>2, <2>1, <2>2 DEF JobInv, PlanInv
<1>5. ConfigInv'
  <2>1. CASE Configure  BY <2>1, <1>1 DEF Configure, ConfigInv
  <2>2. CASE Audit  BY <2>2, <1>1 DEF Audit, ConfigInv, Reach
  <2>3. CASE Step \/ StopTraining \/ Save
    BY <2>3, <1>1 DEF Step, StopTraining, Save, trainerVars, JobInv, ConfigInv
  <2> QED  BY <2>1, <2>2, <2>3
<1>6. SubmittedInv'
  <2>1. doing \notin {"submitting", "refused"}  BY <1>1 DEF Running
  <2> QED  BY <1>1, <2>1, SameWalltime DEF JobInv, SubmittedInv
<1>7. TellingInv'
  <2>1. doing \notin {"telling", "over"} /\ doing' \notin {"telling", "over"}  BY <1>1 DEF Running
  <2>2. \A r : told = <<r>> /\ told # <<>> => told[1] = r  OBVIOUS
  <2> QED  BY <1>1, <2>1 DEF JobInv, TellingInv
<1>8. SmokeSeesEveryFormat'  BY <1>1 DEF JobInv, SmokeSeesEveryFormat, Lines
<1> QED  BY <1>3, <1>4, <1>5, <1>6, <1>7, <1>8 DEF JobInv

LEMMA JobNextKeeps == JobInv /\ [JobNext]_jobVars => JobInv'
<1> SUFFICES ASSUME JobInv, [JobNext]_jobVars PROVE JobInv'  OBVIOUS
<1>1. CASE JobNext
  BY <1>1, ScriptKeeps, EndKeeps, TellKeeps, ReadKeeps, PlanKeeps, TrainKeeps DEF JobNext
<1>2. CASE UNCHANGED jobVars
  <2>1. UNCHANGED <<order, exports, walltime, doing, data, picked, config, budget, steps, written, claimed, ending, told, mishaps>>
    BY <1>2 DEF jobVars
  <2>2. PlanInv' /\ ConfigInv' /\ SmokeSeesEveryFormat'  BY <2>1, TrainerRests
  <2>3. JobTyped' /\ WrittenInv'  BY <2>1 DEF JobInv, JobTyped, WrittenInv
  <2>4. SubmittedInv'  BY <2>1, SameWalltime DEF JobInv, SubmittedInv
  <2>5. TellingInv'  BY <2>1, SameEnd DEF JobInv, TellingInv
  <2> QED  BY <2>2, <2>3, <2>4, <2>5 DEF JobInv
<1> QED  BY <1>1, <1>2

---------------------------------------------------------------------------
(* What follows from it.                                                   *)

\* A success that was told is a run that finished, and it has all its artefacts.
LEMMA TruthOfReports == JobInv => ReportsAreTrue /\ EndIsToldOnce
<1> SUFFICES ASSUME JobInv PROVE ReportsAreTrue /\ EndIsToldOnce  OBVIOUS
<1>1. CASE told = <<>>
  <2>1. DOMAIN told = {} /\ Len(told) = 0  BY <1>1
  <2> QED  BY <1>1, <2>1 DEF ReportsAreTrue, EndIsToldOnce, JobInv, TellingInv
<1>2. CASE told # <<>>
  <2>1. PICK r \in [outcome : {"succeeded", "failed"}, registers : BOOLEAN] :
          /\ told = <<r>>
          /\ r.outcome = "succeeded" => Finished
          /\ r.registers => r.outcome = "succeeded" /\ order.mode = "full"
    BY <1>2 DEF JobInv, TellingInv
  <2>2. Len(told) = 1 /\ DOMAIN told = {1} /\ told[1] = r  BY <2>1
  <2>3. order.by = "queue"  BY <1>2 DEF JobInv, TellingInv
  <2>4. ASSUME Finished
        PROVE  AdapterIsPresent /\ Written("runtime-report") /\ (order.mode = "full" => steps >= budget)
    <3>1. written = 9  BY <2>4 DEF Finished
    <3>2. Artefacts[3] = "weights" /\ Artefacts[4] = "adapter_config" /\ Artefacts[9] = "runtime-report"  BY DEF Artefacts
    <3>3. 3 \in 1 .. written /\ 4 \in 1 .. written /\ 9 \in 1 .. written  BY <3>1
    <3>4. steps \in Nat /\ budget \in Nat  BY DEF JobInv, JobTyped
    <3>5. order.mode = "full" => steps >= budget  BY <2>4, <3>4 DEF Finished, FellShort
    <3> QED  BY <3>2, <3>3, <3>5 DEF AdapterIsPresent, Written
  <2>5. ASSUME Finished, order.mode = "full"
        PROVE  /\ picked["train"] = Lines("train") /\ \A i \in Lines("train") : data["train"][i].fits
               /\ steps * Accumulation >= Epochs * Len(data["train"])
    <3>1. /\ order \in Orders /\ data \in Exports \cup {NoFiles} /\ steps \in Nat /\ budget \in Nat
      BY DEF JobInv, JobTyped
    <3>2. order.policy = "fail" /\ ~order.cpu /\ order.gpus = 1
      <4>1. order.by # "direct"  BY <2>3
      <4> QED  BY <3>1, <4>1, JobAssumption
    <3>3. written >= 2  BY <2>5 DEF Finished
    <3>4. /\ \A i \in picked["train"] : data["train"][i].fits
          /\ budget = MaxSteps(Cardinality(picked["train"])) /\ picked["train"] # {}
          /\ picked["train"] = Kept(data["train"], SmokeTrain)
      BY <3>2, <3>3 DEF JobInv, PlanInv, KeptLines
    <3>5. data["train"] \in Seq(Record)
      <4>1. NoFiles["train"] = <<>>  BY DEF NoFiles
      <4>2. <<>> \in Seq(Record)  OBVIOUS
      <4>3. CASE data = NoFiles  BY <4>1, <4>2, <4>3
      <4>4. CASE data \in Exports  BY <4>4, FilesAreRecords
      <4> QED  BY <3>1, <4>3, <4>4
    <3>6. picked["train"] = DOMAIN data["train"]  BY <2>5, <3>4 DEF Kept
    <3>7. PICK n \in Nat : Len(data["train"]) = n /\ DOMAIN data["train"] = 1 .. n  BY <3>5, LenProperties
    <3>8. Cardinality(1 .. n) = n  BY FS_Interval
    <3>9. Devices = 1  BY <3>2 DEF Devices, AtLeastOne
    <3>10. budget = StepsFor(n, 1)  BY <2>5, <3>4, <3>6, <3>7, <3>8, <3>9 DEF MaxSteps
    <3>11. budget * 8 >= 3 * n  BY <3>10, Batches
    <3>12. steps >= budget  BY <2>5, <3>1 DEF Finished, FellShort
    <3>13. steps * 8 >= 3 * n  BY <3>1, <3>11, <3>12
    <3> QED  BY <3>4, <3>6, <3>7, <3>13 DEF Lines, Accumulation, Epochs
  <2>6. ReportsAreTrue  BY <2>1, <2>2, <2>4, <2>5 DEF ReportsAreTrue
  <2>7. EndIsToldOnce  BY <1>2, <2>2 DEF EndIsToldOnce
  <2> QED  BY <2>6, <2>7
<1> QED  BY <1>1, <1>2

\* Rounded up to whole minutes, a time is not shorter.
LEMMA MinutesRoundUp ==
    ASSUME NEW t \in Nat
    PROVE  Minutes(t) >= t
<1>1. PICK u \in Nat : u = (IF t < 60 THEN 60 ELSE t) /\ u >= t  OBVIOUS
<1>2. Minutes(t) = ((u + 59) \div 60) * 60  BY <1>1 DEF Minutes, CeilDiv
<1>3. ((u + 59) \div 60) * 60 >= u  OBVIOUS
<1>4. PICK q \in Nat : q = (u + 59) \div 60  OBVIOUS
<1> QED  BY <1>1, <1>2, <1>3, <1>4

\* The wall clock asked for n examples is enough for the steps of any m of them.
LEMMA WalltimeIsEnough ==
    ASSUME order \in Orders, NEW n \in Nat, NEW m \in 0 .. n, order.by # "direct"
    PROVE  Walltime(n).clamped \in {"ceiling", "override"} \/ Walltime(n).seconds >= 1800 + MaxSteps(m) * 20
<1>1. order.ceiling \in Nat /\ order.time \in Nat /\ order.mode \in {"smoke", "full"} /\ ~order.cpu /\ order.gpus = 1
  BY JobAssumption
<1>2. Devices = 1  BY <1>1 DEF Devices, AtLeastOne
<1>3. PICK a \in Nat : a = AtLeastOne(n) /\ a >= n  BY DEF AtLeastOne
<1>4. PICK s \in Nat : s = StepsFor(a, 1)  BY Batches
<1>5. PICK b \in Nat : b = StepsFor(m, 1)  BY Batches
<1>6. b <= s
  <2>1. m \in 0 .. a  BY <1>3
  <2> QED  BY <1>4, <1>5, <2>1, Batches
<1>7. CASE order.time > 0  BY <1>7 DEF Walltime
<1>8. CASE ~(order.time > 0) /\ order.mode = "smoke"
  <2>1. Walltime(n).seconds = Minutes(2700)  BY <1>8 DEF Walltime, SmokeSeconds
  <2>2. Minutes(2700) = 2700  BY DEF Minutes, CeilDiv
  <2>3. MaxSteps(m) = 3  BY <1>8 DEF MaxSteps, SmokeSteps
  <2>4. Walltime(n).seconds = 2700 /\ 1800 + MaxSteps(m) * 20 = 1860  BY <2>1, <2>2, <2>3
  <2>5. 2700 >= 1860  OBVIOUS
  <2>6. Walltime(n).seconds >= 1800 + MaxSteps(m) * 20  BY <2>4, <2>5
  <2> QED  BY <2>6
<1>9. CASE ~(order.time > 0) /\ order.mode = "full"
  <2>1. PICK raw \in Nat : raw = 1800 + s * 20  OBVIOUS
  <2>2. PICK floored \in Nat : floored = (IF raw < 3600 THEN 3600 ELSE raw) /\ floored >= raw  OBVIOUS
  <2>9. StepsFor(AtLeastOne(n), 1) = s  BY <1>3, <1>4
  <2>10. Overhead + StepsFor(AtLeastOne(n), 1) * SecondsPerStep = raw  BY <2>1, <2>9 DEF Overhead, SecondsPerStep
  <2>3. Walltime(n) = IF floored > order.ceiling THEN [seconds |-> Minutes(order.ceiling), clamped |-> "ceiling"]
                      ELSE [seconds |-> Minutes(floored), clamped |-> IF raw < 3600 THEN "floor" ELSE "no"]
    BY <1>1, <1>9, <2>10, <2>2 DEF Walltime, FullFloor
  <2>4. PICK t \in Int : t = Minutes(floored) /\ t >= floored
    <3>1. Minutes(floored) >= floored  BY MinutesRoundUp
    <3>2. Minutes(floored) \in Int  BY DEF Minutes, CeilDiv
    <3> QED  BY <3>1, <3>2
  <2>5. MaxSteps(m) = b  BY <1>2, <1>5, <1>9 DEF MaxSteps
  <2>6. t >= 1800 + b * 20
    <3>1. raw >= 1800 + b * 20  BY <1>6, <2>1
    <3> QED  BY <2>2, <2>4, <3>1
  <2>7. Walltime(n).clamped = "ceiling" \/ Walltime(n).seconds = t  BY <2>3, <2>4
  <2>8. 1800 + MaxSteps(m) * 20 = 1800 + b * 20  BY <2>5
  <2>11. Walltime(n).seconds = t => Walltime(n).seconds >= 1800 + MaxSteps(m) * 20  BY <2>6, <2>8
  <2> QED  BY <2>7, <2>11
<1> QED  BY <1>1, <1>7, <1>8, <1>9

LEMMA BudgetIsCovered == JobInv => WalltimeCoversBudget
<1> SUFFICES ASSUME JobInv, doing \in {"training", "saving"}, order.by # "direct", "moved" \notin mishaps
             PROVE  walltime.clamped \in {"ceiling", "override"} \/ walltime.seconds >= Overhead + budget * SecondsPerStep
  BY DEF WalltimeCoversBudget
<1>1. /\ order \in Orders /\ exports \in Exports /\ data = exports /\ picked["train"] \subseteq DOMAIN data["train"]
      /\ walltime = Walltime(Len(exports["train"]))
      /\ budget = MaxSteps(Cardinality(picked["train"]))
  BY DEF JobInv, JobTyped, SubmittedInv, PlanInv, WrittenInv, Running
<1>2. exports["train"] \in Seq(Record)  BY <1>1, FilesAreRecords
<1>3. PICK n \in Nat : Len(exports["train"]) = n /\ DOMAIN exports["train"] = 1 .. n  BY <1>2, LenProperties
<1>4. Cardinality(picked["train"]) \in 0 .. n
  <2>1. IsFiniteSet(1 .. n) /\ Cardinality(1 .. n) = n  BY FS_Interval
  <2>2. picked["train"] \in SUBSET (1 .. n)  BY <1>1, <1>3
  <2>3. IsFiniteSet(picked["train"]) /\ Cardinality(picked["train"]) <= n  BY <2>1, <2>2, FS_Subset
  <2>4. Cardinality(picked["train"]) \in Nat  BY <2>3, FS_CardinalityType
  <2> QED  BY <2>3, <2>4
<1>5. PICK m \in 0 .. n : m = Cardinality(picked["train"])  BY <1>4
<1>6. Walltime(n).clamped \in {"ceiling", "override"} \/ Walltime(n).seconds >= 1800 + MaxSteps(m) * 20
  BY <1>1, WalltimeIsEnough
<1>7. walltime = Walltime(n) /\ budget = MaxSteps(m)  BY <1>1, <1>3, <1>5
<1>8. Overhead + budget * SecondsPerStep = 1800 + MaxSteps(m) * 20  BY <1>7 DEF Overhead, SecondsPerStep
<1> QED  BY <1>6, <1>7, <1>8

\* No name is lost when a setting is adapted, and the prompt is masked.
LEMMA SettingsStay ==
    ASSUME NEW release, Adapted(release) \subseteq release
    PROVE  /\ Adapted(release) \cap MasksPrompt # {}
           /\ \A name \in Settings : name \in Adapted(release) \/ \E r \in Renamed : r.old = name /\ r.new \in Adapted(release)
<1>1. ASSUME NEW name \in Given(release)
      PROVE  name \in Adapted(release) \/ \E r \in Renamed : r.old = name /\ r.new \in Adapted(release)
  <2>1. CASE \A r \in Renames(release) : r.old # name  BY <2>1 DEF Adapted
  <2>2. CASE \E r \in Renames(release) : r.old = name
    <3>1. PICK r \in Renames(release) : r.old = name  BY <2>2
    <3>2. r \in Renamed /\ r.new \in Adapted(release)  BY <3>1 DEF Renames, Adapted
    <3> QED  BY <3>1, <3>2
  <2> QED  BY <2>1, <2>2
<1>2. Settings \subseteq Given(release)  BY DEF Given
<1>3. PICK mask \in MasksPrompt : mask \in Given(release)  BY DEF Given, MasksPrompt
<1>4. \A r \in Renamed : r.old # mask  BY <1>3 DEF Renamed, MasksPrompt
<1>5. mask \in Adapted(release)  BY <1>1, <1>3, <1>4
<1> QED  BY <1>1, <1>2, <1>3, <1>5

\* A training job keeps its word, whatever it is given and whatever becomes of it.
THEOREM JobsKeepTheirWord == JobSpec => []JobKeepsItsWord
<1>1. JobInv => NoSettingVanishes
  BY SettingsStay DEF JobInv, ConfigInv, NoSettingVanishes
<1>2. JobInv => JobKeepsItsWord
  BY <1>1, TruthOfReports, BudgetIsCovered DEF JobInv, JobKeepsItsWord
<1> QED  BY JobInitInv, JobNextKeeps, <1>2, PTL DEF JobSpec
=============================================================================
