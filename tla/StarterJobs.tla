---------------------------- MODULE StarterJobs ----------------------------
(***************************************************************************)
(* Starter seeds: the job that writes a course's first training examples.  *)
(* An upload of a first syllabus queues one automatically; an admin asks   *)
(* for one, or for a top-up of what is missing.  One slot in the process   *)
(* lets one job run; the course's stored status survives a restart, the    *)
(* slot does not.  While a job waits for the model, professors add and     *)
(* remove examples.                                                        *)
(*                                                                         *)
(* An example is its normalized question.  Every write and read of the     *)
(* status may fail without failing the job.                                *)
(***************************************************************************)
EXTENDS FactInventory

CONSTANTS
    Jobs,         \* handlers that may run a job; each is also a client
    Examples,
    Open,         \* a bound: the courses that browsers have open
    Target,       \* the number of examples a course should have
    MaxFaults     \* a bound: restarts and lost writes of a status

NoCourse == "none"

ASSUME StarterAssumption ==
    /\ Jobs \subseteq Clients /\ Open \subseteq Courses /\ NoCourse \notin Courses
    /\ IsFiniteSet(Examples) /\ Target \in Nat \ {0} /\ MaxFaults \in Nat

VARIABLES
    slot,       \* the course of _starter_job_course_id, or NoCourse
    active,     \* _active_starter_jobs
    status,     \* each course's stored status
    seeds,      \* each course's stored examples
    job,        \* each handler's job
    faults,     \* restarts and lost writes so far
    excused     \* history: the courses whose status a failure left behind

starterVars == <<slot, active, status, seeds, job, faults, excused>>
vars == <<factVars, starterVars>>

Automatic == "automatic"
Operations == {Automatic, "manual", "top_up"}
Pending == {"queued", "generating"}      \* ACTIVE_STARTER_STATUSES
NoJob == [at |-> "idle", course |-> NoCourse, op |-> Automatic, limit |-> 0,
          seen |-> {}, made |-> {}]
Live(j) == job[j].at # "idle"
JobsOf(c) == {j \in Jobs : job[j].course = c}

Init ==
    /\ FactInit
    /\ slot = NoCourse /\ active = {}
    /\ status = [c \in Courses |-> "not_started"]
    /\ seeds \in [Courses -> {{}}]
    /\ job = [j \in Jobs |-> NoJob]
    /\ faults = 0 /\ excused = {}

---------------------------------------------------------------------------
(* The stored status.                                                      *)

\* best_effort_patch_starter_seed_generation: a write that fails is logged.
Patch(c, s) ==
    \/ status' = [status EXCEPT ![c] = s] /\ excused' = excused \ {c} /\ UNCHANGED faults
    \/ /\ faults < MaxFaults /\ faults' = faults + 1
       /\ excused' = excused \cup {c} /\ UNCHANGED status

\* resolve_reconciled_starter_status: judged by what the course holds.
StatusOf(stored) ==
    IF Cardinality(stored) >= Target THEN "ready"
    ELSE IF stored # {} THEN "partial" ELSE "failed"

\* reconcile_starter_seed_generation; when the examples cannot be counted an
\* automatic job falls back to its own numbers.
Reconcile(c, made, forced) ==
    LET counted == IF forced THEN "failed" ELSE StatusOf(seeds[c])
        fallback == IF forced THEN "failed"
                    ELSE IF Cardinality(made) >= Target THEN "ready"
                    ELSE IF made # {} THEN "partial" ELSE "failed"
    IN \E s \in {counted, fallback} : Patch(c, s)

---------------------------------------------------------------------------
(* The slot.                                                               *)

\* Mutant: the slot is taken whoever has it.
TryBeginAlways(c) == slot' = c

\* try_begin_starter_job: enabled when it returns True.
TryBegin(c) == slot = NoCourse /\ slot' = c

\* end_starter_job: only the course that still owns the slot gives it back.
EndJob(c) == slot' = IF slot = c THEN NoCourse ELSE slot

Starts(j, c, op, limit, seen) ==
    job' = [job EXCEPT ![j] = [at |-> IF op = Automatic THEN "queued" ELSE "prepare",
                               course |-> c, op |-> op, limit |-> limit,
                               seen |-> seen, made |-> {}]]

\* try_queue_starter_seed_generation refuses: this course's job, any other, or
\* a stored status that says one is under way.
MayQueue(c) == c \notin active /\ slot = NoCourse /\ status[c] \notin Pending

Queue(j, c) ==
    /\ MayQueue(c)
    /\ TryBegin(c)
    /\ active' = active \cup {c}
    /\ Patch(c, "queued")
    /\ Starts(j, c, Automatic, Target, {})

---------------------------------------------------------------------------
(* Syllabus uploads.                                                       *)

NewVersion(c) ==
    /\ index[c] < MaxVersion[c]
    /\ index' = [index EXCEPT ![c] = @ + 1]
    /\ UNCHANGED <<build, cache, lastError, call>>

\* upload_course_syllabus, once the file is extracted and committed: the first
\* syllabus of a course queues its starter job, a replacement does not.
Upload(c) ==
    /\ NewVersion(c)
    /\ \/ /\ index[c] = 0
          /\ \E j \in Jobs : ~Live(j) /\ Queue(j, c)
       \/ /\ index[c] # 0 \/ ~MayQueue(c)
          /\ UNCHANGED <<slot, active, status, job, faults, excused>>
    /\ UNCHANGED seeds

---------------------------------------------------------------------------
(* A job.                                                                  *)

\* run_auto_starter_seed_generation, up to the generation.
RunAuto(j) ==
    /\ job[j].at = "queued"
    /\ Patch(job[j].course, "generating")
    /\ job' = [job EXCEPT ![j].at = "prepare"]
    /\ UNCHANGED <<factVars, slot, active, seeds>>

\* generate_course_starter_seeds and top_up_course_starter_seeds: 409 unless
\* the slot is free.
AdminStarts(j, c) ==
    /\ ~Live(j) /\ index[c] # 0
    /\ TryBegin(c)
    /\ \E op \in Operations \ {Automatic} :
        IF op = "top_up"
        THEN Starts(j, c, op, IF Cardinality(seeds[c]) >= Target THEN 0
                              ELSE Target - Cardinality(seeds[c]), seeds[c])
        ELSE Starts(j, c, op, Target, {})
    /\ UNCHANGED <<factVars, active, status, seeds, faults, excused>>

\* A top-up with nothing missing is over; otherwise the facts are asked for.
Prepare(j) ==
    LET c == job[j].course IN
    /\ job[j].at = "prepare" /\ call[j].at = "idle"
    /\ \/ /\ job[j].limit = 0
          /\ job' = [job EXCEPT ![j].at = "stored"]
          /\ UNCHANGED <<build, lastError, call>>
       \/ /\ job[j].limit > 0
          /\ \E refresh \in BOOLEAN :
                (refresh => job[j].op # Automatic) /\ LoadOrBuild(j, c, refresh)
          /\ job' = [job EXCEPT ![j].at = "facts"]
    /\ UNCHANGED <<index, cache, slot, active, status, seeds, faults, excused>>

\* The model is asked for questions, fact by fact, until there are enough, the
\* budget is spent or the facts are used up; a question seen before is dropped.
Generate(j) ==
    /\ job[j].at = "facts" /\ call[j].at = "answered"
    /\ \E made \in SUBSET (Examples \ job[j].seen) :
        /\ Cardinality(made) <= job[j].limit
        /\ job' = [job EXCEPT ![j].made = made, ![j].at = "generated"]
    /\ call' = [call EXCEPT ![j] = NoCall]
    /\ UNCHANGED <<index, build, cache, lastError, slot, active, status, seeds,
                   faults, excused>>

\* persist_accepted_seeds: one transaction, a savepoint each; what the course
\* holds by now is read again.
Persist(j) ==
    LET c == job[j].course IN
    /\ job[j].at = "generated"
    /\ \E written \in SUBSET (job[j].made \ seeds[c]) :
        /\ seeds' = [seeds EXCEPT ![c] = @ \cup written]
        /\ job' = [job EXCEPT ![j].made = written, ![j].at = "stored"]
    /\ UNCHANGED <<factVars, slot, active, status, faults, excused>>

\* An admin may have asked for the examples without storing them.
KeepUnsaved(j) ==
    /\ job[j].at = "generated" /\ job[j].op # Automatic
    /\ job' = [job EXCEPT ![j] = NoJob]
    /\ EndJob(job[j].course)
    /\ UNCHANGED <<factVars, active, status, seeds, faults, excused>>

\* The end: the slot is given back in a finally, the status is rewritten from
\* what the course holds.
Finish(j) ==
    LET c == job[j].course IN
    /\ job[j].at = "stored"
    /\ Reconcile(c, job[j].made, FALSE)
    /\ EndJob(c)
    /\ active' = IF job[j].op = Automatic THEN active \ {c} ELSE active
    /\ job' = [job EXCEPT ![j] = NoJob]
    /\ UNCHANGED <<factVars, seeds>>

\* The facts could not be had, the model timed out, or the database refused:
\* the exception ends the job.  Only an automatic one records that it failed.
Fail(j) ==
    LET c == job[j].course IN
    /\ \/ job[j].at \in {"generated", "stored"} /\ UNCHANGED call
       \/ job[j].at = "facts" /\ call[j].at \in Over /\ call' = [call EXCEPT ![j] = NoCall]
    /\ \/ /\ job[j].op = Automatic
          /\ Reconcile(c, {}, TRUE)
          /\ active' = active \ {c}
       \/ /\ job[j].op # Automatic
          /\ UNCHANGED <<active, status, faults, excused>>
    /\ EndJob(c)
    /\ job' = [job EXCEPT ![j] = NoJob]
    /\ UNCHANGED <<index, build, cache, lastError, seeds>>

---------------------------------------------------------------------------
(* Professors and restarts.                                                *)

ChangeSeeds(c) ==
    /\ \E q \in Examples :
        seeds' = [seeds EXCEPT ![c] = IF q \in @ THEN @ \ {q} ELSE @ \cup {q}]
    /\ UNCHANGED <<factVars, slot, active, status, job, faults, excused>>

\* Everything in memory is forgotten; files and rows are not.
Restart ==
    /\ faults < MaxFaults
    /\ faults' = faults + 1
    /\ slot' = NoCourse /\ active' = {}
    /\ job' = [j \in Jobs |-> NoJob]
    /\ excused' = excused \cup {c \in Courses : status[c] \in Pending}
    /\ ForgetBuilds
    /\ UNCHANGED <<index, cache, status, seeds>>

JobStep(j) ==
    RunAuto(j) \/ Prepare(j) \/ Generate(j) \/ Persist(j) \/ KeepUnsaved(j)
        \/ Finish(j) \/ Fail(j)

BuildStep(c) == (BuildDone(c) \/ BuildFails(c)) /\ UNCHANGED starterVars

AskStep(k, c) ==
    /\ AskAndWait(k, c) \/ \E refresh \in BOOLEAN : Poll(k, c, refresh)
    /\ UNCHANGED starterVars

Next ==
    \/ \E c \in Courses : Upload(c) \/ BuildStep(c)
    \/ \E c \in Open : ChangeSeeds(c)
    \/ \E j \in Jobs : JobStep(j) \/ \E c \in Courses : AdminStarts(j, c)
    \/ \E k \in Clients \ Jobs :
          \/ \E c \in Open : AskStep(k, c)
          \/ Dismiss(k) /\ UNCHANGED starterVars
    \/ Restart

Spec == Init /\ [][Next]_vars

---------------------------------------------------------------------------
(* Properties.                                                             *)

TypeOK ==
    /\ FactTypeOK
    /\ slot \in Courses \cup {NoCourse} /\ active \subseteq Courses
    /\ status \in [Courses -> Pending \cup {"not_started", "ready", "partial", "failed"}]
    /\ seeds \in [Courses -> SUBSET Examples]
    /\ job \in [Jobs -> [at : {"idle", "queued", "prepare", "facts", "generated", "stored"},
                         course : Courses \cup {NoCourse}, op : Operations,
                         limit : 0 .. Target, seen : SUBSET Examples,
                         made : SUBSET Examples]]
    /\ faults \in 0 .. MaxFaults /\ excused \subseteq Courses

\* One job runs at a time, and the slot and the set of active courses say
\* whose it is, however the job ended and whoever asked for it.
SlotIsHeld ==
    /\ \A c \in Courses : slot = c <=> \E j \in JobsOf(c) : Live(j)
    /\ \A i, j \in Jobs : Live(i) /\ Live(j) => i = j
    /\ \A c \in active : \E j \in JobsOf(c) : job[j].op = Automatic

\* A course whose status says that a job is under way has one, unless a restart
\* or a failed write of the status came between: nothing else leaves a course
\* that refuses every later automatic start.
StatusSettles ==
    \A c \in Courses \ excused : status[c] \in Pending => c \in active

\* (starter_jobs.py and ollama_coordination.py, a restart included)
StarterSafety == TypeOK /\ SlotIsHeld /\ StatusSettles

=============================================================================
