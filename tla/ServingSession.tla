--------------------------- MODULE ServingSession ---------------------------
(***************************************************************************)
(* The GPU session that serves the adapters: the Slurm job the operator's  *)
(* scripts start and stop (training/start_finetuned_service.sh,            *)
(* stop_finetuned_service.sh, serving_session.py) and the record the       *)
(* backend keeps of it (backend/app/db_serving_sessions.py, the            *)
(* serving-session routes of training_queue_routes.py).                    *)
(*                                                                         *)
(* A job ends with its wall clock, a record when its expires_at has passed: *)
(* two clocks, the second set by what the start script reads of the first.  *)
(* A start and a stop script may run at the same time.                      *)
(***************************************************************************)
EXTENDS Naturals

CONSTANTS
    NumJobs,     \* bound: jobs submitted
    Limits,      \* wall clocks an operator asks for (--hours)
    MinLeft,     \* the shortest a record lasts (60 s)
    DefaultLeft  \* what it lasts when nothing is left (7200 s)

ASSUME SessionAssumption ==
    NumJobs \in Nat /\ Limits \subseteq Nat \ {0} /\ MinLeft \in Nat /\ DefaultLeft \in Nat

VARIABLES
    job,      \* per job, what Slurm says of it; the service answers in "serving"
    clock,    \* per job, the wall clock it has left
    row,      \* serving_sessions: the stored state of each job's record
    lasts,    \* per record, the time to its expires_at
    start,    \* the start script
    stop,     \* the stop script
    unheard,  \* history: jobs whose end the backend was never told, or was
              \* told before a start script recorded them as ready
    guessed   \* history: jobs whose record does not expire when Slurm, asked
              \* at that moment, said the job would end

jobVars == <<job, clock>>
recordVars == <<row, lasts, unheard, guessed>>
sessionVars == <<jobVars, recordVars, start, stop>>

Jobs == 1..NumJobs

Allocated(j) == job[j] \in {"loading", "serving"}
Active == {j \in Jobs : job[j] = "pending" \/ Allocated(j)}

Free == [stage |-> "idle"]

SessionTypeOK ==
    /\ job \in [Jobs -> {"none", "pending", "loading", "serving", "cancelled", "failed", "ended"}]
    /\ clock \in [Jobs -> Nat]
    /\ row \in [Jobs -> {"none", "ready", "stopped"}]
    /\ lasts \in [Jobs -> Nat]
    /\ start \in {Free} \cup [stage : {"waiting", "healthy"}, job : Jobs, hours : Limits]
                \cup [stage : {"read", "stamped"}, job : Jobs, seconds : Nat, sure : BOOLEAN]
    /\ stop \in {Free} \cup [stage : {"found", "cancelled"}, job : Jobs]
    /\ unheard \subseteq Jobs /\ guessed \subseteq Jobs

SessionInit ==
    /\ job = [j \in Jobs |-> "none"] /\ clock = [j \in Jobs |-> 0]
    /\ row = [j \in Jobs |-> "none"] /\ lasts = [j \in Jobs |-> 0]
    /\ start = Free /\ stop = Free
    /\ unheard = {} /\ guessed = {}

Becomes(j, state) == job' = [job EXCEPT ![j] = state]

Less(n) == IF n = 0 THEN 0 ELSE n - 1

---------------------------------------------------------------------------
(* The job.                                                                *)

\* The node is allocated, and the wall clock starts; load_base has returned,
\* and /health answers ok.
Loads(j) ==
    /\ \/ job[j] = "pending" /\ Becomes(j, "loading")
       \/ job[j] = "loading" /\ Becomes(j, "serving")
    /\ UNCHANGED <<clock, recordVars, start, stop>>

\* The model does not load, or the node fails.
Fails(j) ==
    /\ j \in Active
    /\ Becomes(j, "failed")
    /\ unheard' = unheard \cup {j}
    /\ UNCHANGED <<clock, row, lasts, guessed, start, stop>>

\* Slurm ends a job whose wall clock is over.
Ends(j) ==
    /\ Allocated(j) /\ clock[j] = 0
    /\ Becomes(j, "ended")
    /\ UNCHANGED <<clock, recordVars, start, stop>>

\* Time passes for the running jobs, the records, and the expires_at a start
\* script has computed and not yet reported; what it has read grows old.
Ticks ==
    /\ \A j \in Jobs : Allocated(j) => clock[j] > 0
    /\ clock' = [j \in Jobs |-> IF Allocated(j) THEN Less(clock[j]) ELSE clock[j]]
    /\ lasts' = [j \in Jobs |-> Less(lasts[j])]
    /\ start' = IF start.stage = "read" THEN [start EXCEPT !.sure = FALSE]
                ELSE IF start.stage = "stamped" THEN [start EXCEPT !.seconds = Less(@)]
                ELSE start
    /\ UNCHANGED <<job, row, stop, unheard, guessed>>

---------------------------------------------------------------------------
(* The start script.                                                       *)

\* An active job is reused, whatever wall clock it was given; otherwise one is
\* submitted.  --no-wait ends here.
Starts(j) ==
    /\ start = Free
    /\ \E hours \in Limits :
        /\ \/ j \in Active /\ UNCHANGED jobVars
           \/ /\ Active = {} /\ job[j] = "none" /\ \A k \in 1..j-1 : job[k] # "none"
              /\ Becomes(j, "pending") /\ clock' = [clock EXCEPT ![j] = hours]
        /\ start' \in {Free, [stage |-> "waiting", job |-> j, hours |-> hours]}
    /\ start' = Free => job' # job
    /\ UNCHANGED <<recordVars, stop>>

\* wait_for_running_node, wait_for_health; a job that is gone ends the script.
SeesHealth ==
    /\ start.stage = "waiting"
    /\ start' = IF job[start.job] = "serving" THEN [start EXCEPT !.stage = "healthy"] ELSE Free
    /\ job[start.job] \notin {"pending", "loading"}
    /\ UNCHANGED <<jobVars, recordVars, stop>>

\* Waiting timed out, or the script was interrupted.
StartAborts ==
    /\ start.stage = "waiting"
    /\ start' = Free
    /\ UNCHANGED <<jobVars, recordVars, stop>>

\* seconds_left_for_job; when squeue does not answer, or the job is gone, the
\* --hours of this run, whoever submitted the job.
ReadsClock ==
    /\ start.stage = "healthy"
    /\ LET read(seconds, sure) ==
            start' = [stage |-> "read", job |-> start.job, seconds |-> seconds, sure |-> sure]
       IN  \/ read(start.hours, FALSE)
           \/ Allocated(start.job) /\ read(clock[start.job], TRUE)
    /\ UNCHANGED <<jobVars, recordVars, stop>>

\* register: nothing left is read as nothing said, and a record lasts a minute
\* at least.
Stamp(seconds) ==
    LET said == IF seconds = 0 THEN DefaultLeft ELSE seconds
    IN  IF said < MinLeft THEN MinLeft ELSE said

Stamps ==
    /\ start.stage = "read"
    /\ start' = [start EXCEPT !.stage = "stamped", !.seconds = Stamp(@),
                              !.sure = @ /\ Stamp(start.seconds) = start.seconds]
    /\ UNCHANGED <<jobVars, recordVars, stop>>

\* upsert_serving_session: whatever the record said, it is ready now and started
\* now.  Or the backend cannot be reached and nothing is recorded.
Records ==
    /\ start.stage = "stamped"
    /\ \/ /\ row' = [row EXCEPT ![start.job] = "ready"]
          /\ lasts' = [lasts EXCEPT ![start.job] = start.seconds]
          /\ unheard' = IF job[start.job] = "cancelled" THEN unheard \cup {start.job}
                        ELSE unheard
          /\ guessed' = IF start.sure THEN guessed \ {start.job} ELSE guessed \cup {start.job}
       \/ UNCHANGED recordVars
    /\ start' = Free
    /\ UNCHANGED <<jobVars, stop>>

---------------------------------------------------------------------------
(* The stop script: find, scancel, report.                                 *)

Finds(j) ==
    /\ stop = Free
    /\ j \in Active
    /\ stop' = [stage |-> "found", job |-> j]
    /\ UNCHANGED <<jobVars, recordVars, start>>

\* scancel of a job that has ended meanwhile changes nothing.
Cancels ==
    /\ stop.stage = "found"
    /\ IF stop.job \in Active THEN Becomes(stop.job, "cancelled") ELSE UNCHANGED job
    /\ stop' = [stop EXCEPT !.stage = "cancelled"]
    /\ UNCHANGED <<clock, recordVars, start>>

\* stop_serving_session: the record, if there is one, is stopped; or the report
\* is lost, and the record will expire.
StopReports ==
    /\ stop.stage = "cancelled"
    /\ \/ /\ row' = [row EXCEPT ![stop.job] = IF @ = "none" THEN @ ELSE "stopped"]
          /\ UNCHANGED unheard
       \/ UNCHANGED row /\ unheard' = unheard \cup {stop.job}
    /\ stop' = Free
    /\ UNCHANGED <<jobVars, lasts, guessed, start>>

SessionStep ==
    \/ \E j \in Jobs : Loads(j) \/ Fails(j) \/ Ends(j) \/ Starts(j) \/ Finds(j)
    \/ Ticks \/ SeesHealth \/ StartAborts \/ ReadsClock \/ Stamps \/ Records
    \/ Cancels \/ StopReports

---------------------------------------------------------------------------
(* What a reader of the record is told.                                    *)

\* map_serving_session, current_serving_session: ready, and not yet expired.
Live == {j \in Jobs : row[j] = "ready" /\ lasts[j] > 0}

\* Who alone may be called live without serving: a job nobody told the backend of
\* (a crash, a lost stop report, a start script that records a job already
\* cancelled), and one whose record was not given what Slurm had just said: it
\* said nothing, or nothing was left, or a moment too short, or it took long.
Misreported == unheard \cup guessed

\* A session the backend calls live is one that still serves, however the two
\* clocks run, or is being stopped right now, or is one of the misreported.
LiveSessionServes ==
    \A j \in Live \ Misreported :
        job[j] = "serving" \/ (stop.stage = "cancelled" /\ stop.job = j)

=============================================================================
