---------------------------- MODULE TrainingJob ----------------------------
(***************************************************************************)
(* One training job, from the script that submits it to the report of its  *)
(* end: the wall clock it asks for, the checks before the GPU is used, the *)
(* trainer (which records it keeps, how long it trains, what it writes and *)
(* in which order), and the shell traps that turn an end into one report.  *)
(* The scheduler or the node may end it between any two steps, and the     *)
(* course's files may be replaced while it waits for its node.             *)
(*                                                                         *)
(* TrainingWorker takes from here that a job ends with an outcome of its   *)
(* own, or is lost.                                                        *)
(***************************************************************************)
EXTENDS Integers, Sequences, FiniteSets

CONSTANTS
    Orders,     \* what is submitted, see below
    Exports     \* what the course's files may hold: train and validation

Formats == {"bare", "grounded"}

\* A record is its format and whether it fits the window.  An order says who gave
\* it (the queue, a person by the same script, or the trainer called directly), the
\* mode, the policy towards what is oversized, the wall clock given outright or 0, its
\* ceiling, the devices (0: not given), whether the tokenizer is the format's, and which
\* parameters the installed library accepts.  The script asks for one GPU and leaves the
\* policy alone.
ASSUME JobAssumption ==
    /\ \A e \in Exports :
         /\ DOMAIN e = {"train", "validation"}
         /\ \A f \in DOMAIN e : e[f] \in Seq([format : Formats, fits : BOOLEAN])
    /\ \A o \in Orders :
         /\ o.by \in {"queue", "hand", "direct"} /\ o.mode \in {"smoke", "full"}
         /\ o.policy \in {"fail", "drop"} /\ o.cpu \in BOOLEAN /\ o.tokenizer \in BOOLEAN
         /\ o.time \in Nat /\ o.ceiling \in Nat /\ o.gpus \in Nat
         /\ o.by # "direct" => o.policy = "fail" /\ ~o.cpu /\ o.gpus = 1

VARIABLES
    order,      \* the submission
    exports,    \* the course's files
    walltime,   \* the wall clock asked for: seconds, and what else than the estimate set them
    doing,      \* where the job is
    data,       \* the files as the trainer read them
    picked,     \* the lines of each that it goes on with
    config,     \* the names of the settings the library was given
    budget,     \* the optimizer steps it means to make
    steps,      \* those it made
    written,    \* how many of Artefacts are in the output directory
    claimed,    \* REPORTED
    ending,     \* the outcome being reported, and where the script goes on
    told,       \* the reports left in the spool
    mishaps     \* history: what has cut the job's own account short

jobVars == <<order, exports, walltime, doing, data, picked, config, budget, steps, written, claimed, ending, told, mishaps>>
trainerVars == <<data, picked, config, budget, steps, written>>
shellVars == <<claimed, ending, told>>

Accumulation == 8           \* gradient_accumulation_steps, of one example each
Epochs == 3
SmokeTrain == 4             \* smoke_train_limit
SmokeValidation == 2        \* smoke_validation_limit
SmokeSteps == 3             \* smoke_max_steps
Overhead == 1800            \* WALLTIME_OVERHEAD_SECONDS
SecondsPerStep == 20        \* WALLTIME_SECONDS_PER_STEP
FullFloor == 3600           \* WALLTIME_FULL_FLOOR_SECONDS
SmokeSeconds == 2700        \* WALLTIME_SMOKE_SECONDS

\* What the trainer writes, in that order.
Artefacts == <<"length-report", "resolved_config", "weights", "adapter_config", "tokenizer", "trainer_state",
               "training_metrics", "evaluation_metrics", "runtime-report">>
Written(name) == \E n \in 1 .. written : Artefacts[n] = name

\* What the trainer sets, and the two names that later releases changed.
Settings == {"max_steps", "max_seq_length", "warmup_ratio"}
Renamed == {[old |-> "max_seq_length", new |-> "max_length"], [old |-> "warmup_ratio", new |-> "warmup_steps"]}

\* What keeps the prompt out of the loss: the library itself, or a collator.
MasksPrompt == {"completion_only_loss", "dataset_text_field"}

NoFiles == [train |-> <<>>, validation |-> <<>>]
NoLines == [train |-> {}, validation |-> {}]
Nothing == [outcome |-> "none", next |-> "over"]

JobInit ==
    /\ order \in Orders /\ exports \in Exports
    /\ walltime = [seconds |-> 0, clamped |-> "no"]
    /\ doing = "submitting"
    /\ data = NoFiles /\ picked = NoLines /\ config = {} /\ budget = 0 /\ steps = 0 /\ written = 0
    /\ claimed = FALSE /\ ending = Nothing /\ told = <<>> /\ mishaps = {}

---------------------------------------------------------------------------
(* How much, how long.                                                     *)

CeilDiv(n, d) == (n + d - 1) \div d
AtLeastOne(n) == IF n < 1 THEN 1 ELSE n

\* Mutant: the trainer's own budget, which drops the partial batch.
FlooredSteps(n, devices) == AtLeastOne(n \div (Accumulation * devices)) * Epochs

\* The steps of the epochs over n examples, the last partial batch included.
StepsFor(n, devices) == AtLeastOne(CeilDiv(n, Accumulation * devices)) * Epochs

\* The request, rounded up to whole minutes, for the examples counted.
Minutes(seconds) == CeilDiv(IF seconds < 60 THEN 60 ELSE seconds, 60) * 60
Walltime(examples) ==
    LET raw == Overhead + StepsFor(AtLeastOne(examples), 1) * SecondsPerStep
        floored == IF raw < FullFloor THEN FullFloor ELSE raw
    IN
    IF order.time > 0 THEN [seconds |-> order.time, clamped |-> "override"]
    ELSE IF order.mode = "smoke" THEN [seconds |-> Minutes(SmokeSeconds), clamped |-> "no"]
    ELSE IF floored > order.ceiling THEN [seconds |-> Minutes(order.ceiling), clamped |-> "ceiling"]
    ELSE [seconds |-> Minutes(floored), clamped |-> IF raw < FullFloor THEN "floor" ELSE "no"]

\* The first n of a set of lines.
Earliest(lines, n) == {i \in lines : Cardinality({j \in lines : j < i}) < n}

\* The first record of each format, then the earliest of the others.
FirstOfFormat(records) == {i \in DOMAIN records : \A j \in 1 .. i - 1 : records[j].format # records[i].format}
SmokeSubset(records, limit) ==
    LET heads == Earliest(FirstOfFormat(records), limit)
    IN  heads \cup Earliest(DOMAIN records \ heads, limit - Cardinality(heads))

Kept(records, limit) == IF order.mode = "smoke" THEN SmokeSubset(records, limit) ELSE DOMAIN records

Devices == IF order.cpu THEN 1 ELSE AtLeastOne(order.gpus)
MaxSteps(examples) == IF order.mode = "smoke" THEN SmokeSteps ELSE StepsFor(examples, Devices)

\* The prompt is masked as the release allows, and a setting goes by its new name
\* where only that is accepted.
Given(release) ==
    Settings \cup {IF "completion_only_loss" \in release THEN "completion_only_loss" ELSE "dataset_text_field"}
Renames(release) == {r \in Renamed : r.old \notin release /\ r.new \in release}
Adapted(release) ==
    {name \in Given(release) : \A r \in Renames(release) : r.old # name} \cup {r.new : r \in Renames(release)}

---------------------------------------------------------------------------
(* The scripts.                                                            *)

Reach(place) == doing' = place

\* The export must hold examples of both files; then the wall clock is asked for.
SubmitJob ==
    /\ doing = "submitting" /\ order.by # "direct"
    /\ exports["train"] # <<>> /\ exports["validation"] # <<>>
    /\ walltime' = Walltime(Len(exports["train"]))
    /\ Reach("pending") /\ UNCHANGED <<order, exports, trainerVars, shellVars, mishaps>>

\* An invalid export, no environment or no token here, an active job, or no answer.
RefuseToSubmit ==
    /\ doing = "submitting" /\ order.by # "direct"
    /\ Reach("refused") /\ UNCHANGED <<order, exports, walltime, trainerVars, shellVars, mishaps>>

CallDirectly ==
    /\ doing = "submitting" /\ order.by = "direct"
    /\ Reach("reading") /\ UNCHANGED <<order, exports, walltime, trainerVars, shellVars, mishaps>>

\* Another run's worker, or an administrator, replaces the files meanwhile.
ExportMoves ==
    /\ doing \in {"pending", "preflight"}
    /\ exports' \in Exports /\ mishaps' = mishaps \cup {"moved"}
    /\ UNCHANGED <<order, walltime, doing, trainerVars, shellVars>>

\* The node is there, the output directory is accepted and the traps are set.
StartJob ==
    /\ doing = "pending" /\ Reach("preflight")
    /\ UNCHANGED <<order, exports, walltime, trainerVars, shellVars, mishaps>>

\* No helpers before the traps are set, or no environment after: an exit is not
\* a failing command, and no trap sees it.
ExitUnseen ==
    /\ doing \in {"pending", "preflight"} /\ Reach("over") /\ mishaps' = mishaps \cup {"unseen"}
    /\ UNCHANGED <<order, exports, walltime, trainerVars, shellVars>>

\* report_result, which is passed once, and only for the queue.
Report(outcome, next) ==
    IF order.by = "queue" /\ ~claimed
    THEN /\ claimed' = TRUE /\ ending' = [outcome |-> outcome, next |-> next] /\ Reach("telling") /\ UNCHANGED told
    ELSE Reach(next) /\ UNCHANGED shellVars

\* No token on the node, or a command that fails.
FailPreflight ==
    /\ doing = "preflight" /\ Report("failed", "over")
    /\ UNCHANGED <<order, exports, walltime, trainerVars, mishaps>>

PassPreflight ==
    /\ doing = "preflight" /\ Reach("reading")
    /\ UNCHANGED <<order, exports, walltime, trainerVars, shellVars, mishaps>>

---------------------------------------------------------------------------
(* The trainer.                                                            *)

TrainerPlaces == {"reading", "auditing", "planning", "configuring", "training", "saving"}

\* Its status is not zero, and on_failure reports it; called directly it just ends.
TrainerFails ==
    /\ doing \in TrainerPlaces /\ Report("failed", "over")
    /\ UNCHANGED <<order, exports, walltime, trainerVars, mishaps>>

\* The records of both files, and of a smoke run those it takes.
Read ==
    /\ doing = "reading" /\ exports["train"] # <<>> /\ (order.cpu => order.gpus = 0)
    /\ data' = exports
    /\ picked' = [train |-> Kept(exports["train"], SmokeTrain), validation |-> Kept(exports["validation"], SmokeValidation)]
    /\ Reach("auditing") /\ UNCHANGED <<order, exports, walltime, config, budget, steps, written, shellVars, mishaps>>

Fitting(file) == {i \in picked[file] : data[file][i].fits}
Oversized == \E f \in DOMAIN picked : Fitting(f) # picked[f]

\* The tokenizer fits the format; every record taken is measured, and that is written.
Audit ==
    /\ doing = "auditing" /\ order.tokenizer
    /\ written' = 1 /\ Reach("planning")
    /\ UNCHANGED <<order, exports, walltime, data, picked, config, budget, steps, shellVars, mishaps>>

\* With nothing oversized, or without it, the budget is of the records left.
PlanSteps ==
    /\ doing = "planning" /\ (Oversized => order.policy = "drop") /\ Fitting("train") # {}
    /\ picked' = [f \in DOMAIN picked |-> Fitting(f)]
    /\ budget' = MaxSteps(Cardinality(Fitting("train")))
    /\ written' = 2 /\ Reach("configuring")
    /\ UNCHANGED <<order, exports, walltime, data, config, steps, shellVars, mishaps>>

\* The model is loaded; a setting the release does not accept is an error.
Configure ==
    /\ doing = "configuring" /\ Adapted(order.release) \subseteq order.release
    /\ config' = Adapted(order.release)
    /\ Reach("training") /\ UNCHANGED <<order, exports, walltime, data, picked, budget, steps, written, shellVars, mishaps>>

Step ==
    /\ doing = "training" /\ steps < budget /\ steps' = steps + 1
    /\ UNCHANGED <<order, exports, walltime, doing, data, picked, config, budget, written, shellVars, mishaps>>

\* The library returns, with the budget spent or short of it.
StopTraining ==
    /\ doing = "training" /\ Reach("saving")
    /\ UNCHANGED <<order, exports, walltime, trainerVars, shellVars, mishaps>>

Save ==
    /\ doing = "saving" /\ written < Len(Artefacts) /\ written' = written + 1
    /\ UNCHANGED <<order, exports, walltime, doing, data, picked, config, budget, steps, shellVars, mishaps>>

\* A full run that is short of its budget fails after all is written.
FellShort == order.mode = "full" /\ steps < budget

\* The trainer's status is zero; the script goes on to its report.
Succeed ==
    /\ doing = "saving" /\ written = Len(Artefacts) /\ ~FellShort
    /\ Report("succeeded", "over")
    /\ UNCHANGED <<order, exports, walltime, trainerVars, mishaps>>

---------------------------------------------------------------------------
(* The report, and the ends nobody chose.                                  *)

AdapterIsPresent == Written("adapter_config") /\ Written("weights")

\* build_completion_payload: a success without an adapter is told as a failure;
\* a smoke run registers nothing.  Then the payload is in the spool.
Tell ==
    LET outcome == IF ending.outcome = "succeeded" /\ ~AdapterIsPresent THEN "failed" ELSE ending.outcome
    IN
    /\ doing = "telling"
    /\ told' = Append(told, [outcome |-> outcome, registers |-> outcome = "succeeded" /\ order.mode = "full"])
    /\ Reach(ending.next) /\ ending' = Nothing
    /\ UNCHANGED <<order, exports, walltime, trainerVars, claimed, mishaps>>

\* TERM: the trainer dies of it, and the trap reports; before the trainer the trap
\* reports and the script goes on, or its command dies too.
Terminate ==
    \/ doing \in TrainerPlaces /\ order.by # "direct" /\ Report("failed", "over")
       /\ UNCHANGED <<order, exports, walltime, trainerVars, mishaps>>
    \/ doing = "preflight" /\ (\E next \in {"preflight", "over"} : Report("failed", next))
       /\ UNCHANGED <<order, exports, walltime, trainerVars, mishaps>>
    \/ doing = "telling" /\ Reach("over") /\ ending' = Nothing /\ mishaps' = mishaps \cup {"cut"}
       /\ UNCHANGED <<order, exports, walltime, trainerVars, claimed, told>>

\* KILL, or the node's end.
Kill ==
    /\ doing \in {"pending", "preflight", "telling"} \cup TrainerPlaces
    /\ Reach("over") /\ ending' = Nothing /\ mishaps' = mishaps \cup {"killed"}
    /\ UNCHANGED <<order, exports, walltime, trainerVars, claimed, told>>

JobNext ==
    \/ SubmitJob \/ RefuseToSubmit \/ CallDirectly \/ ExportMoves \/ StartJob \/ ExitUnseen
    \/ FailPreflight \/ PassPreflight \/ TrainerFails \/ Read \/ Audit \/ PlanSteps \/ Configure \/ Step \/ StopTraining
    \/ Save \/ Succeed \/ Tell \/ Terminate \/ Kill

JobSpec == JobInit /\ [][JobNext]_jobVars

---------------------------------------------------------------------------
(* Properties.                                                             *)

Lines(file) == DOMAIN data[file]

\* What is told is what happened: a success has its adapter, its report and, of a
\* full run, its whole budget; what registers a version was trained on every line of
\* the course's file that fits, none of them cut, for every epoch.
ReportsAreTrue ==
    \A n \in DOMAIN told :
        /\ told[n].outcome = "succeeded" =>
             AdapterIsPresent /\ Written("runtime-report") /\ (order.mode = "full" => steps >= budget)
        /\ told[n].registers =>
             /\ picked["train"] = Lines("train") /\ \A i \in Lines("train") : data["train"][i].fits
             /\ steps * Accumulation >= Epochs * Len(data["train"])

\* A job of the queue that is over has told so, and once, unless it was killed, its
\* reporter was, or an exit was taken that no trap sees.
EndIsToldOnce ==
    /\ Len(told) <= 1
    /\ doing = "over" /\ order.by = "queue" => told # <<>> \/ mishaps \cap {"killed", "cut", "unseen"} # {}

\* The wall clock asked for when the job was submitted is enough for the budget it
\* computes for itself hours later, at the pace assumed, unless it was capped or
\* the files were replaced meanwhile.
WalltimeCoversBudget ==
    doing \in {"training", "saving"} /\ order.by # "direct" =>
        \/ walltime.seconds >= Overhead + budget * SecondsPerStep
        \/ walltime.clamped \in {"ceiling", "override"} \/ "moved" \in mishaps

\* A smoke run trains on at most four records, one of each format there is,
\* unless it dropped one.
SmokeSeesEveryFormat ==
    order.mode = "smoke" =>
        /\ Cardinality(picked["train"]) <= SmokeTrain /\ Cardinality(picked["validation"]) <= SmokeValidation
        /\ order.policy = "fail" /\ data["train"] # <<>> =>
             \A i \in Lines("train") : \E p \in picked["train"] : data["train"][p].format = data["train"][i].format

\* No setting is dropped on the way to the library, none is refused by it, and the
\* prompt is never a training target.
NoSettingVanishes ==
    doing \in {"training", "saving"} =>
        /\ config \subseteq order.release /\ config \cap MasksPrompt # {}
        /\ \A name \in Settings : name \in config \/ \E r \in Renamed : r.old = name /\ r.new \in config

\* What a training job promises the queue that waits for it (run_training,
\* estimate_training_walltime_seconds, train.slurm, build_sft_config, build_completion_payload).
JobKeepsItsWord ==
    ReportsAreTrue /\ EndIsToldOnce /\ WalltimeCoversBudget /\ SmokeSeesEveryFormat /\ NoSettingVanishes
=============================================================================
