# A verification of the syllabus bot

TLA+ models of the logic that is hard to test in the syllabus bot: who gets the
next generation, which trained version answers a class, what a killed script or
a lost call leaves behind, what happens between two transactions. TLC checks
the models on small instances; TLAPS proves the most important properties for
every number of requests, runs, users, sessions and so on.

Paths are relative to `src/`; `app/` stands for `src/backend/app/`.

Contents: 1 the system, 2 the modules, 3 what TLC checks, 4 where the code and
its own words disagree, 5 what is proved, 6 what is not modelled, 7 what comes
next.

## 1. The system

A FastAPI backend (one process, one asyncio event loop, a thread pool,
PostgreSQL) serves a React front end. Students ask questions and compare the
answers of four approaches; professors review examples and ask for a model;
administrators prepare data, queue training and publish models. Generation runs
on the VM's Ollama or, in class, on a GPU reached through a tunnel. Training
runs on a Slurm cluster that the backend cannot reach: workers there poll the
backend and report to it. Operators' scripts on the VM move the engine.

| component | state | what is hard |
|---|---|---|
| Generation queue `app/generation_queue.py` | slots taken, the sorted waiters with a future each, when each comparison was first seen | the grant of a slot races a timeout, a disconnect, a cancellation; order |
| Training queue `app/db_training_runs.py`, `db_model_requests.py`, `training_retry.py`, `training_queue_routes.py` | `training_runs`, `model_requests`, `course_model_versions`, the prepared files | leases expire under live workers; reports repeat and come late; transactions overlap under READ COMMITTED |
| Cluster worker `training/run_training_queue.py`, `report_training_result.py`, `scripts/lib/` | the record of each launched job, the spool of unanswered reports | kills between sbatch, record and report; two writers and no lock |
| Training job `training/start_qlora_training.sh`, `train.slurm`, `smoke.slurm`, `train_qlora.py`, `scripts/lib/qlora_training_helpers.py` | the request to Slurm, the records and the budget, the output directory, the traps' flag | a job cut anywhere; steps and hours computed apart, at different times; what each library release accepts |
| Model registry `app/db_models.py`, `model_publication.py`, `course_model_resolution.py`, `scripts/report_model_published.py` | the versions with their deployment, the spool of publications | two publications at once; redeliveries; an await between check and write |
| Serving tree, session, inference service `training/promote_qlora_adapter.sh`, `training/inference_service/`, `serving_session.py` | adapters and pointer on disk, the Slurm job and its record, the cache of adapters | a lock released between loading and generating; kills; two clocks that should end together |
| Classroom GPU mode `scripts/classroom_gpu_mode.py`, `gpu_failback_watchdog.py`, `app/generation_mode.py` | the mode file, the watchdog's state, the backend's cached reading, the tunnel | two kinds of writers; stale readings; questions in flight at a change |
| VM adapters and fallback `scripts/aiswe_finetuned.sh`, `start_finetuned_tunnel.sh`, ... | a systemd unit, a tunnel on the same port, a marker file | shells killed, interrupted, interleaved |
| Starter jobs, fact inventory `app/starter_jobs.py`, `fact_inventory_cache.py` | one job slot, the stored status, the running build of facts | restarts; joining a build of older chunks |
| Starter run `app/seed_generation.py`, `seed_allocation.py`, `seed_balance.py`, `seed_similarity.py`, `seed_validation.py`, ... | a plan, the candidates, the embeddings | boundaries; failed calls; parallel lists |
| Course content `app/main.py`, `course_index.py`, `seed_review.py`, `seed_export.py`, `seed_split.py`, ... | syllabus and index on disk, the course row, the training files and their pin | writes of several files; failures between them; edits during a review |
| Retrieval, chunking, facts `app/rag.py`, `retrieval_diversity.py`, `syllabus_chunking.py`, `syllabus_facts.py` | none that lasts | boundaries: overlap, budgets, few places and many facets |
| Accounts `app/auth_routes.py`, `admin_routes.py`, `db_invitations.py` | accounts, sessions, invitations | two requests that read before either writes |
| Participants, comparisons, evaluations `app/db_participants.py`, `db_evaluations.py`, `src/src/context/` | one cookie of a browser, rewritten by every join and sign-out, each tab's run, the ratings | tabs; lost, late, repeated requests |
| Benchmark, privacy filters, import and evaluation tools | read-only or run once | |

How they interact. Pages call the backend, the backend PostgreSQL. Workers call
the backend (claim and reports). Every generation runs under a slot of the
generation queue, with the engine of the mode that was read before. A completion
registers a version; a publication, after the fine-tuned service has been asked,
puts it online; resolution chooses what answers. An upload queues a starter job,
which asks for the facts and runs; its examples are reviewed, exported, split,
pinned and fetched by the worker. `PROJECT.json` lists each hazard at its line
with the properties on it.

## 2. The modules

An action is a stretch of code nothing else can interrupt: between two awaits on
the event loop, one transaction (two steps where it decides on an unlocked
read), one command of a shell script. Data is a model value or a small number:
a text is its version, an adapter the promotion that copied it, a password its
version. Variables named as history are read by properties only. `PROJECT.json`
maps every definition to its lines.

### Answering: GenerationQueue, SlotPool

`pc[r]` is the await at which `slot()` is suspended.

| action | code |
|---|---|
| `Enter` = `StartAtOnce`, `Refuse`, `JoinQueue` | `slot()` up to its first await: the fast path, the two refusals, `bisect.insort` |
| `Granted`, `PollClient`, `PollAnswer` | `_wait_turn`: the future is done; the poll interval is over; `disconnected()` answered and the loop's next pass |
| `Confirm` | the last `disconnected()` before the body starts |
| `Finish`, `Cancel` | the body ends; `CancelledError` at whichever await |
| `CloseClient`, `ResetEstimate`, `Tick` | the browser, the mode listener, the clock |

`Release`, `Abandon` and `RecordService` are operators these actions use.
`granted` holds the requests whose future is set and whose task has not resumed,
the window in which a timeout, a disconnect or a cancellation meets a slot
already handed over. The moving average is any value between the old one and the
new sample. `SlotPool` is what the queue promises: a pool of slots with direct
hand-off.

### Training: TrainingQueue, TrainingWorker, TrainingJob

`TrainingQueue` is one course's rows. `Begin...` reads and `Commit` takes the
locks and writes, with `tx[h]` in between: conditional inserts (`NOT EXISTS` is
judged on the statement's snapshot), every report route (`_require_run` comes
before `_require_current_run`'s `FOR UPDATE`), preparation, and a page's two
calls. `tries[r]` is what became of each claim of run `r`; a launched job may
report at any time, in any order, as often as it likes. Time is two events: a
lease runs out, a submitted run is silent too long. `overtaken` notes that a
transaction committed on a reading others had changed: the code does not defend
against that (section 4), and the properties are stated up to there.

`TrainingWorker` is the other side of one run. `at[Worker]` and `at[j]` are
places in `run_once` and in the report of job `j`; the worker may be killed at
each. The run's record is read, merged and replaced in separate steps (`draft`)
by the worker and the jobs alike; a report is spooled, sent, and cleared by run.
A call may be lost, or applied with its answer lost.

`TrainingJob` is what the worker launches, from its submission to its report;
`TrainingWorker` knows of it only that it ends, or is lost.

| action | code |
|---|---|
| `SubmitJob`, `RefuseToSubmit`, `CallDirectly` | `start_qlora_training.sh` with `estimate_training_walltime_seconds`; the trainer run without it, as the VM does |
| `ExportMoves` | another worker's download replaces the course's files while the job waits |
| `StartJob`, `PassPreflight`, `FailPreflight`, `ExitUnseen` | `train.slurm` and `smoke.slurm` up to the trainer, and the exits no trap sees |
| `Read`, `Audit`, `PlanSteps`, `Configure`, `Step`, `StopTraining`, `Save` | `run_training`: records and smoke subset, lengths, policy and budget, `build_sft_config`, the library's steps, the files in their order |
| `Succeed`, `TrainerFails`, `Terminate`, `Kill` | the ends: the length check, an error, a signal that the trap reports, one that nothing sees |
| `Tell` | `build_completion_payload` and the spool file |

A record is its format and whether it fits the window. How many steps the
library makes is any number up to the budget; what it accepts (`order.release`)
is a set of names. `mishaps` is history.

### Publication and serving: ModelRegistry, AdapterTree, ServingSession, Serving

`ModelRegistry`: a publication and an activation are `Ask`
(`require_ready_version`), `Probe` (after awaiting `/health`), `BeginWrite` (the
snapshot of the demoting UPDATE) and `CommitWrite`. The spool file of a report
survives until a final answer. `Redeliver` is a completion delivered again, whose
upsert refreshes every column: it takes its version offline, and if that version
answers students the course has no answer (`Withdraws`, section 4).

`AdapterTree` is the promote script, killed between any two commands: `Stage...`,
`Place`, `Point`, `Report`. `ServingSession` is the Slurm jobs with the start and
stop scripts and the backend's records. A job ends with its wall clock (`clock`,
`Ends`), a record when its `expires_at` has passed (`lasts`), and `Ticks` runs
both. What joins them is the start script: `ReadsClock` is what squeue says is
left, or the hours of this run when it says nothing; `Stamp` is `register`'s
`max(60, int(seconds or 7200))`; `Records` writes it, some time later. `guessed`
notes the records that were not given what Slurm had just said, `unheard` the
jobs of whose end nobody told the backend. `Serving` adds the engine: `ensure_adapter`
loads and evicts under a lock, the generation takes the lock again, so that its
adapter may be gone; `GoesDown` cuts off every call.

### The engine: GpuMode, Answering, VmFallback

`GpuMode` has the mode file, the tunnel, `start` and `stop` of
`classroom_gpu_mode.py` (each a sequence of probes, writes and tunnel commands,
`op[o].at`) and one run of the watchdog at a time (`run.at`: read, judge, fail
back, record, warm up). Runs are killed, saves lost, the tunnel drops. Two texts
are equal when their `id` is, which is how the code compares them (digests).
`Answering` adds the backend's reading of the file: `Stat`, then the cached text
or `Parse` and `Remember`, by questions (on the event loop) and status pages (on
threads), and the line of questions in front of the engine.

`VmFallback` runs the operators' scripts command by command in two shells:
`aiswe_finetuned.sh` start, stop, restore, restart, set-mapping, the two tunnel
scripts, the installation of an adapter, with their traps on an interrupt and
without them on a kill, beside systemd's own retries and a reboot. The unit may
refuse to start (`Launch`, `Retry`, `Reboot`): its preflight dies on a missing or
malformed `finetuned.env` and on a port somebody else has, as it always does on
the tunnel's.

### Starter examples: FactInventory, StarterJobs, SlotAllocation, StarterRun, Candidates, CandidateChecks

`FactInventory` is the shared build (start, join, cache by fingerprint, fail,
restart), `StarterJobs` composes it with the job slot, the guard of active
courses, the stored status, uploads, admin starts and top-ups. `SlotAllocation`
is `seed_allocation.py` (desired slots, breadth, depth, caps), `StarterRun` the
generation loop over it. `Candidates` follows a proposed question through the
wording check, the embedding cache, the verdict and the saving transaction;
`CandidateChecks` is what the checks conclude from the cues their patterns find.

### The syllabus: SyllabusChunks, SyllabusFacts, Retrieval, Conditions

`SyllabusChunks` reads lines into sections and cuts a section into overlapping
pieces. `SyllabusFacts` batches chunks, extracts, verifies, salvages, merges; a
text is the set of its phrases, long as it has many. So all the filters of a
salvage are there (`Salvageable`: length, policy, response time, boilerplate,
entailment), what counts as covered (`Covered`: one key in the other, or 55 % of
the words shared with an extension among them), keys that keep only Latin letters
(`StatementKey`, `Foreign`) and the choice of sentences without a model (`Picks`,
`Quoted`).
`Retrieval` ranks, covers facets, spreads over sections, fills, drops the weak
and fits the prompt; `Conditions` is the six routes that answer from it, while
versions are registered and activated. Texts are sets of words or cues.

### Course content: CourseContent

Uploads and `reindex_course.py` against the course row, reviewers against
edits, preparation (export, split, three files replaced one after another)
against enqueueing, `describe_dataset` and the worker's download.
A commit of a syllabus is one step where it goes through; a write that fails in
it, and a kill in the middle of it, leave whatever stands between two of its
writes (`MidCommit`: part of the new text and index written, then part of them
deleted, then part of the old ones written again). An export that is cut short has
new records beside the old summary (`ExportCutShort`), a split that is (`SplitFails`,
`Kill`) has files of two splits. A split is asked for by its own button too and
takes whatever export there is (`BeginSplit`, `AdminTrainingPage.tsx:167`).
`excuse` names the failures after which the code's own promise is off.

### People: Accounts, Participation, Comparisons, Ratings

`Accounts`: staff requests as read and commit steps. `raced` notes that two of a
kind overlapped. `Participation`: a join is asked with the cookie of the moment
and answered with a cookie made from it; a sign-out revokes the sessions its request
carried (`SignOut`) and its answer deletes the cookie that is there by then
(`HearSignOut`). `Comparisons`: the runs of each tab,
which may be duplicated and reloaded. `Ratings`: the Evaluate page, submissions
that are lost, late or repeated, and the transaction under the advisory lock.

### Simplifications worth knowing

* Training queue: the dataset's pin is read in the enqueue's snapshot; runs
  without prepared files are not queued; the free-form PATCH of a run, which no
  page calls, is left out. No modelled code writes the run state `training`.
* Registry: versions come from completions only, hence are `ready`.
  `record_model_version_published`'s docstring calls its 503 final while the
  reporter keeps the report queued; the model follows the reporter.
* GPU mode: the comparison of decoding settings, which drops an answer, is left
  out. Accounts: no memberships, rate limits, CSRF. Course content: one example,
  one course. VM fallback: `status`, `check` and `verify` only read.

## 3. What TLC checks

| run | instance | what it asks |
|---|---|---|
| `generation` | 1 slot, 2 + 1 students in two comparisons, 1 starter request | slots conserved, none idle, the list exact, `SlotPool` implemented, who is next, departed clients, nobody waits for ever |
| `queue` | 2 backend requests at a time, 2 runs, 2 claims | one outstanding run, finality, versions are results, retired runs register nothing |
| `published` | registry: 2 publications, 3 versions, 1 redelivery; service: 2 courses, cache of 1, 3 promotions, 2 generations, 1 job; session: 2 jobs, wall clocks of 2 and 3 ticks | what is online, what moves it; whose adapter answers; what a killed promotion leaves; whether a live session serves |
| `worker` | 2 jobs of one run | one recorded job, reports kept and delivered, described files only |
| `starter` | 2 courses, 2 handlers, 1 browser, 1 restart or lost write | slot, guard and status agree; whose facts are handed out; nobody awaits nothing |
| `gpu` | watch: 2 operators, 1 session, 4 writes, 1 fault; answers: 1 question, 1 page, 1 operator | when the watchdog may write, must write; which mode a question uses; over whom the tunnel is closed |
| `accounts` | staff: 2 users, 2 requests, 1 invitation; browser: 2 tabs, 2 courses, 2 comparisons, 2 submissions | administrators, invitations, sessions; joins, sign-outs, comparisons and ratings |
| `seedpipeline` | 3 facts of 6 kinds, target 3, 4 proposals, 3 syllabi, texts of up to 7 phrases, 4 indexes, every route, files of up to 250 records | allocation, run, chunks, facts, candidates, checks, retrieval and routes; one training job |
| `content` | 2 uploads, 2 reviewers, 1 admin, 2 splits, 1 fault | row and disk; one split; only approved texts |
| `fallback` | 2 shells, 3 commands, 1 event, 2 adapters | one listener on the port; what is stopped is recorded; it comes back |
| `scenarios`, `text` | as `seedpipeline` | violated: section 4 |

### The bounds, and why they are enough

* `generation`: three students and one starter request are what the order needs,
  two of one comparison with one of another between them and one of lower rank.
  One slot makes everybody wait; `MaxWaiting` = 2 is reached and refused at.
  Timeout and comparison TTL are one tick of two, so both expire while others
  arrive. The theorems of section 5 have no such bounds.
* `queue`: two runs are a run and its replacement, or two overlapping inserts;
  two claims a worker and the one that takes over its lease; two handlers any
  race of two transactions. `NotYetOvertaken` stops at the first commit on a
  stale reading, after which the properties excuse everything.
* `published`, `gpu`, `accounts`, `seedpipeline` put components side by side that
  share no state, and a behavior goes through one of them (`part`); their bounds
  (`Bounds`) are commented in the MC modules. In `published` three versions are
  one before and one after the version in question; once two publications have
  overlapped or a completion came twice, two say the same (`TwoVersionsFromThenOn`). A
  cache of one makes every second load evict; the service starts with a published version per course
  (`FirstVersions`) because nothing can be asked before. The sessions have a part
  of their own: wall clocks of two and three ticks, a shortest record of two and a
  default of three, so that a record may end before its job, with it and after it; a
  second job shows an active job reused with other hours and a start script that
  comes late, and begins when the first record has expired (`OneRecordAtATime`). Where
  adapters answer, the job's clock stands still and no record is written
  (`OneJobWithoutClock`): the engine reads neither.
* `worker`: two jobs are one and the one a lost record would launch.
* `gpu`: two failures in a row, two warm-ups, four writes: a start, a failback,
  and an operator between a reading and a write.
* `accounts`: the part "rating" starts from a browser that joined before; the
  joining itself is the part "joining".
* `seedpipeline`: each algorithm sees each of its branches; a run starts from an
  empty course or tops up one that holds a seed or none; boundary lengths
  (700, 850, 1300 characters; an overlap of 125) and marks (one below a
  threshold, the threshold) are among the inputs. Of the training job: five, nine
  and 250 records, so that a last batch is partial, a smoke run has to look for its
  second format, and the wall clock is floored, estimated or capped; one device and
  two; a library release that accepts the old names and one that accepts the new.
* `fallback`: three scripts are one, the one beside it, and the one that has to put
  right what they left; where something happens to them (the one event), the third
  begins when the others are over (`ThirdAlone`).
* `content`: one fault, and no behavior past two excuses; more only
  repeats what one shows. In `content` an excuse that is not about the review is
  followed only while the example keeps its first text (`OneTextOnceExcused`): edits
  and files meet in the behaviors without one.

Symmetry permutes handlers, requests, tabs, reviewers, uploads, shells, adapters:
names that no definition orders or tells apart. No liveness property is checked
under symmetry (`ServiceComesBack` and the others are action properties).
Deadlock checking is off where a bounded model stops for good: everyone served,
no claim, command or call left.

### Fairness

* `generation`: weak fairness of the clock and of each request's own next step
  (`Resume`), because the event loop runs every ready task and a wait with a
  timeout becomes ready. `WaitEnds` assumes no more: nothing obliges a running
  generation to end.
* `worker`: the operator keeps running the worker (weak fairness of its steps);
  it is not always killed at the same place and the backend answers again and
  again (strong fairness of the answered flush and of the clearing after it).
* `gpu`, part "watch": the systemd timer keeps running the watchdog, every 15 s
  (weak fairness of `WatchStep`). Kills, deferrals and operators are not
  restrained.

Nothing is assumed of clients, operators, arrivals or the network.

## 4. Where the code and its own words disagree

Two are runs that must end in a counterexample (`PROJECT.json` quotes the lines):

* `scenarios` The number of scenario questions still possible is counted over
  the whole rest of the plan, backfill included, which a run that is accepted at
  every attempt never reaches: it ends below what it reported achievable.
* `text` A continuation whose overlap begins with a small letter starts after the
  next sentence's end, which may lie behind the cut: what is between is in no
  chunk, in a module that calls itself policy-preserving.

Visible in the models, and excused by name in the properties they would break:

* Two overlapping enqueues both insert (`db_training_runs.py:446`); a report
  judges a run as it first read it, so that a finished run returns to
  `submitted` or `queued` (`training_queue_routes.py:568`); a second claim made
  while the launcher runs launches a second job (`run_training_queue.py:578`).
  All three are commits that overtake (`overtaken`).
* Two publications demote only what each saw online and both end online
  (`db_models.py:338`; `overlapped`).
* A redelivered completion sets `deployment=offline`
  (`training_queue_routes.py:1120`, `:1363`), so that a course whose answering
  version's completion comes twice has no answer until somebody publishes again,
  against `training_queue_routes.py:1019` ("Redelivery of the same outcome is
  idempotent"). `AnswersMoveTogether` names it (`Withdraws`) and lets nothing else
  take an answer away; `LatestOrNone` allows no answer.
* A session the backend calls live may be over, against `db_serving_sessions.py:22`
  ("the record ages out at exactly the time the GPU does"): without an answer of
  squeue the record lasts the hours of this run, which may reuse a job submitted for
  less (`start_finetuned_service.sh:401`); with nothing left it lasts two hours and
  never less than a minute (`serving_session.py:138`); what was read ages until it
  is recorded. `LiveSessionServes` excuses these by `guessed`, and by `unheard` a
  job that fails, or whose stop is not reported or was reported before a start
  script called it ready.
* Two administrators remove each other (`raced`); a sign-in between its check and
  its commit survives a change of password (`raced`).
* Two tabs that join at once overwrite each other's cookie, and a join that is
  answered while a sign-out is under way loses the token it was just given, for the
  sign-out's answer deletes the cookie and revokes only what its own request carried
  (`auth_routes.py:285-311`), both against the docstring `auth_routes.py:333`
  ("never in place of them"; `lapses`). The Evaluate form keeps choices over a newer
  comparison (`EvaluatePage.tsx:85`; `replaced`).
* Two first uploads (`main.py:746`), a write of the course row that was never made,
  a rebuild that ends after its text was replaced, an approval of a text the page
  never showed (`useExampleReview.ts:263`): `excuse`.
* The undo of a failed commit deletes text and index and writes the old ones again
  to the disk that just failed (`storage.py:126-130`); if that fails, or the backend
  is killed in it, a course may be `indexed` with no index, against
  `storage.py:116` ("the course is put back exactly as it was") and `main.py:733`
  ("a failure leaves the course as it was"): `commit cut short`.
* Files written one after another without a mark that all are there: the records of
  an export, its metadata and its summary (`seed_export.py:209-251`), so that a
  manifest names the export before (`export cut short`); train, validation and
  manifest (`seed_split.py:733-789`), whose checksums nobody compares before they are
  pinned (`split cut short`). A kill and a failed write leave the same files.
* A unit that refuses to start stays down, and the marker names what it owes
  (`aiswe_finetuned.sh:288-298`, `:320`, `stop_finetuned_tunnel.sh:115`); that is what
  `training/test_finetuned_fallback_scripts.py:391` asks for, and `ServiceComesBack`
  names it (`Refused`).
* A policy that shares 55 % of its words with a fact of another policy is taken for
  covered and is not salvaged (`syllabus_facts.py:776-789`), against
  `build_fact_inventory`'s use of it for what a batch missed; a fact whose key keeps
  no letter is dropped by the merge (`:1053`), and while it is there its empty key
  covers every policy (`:765-775`). `NothingIsLostSilently` speaks of what the code
  takes for covered and of a pool whose facts have keys (`unkeyed`). Without a model,
  one sentence of value hides the others of its chunk and may then be left out as too
  short (`:1160-1164`), and a policy in few words is boilerplate: `Telling` and
  `Salvageable` leave these out.
* A restore beside another shell's stop removes the marker that was just written
  (`aiswe_finetuned.sh:410`), excused by `alone`; an interrupt while the child
  stops the unit leaves `STOPPED_LOCAL=0` and the unit down
  (`start_finetuned_tunnel.sh:271`), excused by `stopped`: the marker is there.
* A marker kept from an earlier fallback is not rewritten (`aiswe_finetuned.sh:369`)
  and may name less than was served since, against `aiswe_finetuned.sh:347` ("a
  restore checks exactly what was lost"). `ServiceComesBack` speaks of what the
  marker owes (`Owed`); the proof attempt showed the difference, which needs one
  more command than the run allows.
* A stop of GPU mode whose checks fail closes the tunnel over questions still
  waiting for the GPU, against `generation_mode.py:23` ("nothing in flight
  dropped"): `DropsNothing` speaks of stops that the VM answered.
* A second submitted request form resets a row that has become active
  (`db_model_requests.py:162`): modelled, with no text to say which should win.

* A node without the trainer's environment takes an `exit 1` that no trap sees
  (`train.slurm:173`), against `train.slurm:70` ("The trap fires on any nonzero
  exit or signal"): such a job goes unreported until the queue gives it up. A
  signal that ends the reporter ends the report (`train.slurm:93`). `EndIsToldOnce`
  excuses both by name (`unseen`, `cut`).
* The wall clock is that of the files at submission (`start_qlora_training.sh:172`),
  the budget that of the files at the start; `WalltimeCoversBudget` excuses `moved`.

Read while modelling, outside any property: the engine's evict docstring
(`inference_service/app.py:280`); scope caps that are never enforced
(`seed_allocation.py:355`) and a limiting factor misreported
(`seed_generation.py:170`); bare and grounded records of one seed on both sides
of a split (`seed_split.py:599`); `retention.py:315` and
`apply_retention_plan.py` on re-checking publication;
`cleanup_training_outputs.sh` deletes a recomputed plan; a merged fact's
statement beside another's quote (`syllabus_facts.py:1044`); two overlapping
installs that both pass the tag check (`install_finetuned_adapter.py:418`); the
estimate of the queue, reset at a mode change, refilled by a generation in
flight (`main.py:353`); a facet's only chunk, found by its embedding alone,
dropped by the relevance floor (`retrieval_diversity.py:254`); a pair test that
generates the base answer before it resolves a version it may refuse
(`main.py:619`).

## 5. What is proved

TLAPS checks these for every value of the constants: no bound of section 3
matters to them, and the sets of requests, handlers, users, runs and so on are
any sets that meet the named assumptions.

| theorem | states | module |
|---|---|---|
| `SlotInvariant`, `SlotsAreConserved`, `NoSlotIdles`, `QueueIsExact`, `TypeCorrect` | `SlotsConserved`, `NoIdleSlotWhileWaiting`, `WaitersAreQueued`, `TypeOK` | `GenerationQueueProofs` |
| `ServedInTurn`, `DepartedNeverStart` | `ServedInOrder`, `GoneNeverRuns` | |
| `QueueImplementsPool` | `ImplementsPool`: the queue refines `SlotPool` | |
| `QuestionsAreSafe`, `FactsAreSafe` | `QuestionSafety`, `FactSafety` | |
| `QueueIsSafe`, `EndsStayFinal` | `QueueSafety`, `EndsAreFinal` | `TrainingQueueProofs` |
| `ContentIsSafe`, `OneSplit`, `ApprovedOnly` | `ContentSafety`, `TrainsOnOneSplit`, `OnlyApprovedIsTrained` | |
| `RegistryIsSafe`, `AnswersMove` | `RegistrySafety`, `AnswersMoveTogether` | `PublicationProofs` |
| `ServingIsSafe`, `AnswersAreOwn` | `ServingSafety`, `AnswersWithOwnAdapter` | |
| `FallbackIsSafe`, `ServiceReturns` | `FallbackSafety`, `ServiceComesBack` | |
| `WorkerIsSafe`, `ReportIsKept` | `WorkerSafety`, `ReportKept` | `WorkerProofs` |
| `JobsKeepTheirWord` | `JobKeepsItsWord` | |
| `GpuModeIsSafe`, `ModeIsSafe`, `FailbackHasReason`, `StopDropsNothing` | `GpuModeSafety`, `ModeSafety`, `FailbackIsJustified`, `ClosesOnlyTheUnused` | `GpuModeProofs` |
| `StarterIsSafe`, `AnswersAreForOwnChunks`, `NobodyIsForgotten` | `StarterSafety`, `AnsweredForOwnChunks`, `NobodyAwaitsNothing` | `StarterProofs` |
| `AllocationStaysFair`, `RunsKeepTheirWord` | `AllocationIsFair`, `RunKeepsItsWord` | |
| `CandidatesAreSafe`, `ChecksStayFaithful`, `ChunksKeepTheText` | `CandidateSafety`, `ChecksAreFaithful`, `ChunkSafety` | |
| `StaffIsSafe`, `SessionsAreFresh` | `AccountsSafety`, `SessionsFollowPassword` | `PeopleProofs` |
| `ClassroomIsSafe`, `NobodyIsDropped` | `ClassroomSafety`, `JoinedStays` | |

`ListLemmas` holds what several of them need to know of lists: inserting,
removing, filtering, that a part of a list keeps its order, that a finite set
can be listed in an order, the length of lists put one after the other, what a fold
goes through, and flattening. The later ones are inductions over the length; `UpTo`
states that induction for a set of numbers instead of a predicate, from the least
element that well-foundedness gives of the sets `m + 1 .. n`.

### From which assumptions

Only those on constants, each in the module that declares it and evaluated by
TLC: that limits and bounds are natural numbers, positive where the code would
otherwise never start (`LimitsAssumption`, `GpuModeAssumption`,
`EngineAssumption`, `BoundsAssumption`, `ComparisonsAssumption`, ...), that names
standing for "none" are no members of their sets (`RequestsAssumption`,
`TreeAssumption`, `SessionAssumption`, `StarterAssumption`, `FallbackAssumption`),
that requests, uploads and facts, where they are counted, are finitely many, and
that inventories and proposals are records of the fields the code reads, and questions and lines too
(`AllocationAssumption`, `CandidatesAssumption`, `AsksAssumption`,
`ConditionsAssumption`, `ChunksAssumption`, and `FactsAssumption`: chunks have an
id each and answers are lists). Where the code's promise has an
exception the property names it (`overtaken`, `overlapped`, `raced`, `lapses`,
section 4); no theorem has a hypothesis of its own.

### Along which argument

* **The queue.** No slot property is inductive alone: that no slot idles needs
  the count of slots, that count needs the list to hold exactly the waiters.
  `SlotInv` is the three together with the types of the variables they speak of;
  each action keeps each conjunct. `DataInv` adds the clock: a service time is
  never negative because nobody started in the future.
* **The order of service.** `OrderInv`: the list is sorted by key, a key has its
  request's rank, and a comparison's requests in the list share as group the
  time its first request arrived. That time is in `_comparisons`, or forgotten
  because it is older than the TTL, or some request of the comparison has come
  too late for it; then the property excuses it. Insertion keeps the order because
  those `Ahead` of a new key are a first stretch of a sorted list. Only the head
  is granted a slot (`OnlyHeadIsServed`), so nobody who waits outranks it.
* **The refinement.** An arrival with a slot, a hand-off, an end are steps of
  `SlotPool`; `Confirm` and the polls stutter, for a slot is held from the moment
  the future is set.
* **Training.** `QueueInv`: runs are numbered without gaps, every transaction
  under way concerns a run and a claim that exist (`Founded`), at most one run
  is outstanding and versions are results, both until something is overtaken.
  Each commit finds the row it read, or that flag is set.
* **Worker.** `BaseInv`: every job that anything names was started, and whatever
  is written down as reported the backend has heard. `NamedInv`: once a job was
  recorded as launched, the record and every draft about to replace it name a job,
  or the backend has heard of the end; so the next look finds a job, and between
  the look that finds none and the record of the launch nothing was recorded.
  `SpoolInv`: with one job launched an answer to its report closes the run, so that
  who removes the report removes one that was answered.
* **Training job.** `JobInv`: whoever is past `Read` holds the lines `Kept` of
  some export; past `PlanSteps` the budget is that of the lines left, all of which
  fit, and unless some were dropped they are all (`PlanInv`); the wall clock is that
  of the export submitted, which is the export read unless it moved
  (`SubmittedInv`), and rounding only adds; a report under way was passed once, and
  a success under way has every file (`TellingInv`). That the smoke subset holds
  every format is counted: two formats have at most two first records, which is
  within both limits, so no cut drops one.
* **Registry.** `TxInv`: what was confirmed was servable; until two writes
  overlap, only `latest` is online and whoever writes has seen it.
* **Serving.** `TreeInv`: a promotion past `Place` finds its adapter, so that
  the pointer always does. `SessionInv`: only a job that has loaded is taken for
  healthy, and a record that was given what Slurm had just said has no more time left than
  its job (`Clocked`), since `Ticks` takes from both at once; so a record that is
  still live is not of a job that has run out. `EngineInv`: whoever decodes holds the lock with its own adapter
  selected, and the cache holds each adapter once.
* **GPU mode.** `ModeInv`: texts of one id are one text and no id is from the
  future, so that comparing digests is comparing texts; a streak of failures was
  earned by the text in force, unless a save was lost. `AskInv`: what is cached,
  or about to be, under the file's stamp is the file's text, and a reader may take
  whatever is under the stamp it found. `DropInv`: behind a stop's check in the
  line stand only those who read the VM's mode, so that with the check answered
  nobody is left who waits for the GPU.
* **Starter.** `FactInv`: whoever started a build waits for its own chunks.
  `JobInv`: the slot is taken exactly while a job lives, active courses have a
  job, and one job lives at a time.
* **Allocation.** `SlotsInv`: a fact is admitted only below the caps of its kind
  and series and is counted there, so that the counters bound who was admitted
  although the depth pass raises them without looking; caps only close, so that
  whoever is held back when the breadth pass ends is held back for good; and
  `allocated` is the number of slots given, counted as pairs of fact and number.
* **The run.** `RunInv`: the plan has an opportunity for every slot given
  (`PrimaryIsAllocated`: the plan lists every admitted fact once, as often as it
  has slots), the run accepted one question per opportunity passed as long as
  nothing was refused, and the calls are within the budget because the validation
  is only asked for when two are left. A run that is short of its target with calls
  left is then at the end of a plan that was long enough.
* **Candidates.** `CandidateInv`: the cache holds the embeddings of the first of
  the questions, each at its own place; one that was compared was compared with
  all of them; the transaction's keys are those of all it has written and of all
  that runs have saved, for nobody else saves as a run meanwhile.
* **Checks.** `PrevalidateIs` turns the chain of reasons into the conditions under
  which each is given, so that two runs of it, with and without the neighbouring
  sentences, compare condition by condition. `LowerKeeps`: a cap leaves a flawless
  rubric above the thresholds unless it is the one for unsupported advice, and the
  score grows with the marks, so that lower marks accept less.
* **Chunks.** `SectionsInv`: the sections and the one under way hold, in order, the
  lines of text read so far; a block of contents is open exactly if it hides the
  next line should that be an entry, which `BodyLines` says of the document alone
  (`HiddenByContents`). `PiecesInv`: the next piece starts after the last one did. A
  place to cut is never missing, for the lengths grow by at most the width of the
  window between the shortest and the longest piece (`SpaceExists`).
* **Facts.** `InventoryInv` says what backs the facts at each stage: until they are
  merged each says no more than a quote of a chunk it names (`PlainFacts`), from
  then on its quote still stands in one of its chunks (`BackedFacts`; `AbsorbedIs`
  shows why a merge keeps that: the quote is of one of the two facts, the sources
  are of both). That the fallback finds something in a chunk that tells something
  (`Telling`) goes along the choices it makes: what is chosen among sentences is
  chosen in order and each that is wanted is there (`AmongAre`). A merge is never
  empty while the facts have keys. The batches, the groups, the salvage and the merges are folds.
  Each is first turned into the chain of its intermediate lists (`FoldChain`, from
  the function that the fold chooses), and what is claimed goes along the chain
  by `UpTo`: pieces put together give back the chunks in order (`GroupsKeep`,
  `PackedPieces`), a policy once covered stays covered (`CoveredStays`), and a fact
  is kept next to others only when it states something else (`MergedIntoIs`). The sorts
  are the order in which each fact has as many before it as its number says
  (`Ranked`); that there is one, for a strict and total order of finitely many
  facts, is `PlaceExists`.
* **Retrieval.** `Passes`: what a pass has looked at and not taken is chosen
  already, says again what is chosen, or is of a section already taken, and stays so
  because the chosen only grow; at the end of the last pass that is every candidate.
  The ranking, a sort, is characterised first (`RankedPool`): each candidate once.
  `Fitted`: the context is a beginning of what was kept, its sizes add up to at most
  the limit (`TotalGrows`), and it stops short only when too little remained.
* **Routes.** `Stands`: what a question was asked and what has answered make up its
  route's plan at every place; a version that was resolved is the one named or was
  online while the question was answered (`IsResolved`), whatever the registry does
  afterwards.
* **Staff.** `AdminInv`: a removal under way leaves another administrator and is
  the only one, until two overlap; `PasswordInv`: a sign-in under way verified
  the present password, until a change overlaps.
* **Classroom.** `ParticipationInv`: the answer under way holds the cookie the
  browser has; `ComparisonsInv`: a tab waits for the question it shows;
  `RatingsInv`: whoever inserts holds the lock and found no such rating, and what
  a page shows as rated is recorded.

* **Fallback.** `FallbackInv`: whoever takes the port found it free; while a script
  runs alone nothing else is under way, the unit is up between its start and the
  removal of the marker, and what it stopped is on the marker; each script keeps
  to its own course.
* **Course content.** `ContentInv`, up to `excuse`: the text carried from the
  export to the pin is an approved one (`TextInv`); the numbers of the three files
  are a write apart at most, and a reader that began on one split reads on in that
  one or a later one, so that a description equal to the pin is of one split
  (`SplitInv`); whoever makes examples makes them of the export and index now there,
  so that the manifest, written last, names theirs (`ManifestInv`), and the summary it
  reads the number from is of the export beside it.

A theorem is about the specification of its component: `ServingSpec`,
`ClassroomSpec` and `ModeSpec` interleave all the components they compose. The
runs `published`, `accounts` and `gpu` go through one part at a time, and two of
them start further on (section 3); the theorems start from the empty tree and the
browser that has joined nothing.

### What is only model-checked

* Liveness (`WaitEnds`, `SpoolDrains`, `DeadGpuIsLeft`): TLAPS proves nothing
  about fairness or `ENABLED` here.
* What the two violations of section 4 refute.

Every other property of the runs is a theorem.

## 6. What is not modelled, and why

* The research benchmark, provenance and privacy filters: they read, count and
  drop fields. The import from Firebase, the evaluation harness, retention plans,
  cleanup scripts, documentation: run by hand, once, on their own.
* What a library computes, in training and in decoding: a step whose result is any
  that the code around it can get. Slurm's queueing: a job starts or is killed.
* Rendering, messages, logging, the wording of prompts, regular expressions and
  embeddings: texts are what the code finds in them.
* Parts of modelled components, listed with each in `PROJECT.json` and in section
  2 ("simplifications").

## 7. What comes next

1. The request form's reset of an active row (`db_model_requests.py:162`) has no
   property, for want of a text that says what should hold.
2. Every safety invariant and action property of the runs is proved. What the
   theorems could say next is of more than one component: that a slot given to a
   fact (`AllocationIsFair`) is given to one that `FactSafety` backs.
