--------------------------- MODULE ModelRegistry ---------------------------
(***************************************************************************)
(* Which registered version of one course's model answers its students     *)
(* (backend/app/db_models.py, model_publication.py,                        *)
(* course_model_resolution.py, the activate route of db_routes.py, the     *)
(* registration and publication routes of training_queue_routes.py), with  *)
(* the cluster's spool of publication reports                              *)
(* (scripts/report_model_published.py, scripts/lib/training_state.py).     *)
(*                                                                         *)
(* Versions are registered by their run's completion, and so are ready.    *)
(* A publication and an activation are the same three steps: check that    *)
(* the version is there, await the fine-tuned service's /health, then one  *)
(* READ COMMITTED transaction.  The transaction demotes the versions its   *)
(* UPDATE statement saw online, waiting for their rows, and promotes its   *)
(* own: a snapshot step and a commit step.                                 *)
(***************************************************************************)
EXTENDS Naturals, FiniteSets, FiniteSetsExt

CONSTANTS
    Handlers,        \* publications and activations in progress at once
    NumVersions,     \* bound: training runs that finish, one version each
    MaxRedeliveries  \* bound: completions delivered a second time

ASSUME RegistryAssumption == NumVersions \in Nat /\ MaxRedeliveries \in Nat

VARIABLES
    rows,          \* course_model_versions: v1, v2, ... and their deployment
    current,       \* course_models.current_version
    owner,         \* the version whose run model_requests.current_run_id names
    mapped,        \* what the fine-tuned service can serve
    everMapped,    \* history: what it ever could
    spool,         \* per version, the pending publication report on the cluster
    redeliveries,  \* completions delivered again so far
    latest,        \* history: the version of the last committed publication
    tx,            \* what each handler is in the middle of
    overlapped     \* history: two publications were writing at once

vars == <<rows, current, owner, mapped, everMapped, spool, redeliveries, latest, tx, overlapped>>

Versions == 1..NumVersions
None == 0

\* A report is owed until the backend has recorded it; recorded, its file stays
\* until the answer comes back.
SpoolStates == {"empty", "owed", "recorded"}

Idle == [stage |-> "idle"]
Publications ==
    {Idle}
    \cup [stage : {"asking", "confirmed"}, by : {"report", "admin"}, version : Versions]
    \cup [stage : {"writing"}, by : {"report", "admin"}, version : Versions,
          seen : SUBSET Versions]

Registered == {v \in Versions : rows[v] # "absent"}
Online == {v \in Versions : rows[v] = "online"}

TypeOK ==
    /\ rows \in [Versions -> {"absent", "offline", "online"}]
    /\ current \in Versions \cup {None}
    /\ owner \in 1..NumVersions + 1
    /\ mapped \subseteq everMapped /\ everMapped \subseteq Versions
    /\ spool \in [Versions -> SpoolStates]
    /\ redeliveries \in 0..MaxRedeliveries
    /\ latest \in Versions \cup {None}
    /\ tx \in [Handlers -> Publications]
    /\ overlapped \in BOOLEAN

Init ==
    /\ rows = [v \in Versions |-> "absent"]
    /\ current = None
    /\ owner = 1
    /\ mapped = {} /\ everMapped = {}
    /\ spool = [v \in Versions |-> "empty"]
    /\ redeliveries = 0
    /\ latest = None
    /\ tx = [h \in Handlers |-> Idle]
    /\ overlapped = FALSE

---------------------------------------------------------------------------
(* Resolution: the highest-numbered version that is online.                *)

\* Mutant: two versions online are no answer.
ResolvedUnique == IF Cardinality(Online) # 1 THEN None ELSE Max(Online)

Resolved == IF Online = {} THEN None ELSE Max(Online)

---------------------------------------------------------------------------
(* Registration, by a succeeded run's completion.                          *)

\* upsert_model_version refreshes every column, the deployment included.
Upsert(v) ==
    /\ rows' = [rows EXCEPT ![v] = "offline"]
    /\ current' = v

\* next_model_version: one past the highest.  The run owns the request until
\* the next one is queued.
Register ==
    /\ owner \in Versions \ Registered
    /\ Upsert(owner)
    /\ UNCHANGED <<owner, mapped, everMapped, spool, redeliveries, latest, tx>>

\* The completion's answer was lost and the cluster sends it again; it still
\* finds its run the current one and the version its first delivery created.
Redeliver ==
    /\ owner \in Registered
    /\ redeliveries < MaxRedeliveries
    /\ redeliveries' = redeliveries + 1
    /\ Upsert(owner)
    /\ UNCHANGED <<owner, mapped, everMapped, spool, latest, tx>>

\* The next retraining is queued and takes the request over.
QueueNextRun ==
    /\ owner \in Registered
    /\ owner' = owner + 1
    /\ UNCHANGED <<rows, current, mapped, everMapped, spool, redeliveries, latest, tx>>

---------------------------------------------------------------------------
(* The operator maps versions on the VM and copies adapters to the serving *)
(* tree, which owes the backend a report.                                  *)

Remap ==
    /\ \E v \in Registered :
        mapped' \in {mapped \cup {v}, mapped \ {v}} \ {mapped}
    /\ everMapped' = everMapped \cup mapped'
    /\ UNCHANGED <<rows, current, owner, spool, redeliveries, latest, tx>>

\* report_publication writes the spool file before the first send; publishing
\* again overwrites it.
Promote(v) ==
    /\ v \in Registered
    /\ spool' = [spool EXCEPT ![v] = "owed"]
    /\ UNCHANGED <<rows, current, owner, mapped, everMapped, redeliveries, latest, tx>>

---------------------------------------------------------------------------
(* Publication and activation.                                             *)

Continue(h, t) == tx' = [tx EXCEPT ![h] = t]
Stage(h, stage) == tx[h].stage = stage

\* require_ready_version, before the service is asked.
Ask(h, by, v) ==
    /\ Stage(h, "idle")
    /\ by = "report" => spool[v] # "empty"
    /\ v \in Registered
    /\ Continue(h, [stage |-> "asking", by |-> by, version |-> v])
    /\ UNCHANGED <<rows, current, owner, mapped, everMapped, spool, redeliveries, latest>>

\* require_servable_version: the service lists exactly this course and version.
Probe(h) ==
    /\ Stage(h, "asking")
    /\ tx[h].version \in mapped
    /\ Continue(h, [tx[h] EXCEPT !.stage = "confirmed"])
    /\ UNCHANGED <<rows, current, owner, mapped, everMapped, spool, redeliveries, latest>>

\* The transaction re-reads the version, then its demoting UPDATE takes its
\* snapshot.  Activating the one version already online writes nothing.
Nothing(h) == tx[h].by = "admin" /\ Online = {tx[h].version}

BeginWrite(h) ==
    /\ Stage(h, "confirmed")
    /\ ~Nothing(h)
    /\ Continue(h, [stage |-> "writing", by |-> tx[h].by, version |-> tx[h].version,
                    seen |-> Online \ {tx[h].version}])
    /\ UNCHANGED <<rows, current, owner, mapped, everMapped, spool, redeliveries, latest>>

\* Mutant: the others are not demoted.
MarkWithoutDemoting(v, seen) == rows' = [rows EXCEPT ![v] = "online"]

\* mark_version_published, in the order of its two UPDATEs.
MarkPublished(v, seen) ==
    rows' = [w \in Versions |-> IF w = v THEN "online" ELSE IF w \in seen THEN "offline" ELSE rows[w]]

\* A report's file is cleared once a final answer arrives; otherwise it stays,
\* to be sent again.
Acknowledge(h, answers) ==
    IF tx[h].by = "admin" THEN UNCHANGED spool
    ELSE \E left \in answers : spool' = [spool EXCEPT ![tx[h].version] = left]

CommitWrite(h) ==
    /\ Stage(h, "writing")
    /\ MarkPublished(tx[h].version, tx[h].seen)
    /\ latest' = tx[h].version
    /\ Acknowledge(h, {"empty", "recorded"})
    /\ Continue(h, Idle)
    /\ UNCHANGED <<current, owner, mapped, everMapped, redeliveries>>

\* 409: final, if the answer arrives.
Refuse(h) ==
    /\ Stage(h, "asking") /\ tx[h].version \notin mapped
    /\ Acknowledge(h, {"empty", spool[tx[h].version]})
    /\ Continue(h, Idle)
    /\ UNCHANGED <<rows, current, owner, mapped, everMapped, redeliveries, latest>>

\* 503, a lost connection, or an activation with nothing to write.
GiveUp(h) ==
    /\ ~Stage(h, "idle")
    /\ Continue(h, Idle)
    /\ UNCHANGED <<rows, current, owner, mapped, everMapped, spool, redeliveries, latest>>

Step ==
    \/ Register \/ Redeliver \/ QueueNextRun \/ Remap
    \/ \E v \in Versions : Promote(v)
    \/ \E h \in Handlers :
          \/ \E by \in {"report", "admin"}, v \in Versions : Ask(h, by, v)
          \/ Probe(h) \/ BeginWrite(h) \/ CommitWrite(h)
          \/ Refuse(h) \/ GiveUp(h)

Writing == {h \in Handlers : Stage(h, "writing")}

Next == Step /\ overlapped' = (overlapped \/ \E g, h \in Writing' : g # h)

Spec == Init /\ [][Next]_vars

---------------------------------------------------------------------------
\* Of any two publications or activations whose transactions did not overlap,
\* the later one decides: students are answered by the version published last,
\* whatever older or newer ones are registered and whichever report came twice;
\* or by none, once that version's completion has been delivered again.
LatestOrNone == overlapped \/ Resolved \in {None, latest}

\* find_deployed_version: at most one version is online, as long as no two of
\* the transactions overlapped.
OneOnline == overlapped \/ Cardinality(Online) <= 1

\* No version the fine-tuned service never offered is ever online.
OnlineWasServable == Online \subseteq everMapped

RegistrySafety == TypeOK /\ OneOnline /\ LatestOrNone /\ OnlineWasServable

\* A publication or an activation commits, even beside another: the course has an
\* answer, and unless two overlapped it is the version that was published.
Publishes ==
    \E h \in Writing :
        tx'[h] = Idle /\ Resolved' # None /\ (overlapped' \/ Resolved' = tx[h].version)

\* The completion of the version that answers is delivered again.  The comment in
\* complete_training_run calls this idempotent; it takes the version offline, and
\* unless two publications overlapped nothing answers any more.
Withdraws ==
    redeliveries' # redeliveries /\ Resolved = owner /\ (overlapped' \/ Resolved' = None)

\* What answers students moves with a publication or an activation, to what it
\* published and never to nothing, or is taken away by a redelivery of its own
\* completion, and with nothing else: not with a run that finishes, nor with a
\* redelivery for another version, a report sent twice or a version unmapped.
AnswersMoveTogether == [][Resolved' # Resolved => Publishes \/ Withdraws]_vars

=============================================================================
