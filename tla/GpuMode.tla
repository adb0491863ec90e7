------------------------------ MODULE GpuMode ------------------------------
(***************************************************************************)
(* Classroom GPU mode.  One file says where questions are answered: on the *)
(* VM, or by a GPU session at the other end of a tunnel.  Operators write  *)
(* it with start and stop, a watchdog run every few seconds writes VM mode *)
(* over it when the GPU is gone.  A write replaces the file in one step,   *)
(* under a lock.  Two texts are equal when their id is.                    *)
(***************************************************************************)
EXTENDS Naturals

CONSTANTS
    Sessions,     \* GPU jobs
    Operators,    \* start and stop commands that may run at once
    Failures,     \* failed checks in a row before a failback
    MaxWarmups,   \* MAX_WARMUP_ATTEMPTS
    MaxWrites,    \* a bound: writes of the mode file
    MaxFaults     \* a bound: killed runs, lost saves, tunnels that drop

ASSUME GpuModeAssumption ==
    /\ Failures \in Nat \ {0} /\ MaxWarmups \in Nat \ {0}
    /\ MaxWrites \in Nat /\ MaxFaults \in Nat

VARIABLES
    file,        \* the mode file and the stamp of its last write
    tunnel,      \* the session the open tunnel leads to, or NoSession
    up,          \* the sessions whose service is healthy
    ended,       \* the sessions whose allocation is over
    op,          \* each operator's command
    run,         \* the watchdog's run: what it read and where it is
    state,       \* the watchdog's state file
    faults,
    bad,         \* history: failed checks in a row of this text
    unsaved,     \* history: a save of the watchdog's state was lost
    overlapped   \* history: two commands ran at the same time

environment == <<tunnel, up, ended>>
history == <<bad, unsaved, overlapped>>
watchVars == <<run, state>>
vars == <<file, tunnel, up, ended, op, run, state, faults, bad, unsaved,
          overlapped>>

NoSession == "none"
Text(id, mode, s, failback) == [id |-> id, mode |-> mode, session |-> s, failback |-> failback]
FirstText == Text(0, "vm", NoSession, FALSE)
Texts == [id : 0 .. MaxWrites, mode : {"vm", "gpu"}, session : Sessions \cup {NoSession},
          failback : BOOLEAN]
OnGpu == file.text.mode = "gpu"
Healthy == tunnel \in up

NoOp == [at |-> "idle", session |-> NoSession, previous |-> FirstText, opened |-> FALSE]
NoStreak == [id |-> 0, failures |-> 0]
NoFailback == [id |-> 0, warmup |-> "none", attempts |-> 0]
Fresh == [streak |-> NoStreak, last |-> NoFailback]
NoRun == [at |-> "idle", judged |-> FirstText, state |-> Fresh]

Init ==
    /\ file = [text |-> FirstText, stamp |-> 0]
    /\ tunnel = NoSession /\ up \in SUBSET Sessions /\ ended = {}
    /\ op = [o \in Operators |-> NoOp]
    /\ run = NoRun /\ state = Fresh
    /\ faults = 0 /\ bad = 0 /\ unsaved = FALSE /\ overlapped = FALSE

---------------------------------------------------------------------------
(* The mode file.                                                          *)

\* _replace_mode_file; the last write within the bound is the watchdog's.
Replace(text, limit) ==
    /\ file.stamp < limit
    /\ file' = [text |-> text, stamp |-> file.stamp + 1]
    /\ bad' = 0

\* A text nobody has written before.
NewText(mode, s, failback) == Text(file.stamp + 1, mode, s, failback)

---------------------------------------------------------------------------
(* start and stop.                                                         *)

Goes(o, at) == op' = [op EXCEPT ![o].at = at]
Ends(o) == op' = [op EXCEPT ![o] = NoOp]
Overlaps == overlapped' = (overlapped \/ \E o \in Operators : op[o].at # "idle")
CommandKeeps == UNCHANGED <<up, watchVars, faults, unsaved>>

\* Mutant: the mode is not asked for first.
StartUnasked(o) ==
    /\ op[o].at = "idle"
    /\ \E s \in Sessions \ ended :
        op' = [op EXCEPT ![o] = [NoOp EXCEPT !.at = "tunnel", !.session = s]]
    /\ Overlaps
    /\ CommandKeeps /\ UNCHANGED <<file, tunnel, ended, bad>>

\* cmd_start: the backend must be in VM mode; the session is the recorded one.
Start(o) ==
    /\ op[o].at = "idle" /\ ~OnGpu
    /\ \E s \in Sessions \ ended :
        op' = [op EXCEPT ![o] = [NoOp EXCEPT !.at = "tunnel", !.session = s]]
    /\ Overlaps
    /\ CommandKeeps /\ UNCHANGED <<file, tunnel, ended, bad>>

\* The open tunnel is used when it leads to the session and answers; otherwise
\* it is closed and another is opened, which may fail.
OpenTunnel(o) ==
    /\ op[o].at = "tunnel"
    /\ \/ /\ tunnel = op[o].session /\ Healthy
          /\ Goes(o, "probe") /\ UNCHANGED tunnel
       \/ /\ ~(tunnel = op[o].session /\ Healthy)
          /\ \/ tunnel' = op[o].session
                /\ op' = [op EXCEPT ![o].at = "probe", ![o].opened = TRUE]
             \/ tunnel' = NoSession /\ Ends(o)
    /\ CommandKeeps /\ UNCHANGED <<file, ended, bad, overlapped>>

\* Health, decoding and the direct probe; the previous text is read last.
Probe(o) ==
    /\ op[o].at = "probe"
    /\ \/ /\ Healthy
          /\ op' = [op EXCEPT ![o].at = "switch", ![o].previous = file.text]
       \/ Goes(o, "close")
    /\ CommandKeeps /\ UNCHANGED <<file, tunnel, ended, bad, overlapped>>

Switch(o) ==
    /\ op[o].at = "switch"
    /\ Replace(NewText("gpu", op[o].session, FALSE), MaxWrites - 1)
    /\ Goes(o, "verify")
    /\ CommandKeeps /\ UNCHANGED <<tunnel, ended, overlapped>>

\* Mutant: a failed check leaves the GPU mode it was made in.
VerifyKeeping(o) ==
    /\ op[o].at = "verify"
    /\ (OnGpu /\ Healthy /\ Ends(o)) \/ Goes(o, "close")
    /\ CommandKeeps /\ UNCHANGED <<file, tunnel, ended, bad, overlapped>>

\* The four conditions through the backend: they pass only on the GPU.
Verify(o) ==
    /\ op[o].at = "verify"
    /\ (OnGpu /\ Healthy /\ Ends(o)) \/ Goes(o, "restore")
    /\ CommandKeeps /\ UNCHANGED <<file, tunnel, ended, bad, overlapped>>

\* A check after the switch failed: the text that was there before is written
\* back, whatever the file says by now.
Restore(o) ==
    /\ op[o].at = "restore"
    /\ Replace(op[o].previous, MaxWrites - 1)
    /\ Goes(o, "close")
    /\ CommandKeeps /\ UNCHANGED <<tunnel, ended, overlapped>>

\* Only the tunnel this run opened is closed.
Close(o) ==
    /\ op[o].at = "close"
    /\ tunnel' = IF op[o].opened THEN NoSession ELSE tunnel
    /\ Ends(o)
    /\ CommandKeeps /\ UNCHANGED <<file, ended, bad, overlapped>>

\* cmd_stop: the job is read from the file, which is replaced at once.
Stop(o) ==
    /\ op[o].at = "idle"
    /\ Replace(NewText("vm", NoSession, FALSE), MaxWrites - 1)
    /\ op' = [op EXCEPT ![o] = [NoOp EXCEPT !.at = "stopped", !.session = file.text.session]]
    /\ Overlaps
    /\ CommandKeeps /\ UNCHANGED <<tunnel, ended>>

\* After the checks of the VM: the job may be cancelled, the tunnel is closed.
StopCloses(o) ==
    /\ op[o].at = "stopped"
    /\ \/ ended' = ended \cup ({op[o].session} \cap Sessions) /\ tunnel # NoSession
       \/ UNCHANGED ended
    /\ tunnel' = NoSession
    /\ up' = up \ (ended' \ ended)
    /\ Ends(o)
    /\ UNCHANGED <<file, watchVars, faults, history>>

\* The backend did not let the operator sign in: nothing is checked or closed.
StopGivesUp(o) ==
    /\ op[o].at = "stopped" /\ Ends(o)
    /\ CommandKeeps /\ UNCHANGED <<file, tunnel, ended, bad, overlapped>>

CommandStep(o) ==
    \/ Start(o) \/ OpenTunnel(o) \/ Probe(o) \/ Switch(o) \/ Verify(o)
    \/ Restore(o) \/ Close(o) \/ Stop(o) \/ StopCloses(o) \/ StopGivesUp(o)

---------------------------------------------------------------------------
(* The watchdog.                                                           *)

WatchKeeps == UNCHANGED <<environment, op, overlapped>>

\* save: a write of the state file that fails is only logged.
Save(new) ==
    \/ state' = new /\ UNCHANGED <<unsaved, faults>>
    \/ /\ faults < MaxFaults /\ faults' = faults + 1
       /\ unsaved' = TRUE /\ UNCHANGED state

RunEnds == run' = NoRun
RunGoes(at, new) == run' = [run EXCEPT !.at = at, !.state = new]
NoStreakOf(st) == [st EXCEPT !.streak = NoStreak]

\* Mutant: a failed check counts whatever file it was made against.
CurrentStreakOfAny(st, text) == st.streak.failures

\* Mutant: the count is not found again by the next run.
CurrentStreakLost(st, text) == 0

\* current_streak, for checks that follow each other within the window.
CurrentStreak(st, text) == IF st.streak.id = text.id THEN st.streak.failures ELSE 0

\* run_once: the file and the state are read.
RunBegins ==
    /\ run.at = "idle"
    /\ run' = [at |-> IF OnGpu THEN "judge" ELSE "vm", judged |-> file.text, state |-> state]
    /\ UNCHANGED <<file, state, faults, bad, unsaved>> /\ WatchKeeps

\* An allocation that is over is acted on at once; otherwise /health is asked.
Judge ==
    /\ run.at = "judge"
    /\ \/ /\ run.judged.session \in ended
          /\ RunGoes("failback", run.state)
          /\ UNCHANGED <<state, faults, bad, unsaved>>
       \/ /\ run.judged.session \notin ended /\ Healthy
          /\ Save(NoStreakOf(run.state)) /\ RunEnds
          /\ bad' = 0
       \/ /\ run.judged.session \notin ended /\ ~Healthy
          /\ bad' = IF run.judged = file.text /\ bad < Failures THEN bad + 1 ELSE bad
          /\ LET failures == CurrentStreak(run.state, run.judged) + 1
                 new == [run.state EXCEPT !.streak = [id |-> run.judged.id, failures |-> failures]]
             IN IF failures < Failures
                THEN Save(new) /\ RunEnds
                ELSE RunGoes("failback", new) /\ UNCHANGED <<state, faults, unsaved>>
    /\ UNCHANGED file /\ WatchKeeps

\* _fail_back, the switch: replace_mode_file_if_unchanged.
FailBack ==
    /\ run.at = "failback"
    /\ \/ /\ file.text = run.judged
          /\ Replace(NewText("vm", run.judged.session, TRUE), MaxWrites)
          /\ run' = [run EXCEPT !.at = "record", !.judged = file'.text]
          /\ UNCHANGED <<state, faults, unsaved>>
       \/ /\ file.text # run.judged
          /\ Save(NoStreakOf(run.state)) /\ RunEnds
          /\ UNCHANGED <<file, bad>>
    /\ WatchKeeps

\* The mode file is locked by a command that is writing it.
Defer ==
    /\ run.at = "failback" /\ faults < MaxFaults
    /\ \E o \in Operators : op[o].at \in {"switch", "restore"}
    /\ state' = run.state /\ RunEnds
    /\ faults' = faults + 1
    /\ UNCHANGED <<file, bad, unsaved>> /\ WatchKeeps

\* The record of the failback, before the warm-up.
Record ==
    /\ run.at = "record"
    /\ LET new == [streak |-> NoStreak,
                   last |-> [id |-> run.judged.id, warmup |-> "pending", attempts |-> 0]]
       IN Save(new) /\ RunGoes("warm", new)
    /\ UNCHANGED <<file, bad>> /\ WatchKeeps

\* _warm_up: the attempt is counted before the models are loaded.
WarmUp ==
    /\ run.at = "warm"
    /\ LET new == [run.state EXCEPT !.last.attempts = @ + 1]
       IN Save(new) /\ RunGoes("warming", new)
    /\ UNCHANGED <<file, bad>> /\ WatchKeeps

WarmedUp ==
    /\ run.at = "warming"
    /\ \E outcome \in {"ok", "failed"} : Save([run.state EXCEPT !.last.warmup = outcome])
    /\ RunEnds
    /\ UNCHANGED <<file, bad>> /\ WatchKeeps

\* _vm_mode: a warm-up that was cut short or failed is taken up again while the
\* file is the one its failback wrote.
VmMode ==
    LET last == run.state.last
        ours == last.id = run.judged.id
        again == ours /\ last.attempts < MaxWarmups
        st == NoStreakOf(run.state)
    IN
    /\ run.at = "vm"
    /\ \/ /\ again /\ last.warmup \in {"pending", "failed"}
          /\ RunGoes("warm", st)
          /\ UNCHANGED <<state, faults, unsaved>>
       \/ /\ last.warmup = "pending" /\ ~again
          /\ Save([st EXCEPT !.last.warmup = "failed"]) /\ RunEnds
       \/ /\ last.warmup # "pending"   \* or too soon for another attempt
          /\ Save(st) /\ RunEnds
    /\ UNCHANGED <<file, bad>> /\ WatchKeeps

\* The run's process is killed.
RunKilled ==
    /\ run.at # "idle" /\ faults < MaxFaults
    /\ faults' = faults + 1 /\ RunEnds
    /\ UNCHANGED <<file, state, bad, unsaved>> /\ WatchKeeps

WatchStep ==
    RunBegins \/ Judge \/ FailBack \/ Record \/ WarmUp \/ WarmedUp \/ VmMode

---------------------------------------------------------------------------
(* The GPU and the network.                                                *)

EnvironmentKeeps == UNCHANGED <<file, op, watchVars, history>>

ServiceChanges(s) ==
    /\ s \notin ended
    /\ up' = IF s \in up THEN up \ {s} ELSE up \cup {s}
    /\ UNCHANGED <<tunnel, ended, faults>> /\ EnvironmentKeeps

AllocationEnds(s) ==
    /\ ended' = ended \cup {s} /\ up' = up \ {s}
    /\ UNCHANGED <<tunnel, faults>> /\ EnvironmentKeeps

TunnelDrops ==
    /\ tunnel # NoSession /\ faults < MaxFaults
    /\ tunnel' = NoSession /\ faults' = faults + 1
    /\ UNCHANGED <<up, ended>> /\ EnvironmentKeeps

Next ==
    \/ \E o \in Operators : CommandStep(o)
    \/ WatchStep \/ Defer \/ RunKilled
    \/ \E s \in Sessions : ServiceChanges(s) \/ AllocationEnds(s)
    \/ TunnelDrops

Spec == Init /\ [][Next]_vars

\* The timer starts the watchdog again and again, and every run ends.
FairSpec == Spec /\ WF_vars(WatchStep)

---------------------------------------------------------------------------
(* Properties.                                                             *)

WatchState ==
    [streak : [id : 0 .. MaxWrites, failures : 0 .. MaxWrites + MaxFaults + Failures],
     last : [id : 0 .. MaxWrites, warmup : {"none", "pending", "ok", "failed"},
             attempts : 0 .. MaxWarmups]]

TypeOK ==
    /\ file \in [text : Texts, stamp : 0 .. MaxWrites]
    /\ tunnel \in Sessions \cup {NoSession} /\ up \subseteq Sessions /\ ended \subseteq Sessions
    /\ op \in [Operators -> [at : {"idle", "tunnel", "probe", "switch", "verify", "restore",
                                   "close", "stopped"},
                             session : Sessions \cup {NoSession}, previous : Texts,
                             opened : BOOLEAN]]
    /\ run \in [at : {"idle", "judge", "vm", "failback", "record", "warm", "warming"},
                judged : Texts, state : WatchState]
    /\ state \in WatchState
    /\ faults \in 0 .. MaxFaults /\ bad \in 0 .. Failures
    /\ unsaved \in BOOLEAN /\ overlapped \in BOOLEAN

\* A start that fails puts back VM mode, unless another command was under way
\* (classroom_gpu_mode.py cmd_start).
RestoresVm ==
    overlapped \/ \A o \in Operators :
        op[o].at \in {"verify", "restore"} => op[o].previous.mode = "vm"

GpuModeSafety == TypeOK /\ RestoresVm

\* The watchdog replaces only the text it judged, and only for an allocation
\* that is over or for enough failed checks in a row of that very text: a count
\* is never carried over a switch, a healthy check or a killed run
\* (gpu_failback_watchdog.py run_once).
FailbackIsJustified ==
    [][file' # file /\ run' # run =>
          /\ file.text = run.judged
          /\ run.judged.session \in ended \/ bad >= Failures \/ unsaved \/ overlapped]_vars

\* A command that runs alone never closes the tunnel under GPU mode: the mode is
\* put back first (classroom_gpu_mode.py cmd_start and cmd_stop).
NeverCutsOffTheGpu ==
    op' # op /\ tunnel # NoSession /\ tunnel' = NoSession => ~OnGpu \/ overlapped

\* Questions are not left to a GPU that is gone: either it answers again or the
\* file says something else, however often a run is killed or deferred.
DeadGpuIsLeft == OnGpu /\ ~Healthy ~> ~OnGpu \/ Healthy

=============================================================================
