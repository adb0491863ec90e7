----------------------------- MODULE MCGpuMode -----------------------------
(***************************************************************************)
(* Classroom GPU mode for TLC: a behavior follows the operators and the    *)
(* watchdog while nobody asks, or one operator and the questions asked     *)
(* meanwhile.                                                              *)
(***************************************************************************)
EXTENDS Answering

CONSTANTS o1, o2, q1, p1

TwoOperators == {o1, o2}
OneStudent == {q1}
OnePage == {p1}

VARIABLE part

\* Bounds: commands that overlap meet no fault, questions no sick service.
Bounds ==
    /\ part = "watch" => ~overlapped \/ faults = 0
    /\ part = "answers" => up = Sessions \ ended /\ op[o2].at = "idle" /\ file.stamp < MaxWrites

PartsInit == part \in {"watch", "answers"} /\ ModeInit
PartsNext ==
    /\ UNCHANGED part
    /\ \/ part = "watch" /\ Next /\ UNCHANGED answeringVars
       \/ part = "answers" /\ UNCHANGED <<run, faults>> /\ ModeNext
PartsSpec ==
    /\ PartsInit /\ [][PartsNext]_<<part, modeVars>>
    /\ WF_<<part, modeVars>>(WatchStep /\ UNCHANGED <<answeringVars, part>>)

=============================================================================
