--------------------------- MODULE GpuModeProofs ---------------------------
(* Classroom GPU mode, for any operators, sessions and bounds: the watchdog *)
(* leaves the GPU only when it may, and no command cuts it off.             *)
EXTENDS Answering, ListLemmas

---------------------------------------------------------------------------
(* The inductive invariant.                                                *)

\* A count grows past the limit only in a run that fails back, or that had to
\* defer (a fault) the time before.
Counts ==
    /\ state.streak.failures <= Failures - 1 + faults
    /\ run.state.streak.failures <= (IF run.at \in {"failback", "record"} THEN Failures ELSE Failures - 1) + faults
    /\ run.at = "warm" => run.state.last.attempts < MaxWarmups

\* Texts that are written, judged or kept for later and have the same id are the
\* same, and no id was given out that is yet to come.
Written == {FirstText, file.text, run.judged} \cup {op[o].previous : o \in Operators}
Ids ==
    /\ \A t, u \in Written : t.id = u.id => t = u
    /\ \A t \in Written : t.id <= file.stamp
    /\ state.streak.id <= file.stamp /\ run.state.streak.id <= file.stamp

\* What a command knows of the mode while no other runs beside it.
Alone ==
    \/ overlapped
    \/ /\ \A o, p \in Operators : op[o].at # "idle" /\ op[p].at # "idle" => o = p
       /\ \A o \in Operators :
            /\ op[o].at \in {"tunnel", "probe", "switch", "close", "stopped"} => ~OnGpu
            /\ op[o].at \in {"switch", "verify", "restore"} => op[o].previous.mode = "vm"

\* A count of failed checks of the text that is in force was earned by it.
Earned(st) == OnGpu /\ st.streak.id = file.text.id => bad >= st.streak.failures \/ bad >= Failures
Justified ==
    /\ run.at \in {"judge", "failback"} => run.judged.mode = "gpu"
    /\ \/ unsaved \/ overlapped
       \/ /\ Earned(state) /\ Earned(run.state)
          /\ run.at = "failback" /\ file.text = run.judged
             => run.judged.session \in ended \/ bad >= Failures

ModeInv == TypeOK /\ Counts /\ Ids /\ Alone /\ Justified

---------------------------------------------------------------------------
(* Types and counts: one step per action.                                  *)

OpType == [at : {"idle", "tunnel", "probe", "switch", "verify", "restore", "close", "stopped"},
           session : Sessions \cup {NoSession}, previous : Texts, opened : BOOLEAN]
RunType == [at : {"idle", "judge", "vm", "failback", "record", "warm", "warming"},
            judged : Texts, state : WatchState]

\* The constants of the model have their types.
LEMMA ConstantTypes ==
    /\ NoSession \in Sessions \cup {NoSession}
    /\ FirstText \in Texts /\ FirstText.id = 0 /\ FirstText.mode = "vm"
    /\ NoOp \in OpType /\ NoOp.at = "idle"
    /\ NoStreak.id = 0 /\ NoStreak.failures = 0
    /\ Fresh \in WatchState /\ Fresh.streak = NoStreak
    /\ NoRun \in RunType /\ NoRun.at = "idle" /\ NoRun.judged = FirstText /\ NoRun.state = Fresh
<1> USE GpuModeAssumption
<1>1. NoSession \in Sessions \cup {NoSession}
  OBVIOUS
<1>2. FirstText \in Texts /\ FirstText.id = 0 /\ FirstText.mode = "vm"
  BY <1>1 DEF FirstText, Text, Texts
<1>3. NoOp \in OpType /\ NoOp.at = "idle"
  BY <1>1, <1>2 DEF NoOp, OpType
<1>4. NoStreak.id = 0 /\ NoStreak.failures = 0
  BY DEF NoStreak
<1>5. Fresh \in WatchState /\ Fresh.streak = NoStreak
  BY DEF Fresh, NoStreak, NoFailback, WatchState
<1>6. NoRun \in RunType /\ NoRun.at = "idle" /\ NoRun.judged = FirstText /\ NoRun.state = Fresh
  BY <1>2, <1>5 DEF NoRun, RunType
<1> QED  BY <1>1, <1>2, <1>3, <1>4, <1>5, <1>6

LEMMA NewTextType ==
    ASSUME TypeOK, NEW m \in {"vm", "gpu"}, NEW s \in Sessions \cup {NoSession},
           NEW f \in BOOLEAN, file.stamp < MaxWrites
    PROVE  NewText(m, s, f) \in Texts
BY GpuModeAssumption DEF TypeOK, NewText, Text, Texts

LEMMA InitTypes == Init => TypeOK /\ Counts
<1> SUFFICES ASSUME Init PROVE TypeOK /\ Counts
  OBVIOUS
<1> USE GpuModeAssumption, ConstantTypes DEF Init
<1>1. file \in [text : Texts, stamp : 0 .. MaxWrites]
  OBVIOUS
<1>2. op \in [Operators -> OpType]
  OBVIOUS
<1>3. run \in RunType /\ state \in WatchState
  OBVIOUS
<1>4. Counts
  BY DEF Counts
<1>5. tunnel \in Sessions \cup {NoSession}
  OBVIOUS
<1>6. faults \in 0 .. MaxFaults /\ bad \in 0 .. Failures
  OBVIOUS
<1>7. up \subseteq Sessions /\ ended \subseteq Sessions
  OBVIOUS
<1>8. unsaved \in BOOLEAN /\ overlapped \in BOOLEAN
  OBVIOUS
<1> HIDE DEF Init
<1> QED  BY <1>1, <1>2, <1>3, <1>4, <1>5, <1>6, <1>7, <1>8 DEF TypeOK, OpType, RunType

At == {"idle", "tunnel", "probe", "switch", "verify", "restore", "close", "stopped"}

\* A command's record keeps its type, wherever it goes.
LEMMA OpMoves ==
    ASSUME op \in [Operators -> OpType], NEW o \in Operators
    PROVE  /\ op[o] \in OpType
           /\ \A r \in OpType : [op EXCEPT ![o] = r] \in [Operators -> OpType]
           /\ \A at \in At :
                 /\ [op EXCEPT ![o].at = at] \in [Operators -> OpType]
                 /\ \A t \in Texts : [op EXCEPT ![o].at = at, ![o].previous = t] \in [Operators -> OpType]
                 /\ \A b \in BOOLEAN : [op EXCEPT ![o].at = at, ![o].opened = b] \in [Operators -> OpType]
                 /\ \A s \in Sessions \cup {NoSession} :
                       [NoOp EXCEPT !.at = at, !.session = s] \in OpType
<1>1. op[o] \in OpType /\ \A r \in OpType : [op EXCEPT ![o] = r] \in [Operators -> OpType]
  OBVIOUS
<1>2. ASSUME NEW at \in At
      PROVE  [op EXCEPT ![o].at = at] \in [Operators -> OpType]
  BY DEF OpType, At
<1>3. ASSUME NEW at \in At, NEW t \in Texts
      PROVE  [op EXCEPT ![o].at = at, ![o].previous = t] \in [Operators -> OpType]
  BY DEF OpType, At
<1>4. ASSUME NEW at \in At, NEW b \in BOOLEAN
      PROVE  [op EXCEPT ![o].at = at, ![o].opened = b] \in [Operators -> OpType]
  BY DEF OpType, At
<1>5. ASSUME NEW at \in At, NEW s \in Sessions \cup {NoSession}
      PROVE  [NoOp EXCEPT !.at = at, !.session = s] \in OpType
  BY ConstantTypes DEF OpType, At
<1> QED  BY <1>1, <1>2, <1>3, <1>4, <1>5

\* TypeOK, a conjunct at a time.
LEMMA Typed ==
    ASSUME TypeOK
    PROVE  /\ file \in [text : Texts, stamp : 0 .. MaxWrites] /\ file.text \in Texts
           /\ file.stamp \in Nat /\ file.text.session \in Sessions \cup {NoSession}
           /\ tunnel \in Sessions \cup {NoSession} /\ up \subseteq Sessions /\ ended \subseteq Sessions
           /\ op \in [Operators -> OpType]
           /\ \A o \in Operators : op[o].previous \in Texts /\ op[o].session \in Sessions \cup {NoSession}
           /\ run \in RunType /\ state \in WatchState
           /\ faults \in 0 .. MaxFaults /\ bad \in 0 .. Failures
           /\ unsaved \in BOOLEAN /\ overlapped \in BOOLEAN
<1>1. op \in [Operators -> OpType] /\ run \in RunType
  BY DEF TypeOK, OpType, RunType
<1>2. \A o \in Operators : op[o].previous \in Texts /\ op[o].session \in Sessions \cup {NoSession}
  BY <1>1 DEF OpType
<1>3. file.text \in Texts /\ file.stamp \in Nat
  BY GpuModeAssumption DEF TypeOK
<1>4. file.text.session \in Sessions \cup {NoSession}
  BY <1>3 DEF Texts
<1> QED  BY <1>1, <1>2, <1>3, <1>4 DEF TypeOK

LEMMA CommandTypes ==
    ASSUME TypeOK, Counts, NEW o \in Operators, CommandStep(o)
    PROVE  TypeOK' /\ Counts'
<1>1. op' \in [Operators -> OpType]
  <2> USE DEF Goes, Ends
  <2>0. /\ op \in [Operators -> OpType] /\ file.text \in Texts /\ ended \subseteq Sessions
        /\ file.text.session \in Sessions \cup {NoSession} /\ NoOp \in OpType
    BY Typed, ConstantTypes
  <2>a. /\ "tunnel" \in At /\ "close" \in At /\ "stopped" \in At
        /\ \A at \in {"probe", "switch", "verify", "restore", "close"} :
             [op EXCEPT ![o].at = at] \in [Operators -> OpType]
        /\ [op EXCEPT ![o].at = "probe", ![o].opened = TRUE] \in [Operators -> OpType]
        /\ [op EXCEPT ![o].at = "switch", ![o].previous = file.text] \in [Operators -> OpType]
        /\ [op EXCEPT ![o] = NoOp] \in [Operators -> OpType]
    <3>1. /\ TRUE \in BOOLEAN /\ "tunnel" \in At /\ "stopped" \in At
          /\ \A at \in {"probe", "switch", "verify", "restore", "close"} : at \in At
      BY DEF At
    <3> QED  BY <2>0, <3>1, OpMoves
  <2>1. CASE Start(o)
    <3>1. PICK s \in Sessions : op' = [op EXCEPT ![o] = [NoOp EXCEPT !.at = "tunnel", !.session = s]]
      BY <2>1 DEF Start
    <3> QED  BY <3>1, <2>0, <2>a, OpMoves
  <2>2. CASE OpenTunnel(o)  BY <2>a, <2>2 DEF OpenTunnel
  <2>3. CASE Probe(o)  BY <2>a, <2>3 DEF Probe
  <2>4. CASE Switch(o)  BY <2>a, <2>4 DEF Switch
  <2>5. CASE Verify(o)  BY <2>a, <2>5 DEF Verify
  <2>6. CASE Restore(o)  BY <2>a, <2>6 DEF Restore
  <2>7. CASE Close(o)  BY <2>a, <2>7 DEF Close
  <2>8. CASE Stop(o)  BY <2>0, <2>a, <2>8, OpMoves DEF Stop
  <2>9. CASE StopCloses(o)  BY <2>a, <2>9 DEF StopCloses
  <2>10. CASE StopGivesUp(o)  BY <2>a, <2>10 DEF StopGivesUp
  <2> QED
    BY <2>1, <2>2, <2>3, <2>4, <2>5, <2>6, <2>7, <2>8, <2>9, <2>10 DEF CommandStep
<1>2. file' \in [text : Texts, stamp : 0 .. MaxWrites] /\ bad' \in 0 .. Failures
  <2>0. /\ file \in [text : Texts, stamp : 0 .. MaxWrites] /\ bad \in 0 .. Failures
        /\ MaxWrites \in Nat /\ Failures \in Nat
    BY Typed, GpuModeAssumption
  <2>1. ASSUME NEW t \in Texts, Replace(t, MaxWrites - 1)
        PROVE  file' \in [text : Texts, stamp : 0 .. MaxWrites] /\ bad' \in 0 .. Failures
    BY <2>0, <2>1 DEF Replace
  <2>2. CASE Switch(o)
    <3>1. file.stamp < MaxWrites  BY <2>0, <2>2 DEF Switch, Replace
    <3>2. NewText("gpu", op[o].session, FALSE) \in Texts
      BY <3>1, Typed, NewTextType
    <3> QED  BY <2>1, <2>2, <3>2 DEF Switch
  <2>3. CASE Stop(o)
    <3>1. file.stamp < MaxWrites  BY <2>0, <2>3 DEF Stop, Replace
    <3>2. NewText("vm", NoSession, FALSE) \in Texts
      BY <3>1, ConstantTypes, NewTextType
    <3> QED  BY <2>1, <2>3, <3>2 DEF Stop
  <2>4. CASE Restore(o)
    BY <2>1, <2>4, Typed DEF Restore
  <2>5. CASE UNCHANGED <<file, bad>>
    BY <2>0, <2>5
  <2> QED
    BY <2>2, <2>3, <2>4, <2>5
    DEF CommandStep, Start, OpenTunnel, Probe, Verify, Close, StopCloses, StopGivesUp, history
<1>3. tunnel' \in Sessions \cup {NoSession} /\ up' \subseteq Sessions /\ ended' \subseteq Sessions
  BY Typed, ConstantTypes
  DEF CommandStep, Start, OpenTunnel, Probe, Switch, Verify, Restore, Close, Stop, StopCloses,
      StopGivesUp, CommandKeeps
<1>4. overlapped' \in BOOLEAN
  BY Typed
  DEF CommandStep, Start, OpenTunnel, Probe, Switch, Verify, Restore, Close, Stop, StopCloses,
      StopGivesUp, CommandKeeps, Overlaps, history
<1>5. UNCHANGED <<run, state, faults, unsaved>>
  BY DEF CommandStep, Start, OpenTunnel, Probe, Switch, Verify, Restore, Close, Stop, StopCloses,
         StopGivesUp, CommandKeeps, watchVars, history
<1>6. Counts'
  BY <1>5 DEF Counts
<1>7. /\ run' \in RunType /\ state' \in WatchState
      /\ faults' \in 0 .. MaxFaults /\ unsaved' \in BOOLEAN
  BY <1>5, Typed
<1> QED  BY <1>1, <1>2, <1>3, <1>4, <1>6, <1>7 DEF TypeOK, OpType, RunType

LEMMA WatchStates ==
    ASSUME NEW st \in WatchState
    PROVE  /\ NoStreakOf(st) \in WatchState /\ NoStreakOf(st).streak = NoStreak
           /\ NoStreakOf(st).last = st.last
           /\ \A w \in {"ok", "failed"} :
                /\ [st EXCEPT !.last.warmup = w] \in WatchState
                /\ [st EXCEPT !.last.warmup = w].streak = st.streak
           /\ \A i \in 0 .. MaxWrites :
                [streak |-> NoStreak, last |-> [id |-> i, warmup |-> "pending", attempts |-> 0]]
                  \in WatchState
<1> USE GpuModeAssumption
<1>1. NoStreakOf(st) \in WatchState /\ NoStreakOf(st).streak = NoStreak /\ NoStreakOf(st).last = st.last
  BY DEF WatchState, NoStreakOf, NoStreak
<1>2. ASSUME NEW w \in {"ok", "failed"}
      PROVE  /\ [st EXCEPT !.last.warmup = w] \in WatchState
             /\ [st EXCEPT !.last.warmup = w].streak = st.streak
  BY DEF WatchState
<1>3. ASSUME NEW i \in 0 .. MaxWrites
      PROVE  [streak |-> NoStreak, last |-> [id |-> i, warmup |-> "pending", attempts |-> 0]] \in WatchState
  BY DEF WatchState, NoStreak
<1> QED  BY <1>1, <1>2, <1>3

\* A save that is lost is a fault.
LEMMA SaveTypes ==
    ASSUME TypeOK, NEW new \in WatchState, Save(new)
    PROVE  /\ state' \in WatchState /\ faults' \in 0 .. MaxFaults /\ unsaved' \in BOOLEAN
           /\ faults <= faults' /\ (state' = new \/ state' = state)
           /\ ~unsaved' => ~unsaved /\ state' = new
<1>1. faults' \in 0 .. MaxFaults /\ faults <= faults'
  BY Typed, GpuModeAssumption DEF Save
<1>2. state' \in WatchState /\ (state' = new \/ state' = state)
  BY Typed DEF Save
<1>3. unsaved \in BOOLEAN
  BY Typed
<1>4. unsaved' \in BOOLEAN
  BY <1>3 DEF Save
<1>5. unsaved' = TRUE \/ (unsaved' = unsaved /\ state' = new)
  BY DEF Save
<1>6. ~unsaved' => ~unsaved /\ state' = new
  BY <1>5
<1> QED  BY <1>1, <1>2, <1>4, <1>6

RunAt == {"idle", "judge", "vm", "failback", "record", "warm", "warming"}

LEMMA RunGoesTo ==
    ASSUME TypeOK, NEW at \in RunAt, NEW st \in WatchState, RunGoes(at, st)
    PROVE  run' \in RunType /\ run'.at = at /\ run'.judged = run.judged /\ run'.state = st
<1>1. run \in RunType
  BY Typed
<1> QED  BY <1>1 DEF RunType, RunGoes, RunAt

LEMMA RunTakes ==
    ASSUME TypeOK, NEW at \in RunAt, NEW t \in Texts
    PROVE  /\ [run EXCEPT !.at = at, !.judged = t] \in RunType
           /\ [run EXCEPT !.at = at, !.judged = t].at = at
           /\ [run EXCEPT !.at = at, !.judged = t].judged = t
           /\ [run EXCEPT !.at = at, !.judged = t].state = run.state
<1>1. run \in RunType
  BY Typed
<1> QED  BY <1>1 DEF RunType, RunAt

\* What a step of the watchdog does to what it keeps.
WatchTyped ==
    /\ run' \in RunType /\ state' \in WatchState
    /\ faults' \in 0 .. MaxFaults /\ unsaved' \in BOOLEAN /\ bad' \in 0 .. Failures
    /\ file' \in [text : Texts, stamp : 0 .. MaxWrites]

LEMMA JudgeTypes == ASSUME TypeOK, Counts, Judge PROVE WatchTyped /\ Counts'
<1> DEFINE failures == CurrentStreak(run.state, run.judged) + 1
           new == [run.state EXCEPT !.streak = [id |-> run.judged.id, failures |-> failures]]
<1>1. /\ run \in RunType /\ run.state \in WatchState /\ run.judged \in Texts /\ run.at = "judge"
      /\ run.judged.id \in 0 .. MaxWrites /\ bad \in 0 .. Failures /\ faults \in 0 .. MaxFaults
      /\ unsaved \in BOOLEAN /\ state \in WatchState /\ state.streak.failures \in Nat
      /\ file' = file /\ file \in [text : Texts, stamp : 0 .. MaxWrites]
  BY Typed DEF Judge, RunType, Texts, WatchState
<1>2. /\ Failures \in Nat \ {0} /\ MaxFaults \in Nat /\ MaxWrites \in Nat
  BY GpuModeAssumption
<1>3. run.state.streak.failures \in Nat /\ run.state.streak.failures <= Failures - 1 + faults
  BY <1>1, <1>2 DEF Counts, WatchState
<1>4. failures \in Nat /\ failures <= Failures + faults /\ failures <= MaxWrites + MaxFaults + Failures
  BY <1>1, <1>2, <1>3 DEF CurrentStreak
<1>5. new \in WatchState /\ new.streak.failures = failures /\ new.last = run.state.last
  BY <1>1, <1>4 DEF WatchState
<1>6. bad' \in 0 .. Failures
  BY <1>1, <1>2 DEF Judge
<1> HIDE DEF failures, new
<1>7. NoRun \in RunType /\ NoRun.at = "idle" /\ NoRun.state.streak.failures = 0
  BY ConstantTypes
<1>8. CASE RunGoes("failback", run.state) /\ UNCHANGED <<state, faults, unsaved>>
  <2>1. run' \in RunType /\ run'.at = "failback" /\ run'.state = run.state
    <3>1. "failback" \in RunAt
      BY DEF RunAt
    <3> QED  BY <1>1, <1>8, <3>1, RunGoesTo
  <2>2. Counts'
    BY <1>1, <1>2, <1>3, <1>8, <2>1 DEF Counts
  <2> QED  BY <1>1, <1>6, <1>8, <2>1, <2>2 DEF WatchTyped
<1>9. CASE Save(NoStreakOf(run.state)) /\ RunEnds
  <2>1. /\ NoStreakOf(run.state) \in WatchState /\ NoStreakOf(run.state).streak.failures = 0
    BY <1>1, WatchStates, ConstantTypes
  <2>2. /\ state' \in WatchState /\ faults' \in 0 .. MaxFaults /\ unsaved' \in BOOLEAN
        /\ faults <= faults' /\ (state' = NoStreakOf(run.state) \/ state' = state)
    BY <1>9, <2>1, SaveTypes
  <2>3. Counts'
    BY <1>1, <1>2, <1>7, <1>9, <2>1, <2>2 DEF Counts, RunEnds
  <2> QED  BY <1>1, <1>6, <1>7, <1>9, <2>2, <2>3 DEF WatchTyped, RunEnds
<1>10. CASE failures < Failures /\ Save(new) /\ RunEnds
  <2>2. /\ state' \in WatchState /\ faults' \in 0 .. MaxFaults /\ unsaved' \in BOOLEAN
        /\ faults <= faults' /\ (state' = new \/ state' = state)
    BY <1>5, <1>10, SaveTypes
  <2>3. Counts'
    BY <1>1, <1>2, <1>4, <1>5, <1>7, <1>10, <2>2 DEF Counts, RunEnds
  <2> QED  BY <1>1, <1>6, <1>7, <1>10, <2>2, <2>3 DEF WatchTyped, RunEnds
<1>11. CASE RunGoes("failback", new) /\ UNCHANGED <<state, faults, unsaved>>
  <2>1. run' \in RunType /\ run'.at = "failback" /\ run'.state = new
    <3>1. "failback" \in RunAt
      BY DEF RunAt
    <3> QED  BY <1>5, <1>11, <3>1, RunGoesTo
  <2>2. Counts'
    BY <1>1, <1>2, <1>4, <1>5, <1>11, <2>1 DEF Counts
  <2> QED  BY <1>1, <1>6, <1>11, <2>1, <2>2 DEF WatchTyped
<1> QED  BY <1>8, <1>9, <1>10, <1>11 DEF Judge, failures, new

LEMMA FailBackTypes == ASSUME TypeOK, Counts, FailBack PROVE WatchTyped /\ Counts'
<1>1. /\ run \in RunType /\ run.state \in WatchState /\ run.judged \in Texts /\ run.at = "failback"
      /\ run.judged.session \in Sessions \cup {NoSession}
      /\ bad \in 0 .. Failures /\ faults \in 0 .. MaxFaults
      /\ unsaved \in BOOLEAN /\ state \in WatchState /\ state.streak.failures \in Nat
      /\ file \in [text : Texts, stamp : 0 .. MaxWrites]
  BY Typed DEF FailBack, RunType, Texts, WatchState
<1>2. Failures \in Nat \ {0} /\ MaxWrites \in Nat
  BY GpuModeAssumption
<1>7. NoRun \in RunType /\ NoRun.at = "idle" /\ NoRun.state.streak.failures = 0
  BY ConstantTypes
<1>3. CASE file.text = run.judged
  <2>0. /\ Replace(NewText("vm", run.judged.session, TRUE), MaxWrites)
        /\ run' = [run EXCEPT !.at = "record", !.judged = file'.text]
        /\ UNCHANGED <<state, faults, unsaved>>
    BY <1>3 DEF FailBack
  <2>1. file.stamp < MaxWrites
    BY <2>0 DEF Replace
  <2>2. NewText("vm", run.judged.session, TRUE) \in Texts
    BY <1>1, <2>1, NewTextType
  <2>a. file.stamp \in 0 .. MaxWrites /\ 0 \in 0 .. Failures
    BY <1>1, <1>2
  <2>b. file.stamp + 1 \in 0 .. MaxWrites
    BY <1>2, <2>1, <2>a
  <2>3. file' \in [text : Texts, stamp : 0 .. MaxWrites] /\ file'.text \in Texts /\ bad' \in 0 .. Failures
    BY <2>0, <2>2, <2>a, <2>b DEF Replace
  <2>4. run' \in RunType /\ run'.at = "record" /\ run'.state = run.state
    BY <1>1, <2>0, <2>3, RunTakes DEF RunAt
  <2>5. Counts'
    BY <1>1, <1>2, <2>0, <2>4 DEF Counts
  <2> QED  BY <1>1, <2>0, <2>3, <2>4, <2>5 DEF WatchTyped
<1>4. CASE file.text # run.judged
  <2>0. Save(NoStreakOf(run.state)) /\ RunEnds /\ UNCHANGED <<file, bad>>
    BY <1>4 DEF FailBack
  <2>1. /\ NoStreakOf(run.state) \in WatchState /\ NoStreakOf(run.state).streak.failures = 0
    BY <1>1, WatchStates, ConstantTypes
  <2>2. /\ state' \in WatchState /\ faults' \in 0 .. MaxFaults /\ unsaved' \in BOOLEAN
        /\ faults <= faults' /\ (state' = NoStreakOf(run.state) \/ state' = state)
    BY <2>0, <2>1, SaveTypes
  <2>3. Counts'
    BY <1>1, <1>2, <1>7, <2>0, <2>1, <2>2 DEF Counts, RunEnds
  <2> QED  BY <1>1, <1>7, <2>0, <2>2, <2>3 DEF WatchTyped, RunEnds
<1> QED  BY <1>3, <1>4

\* A run that saves and ends, and one that saves and goes on.
LEMMA EndTypes ==
    ASSUME TypeOK, Counts, NEW new \in WatchState, new.streak.failures <= Failures - 1 + faults,
           Save(new), RunEnds, UNCHANGED <<file, bad>>
    PROVE  WatchTyped /\ Counts'
<1>1. /\ state \in WatchState /\ state.streak.failures \in Nat /\ new.streak.failures \in Nat
      /\ bad \in 0 .. Failures /\ faults \in 0 .. MaxFaults
      /\ file \in [text : Texts, stamp : 0 .. MaxWrites]
  BY Typed DEF WatchState
<1>2. /\ state' \in WatchState /\ faults' \in 0 .. MaxFaults /\ unsaved' \in BOOLEAN
      /\ faults <= faults' /\ (state' = new \/ state' = state)
  BY SaveTypes
<1>3. /\ run' \in RunType /\ run'.at = "idle" /\ run'.state.streak.failures = 0
  BY ConstantTypes DEF RunEnds
<1>4. Failures \in Nat \ {0}
  BY GpuModeAssumption
<1>5. Counts'
  BY <1>1, <1>2, <1>3, <1>4 DEF Counts
<1> QED  BY <1>1, <1>2, <1>3, <1>5 DEF WatchTyped

LEMMA GoesOnTypes ==
    ASSUME TypeOK, Counts, NEW new \in WatchState, new.streak.failures <= Failures - 1 + faults,
           NEW at \in {"warm", "warming"}, at = "warm" => new.last.attempts < MaxWarmups,
           Save(new) \/ UNCHANGED <<state, unsaved, faults>>, RunGoes(at, new), UNCHANGED <<file, bad>>
    PROVE  WatchTyped /\ Counts'
<1>1. /\ state \in WatchState /\ state.streak.failures \in Nat /\ unsaved \in BOOLEAN
      /\ new.streak.failures \in Nat
      /\ bad \in 0 .. Failures /\ faults \in 0 .. MaxFaults
      /\ file \in [text : Texts, stamp : 0 .. MaxWrites]
  BY Typed DEF WatchState
<1>2. /\ state' \in WatchState /\ faults' \in 0 .. MaxFaults /\ unsaved' \in BOOLEAN
      /\ faults <= faults' /\ (state' = new \/ state' = state)
  <2>1. CASE Save(new)  BY <2>1, SaveTypes
  <2>2. CASE UNCHANGED <<state, unsaved, faults>>  BY <1>1, <2>2
  <2> QED  BY <2>1, <2>2
<1>3. /\ run' \in RunType /\ run'.at = at /\ run'.state = new
  <2>1. at \in RunAt
    BY DEF RunAt
  <2> QED  BY <2>1, RunGoesTo
<1>4. Failures \in Nat \ {0}
  BY GpuModeAssumption
<1>5. Counts'
  BY <1>1, <1>2, <1>3, <1>4 DEF Counts
<1> QED  BY <1>1, <1>2, <1>3, <1>5 DEF WatchTyped

LEMMA WatchSteps ==
    ASSUME TypeOK, Counts, WatchStep \/ Defer \/ RunKilled
    PROVE  WatchTyped /\ Counts'
<1>1. /\ run \in RunType /\ run.state \in WatchState /\ run.judged \in Texts
      /\ run.judged.id \in 0 .. MaxWrites /\ run.state.last.attempts \in 0 .. MaxWarmups
      /\ file.text \in Texts /\ file \in [text : Texts, stamp : 0 .. MaxWrites]
      /\ state \in WatchState /\ state.streak.failures \in Nat /\ run.state.streak.failures \in Nat
      /\ faults \in 0 .. MaxFaults /\ unsaved \in BOOLEAN /\ bad \in 0 .. Failures
  BY Typed DEF RunType, WatchState, Texts
<1>2. Failures \in Nat \ {0} /\ MaxWarmups \in Nat \ {0} /\ MaxFaults \in Nat
  BY GpuModeAssumption
<1>3. CASE RunBegins
  <2>1. PICK at \in {"judge", "vm"} : run' = [at |-> at, judged |-> file.text, state |-> state]
    BY <1>3 DEF RunBegins
  <2>2. run' \in RunType /\ run'.at = at /\ run'.state = state
    BY <1>1, <2>1 DEF RunType
  <2>3. Counts'
    BY <1>1, <1>2, <1>3, <2>2 DEF RunBegins, Counts
  <2>4. unsaved' \in BOOLEAN
    BY <1>1, <1>3 DEF RunBegins
  <2>5. UNCHANGED <<file, state, faults, bad>>
    BY <1>3 DEF RunBegins
  <2> QED  BY <1>1, <2>2, <2>3, <2>4, <2>5 DEF WatchTyped
<1>4. CASE Record
  <2> DEFINE new == [streak |-> NoStreak,
                     last |-> [id |-> run.judged.id, warmup |-> "pending", attempts |-> 0]]
  <2>1. new \in WatchState /\ new.streak.failures = 0 /\ new.last.attempts = 0
    BY <1>1, WatchStates, ConstantTypes
  <2>2. Save(new) /\ RunGoes("warm", new) /\ UNCHANGED <<file, bad>>
    BY <1>4 DEF Record
  <2> HIDE DEF new
  <2>3. new.last.attempts < MaxWarmups /\ new.streak.failures <= Failures - 1 + faults
    BY <1>1, <1>2, <2>1
  <2> QED  BY <2>1, <2>2, <2>3, GoesOnTypes
<1>5. CASE WarmUp
  <2> DEFINE new == [run.state EXCEPT !.last.attempts = @ + 1]
  <2>1. run.at = "warm" /\ run.state.last.attempts < MaxWarmups
    BY <1>5 DEF WarmUp, Counts
  <2>2. new \in WatchState /\ new.streak = run.state.streak
    BY <1>1, <1>2, <2>1 DEF WatchState
  <2>3. Save(new) /\ RunGoes("warming", new) /\ UNCHANGED <<file, bad>>
    BY <1>5 DEF WarmUp
  <2> HIDE DEF new
  <2>4. new.streak.failures <= Failures - 1 + faults
    BY <2>1, <2>2 DEF Counts
  <2> QED  BY <2>2, <2>3, <2>4, GoesOnTypes
<1>6. CASE WarmedUp
  <2>1. PICK w \in {"ok", "failed"} : Save([run.state EXCEPT !.last.warmup = w])
    BY <1>6 DEF WarmedUp
  <2> DEFINE new == [run.state EXCEPT !.last.warmup = w]
  <2>2. new \in WatchState /\ new.streak = run.state.streak
    BY <1>1, WatchStates
  <2> HIDE DEF new
  <2>3. Save(new) /\ RunEnds /\ UNCHANGED <<file, bad>>
    BY <1>6, <2>1 DEF WarmedUp, new
  <2>4. new.streak.failures <= Failures - 1 + faults
    BY <1>6, <2>2 DEF Counts, WarmedUp
  <2> QED  BY <2>2, <2>3, <2>4, EndTypes
<1>7. CASE VmMode
  <2> DEFINE st == NoStreakOf(run.state)
  <2>1. st \in WatchState /\ st.streak = NoStreak /\ st.last = run.state.last
    BY <1>1, WatchStates
  <2> HIDE DEF st
  <2>2. st.streak.failures <= Failures - 1 + faults
    BY <1>1, <1>2, <2>1, ConstantTypes
  <2>3. CASE run.state.last.attempts < MaxWarmups /\ RunGoes("warm", st) /\ UNCHANGED <<state, faults, unsaved>>
    <3>1. UNCHANGED <<file, bad>> /\ st.last.attempts < MaxWarmups
      BY <1>7, <2>1, <2>3 DEF VmMode
    <3> QED  BY <2>1, <2>2, <2>3, <3>1, GoesOnTypes
  <2>4. CASE Save([st EXCEPT !.last.warmup = "failed"]) /\ RunEnds
    <3> DEFINE new == [st EXCEPT !.last.warmup = "failed"]
    <3>1. new \in WatchState /\ new.streak = st.streak
      BY <2>1, WatchStates
    <3>2. Save(new) /\ RunEnds /\ UNCHANGED <<file, bad>>
      BY <1>7, <2>4 DEF VmMode
    <3> HIDE DEF new
    <3> QED  BY <2>2, <3>1, <3>2, EndTypes
  <2>5. CASE Save(st) /\ RunEnds
    <3>1. UNCHANGED <<file, bad>>
      BY <1>7 DEF VmMode
    <3> QED  BY <2>1, <2>2, <2>5, <3>1, EndTypes
  <2> QED  BY <1>7, <2>3, <2>4, <2>5 DEF VmMode, st
<1>8. CASE Defer
  <2>1. run.at = "failback" /\ run' = NoRun /\ state' = run.state /\ faults' = faults + 1 /\ faults < MaxFaults
        /\ UNCHANGED <<file, bad>>
    BY <1>8 DEF Defer, RunEnds
  <2>2. unsaved' \in BOOLEAN
    BY <1>1, <1>8 DEF Defer
  <2>3. run.state.streak.failures <= Failures + faults
    BY <2>1 DEF Counts
  <2>4. Counts'
    BY <1>1, <1>2, <2>1, <2>3, ConstantTypes DEF Counts
  <2>5. faults' \in 0 .. MaxFaults
    BY <1>1, <1>2, <2>1
  <2> QED  BY <1>1, <2>1, <2>2, <2>4, <2>5, ConstantTypes DEF WatchTyped
<1>9. CASE RunKilled
  <2>1. run' = NoRun /\ faults' = faults + 1 /\ faults < MaxFaults /\ UNCHANGED <<file, bad, state>>
    BY <1>9 DEF RunKilled, RunEnds
  <2>2. unsaved' \in BOOLEAN
    BY <1>1, <1>9 DEF RunKilled
  <2>4. Counts'
    BY <1>1, <1>2, <2>1, ConstantTypes DEF Counts
  <2>5. faults' \in 0 .. MaxFaults
    BY <1>1, <1>2, <2>1
  <2> QED  BY <1>1, <2>1, <2>2, <2>4, <2>5, ConstantTypes DEF WatchTyped
<1> QED
  BY <1>3, <1>4, <1>5, <1>6, <1>7, <1>8, <1>9, JudgeTypes, FailBackTypes DEF WatchStep

LEMMA WatchTypes ==
    ASSUME TypeOK, Counts, WatchStep \/ Defer \/ RunKilled
    PROVE  TypeOK' /\ Counts'
<1>10. WatchTyped /\ Counts'
  BY WatchSteps
<1>11. UNCHANGED <<environment, op, overlapped>>
  BY DEF WatchStep, RunBegins, Judge, FailBack, Record, WarmUp, WarmedUp, VmMode, Defer, RunKilled,
         WatchKeeps
<1>12. /\ tunnel' \in Sessions \cup {NoSession} /\ up' \subseteq Sessions /\ ended' \subseteq Sessions
       /\ op' \in [Operators -> OpType] /\ overlapped' \in BOOLEAN
  BY <1>11, Typed DEF environment
<1> QED  BY <1>10, <1>12 DEF TypeOK, OpType, RunType, WatchTyped

LEMMA EnvironmentTypes ==
    ASSUME TypeOK, Counts, (\E s \in Sessions : ServiceChanges(s) \/ AllocationEnds(s)) \/ TunnelDrops
    PROVE  TypeOK' /\ Counts'
<1>1. UNCHANGED <<file, op, run, state, bad, unsaved, overlapped>>
  BY DEF ServiceChanges, AllocationEnds, TunnelDrops, EnvironmentKeeps, watchVars, history
<1>2. tunnel' \in Sessions \cup {NoSession} /\ up' \subseteq Sessions /\ ended' \subseteq Sessions
  BY Typed, ConstantTypes DEF ServiceChanges, AllocationEnds, TunnelDrops
<1>3. faults' \in 0 .. MaxFaults /\ faults <= faults'
  BY Typed, GpuModeAssumption DEF ServiceChanges, AllocationEnds, TunnelDrops
<1>4. faults \in Nat /\ faults' \in Nat /\ Failures \in Nat
  BY <1>3, Typed, GpuModeAssumption
<1>5. run.state.streak.failures \in Nat /\ state.streak.failures \in Nat
  BY Typed DEF RunType, WatchState
<1>6. Counts'
  BY <1>1, <1>3, <1>4, <1>5 DEF Counts
<1>7. unsaved' \in BOOLEAN /\ overlapped' \in BOOLEAN
  BY <1>1, Typed
<1> QED  BY <1>1, <1>2, <1>3, <1>6, <1>7 DEF TypeOK

LEMMA TypesPreserved == TypeOK /\ Counts /\ [Next]_vars => TypeOK' /\ Counts'
<1>1. ASSUME TypeOK, Counts, UNCHANGED vars PROVE TypeOK' /\ Counts'
  BY <1>1 DEF vars, TypeOK, Counts
<1> QED  BY <1>1, CommandTypes, WatchTypes, EnvironmentTypes DEF Next

---------------------------------------------------------------------------
(* What each step may write, and what it may remember.                     *)

\* The file after a command: as it was, a new text, or the one kept for later.
LEMMA CommandWrites ==
    ASSUME TypeOK, NEW o \in Operators, CommandStep(o)
    PROVE  /\ UNCHANGED <<run, state, unsaved>> /\ ended \subseteq ended'
           /\ \A p \in Operators : p # o => op'[p] = op[p]
           /\ op'[o].previous \in {FirstText, file.text, op[o].previous}
           /\ \/ file' = file /\ bad' = bad
              \/ /\ file'.stamp = file.stamp + 1
                 /\ \/ file'.text.id = file.stamp + 1
                    \/ op[o].at = "restore" /\ file'.text = op[o].previous
<1>1. UNCHANGED <<run, state, unsaved>>
  BY DEF CommandStep, Start, OpenTunnel, Probe, Switch, Verify, Restore, Close, Stop, StopCloses,
         StopGivesUp, CommandKeeps, watchVars, history
<1>2. ended \subseteq ended'
  BY DEF CommandStep, Start, OpenTunnel, Probe, Switch, Verify, Restore, Close, Stop, StopCloses,
         StopGivesUp
<1>3. op \in [Operators -> OpType]
  BY Typed
<1>4. \A p \in Operators : p # o => op'[p] = op[p]
  BY <1>3
  DEF CommandStep, Start, OpenTunnel, Probe, Switch, Verify, Restore, Close, Stop, StopCloses,
      StopGivesUp, Goes, Ends
<1>5. op'[o].previous \in {FirstText, file.text, op[o].previous}
  <2>0. NoOp.previous = FirstText
    BY DEF NoOp
  <2>1. CASE Start(o)  BY <1>3, <2>0, <2>1 DEF Start, NoOp
  <2>2. CASE Stop(o)  BY <1>3, <2>0, <2>2 DEF Stop, NoOp
  <2>3. CASE Probe(o)  BY <1>3, <2>3 DEF Probe, Goes, OpType
  <2>4. CASE OpenTunnel(o)  BY <1>3, <2>0, <2>4 DEF OpenTunnel, Goes, Ends, OpType
  <2>5. CASE Switch(o) \/ Restore(o)  BY <1>3, <2>5 DEF Switch, Restore, Goes, OpType
  <2>6. CASE Verify(o)  BY <1>3, <2>0, <2>6 DEF Verify, Goes, Ends, OpType
  <2>7. CASE Close(o) \/ StopCloses(o) \/ StopGivesUp(o)
    BY <1>3, <2>0, <2>7 DEF Close, StopCloses, StopGivesUp, Ends
  <2> QED  BY <2>1, <2>2, <2>3, <2>4, <2>5, <2>6, <2>7 DEF CommandStep
<1>6. \/ file' = file /\ bad' = bad
      \/ /\ file'.stamp = file.stamp + 1
         /\ \/ file'.text.id = file.stamp + 1
            \/ op[o].at = "restore" /\ file'.text = op[o].previous
  <2>1. CASE Switch(o)  BY <2>1 DEF Switch, Replace, NewText, Text
  <2>2. CASE Stop(o)  BY <2>2 DEF Stop, Replace, NewText, Text
  <2>3. CASE Restore(o)  BY <2>3 DEF Restore, Replace
  <2>4. CASE UNCHANGED <<file, bad>>  BY <2>4
  <2> QED
    BY <2>1, <2>2, <2>3, <2>4
    DEF CommandStep, Start, OpenTunnel, Probe, Verify, Close, StopCloses, StopGivesUp, history
<1> QED  BY <1>1, <1>2, <1>4, <1>5, <1>6

\* A run remembers a text it read or wrote, and a count that was there before.
LEMMA WatchWrites ==
    ASSUME TypeOK, WatchStep \/ Defer \/ RunKilled
    PROVE  /\ UNCHANGED <<op, overlapped, ended>>
           /\ run'.judged \in {FirstText, file.text, run.judged, file'.text}
           /\ \/ file' = file
              \/ /\ file'.stamp = file.stamp + 1 /\ file'.text.id = file.stamp + 1
                 /\ file'.text.mode = "vm" /\ run.at = "failback" /\ file.text = run.judged
           /\ Judge \/ /\ state'.streak \in {NoStreak, state.streak, run.state.streak}
                       /\ run'.state.streak \in {NoStreak, state.streak, run.state.streak}
<1>0. /\ run \in RunType /\ run.state \in WatchState /\ run.judged \in Texts
      /\ file.text \in Texts /\ state \in WatchState
  BY Typed DEF RunType
<1>1. UNCHANGED <<op, overlapped, ended>>
  BY DEF WatchStep, RunBegins, Judge, FailBack, Record, WarmUp, WarmedUp, VmMode, Defer, RunKilled,
         WatchKeeps, environment
<1>2. run'.judged \in {FirstText, file.text, run.judged, file'.text}
  <2>0. NoRun.judged = FirstText
    BY ConstantTypes
  <2>1. CASE RunBegins  BY <2>1 DEF RunBegins
  <2>2. CASE Judge  BY <1>0, <2>0, <2>2 DEF Judge, RunGoes, RunEnds, RunType
  <2>3. CASE FailBack  BY <1>0, <2>0, <2>3 DEF FailBack, RunEnds, RunType
  <2>4. CASE Record \/ WarmUp  BY <1>0, <2>4 DEF Record, WarmUp, RunGoes, RunType
  <2>5. CASE VmMode  BY <1>0, <2>0, <2>5 DEF VmMode, RunGoes, RunEnds, RunType
  <2>6. CASE WarmedUp \/ Defer \/ RunKilled
    BY <2>0, <2>6 DEF WarmedUp, Defer, RunKilled, RunEnds
  <2> QED  BY <2>1, <2>2, <2>3, <2>4, <2>5, <2>6 DEF WatchStep
<1>3. \/ file' = file
      \/ /\ file'.stamp = file.stamp + 1 /\ file'.text.id = file.stamp + 1
         /\ file'.text.mode = "vm" /\ run.at = "failback" /\ file.text = run.judged
  BY DEF WatchStep, RunBegins, Judge, FailBack, Record, WarmUp, WarmedUp, VmMode, Defer, RunKilled,
         Replace, NewText, Text
<1>4. ASSUME ~Judge
      PROVE  /\ state'.streak \in {NoStreak, state.streak, run.state.streak}
             /\ run'.state.streak \in {NoStreak, state.streak, run.state.streak}
  <2>0. NoRun.state.streak = NoStreak
    BY ConstantTypes
  <2>1. CASE RunBegins
    BY <2>1 DEF RunBegins
  <2>2. CASE FailBack
    <3>1. state'.streak \in {NoStreak, state.streak, run.state.streak}
      BY <1>0, <2>2, WatchStates DEF FailBack, Save
    <3>2. run'.state.streak \in {NoStreak, state.streak, run.state.streak}
      BY <1>0, <2>0, <2>2 DEF FailBack, RunEnds, RunType
    <3> QED  BY <3>1, <3>2
  <2>3. CASE Record
    BY <1>0, <2>3 DEF Record, Save, RunGoes, RunType
  <2>4. CASE WarmUp
    BY <1>0, <2>4 DEF WarmUp, Save, RunGoes, RunType, WatchState
  <2>5. CASE WarmedUp
    <3>1. PICK w \in {"ok", "failed"} : Save([run.state EXCEPT !.last.warmup = w])
      BY <2>5 DEF WarmedUp
    <3>2. [run.state EXCEPT !.last.warmup = w].streak = run.state.streak
      BY <1>0, WatchStates
    <3>3. state'.streak \in {run.state.streak, state.streak}
      BY <3>1, <3>2 DEF Save
    <3> QED  BY <2>0, <2>5, <3>3 DEF WarmedUp, RunEnds
  <2>6. CASE VmMode
    <3> DEFINE st == NoStreakOf(run.state)
    <3>0. st \in WatchState /\ st.streak = NoStreak
      BY <1>0, WatchStates
    <3> HIDE DEF st
    <3>1. st.streak = NoStreak /\ [st EXCEPT !.last.warmup = "failed"].streak = NoStreak
      BY <3>0, WatchStates
    <3>2. state'.streak \in {NoStreak, state.streak}
      BY <2>6, <3>1 DEF VmMode, Save, st
    <3>3. run'.state \in {st, NoRun.state}
      BY <1>0, <2>6 DEF VmMode, RunGoes, RunEnds, RunType, st
    <3> QED  BY <2>0, <3>1, <3>2, <3>3
  <2>7. CASE Defer
    BY <2>0, <2>7 DEF Defer, RunEnds
  <2>8. CASE RunKilled
    BY <2>0, <2>8 DEF RunKilled, RunEnds
  <2> QED  BY <1>4, <2>1, <2>2, <2>3, <2>4, <2>5, <2>6, <2>7, <2>8 DEF WatchStep
<1> QED  BY <1>1, <1>2, <1>3, <1>4

---------------------------------------------------------------------------
(* Ids.                                                                    *)

\* Ids stay unique when the file keeps its text, takes one that was written
\* before, or takes a new one.
LEMMA IdsKept ==
    ASSUME TypeOK, TypeOK', Ids,
           Written' \subseteq Written \cup {file'.text},
           \/ file' = file
           \/ file'.stamp = file.stamp + 1 /\ (file'.text.id = file.stamp + 1 \/ file'.text \in Written),
           state'.streak.id <= file'.stamp, run'.state.streak.id <= file'.stamp
    PROVE  Ids'
<1>1. /\ file.stamp \in Nat /\ file'.stamp \in Nat /\ file.stamp <= file'.stamp
      /\ \A t \in Written \cup {file'.text} : t.id \in Nat
  <2>1. file.stamp \in Nat /\ file.text \in Texts /\ run \in RunType
    BY Typed
  <2>2. file'.stamp \in Nat /\ file'.text \in Texts
    BY GpuModeAssumption DEF TypeOK
  <2>3. \A t \in Written \cup {file'.text} : t \in Texts
    BY <2>1, <2>2, Typed, ConstantTypes DEF Written, RunType
  <2>4. \A t \in Texts : t.id \in Nat
    BY GpuModeAssumption DEF Texts
  <2> QED  BY <2>1, <2>2, <2>3, <2>4
<1>2. file.text \in Written
  BY DEF Written
<1>3. \A t \in Written \cup {file'.text} : t.id <= file'.stamp
  BY <1>1, <1>2 DEF Ids
<1>4. \A t, u \in Written \cup {file'.text} : t.id = u.id => t = u
  BY <1>1, <1>2 DEF Ids
<1> HIDE DEF Written
<1> QED  BY <1>3, <1>4 DEF Ids

LEMMA CommandIds ==
    ASSUME TypeOK, TypeOK', Ids, NEW o \in Operators, CommandStep(o)
    PROVE  Ids'
<1>1. Written' \subseteq Written \cup {file'.text}
  BY CommandWrites DEF Written
<1>2. \/ file' = file
      \/ file'.stamp = file.stamp + 1 /\ (file'.text.id = file.stamp + 1 \/ file'.text \in Written)
  BY CommandWrites DEF Written
<1>3. file.stamp \in Nat /\ state.streak.id \in Nat /\ run.state.streak.id \in Nat
  BY Typed, GpuModeAssumption DEF RunType, WatchState
<1>4. state' = state /\ run' = run
  BY CommandWrites
<1>5. state'.streak.id <= file'.stamp /\ run'.state.streak.id <= file'.stamp
  BY <1>2, <1>3, <1>4 DEF Ids
<1> QED  BY <1>1, <1>2, <1>5, IdsKept

LEMMA WatchIds ==
    ASSUME TypeOK, TypeOK', Ids, WatchStep \/ Defer \/ RunKilled
    PROVE  Ids'
<1>1. Written' \subseteq Written \cup {file'.text}
  BY WatchWrites DEF Written
<1>2. \/ file' = file
      \/ file'.stamp = file.stamp + 1 /\ (file'.text.id = file.stamp + 1 \/ file'.text \in Written)
  BY WatchWrites
<1>3. /\ file.stamp \in Nat /\ state.streak.id \in Nat /\ run.state.streak.id \in Nat
      /\ run.judged.id \in Nat /\ NoStreak.id = 0 /\ NoRun.state.streak = NoStreak
      /\ run.state \in WatchState /\ run \in RunType
  BY Typed, ConstantTypes, GpuModeAssumption DEF RunType, WatchState, Texts
<1>4. run.judged.id <= file.stamp
  BY DEF Ids, Written
<1>5. /\ state'.streak.id \in {0, state.streak.id, run.state.streak.id, run.judged.id}
      /\ run'.state.streak.id \in {0, state.streak.id, run.state.streak.id, run.judged.id}
  <2>1. CASE Judge
    <3> DEFINE new == [run.state EXCEPT !.streak = [id |-> run.judged.id,
                                          failures |-> CurrentStreak(run.state, run.judged) + 1]]
    <3>1. new.streak.id = run.judged.id
      BY <1>3 DEF WatchState
    <3>2. NoStreakOf(run.state).streak = NoStreak
      BY <1>3, WatchStates
    <3> HIDE DEF new
    <3>3. state' \in {state, NoStreakOf(run.state), new}
      BY <2>1 DEF Judge, Save, new
    <3>4. run'.state \in {run.state, NoRun.state, new}
      BY <1>3, <2>1 DEF Judge, RunGoes, RunEnds, RunType, new
    <3> QED  BY <1>3, <3>1, <3>2, <3>3, <3>4
  <2>2. CASE ~Judge
    BY <1>3, <2>2, WatchWrites
  <2> QED  BY <2>1, <2>2
<1>6. state'.streak.id <= file'.stamp /\ run'.state.streak.id <= file'.stamp
  BY <1>2, <1>3, <1>4, <1>5 DEF Ids
<1> QED  BY <1>1, <1>2, <1>6, IdsKept

---------------------------------------------------------------------------
(* A command alone.                                                        *)

LEMMA CommandAlone ==
    ASSUME TypeOK, Alone, NEW o \in Operators, CommandStep(o)
    PROVE  Alone'
<1> SUFFICES ASSUME ~overlapped'
             PROVE  /\ \A p, q \in Operators : op'[p].at # "idle" /\ op'[q].at # "idle" => p = q
                    /\ \A p \in Operators :
                         /\ op'[p].at \in {"tunnel", "probe", "switch", "close", "stopped"} => ~OnGpu'
                         /\ op'[p].at \in {"switch", "verify", "restore"} => op'[p].previous.mode = "vm"
  BY DEF Alone
<1>1. /\ ~overlapped
      /\ \A p \in Operators : p # o => op[p].at = "idle"
  <2>1. overlapped \in BOOLEAN
    BY Typed
  <2>2. CASE Start(o) \/ Stop(o)
    BY <2>1, <2>2 DEF Start, Stop, Overlaps
  <2>3. CASE overlapped' = overlapped /\ op[o].at # "idle"
    BY <2>3 DEF Alone
  <2> QED
    BY <2>2, <2>3
    DEF CommandStep, OpenTunnel, Probe, Switch, Verify, Restore, Close, StopCloses, StopGivesUp, history
<1>2. \A p \in Operators : p # o => op'[p].at = "idle"
  BY <1>1, CommandWrites
<1>3. /\ op'[o].at \in {"tunnel", "probe", "switch", "close", "stopped"} => ~OnGpu'
      /\ op'[o].at \in {"switch", "verify", "restore"} => op'[o].previous.mode = "vm"
  <2>0. op \in [Operators -> OpType] /\ file.text \in Texts /\ (OnGpu \/ file.text.mode = "vm") /\ NoOp.at = "idle"
    BY Typed, ConstantTypes DEF OnGpu, Texts
  <2>a. /\ op[o].at \in {"tunnel", "probe", "switch", "close", "stopped"} => ~OnGpu
        /\ op[o].at \in {"switch", "verify", "restore"} => op[o].previous.mode = "vm"
    BY <1>1 DEF Alone
  <2>1. CASE Start(o)  BY <2>0, <2>1 DEF Start, NoOp, OnGpu
  <2>2. CASE OpenTunnel(o)  BY <2>0, <2>a, <2>2 DEF OpenTunnel, Goes, Ends, OpType, OnGpu
  <2>3. CASE Probe(o)  BY <2>0, <2>a, <2>3 DEF Probe, Goes, OpType, OnGpu
  <2>4. CASE Switch(o)  BY <2>0, <2>a, <2>4 DEF Switch, Goes, OpType
  <2>5. CASE Verify(o)
    <3>1. op'[o].at = "idle" \/ (op'[o].at = "restore" /\ op'[o].previous = op[o].previous)
      <4>1. op' = [op EXCEPT ![o] = NoOp] \/ op' = [op EXCEPT ![o].at = "restore"]
        BY <2>5 DEF Verify, Goes, Ends
      <4>2. CASE op' = [op EXCEPT ![o] = NoOp]
        <5>1. op'[o] = NoOp
          BY <2>0, <4>2
        <5>2. op'[o].at = "idle"
          BY <2>0, <5>1
        <5> QED  BY <5>2
      <4>3. CASE op' = [op EXCEPT ![o].at = "restore"]  BY <2>0, <4>3 DEF OpType
      <4> QED  BY <4>1, <4>2, <4>3
    <3> QED  BY <2>a, <2>5, <3>1 DEF Verify
  <2>6. CASE Restore(o)
    <3>1. op'[o].at = "close" /\ file'.text = op[o].previous
      BY <2>0, <2>6 DEF Restore, Replace, Goes, OpType
    <3>2. op[o].previous.mode = "vm"
      BY <2>a, <2>6 DEF Restore
    <3> QED  BY <3>1, <3>2 DEF OnGpu
  <2>7. CASE Close(o) \/ StopCloses(o) \/ StopGivesUp(o)
    BY <2>0, <2>7 DEF Close, StopCloses, StopGivesUp, Ends
  <2>8. CASE Stop(o)
    <3>1. op'[o].at = "stopped" /\ file'.text.mode = "vm"
      BY <2>0, <2>8 DEF Stop, Replace, NewText, Text, NoOp
    <3> QED  BY <3>1 DEF OnGpu
  <2> QED  BY <2>1, <2>2, <2>3, <2>4, <2>5, <2>6, <2>7, <2>8 DEF CommandStep
<1> QED  BY <1>2, <1>3

LEMMA WatchAlone ==
    ASSUME TypeOK, Alone, WatchStep \/ Defer \/ RunKilled
    PROVE  Alone'
<1>1. UNCHANGED <<op, overlapped>> /\ (OnGpu' => OnGpu)
  <2>1. file' = file \/ file'.text.mode = "vm"
    BY WatchWrites
  <2> QED  BY <2>1, WatchWrites DEF OnGpu
<1> QED  BY <1>1 DEF Alone

---------------------------------------------------------------------------
(* The watchdog's count.                                                   *)

LEMMA CommandJustified ==
    ASSUME TypeOK, TypeOK', Ids, Alone, Justified, NEW o \in Operators, CommandStep(o)
    PROVE  Justified'
<1>1. UNCHANGED <<run, state, unsaved>> /\ ended \subseteq ended'
  BY CommandWrites
<1>2. run.at \in {"judge", "failback"} => run.judged.mode = "gpu"
  BY DEF Justified
<1>3. overlapped => overlapped'
  BY DEF CommandStep, Start, OpenTunnel, Probe, Switch, Verify, Restore, Close, Stop, StopCloses,
         StopGivesUp, CommandKeeps, Overlaps, history
<1>4. CASE file' = file /\ bad' = bad
  BY <1>1, <1>2, <1>3, <1>4 DEF Justified, Earned, OnGpu
<1>5. CASE file'.stamp = file.stamp + 1 /\ file'.text.id = file.stamp + 1
  <2>1. /\ file.stamp \in Nat /\ state.streak.id \in Nat /\ run.state.streak.id \in Nat
        /\ run.judged.id \in Nat
    BY Typed, GpuModeAssumption DEF RunType, WatchState, Texts
  <2>2. state.streak.id <= file.stamp /\ run.state.streak.id <= file.stamp /\ run.judged.id <= file.stamp
    BY DEF Ids, Written
  <2>3. state'.streak.id # file'.text.id /\ run'.state.streak.id # file'.text.id /\ run'.judged.id # file'.text.id
    BY <1>1, <1>5, <2>1, <2>2
  <2> QED  BY <1>1, <1>2, <2>3 DEF Justified, Earned
<1>6. CASE op[o].at = "restore" /\ file'.text = op[o].previous
  <2>1. CASE ~overlapped
    <3>1. file'.text.mode = "vm"
      BY <1>6, <2>1 DEF Alone
    <3> QED  BY <1>1, <1>2, <3>1 DEF Justified, Earned, OnGpu
  <2>2. CASE overlapped
    BY <1>1, <1>2, <1>3, <2>2 DEF Justified
  <2> QED  BY <2>1, <2>2
<1> QED  BY <1>4, <1>5, <1>6, CommandWrites

LEMMA JudgeJustified ==
    ASSUME TypeOK, Ids, Justified, Judge
    PROVE  Justified'
<1> DEFINE failures == CurrentStreak(run.state, run.judged) + 1
           new == [run.state EXCEPT !.streak = [id |-> run.judged.id, failures |-> failures]]
<1>1. /\ run \in RunType /\ run.state \in WatchState /\ run.at = "judge" /\ run.judged.mode = "gpu"
      /\ UNCHANGED <<file, ended, overlapped>> /\ overlapped \in BOOLEAN
  BY Typed DEF Judge, RunType, Justified, WatchKeeps, environment
<1>2. /\ Failures \in Nat \ {0} /\ bad \in Nat /\ run.state.streak.failures \in Nat
      /\ run.state.streak.id \in Nat /\ state.streak.failures \in Nat
  BY <1>1, Typed, GpuModeAssumption DEF WatchState
<1>3. /\ NoRun.at = "idle" /\ NoRun.state.streak.failures = 0
  BY ConstantTypes
<1>4. run'.at = "judge" \/ run'.at = "failback" => run'.judged = run.judged
  BY <1>1, <1>3 DEF Judge, RunGoes, RunEnds, RunType
<1>5. run'.at \in {"judge", "failback"} => run'.judged.mode = "gpu"
  <2>1. run' = NoRun \/ run'.judged = run.judged
    BY <1>1 DEF Judge, RunGoes, RunEnds, RunType
  <2> QED  BY <1>1, <1>3, <2>1
<1>6. ASSUME ~unsaved', ~overlapped'
      PROVE  /\ Earned(state)' /\ Earned(run.state)'
             /\ run'.at = "failback" /\ file'.text = run'.judged
                => run'.judged.session \in ended' \/ bad' >= Failures
  <2>0. ~unsaved
    BY <1>6 DEF Judge, Save
  <2>1. Earned(state) /\ Earned(run.state)
    BY <1>1, <1>6, <2>0 DEF Justified
  <2>2. CASE /\ run.judged.session \in ended /\ RunGoes("failback", run.state)
             /\ UNCHANGED <<state, faults, bad, unsaved>>
    <3>1. run'.state = run.state /\ run'.judged = run.judged
      BY <1>1, <2>2 DEF RunGoes, RunType
    <3>2. UNCHANGED <<state, bad>>
      BY <2>2
    <3> QED  BY <1>1, <2>1, <2>2, <3>1, <3>2 DEF Earned, OnGpu
  <2>3. CASE Save(NoStreakOf(run.state)) /\ RunEnds /\ bad' = 0
    <3>1. NoStreakOf(run.state).streak.failures = 0
      BY <1>1, WatchStates, ConstantTypes
    <3>2. state' = NoStreakOf(run.state)
      BY <1>6, <2>3 DEF Save
    <3> QED  BY <1>3, <2>3, <3>1, <3>2 DEF Earned, RunEnds
  <2>4. CASE /\ bad' = IF run.judged = file.text /\ bad < Failures THEN bad + 1 ELSE bad
             /\ \/ Save(new) /\ RunEnds
                \/ failures >= Failures /\ RunGoes("failback", new) /\ UNCHANGED <<state, faults, unsaved>>
    <3>1. new.streak.id = run.judged.id /\ new.streak.failures = failures
      BY <1>1 DEF WatchState
    <3>2. run.judged.id = file.text.id => run.judged = file.text
      BY DEF Ids, Written
    <3>3. OnGpu /\ run.judged = file.text => bad' >= failures \/ bad' >= Failures
      <4>1. CASE run.state.streak.id = run.judged.id
        BY <1>2, <2>1, <2>4, <4>1 DEF CurrentStreak, Earned
      <4>2. CASE run.state.streak.id # run.judged.id
        BY <1>2, <2>4, <4>2 DEF CurrentStreak
      <4> QED  BY <4>1, <4>2
    <3>4. bad' >= bad
      BY <1>2, <2>4
    <3>5. failures \in Nat /\ bad' \in Nat
      BY <1>2, <2>4 DEF CurrentStreak
    <3> HIDE DEF new, failures
    <3>6. CASE Save(new) /\ RunEnds
      <4>1. state' = new
        BY <1>6, <3>6 DEF Save
      <4>2. Earned(state)'
        BY <1>1, <3>1, <3>2, <3>3, <4>1 DEF Earned, OnGpu
      <4>3. Earned(run.state)'
        BY <1>3, <3>5, <3>6 DEF Earned, RunEnds
      <4> QED  BY <1>3, <3>6, <4>2, <4>3 DEF RunEnds
    <3>7. CASE failures >= Failures /\ RunGoes("failback", new) /\ UNCHANGED <<state, faults, unsaved>>
      <4>1. run'.state = new /\ run'.judged = run.judged
        BY <1>1, <3>7 DEF RunGoes, RunType
      <4>2. Earned(run.state)'
        BY <1>1, <3>1, <3>2, <3>3, <4>1 DEF Earned, OnGpu
      <4>3. state' = state
        BY <3>7
      <4>4. Earned(state)'
        BY <1>1, <1>2, <2>1, <3>4, <3>5, <4>3 DEF Earned, OnGpu
      <4>5. file'.text = run'.judged => bad' >= Failures
        <5>1. ASSUME file'.text = run'.judged PROVE OnGpu /\ run.judged = file.text
          BY <1>1, <4>1, <5>1 DEF OnGpu
        <5> QED  BY <1>2, <3>3, <3>5, <3>7, <5>1
      <4> QED  BY <4>2, <4>4, <4>5
    <3> QED  BY <2>4, <3>6, <3>7
  <2> QED  BY <1>2, <2>2, <2>3, <2>4 DEF Judge, CurrentStreak, new, failures
<1>7. overlapped' \in BOOLEAN
  BY <1>1
<1> QED  BY <1>5, <1>6 DEF Justified

LEMMA WatchJustified ==
    ASSUME TypeOK, TypeOK', Ids, Justified, WatchStep \/ Defer \/ RunKilled
    PROVE  Justified'
<1>1. CASE Judge
  BY <1>1, JudgeJustified
<1>2. CASE ~Judge
  <2>1. /\ run \in RunType /\ run.state \in WatchState /\ bad \in Nat /\ bad' \in Nat
        /\ NoStreak.failures = 0 /\ NoRun.at = "idle" /\ (file.text.mode = "gpu" \/ file.text.mode = "vm")
    BY Typed, ConstantTypes, GpuModeAssumption DEF RunType, TypeOK, Texts
  <2>2. /\ state'.streak \in {NoStreak, state.streak, run.state.streak}
        /\ run'.state.streak \in {NoStreak, state.streak, run.state.streak}
        /\ UNCHANGED <<overlapped, ended>>
    BY <1>2, WatchWrites
  <2>3. (unsaved => unsaved') /\ (file' = file => bad' = bad)
    <3>1. unsaved' = TRUE \/ unsaved' = unsaved
      BY <1>2 DEF WatchStep, RunBegins, FailBack, Record, WarmUp, WarmedUp, VmMode, Defer, RunKilled, Save
    <3>2. file' = file => bad' = bad
      <4>1. CASE FailBack
        <5>1. file.stamp \in Nat
          BY Typed
        <5>2. CASE Replace(NewText("vm", run.judged.session, TRUE), MaxWrites)
          <6>1. file'.stamp = file.stamp + 1
            BY <5>2 DEF Replace
          <6> QED  BY <5>1, <6>1
        <5>3. CASE bad' = bad  BY <5>3
        <5> QED  BY <4>1, <5>2, <5>3 DEF FailBack
      <4>2. CASE UNCHANGED bad  BY <4>2
      <4> QED
        BY <1>2, <4>1, <4>2 DEF WatchStep, RunBegins, Record, WarmUp, WarmedUp, VmMode, Defer, RunKilled
    <3> QED  BY <3>1, <3>2
  <2>4. run'.at # "failback" /\ (run'.at = "judge" => run'.judged = file.text /\ OnGpu)
    <3>1. CASE RunBegins  BY <3>1 DEF RunBegins
    <3>2. CASE FailBack  BY <2>1, <3>2 DEF FailBack, RunEnds, RunType
    <3>3. CASE Record \/ WarmUp  BY <2>1, <3>3 DEF Record, WarmUp, RunGoes, RunType
    <3>4. CASE VmMode
      <4>1. run'.at \in {"warm", "idle"}
        BY <2>1, <3>4 DEF VmMode, RunGoes, RunEnds, RunType
      <4> QED  BY <4>1
    <3>5. CASE WarmedUp \/ Defer \/ RunKilled
      BY <2>1, <3>5 DEF WarmedUp, Defer, RunKilled, RunEnds
    <3> QED  BY <1>2, <3>1, <3>2, <3>3, <3>4, <3>5 DEF WatchStep
  <2>5. run'.at \in {"judge", "failback"} => run'.judged.mode = "gpu"
    BY <2>4 DEF OnGpu
  <2>6. ASSUME ~unsaved', ~overlapped' PROVE Earned(state)' /\ Earned(run.state)'
    <3>1. CASE file' = file
      <4>1. bad' = bad /\ Earned(state) /\ Earned(run.state)
        BY <2>2, <2>3, <2>6, <3>1 DEF Justified
      <4> QED  BY <2>1, <2>2, <3>1, <4>1 DEF Earned, OnGpu
    <3>2. CASE file'.text.mode = "vm"
      BY <3>2 DEF Earned, OnGpu
    <3> QED  BY <3>1, <3>2, WatchWrites
  <2> QED  BY <2>4, <2>5, <2>6 DEF Justified
<1> QED  BY <1>1, <1>2

---------------------------------------------------------------------------
(* The theorems.                                                           *)

LEMMA InitInv == Init => ModeInv
<1> SUFFICES ASSUME Init PROVE ModeInv
  OBVIOUS
<1>1. TypeOK /\ Counts
  BY InitTypes
<1>2. /\ \A o \in Operators : op[o] = NoOp
      /\ file = [text |-> FirstText, stamp |-> 0] /\ run = NoRun /\ state = Fresh
  BY DEF Init
<1>3. Ids
  <2>1. Written = {FirstText}
    BY <1>2, ConstantTypes DEF Written, NoOp
  <2>2. FirstText.id = 0 /\ state.streak.id = 0 /\ run.state.streak.id = 0 /\ file.stamp = 0
    BY <1>2, ConstantTypes
  <2> QED  BY <2>1, <2>2 DEF Ids
<1>4. Alone
  BY <1>2, ConstantTypes DEF Alone
<1>5. Justified
  <2>1. ~OnGpu /\ run.at = "idle"
    BY <1>2, ConstantTypes DEF OnGpu
  <2> QED  BY <2>1 DEF Justified, Earned
<1> QED  BY <1>1, <1>3, <1>4, <1>5 DEF ModeInv

LEMMA NextInv == ModeInv /\ [Next]_vars => ModeInv'
<1> SUFFICES ASSUME ModeInv, [Next]_vars PROVE ModeInv'
  OBVIOUS
<1>1. TypeOK /\ Counts /\ Ids /\ Alone /\ Justified
  BY DEF ModeInv
<1>2. TypeOK' /\ Counts'
  BY <1>1, TypesPreserved
<1>3. CASE \E o \in Operators : CommandStep(o)
  BY <1>1, <1>2, <1>3, CommandIds, CommandAlone, CommandJustified DEF ModeInv
<1>4. CASE WatchStep \/ Defer \/ RunKilled
  BY <1>1, <1>2, <1>4, WatchIds, WatchAlone, WatchJustified DEF ModeInv
<1>5. CASE (\E s \in Sessions : ServiceChanges(s) \/ AllocationEnds(s)) \/ TunnelDrops
  <2>1. UNCHANGED <<file, op, run, state, bad, unsaved, overlapped>> /\ ended \subseteq ended'
    BY <1>5 DEF ServiceChanges, AllocationEnds, TunnelDrops, EnvironmentKeeps, watchVars, history
  <2> QED
    BY <1>1, <1>2, <2>1 DEF ModeInv, Ids, Written, Alone, Justified, Earned, OnGpu
<1>6. CASE UNCHANGED vars
  BY <1>1, <1>2, <1>6 DEF vars, ModeInv, Ids, Written, Alone, Justified, Earned, OnGpu
<1> QED  BY <1>3, <1>4, <1>5, <1>6 DEF Next

\* The invariant holds in every state.
LEMMA ModeInvariant == Spec => []ModeInv
<1> QED  BY InitInv, NextInv, PTL DEF Spec

\* The file, the commands and the watchdog's counts stay in their domains, and a
\* start that fails puts back VM mode (cmd_start).
THEOREM GpuModeIsSafe == Spec => []GpuModeSafety
<1>1. ModeInv => GpuModeSafety
  BY DEF ModeInv, GpuModeSafety, RestoresVm, Alone
<1> QED  BY <1>1, ModeInvariant, PTL

\* The watchdog writes over nothing but what it judged, and only with reason
\* (run_once, _fail_back).
THEOREM FailbackHasReason == Spec => FailbackIsJustified
<1>1. ModeInv /\ [Next]_vars
      => (file' # file /\ run' # run =>
            /\ file.text = run.judged
            /\ run.judged.session \in ended \/ bad >= Failures \/ unsaved \/ overlapped)
  <2> SUFFICES ASSUME ModeInv, [Next]_vars, file' # file, run' # run
               PROVE  /\ file.text = run.judged
                      /\ run.judged.session \in ended \/ bad >= Failures \/ unsaved \/ overlapped
    OBVIOUS
  <2>1. TypeOK /\ Justified
    BY DEF ModeInv
  <2>2. WatchStep \/ Defer \/ RunKilled
    BY <2>1, CommandWrites
    DEF Next, vars, ServiceChanges, AllocationEnds, TunnelDrops, EnvironmentKeeps
  <2>3. file.text = run.judged /\ run.at = "failback"
    BY <2>1, <2>2, WatchWrites
  <2> QED  BY <2>1, <2>3 DEF Justified
<1> QED  BY <1>1, ModeInvariant, PTL DEF Spec, FailbackIsJustified

\* A command that runs alone never closes the tunnel under GPU mode (cmd_start,
\* cmd_stop).
LEMMA NeverCutOff == ModeInv /\ [Next]_vars => NeverCutsOffTheGpu
<1> SUFFICES ASSUME ModeInv, [Next]_vars, op' # op, tunnel' # tunnel
             PROVE  ~OnGpu \/ overlapped
  BY DEF NeverCutsOffTheGpu
<1>1. PICK o \in Operators : CommandStep(o)
  BY WatchWrites
  DEF Next, vars, ServiceChanges, AllocationEnds, TunnelDrops, EnvironmentKeeps, ModeInv
<1>2. op[o].at \in {"tunnel", "close", "stopped"}
  BY <1>1
  DEF CommandStep, Start, OpenTunnel, Probe, Switch, Verify, Restore, Close, Stop, StopCloses,
      StopGivesUp
<1> QED  BY <1>2 DEF ModeInv, Alone

\* The same for the mode without the questions.
THEOREM GpuIsNotCutOff == Spec => [][NeverCutsOffTheGpu]_vars
BY NeverCutOff, ModeInvariant, PTL DEF Spec

---------------------------------------------------------------------------
(* Questions: the invariant.                                               *)

AskerType ==
    [at : {"idle", "check", "parse", "remember", "waiting", "running", "over"},
     key : 0 .. MaxWrites, text : Texts, held : SUBSET Texts,
     outcome : {"none", "refused", "left", "failed", "vm", "gpu"}]

\* The line holds those who wait, each once; a stop's checks are over before it is.
InLine ==
    /\ line \in Seq(Askers) /\ IsInjective(line)
    /\ \A a \in Askers : asker[a].at = "waiting" <=> a \in Range(line)
    /\ \A o \in Operators : asker[o].at \in {"idle", "over"} \/ op[o].at = "stopped"
    /\ \A p \in Pages : asker[p].at \notin {"waiting", "running"}

\* What is cached, or about to be, under the stamp of the file is its text; and
\* whoever reads may take what is cached, or about to be, under the stamp it found.
Consistent ==
    /\ cache.key <= file.stamp /\ (cache.key = file.stamp => cache.text = file.text)
    /\ \A a \in Askers :
        /\ Reading(a) =>
            /\ file.text \in asker[a].held /\ asker[a].key <= file.stamp
            /\ asker[a].key = 0 => FirstText \in asker[a].held
            /\ cache.key = asker[a].key => cache.text \in asker[a].held
        /\ asker[a].at = "remember" =>
            /\ asker[a].text \in asker[a].held
            /\ asker[a].key = file.stamp => asker[a].text = file.text
            /\ \A b \in Askers : Reading(b) /\ asker[b].key = asker[a].key
                                 => asker[a].text \in asker[b].held
        /\ (asker[a].at \in {"waiting", "running"} \/ (asker[a].at = "over" /\ a \in Pages))
           => asker[a].text \in asker[a].held

AskInv ==
    /\ cache \in [key : 0 .. MaxWrites, text : Texts]
    /\ asker \in [Askers -> AskerType]
    /\ InLine /\ Consistent

\* What is done with the mode that was read.
LEMMA UsesMode ==
    ASSUME NEW a \in Askers, asker \in [Askers -> AskerType], NEW t \in Texts, Uses(a, t)
    PROVE  /\ asker' \in [Askers -> AskerType]
           /\ \A b \in Askers : b # a => asker'[b] = asker[b]
           /\ asker'[a].at \in {"waiting", "over"} /\ (asker'[a].at = "over" => line' = line)
           /\ asker'[a].at = "waiting" => a \notin Pages
           /\ asker'[a].at = "waiting" => line' = Append(line, a)
           /\ asker'[a].at = "waiting" \/ (asker'[a].at = "over" /\ a \in Pages)
              => asker'[a].text = t /\ asker'[a].held = asker[a].held
<1>1. FirstText \in Texts /\ 0 \in 0 .. MaxWrites
  BY ConstantTypes, GpuModeAssumption
<1>2. CASE a \in Pages
  <2>1. asker' = [asker EXCEPT ![a].at = "over", ![a].text = t, ![a].outcome = t.mode] /\ line' = line
    BY <1>2 DEF Uses
  <2>2. t.mode \in {"vm", "gpu"}
    BY DEF Texts
  <2>3. asker' \in [Askers -> AskerType]
    <3> DEFINE r == [asker[a] EXCEPT !.at = "over", !.text = t, !.outcome = t.mode]
    <3>1. r \in AskerType
      BY <2>2 DEF AskerType
    <3>2. asker' = [asker EXCEPT ![a] = r]
      BY <2>1
    <3> HIDE DEF r
    <3> QED  BY <3>1, <3>2
  <2>4. /\ asker'[a].at = "over" /\ asker'[a].text = t /\ asker'[a].held = asker[a].held
        /\ \A b \in Askers : b # a => asker'[b] = asker[b]
    BY <2>1 DEF AskerType
  <2> QED  BY <1>2, <2>1, <2>3, <2>4
<1>3. CASE a \notin Pages /\ line' = Append(line, a) /\ asker' = [asker EXCEPT ![a].at = "waiting", ![a].text = t]
  <2>1. asker' \in [Askers -> AskerType]
    BY <1>3 DEF AskerType
  <2>2. /\ asker'[a].at = "waiting" /\ asker'[a].text = t /\ asker'[a].held = asker[a].held
        /\ \A b \in Askers : b # a => asker'[b] = asker[b]
    BY <1>3 DEF AskerType
  <2> QED  BY <1>3, <2>1, <2>2
<1>4. CASE a \notin Pages /\ Over(a, "refused") /\ UNCHANGED line
  <2>1. asker' = [asker EXCEPT ![a] = [NoAsker EXCEPT !.at = "over", !.outcome = "refused"]]
    BY <1>4 DEF Over
  <2>2. [NoAsker EXCEPT !.at = "over", !.outcome = "refused"] \in AskerType
    BY <1>1 DEF NoAsker, AskerType
  <2>3. [NoAsker EXCEPT !.at = "over", !.outcome = "refused"].at = "over"
    BY DEF NoAsker
  <2>4. asker'[a].at = "over" /\ \A b \in Askers : b # a => asker'[b] = asker[b]
    BY <2>1, <2>3
  <2> QED  BY <1>4, <2>1, <2>2, <2>4
<1> QED  BY <1>2, <1>3, <1>4 DEF Uses

\* One asker's step leaves the others alone.
LEMMA AnswerMoves ==
    ASSUME TypeOK, cache \in [key : 0 .. MaxWrites, text : Texts], asker \in [Askers -> AskerType],
           NEW a \in Askers,
           Stat(a) \/ Check(a) \/ Parse(a) \/ Remember(a) \/ Begin(a) \/ Leave(a) \/ Answer(a)
    PROVE  /\ cache' \in [key : 0 .. MaxWrites, text : Texts]
           /\ asker' \in [Askers -> AskerType]
           /\ \A b \in Askers : b # a => asker'[b] = asker[b]
<1>1. /\ FirstText \in Texts /\ 0 \in 0 .. MaxWrites /\ file.text \in Texts /\ file.stamp \in 0 .. MaxWrites
      /\ asker[a].text \in Texts /\ asker[a].key \in 0 .. MaxWrites /\ cache.text \in Texts
  BY ConstantTypes, GpuModeAssumption, Typed DEF AskerType
<1>2. ASSUME NEW x \in {"left", "failed", "vm", "gpu"}, Over(a, x)
      PROVE  asker' \in [Askers -> AskerType] /\ \A b \in Askers : b # a => asker'[b] = asker[b]
  <2>1. [NoAsker EXCEPT !.at = "over", !.outcome = x] \in AskerType
    BY <1>1 DEF NoAsker, AskerType
  <2> QED  BY <1>2, <2>1 DEF Over
<1>3. CASE Stat(a)
  <2>1. [NoAsker EXCEPT !.at = "check", !.key = file.stamp, !.held = {file.text}] \in AskerType
    BY <1>1 DEF NoAsker, AskerType
  <2> QED  BY <1>3, <2>1 DEF Stat
<1>4. CASE Check(a)
  <2>1. CASE Uses(a, cache.text)  BY <1>1, <1>4, <2>1, UsesMode DEF Check
  <2>2. CASE asker' = [asker EXCEPT ![a].at = "parse"]  BY <1>4, <2>2 DEF Check, AskerType
  <2> QED  BY <1>4, <2>1, <2>2 DEF Check
<1>5. CASE Parse(a)
  <2>1. PICK t \in Texts : asker' = [asker EXCEPT ![a].at = "remember", ![a].text = t]
    BY <1>1, <1>5 DEF Parse
  <2> DEFINE r == [asker[a] EXCEPT !.at = "remember", !.text = t]
  <2>2. r \in AskerType
    BY DEF AskerType
  <2>3. asker' = [asker EXCEPT ![a] = r] /\ cache' = cache
    BY <1>5, <2>1 DEF Parse
  <2> HIDE DEF r
  <2> QED  BY <2>2, <2>3
<1>6. CASE Remember(a)
  <2>1. cache' = [key |-> asker[a].key, text |-> asker[a].text] /\ Uses(a, asker[a].text)
    BY <1>6 DEF Remember
  <2> QED  BY <1>1, <2>1, UsesMode
<1>7. CASE Begin(a)
  <2> DEFINE r == [asker[a] EXCEPT !.at = "running"]
  <2>2. r \in AskerType
    BY DEF AskerType
  <2>3. asker' = [asker EXCEPT ![a] = r] /\ cache' = cache
    BY <1>7 DEF Begin
  <2> HIDE DEF r
  <2> QED  BY <2>2, <2>3
<1>8. CASE Leave(a)  BY <1>2, <1>8 DEF Leave
<1>9. CASE Answer(a)  BY <1>2, <1>9 DEF Answer
<1> QED  BY <1>3, <1>4, <1>5, <1>6, <1>7, <1>8, <1>9

LEMMA AnswerInLine ==
    ASSUME TypeOK, AskInv, NEW a \in Askers,
           Stat(a) \/ Check(a) \/ Parse(a) \/ Remember(a) \/ Begin(a) \/ Leave(a) \/ Answer(a),
           UNCHANGED op
    PROVE  InLine'
<1>1. /\ cache \in [key : 0 .. MaxWrites, text : Texts] /\ asker \in [Askers -> AskerType]
      /\ line \in Seq(Askers) /\ IsInjective(line)
      /\ \A b \in Askers : asker[b].at = "waiting" <=> b \in Range(line)
      /\ \A o \in Operators : asker[o].at \in {"idle", "over"} \/ op[o].at = "stopped"
      /\ cache.text \in Texts /\ asker[a].text \in Texts
  BY DEF AskInv, InLine, AskerType
<1>2. \A b \in Askers : b # a => asker'[b] = asker[b]
  BY <1>1, AnswerMoves
<1>3. a \in Operators => asker'[a].at = "over" \/ op[a].at = "stopped"
  <2>1. CASE asker[a].at \in {"idle", "over"}
    <3>1. \/ Stat(a) \/ (Begin(a) /\ asker[a].at = "waiting")
      <4>1. Begin(a) => a \in Range(line)
        BY <1>1, TailRange DEF Begin
      <4> QED  BY <1>1, <2>1, <4>1 DEF Check, Parse, Remember, Leave, Answer
    <3> QED  BY <2>1, <3>1 DEF Stat
  <2>2. CASE ~(asker[a].at \in {"idle", "over"})
    BY <1>1, <2>2
  <2> QED  BY <2>1, <2>2
<1>4. \A o \in Operators : asker'[o].at \in {"idle", "over"} \/ op'[o].at = "stopped"
  BY <1>1, <1>2, <1>3 DEF Askers
<1>a. ASSUME a \in Pages => asker'[a].at \notin {"waiting", "running"}
      PROVE  \A p \in Pages : asker'[p].at \notin {"waiting", "running"}
  BY <1>1, <1>2, <1>a DEF AskInv, InLine, Askers
<1>5. CASE /\ line' = line /\ asker[a].at # "waiting" /\ asker'[a].at # "waiting"
           /\ asker'[a].at # "running"
  BY <1>1, <1>2, <1>4, <1>5, <1>a DEF InLine
<1>6. CASE /\ line' = Append(line, a) /\ asker[a].at # "waiting" /\ asker'[a].at = "waiting"
           /\ a \notin Pages
  <2>1. a \notin Range(line)
    BY <1>1, <1>6
  <2>2. line' \in Seq(Askers) /\ Range(line') = Range(line) \cup {a} /\ IsInjective(line')
    BY <1>1, <1>6, <2>1, AppendRange
  <2> QED  BY <1>1, <1>2, <1>4, <1>6, <1>a, <2>2 DEF InLine
<1>7. CASE /\ line' \in Seq(Askers) /\ Range(line') = Range(line) \ {a} /\ IsInjective(line')
           /\ asker'[a].at # "waiting" /\ (asker'[a].at = "running" => a \notin Pages)
  BY <1>1, <1>2, <1>4, <1>7, <1>a DEF InLine
<1>8. CASE Stat(a)
  <2>1. asker'[a].at = "check"
    BY <1>1, <1>8 DEF Stat, NoAsker
  <2> QED  BY <1>5, <1>8, <2>1 DEF Stat
<1>9. CASE Check(a)
  <2>1. CASE Uses(a, cache.text)
    BY <1>1, <1>5, <1>6, <1>9, <2>1, UsesMode DEF Check
  <2>2. CASE asker' = [asker EXCEPT ![a].at = "parse"] /\ line' = line
    BY <1>1, <1>5, <1>9, <2>2 DEF Check, AskerType
  <2> QED  BY <1>9, <2>1, <2>2 DEF Check
<1>10. CASE Parse(a)
  BY <1>1, <1>5, <1>10 DEF Parse, AskerType
<1>11. CASE Remember(a)
  BY <1>1, <1>5, <1>6, <1>11, UsesMode DEF Remember
<1>12. CASE Begin(a)
  <2>1. line # <<>> /\ a = Head(line) /\ line' = Tail(line)
    BY <1>12 DEF Begin
  <2>2. line' \in Seq(Askers) /\ Range(line') = Range(line) \ {a} /\ IsInjective(line')
    BY <1>1, <2>1, TailRange
  <2>3. asker'[a].at = "running"
    BY <1>1, <1>12 DEF Begin, AskerType
  <2>4. a \notin Pages
    BY <1>1, <2>1, TailRange DEF AskInv, InLine
  <2> QED  BY <1>7, <2>2, <2>3, <2>4
<1>13. ASSUME NEW x, Over(a, x) PROVE asker'[a].at = "over"
  BY <1>1, <1>13 DEF Over, NoAsker
<1>14. CASE Leave(a)
  <2>1. PICK i \in DOMAIN line : line[i] = a /\ line' = RemoveAt(line, i)
    BY <1>14 DEF Leave
  <2>2. i \in 1..Len(line)
    BY <1>1, <2>1
  <2>3. line' \in Seq(Askers) /\ Range(line') = Range(line) \ {a} /\ IsInjective(line')
    BY <1>1, <2>1, <2>2, RemoveAtRange
  <2> QED  BY <1>7, <1>13, <1>14, <2>3 DEF Leave
<1>15. CASE Answer(a)
  BY <1>5, <1>13, <1>15 DEF Answer
<1> QED  BY <1>8, <1>9, <1>10, <1>11, <1>12, <1>14, <1>15

\* Before the first write the file says what a backend without a file takes it to say.
LEMMA FirstIsFirst == ASSUME TypeOK, Ids, file.stamp = 0 PROVE file.text = FirstText
<1>1. file.text.id \in Nat
  BY Typed, GpuModeAssumption DEF Texts
<1>2. file.text.id <= 0 /\ FirstText.id = 0
  BY ConstantTypes DEF Ids, Written
<1> QED  BY <1>1, <1>2 DEF Ids, Written

LEMMA AnswerConsistent ==
    ASSUME TypeOK, Ids, AskInv, NEW a \in Askers,
           Stat(a) \/ Check(a) \/ Parse(a) \/ Remember(a) \/ Begin(a) \/ Leave(a) \/ Answer(a),
           UNCHANGED file
    PROVE  Consistent'
<1>1. /\ cache \in [key : 0 .. MaxWrites, text : Texts] /\ asker \in [Askers -> AskerType]
      /\ file.stamp \in Nat /\ cache.key \in Nat /\ cache.text \in Texts /\ asker[a].text \in Texts
      /\ line \in Seq(Askers) /\ IsInjective(line)
      /\ \A b \in Askers : asker[b].at = "waiting" <=> b \in Range(line)
      /\ Consistent
  BY Typed, GpuModeAssumption DEF AskInv, InLine, AskerType
<1>2. \A b \in Askers : b # a => asker'[b] = asker[b]
  BY <1>1, AnswerMoves
<1>3. CASE UNCHANGED cache /\ asker'[a].at \in {"idle", "waiting", "running", "over"}
           /\ (asker'[a].at \in {"waiting", "running"} \/ (asker'[a].at = "over" /\ a \in Pages)
               => asker'[a].text \in asker'[a].held)
  BY <1>1, <1>2, <1>3 DEF Consistent, Reading
<1>4. ASSUME NEW x, Over(a, x) PROVE asker'[a].at = "over" /\ asker'[a].text = FirstText
  BY <1>1, <1>4 DEF Over, NoAsker
<1>5. CASE Stat(a)
  <2>1. /\ asker'[a].at = "check" /\ asker'[a].key = file.stamp /\ asker'[a].held = {file.text}
        /\ UNCHANGED cache
    BY <1>1, <1>5 DEF Stat, NoAsker
  <2>2. file.stamp = 0 => FirstText \in asker'[a].held
    BY <2>1, FirstIsFirst
  <2>3. \A b \in Askers : asker[b].at = "remember" /\ asker[b].key = file.stamp
                          => asker[b].text \in asker'[a].held
    BY <1>1, <2>1 DEF Consistent
  <2>4. cache.key = file.stamp => cache.text \in asker'[a].held
    BY <1>1, <2>1 DEF Consistent
  <2> QED  BY <1>1, <1>2, <2>1, <2>2, <2>3, <2>4 DEF Consistent, Reading
<1>6. CASE Check(a)
  <2>0. asker[a].at = "check" /\ UNCHANGED cache
    BY <1>6 DEF Check
  <2>1. CASE cache.key = asker[a].key /\ Uses(a, cache.text)
    <3>1. cache.text \in asker[a].held
      BY <1>1, <2>0, <2>1 DEF Consistent, Reading
    <3> QED  BY <1>1, <1>3, <2>0, <2>1, <3>1, UsesMode
  <2>2. CASE asker' = [asker EXCEPT ![a].at = "parse"]
    <3>1. /\ asker'[a].at = "parse" /\ asker'[a].key = asker[a].key /\ asker'[a].held = asker[a].held
      BY <1>1, <2>2 DEF AskerType
    <3> QED  BY <1>1, <1>2, <2>0, <3>1 DEF Consistent, Reading
  <2> QED  BY <1>6, <2>1, <2>2 DEF Check
<1>7. CASE Parse(a)
  <2>1. /\ asker[a].at = "parse" /\ asker'[a].at = "remember" /\ asker'[a].key = asker[a].key
        /\ asker'[a].held = asker[a].held /\ UNCHANGED cache
        /\ asker'[a].text = IF asker[a].key = 0 THEN FirstText ELSE file.text
    BY <1>1, <1>7 DEF Parse, AskerType
  <2>2. /\ asker'[a].text \in asker[a].held
        /\ \A b \in Askers : Reading(b) /\ asker[b].key = asker[a].key => asker'[a].text \in asker[b].held
    BY <1>1, <2>1 DEF Consistent, Reading
  <2>3. asker[a].key = file.stamp => asker'[a].text = file.text
    BY <2>1, FirstIsFirst
  <2>4. /\ file.text \in asker'[a].held /\ asker'[a].key <= file.stamp
        /\ asker'[a].key = 0 => FirstText \in asker'[a].held
        /\ cache.key = asker'[a].key => cache.text \in asker'[a].held
    BY <1>1, <2>1 DEF Consistent, Reading
  <2>5. \A b \in Askers \ {a} : asker[b].at = "remember" /\ asker[b].key = asker[a].key
                               => asker[b].text \in asker[a].held
    BY <1>1, <2>1 DEF Consistent, Reading
  <2>6. ASSUME NEW b \in Askers, b # a
        PROVE  /\ Reading(b)' <=> Reading(b)
               /\ asker'[b] = asker[b]
    BY <1>2, <2>6 DEF Reading
  <2>7. Reading(a) /\ Reading(a)'
    BY <2>1 DEF Reading
  <2>8. UNCHANGED <<file, cache>>
    BY <2>1
  <2>9. /\ cache'.key <= file'.stamp /\ (cache'.key = file'.stamp => cache'.text = file'.text)
        /\ \A b \in Askers :
            /\ Reading(b)' =>
                /\ file'.text \in asker'[b].held /\ asker'[b].key <= file'.stamp
                /\ asker'[b].key = 0 => FirstText \in asker'[b].held
                /\ cache'.key = asker'[b].key => cache'.text \in asker'[b].held
            /\ (asker'[b].at \in {"waiting", "running"} \/ (asker'[b].at = "over" /\ b \in Pages))
               => asker'[b].text \in asker'[b].held
    BY <1>1, <2>1, <2>4, <2>6, <2>8 DEF Consistent
  <2>10. \A b \in Askers : asker'[b].at = "remember" =>
            /\ asker'[b].text \in asker'[b].held
            /\ asker'[b].key = file'.stamp => asker'[b].text = file'.text
            /\ \A c \in Askers : Reading(c)' /\ asker'[c].key = asker'[b].key
                                 => asker'[b].text \in asker'[c].held
    BY <1>1, <2>1, <2>2, <2>3, <2>5, <2>6, <2>7, <2>8 DEF Consistent
  <2> QED  BY <2>9, <2>10 DEF Consistent
<1>8. CASE Remember(a)
  <2>1. /\ asker[a].at = "remember" /\ cache'.key = asker[a].key /\ cache'.text = asker[a].text
        /\ Uses(a, asker[a].text)
    BY <1>8 DEF Remember
  <2>2. /\ asker'[a].at \in {"waiting", "over"}
        /\ asker'[a].at = "waiting" \/ (asker'[a].at = "over" /\ a \in Pages)
           => asker'[a].text = asker[a].text /\ asker'[a].held = asker[a].held
    BY <1>1, <2>1, UsesMode
  <2>3. /\ asker[a].text \in asker[a].held /\ asker[a].key <= file.stamp
        /\ asker[a].key = file.stamp => asker[a].text = file.text
        /\ \A b \in Askers : Reading(b) /\ asker[b].key = asker[a].key => asker[a].text \in asker[b].held
    BY <1>1, <2>1 DEF Consistent, Reading
  <2> QED  BY <1>1, <1>2, <2>1, <2>2, <2>3 DEF Consistent, Reading
<1>9. CASE Begin(a)
  <2>1. asker[a].at = "waiting"
    BY <1>1, <1>9, TailRange DEF Begin
  <2>2. /\ asker'[a].at = "running" /\ asker'[a].text = asker[a].text /\ asker'[a].held = asker[a].held
        /\ UNCHANGED cache
    BY <1>1, <1>9 DEF Begin, AskerType
  <2> QED  BY <1>1, <1>3, <2>1, <2>2 DEF Consistent
<1>10. CASE Leave(a) \/ Answer(a)
  <2>1. asker[a].at \in {"waiting", "running"} /\ UNCHANGED cache
    BY <1>10 DEF Leave, Answer
  <2>2. PICK x : Over(a, x)
    BY <1>10 DEF Leave, Answer
  <2>3. a \notin Pages
    BY <2>1 DEF AskInv, InLine
  <2> QED  BY <1>1, <1>3, <1>4, <2>1, <2>2, <2>3
<1> QED  BY <1>5, <1>6, <1>7, <1>8, <1>9, <1>10

\* A stop that is over, or out of the backend's reach, starts nothing else.
LEMMA StopEnds ==
    ASSUME TypeOK, [Next]_vars, NEW o \in Operators, op[o].at = "stopped"
    PROVE  op'[o].at \in {"stopped", "idle"}
<1>1. ASSUME CommandStep(o) PROVE op'[o].at = "idle"
  <2>1. StopCloses(o) \/ StopGivesUp(o)
    BY <1>1 DEF CommandStep, Start, OpenTunnel, Probe, Switch, Verify, Restore, Close, Stop
  <2>2. op' = [op EXCEPT ![o] = NoOp]
    BY <2>1 DEF StopCloses, StopGivesUp, Ends
  <2> QED  BY <2>2, Typed, ConstantTypes
<1>2. ASSUME NEW p \in Operators, p # o, CommandStep(p) PROVE op'[o] = op[o]
  BY <1>2, CommandWrites
<1>3. ASSUME ~\E p \in Operators : CommandStep(p) PROVE op' = op
  BY <1>3, WatchWrites DEF Next, vars, ServiceChanges, AllocationEnds, TunnelDrops, EnvironmentKeeps
<1> QED  BY <1>1, <1>2, <1>3

LEMMA FileMoves ==
    ASSUME TypeOK, [Next]_vars
    PROVE  file' = file \/ file'.stamp = file.stamp + 1
BY CommandWrites, WatchWrites
DEF Next, vars, ServiceChanges, AllocationEnds, TunnelDrops, EnvironmentKeeps

LEMMA ModeMovesAsk ==
    ASSUME TypeOK, TypeOK', AskInv, [Next]_vars, Noticed, UNCHANGED <<cache, line>>,
           \A o \in Operators : op[o].at = "stopped" /\ op'[o].at = "idle" => asker[o].at \in {"idle", "over"}
    PROVE  AskInv'
<1>1. /\ cache \in [key : 0 .. MaxWrites, text : Texts] /\ asker \in [Askers -> AskerType]
      /\ InLine /\ Consistent /\ file.stamp \in Nat /\ cache.key \in Nat
      /\ \A a \in Askers : asker[a].key \in Nat
  BY Typed, GpuModeAssumption DEF AskInv, AskerType
<1>2. file'.text \in Texts /\ FirstText \in Texts /\ 0 \in 0 .. MaxWrites
  BY ConstantTypes, GpuModeAssumption DEF TypeOK
<1>3. NoAsker \in AskerType /\ NoAsker.at = "idle"
  BY <1>2 DEF NoAsker, AskerType
<1>4. asker' \in [Askers -> AskerType]
  <2>1. ASSUME NEW a \in Askers PROVE [asker[a] EXCEPT !.held = @ \cup {file'.text}] \in AskerType
    BY <1>1, <1>2 DEF AskerType
  <2> QED  BY <1>1, <1>3, <2>1 DEF Noticed
<1>5. ASSUME NEW a \in Askers
      PROVE  \/ /\ asker'[a] = NoAsker /\ asker[a].at \in {"idle", "over"}
                /\ a \in Operators
             \/ /\ asker'[a].at = asker[a].at /\ asker'[a].key = asker[a].key /\ asker'[a].text = asker[a].text
                /\ asker'[a].held = IF Reading(a) THEN asker[a].held \cup {file'.text} ELSE asker[a].held
  <2>1. CASE a \in Operators /\ op[a].at # "idle" /\ op'[a].at = "idle"
    <3>1. asker'[a] = NoAsker
      BY <2>1 DEF Noticed
    <3>2. asker[a].at \in {"idle", "over"}
      BY <1>1, <2>1 DEF InLine
    <3> QED  BY <2>1, <3>1, <3>2
  <2>2. CASE ~(a \in Operators /\ op[a].at # "idle" /\ op'[a].at = "idle")
    <3>1. asker'[a] = IF Reading(a) THEN [asker[a] EXCEPT !.held = @ \cup {file'.text}] ELSE asker[a]
      BY <2>2 DEF Noticed
    <3>2. asker[a] \in AskerType
      BY <1>1
    <3> QED  BY <3>1, <3>2 DEF AskerType
  <2> QED  BY <2>1, <2>2
<1>6. InLine'
  <2>1. \A a \in Askers : asker'[a].at = asker[a].at \/ (asker'[a].at = "idle" /\ asker[a].at \in {"idle", "over"})
    BY <1>3, <1>5
  <2>2. ASSUME NEW o \in Operators PROVE asker'[o].at \in {"idle", "over"} \/ op'[o].at = "stopped"
    <3>1. CASE asker[o].at \in {"idle", "over"}
      BY <2>1, <3>1 DEF Askers
    <3>2. CASE asker[o].at \notin {"idle", "over"}
      <4>1. op[o].at = "stopped"
        BY <1>1, <3>2 DEF InLine
      <4> QED  BY <3>2, <4>1, StopEnds
    <3> QED  BY <3>1, <3>2
  <2>3. \A p \in Pages : asker'[p].at \notin {"waiting", "running"}
    BY <1>1, <2>1 DEF InLine, Askers
  <2>4. \A a \in Askers : asker'[a].at = "waiting" <=> asker[a].at = "waiting"
    BY <2>1
  <2> QED  BY <1>1, <2>2, <2>3, <2>4 DEF InLine
<1>7. Consistent'
  <2>1. \A a \in Askers :
         /\ Reading(a)' => /\ Reading(a) /\ asker'[a].key = asker[a].key
                          /\ asker'[a].held = asker[a].held \cup {file'.text}
         /\ asker'[a].at # "idle" => /\ asker'[a].at = asker[a].at /\ asker'[a].key = asker[a].key
                                     /\ asker'[a].text = asker[a].text /\ asker[a].held \subseteq asker'[a].held
    BY <1>3, <1>5 DEF Reading
  <2>2. file' = file \/ file'.stamp = file.stamp + 1
    BY FileMoves
  <2>3. \A n \in Nat : n <= file.stamp => n <= file'.stamp /\ (n = file'.stamp => file' = file)
    BY <1>1, <2>2
  <2>4. cache'.key <= file'.stamp /\ (cache'.key = file'.stamp => cache'.text = file'.text)
    BY <1>1, <2>3 DEF Consistent
  <2>5. ASSUME NEW a \in Askers, Reading(a)'
        PROVE  /\ file'.text \in asker'[a].held /\ asker'[a].key <= file'.stamp
               /\ asker'[a].key = 0 => FirstText \in asker'[a].held
               /\ cache'.key = asker'[a].key => cache'.text \in asker'[a].held
    BY <1>1, <2>1, <2>3, <2>5 DEF Consistent
  <2>6. ASSUME NEW a \in Askers, asker'[a].at = "remember"
        PROVE  /\ asker'[a].text \in asker'[a].held
               /\ asker'[a].key = file'.stamp => asker'[a].text = file'.text
               /\ \A b \in Askers : Reading(b)' /\ asker'[b].key = asker'[a].key
                                    => asker'[a].text \in asker'[b].held
    <3>1. /\ asker[a].at = "remember" /\ asker'[a].key = asker[a].key /\ asker'[a].text = asker[a].text
          /\ asker[a].held \subseteq asker'[a].held /\ Reading(a)
      BY <2>1, <2>6 DEF Reading
    <3>2. asker'[a].key = file'.stamp => asker'[a].text = file'.text
      BY <1>1, <2>3, <3>1 DEF Consistent
    <3> QED  BY <1>1, <2>1, <3>1, <3>2 DEF Consistent
  <2>7. ASSUME NEW a \in Askers, asker'[a].at \in {"waiting", "running"} \/ (asker'[a].at = "over" /\ a \in Pages)
        PROVE  asker'[a].text \in asker'[a].held
    BY <1>1, <2>1, <2>7 DEF Consistent
  <2> QED  BY <2>4, <2>5, <2>6, <2>7 DEF Consistent
<1> QED  BY <1>1, <1>4, <1>6, <1>7 DEF AskInv

LEMMA AskInit == ModeInit => ModeInv /\ AskInv
<1> SUFFICES ASSUME ModeInit PROVE ModeInv /\ AskInv
  OBVIOUS
<1>1. ModeInv
  BY InitInv DEF ModeInit
<1>2. /\ cache = [key |-> 0, text |-> FirstText] /\ asker = [a \in Askers |-> NoAsker] /\ line = <<>>
      /\ file = [text |-> FirstText, stamp |-> 0]
  BY DEF ModeInit, AnsweringInit, Init
<1>3. FirstText \in Texts /\ 0 \in 0 .. MaxWrites /\ 0 <= 0
  BY ConstantTypes, GpuModeAssumption
<1>4. NoAsker \in AskerType /\ NoAsker.at = "idle"
  BY <1>3 DEF NoAsker, AskerType
<1>5. InLine
  <2>1. line \in Seq(Askers) /\ IsInjective(line) /\ Range(line) = {}
    BY <1>2 DEF IsInjective, Range
  <2> QED  BY <1>2, <1>4, <2>1 DEF InLine, Askers
<1>6. Consistent
  BY <1>2, <1>3, <1>4 DEF Consistent, Reading
<1> QED  BY <1>1, <1>2, <1>3, <1>4, <1>5, <1>6 DEF AskInv

LEMMA AskNext == ModeInv /\ AskInv /\ [ModeNext]_modeVars => ModeInv' /\ AskInv'
<1> SUFFICES ASSUME ModeInv, AskInv, [ModeNext]_modeVars PROVE ModeInv' /\ AskInv'
  OBVIOUS
<1>1. [Next]_vars
  BY DEF ModeNext, modeVars
<1>2. ModeInv' /\ TypeOK /\ TypeOK' /\ Ids
  BY <1>1, NextInv DEF ModeInv
<1>3. CASE /\ Next /\ Noticed /\ UNCHANGED <<cache, line>>
           /\ \A o \in Operators : op[o].at = "stopped" /\ op'[o].at = "idle" => asker[o].at \in {"idle", "over"}
  BY <1>1, <1>2, <1>3, ModeMovesAsk
<1>4. CASE AnswerStep /\ UNCHANGED vars
  <2>1. PICK a \in Askers :
          Stat(a) \/ Check(a) \/ Parse(a) \/ Remember(a) \/ Begin(a) \/ Leave(a) \/ Answer(a)
    BY <1>4 DEF AnswerStep
  <2>2. UNCHANGED file /\ UNCHANGED op
    BY <1>4 DEF vars
  <2>3. cache \in [key : 0 .. MaxWrites, text : Texts] /\ asker \in [Askers -> AskerType]
    BY DEF AskInv
  <2>4. cache' \in [key : 0 .. MaxWrites, text : Texts] /\ asker' \in [Askers -> AskerType]
    BY <1>2, <2>1, <2>3, AnswerMoves
  <2>5. InLine' /\ Consistent'
    BY <1>2, <2>1, <2>2, AnswerInLine, AnswerConsistent
  <2> QED  BY <1>2, <2>4, <2>5 DEF AskInv
<1>5. CASE UNCHANGED modeVars
  BY <1>2, <1>5 DEF modeVars, vars, answeringVars, AskInv, InLine, Consistent, Reading
<1> QED  BY <1>3, <1>4, <1>5 DEF ModeNext

\* Whoever asks reads a mode that was in force while it read, and the cache never
\* takes a text for a write it does not come from (current_mode).
THEOREM ModeIsSafe == ModeSpec => []ModeSafety
<1>1. ModeInv /\ AskInv => ModeSafety
  <2> SUFFICES ASSUME ModeInv, AskInv PROVE ModeSafety
    OBVIOUS
  <2>1. GpuModeSafety
    BY DEF ModeInv, GpuModeSafety, RestoresVm, Alone
  <2>2. AnsweringTypeOK
    BY DEF AskInv, AskerType, InLine, AnsweringTypeOK, Range, ToSet
  <2>3. ReadsWhatWasInForce
    BY DEF AskInv, Consistent, ReadsWhatWasInForce
  <2> QED  BY <2>1, <2>2, <2>3 DEF ModeSafety
<1> QED  BY <1>1, AskInit, AskNext, PTL DEF ModeSpec

---------------------------------------------------------------------------
(* A stop drops nothing: the invariant.                                    *)

OnVm(text) == text.mode = "vm"

\* One coroutine reads the mode at a time, one generation runs at a time, and a
\* check belongs to a stop that is under way.
OneAtATime ==
    /\ \A a, b \in Askers : OnLoop(a) /\ OnLoop(b) /\ Reading(a) /\ Reading(b) => a = b
    /\ \A a, b \in Generating : a = b
    /\ \A o \in Operators : asker[o].at # "idle" => op[o].at = "stopped"

\* Once a stop's check has begun, whoever reads will find the VM; and so have those
\* who came after it.
Behind(o) ==
    \A i, j \in DOMAIN line : line[i] = o /\ i < j => OnVm(asker[line[j]].text)
Settled(o) ==
    /\ \A a \in Askers : OnLoop(a) /\ Reading(a) => \A t \in asker[a].held : OnVm(t)
    /\ asker[o].at = "waiting" => Behind(o)
    /\ asker[o].at \in {"running", "over"} => \A a \in Askers : asker[a].at = "waiting" => OnVm(asker[a].text)
    /\ asker[o].at = "over" => \A a \in Generating : OnVm(asker[a].text)
DropInv ==
    /\ OneAtATime
    /\ ~overlapped => \A o \in Operators :
         asker[o].at \in {"check", "parse", "remember", "waiting", "running"}
         \/ (asker[o].at = "over" /\ asker[o].outcome = "vm") => Settled(o)

\* What is left of the line keeps who is behind whom.
LEMMA BehindKept ==
    ASSUME NEW o \in Operators, Behind(o), InOrderOf(line', line),
           \A i \in DOMAIN line' : asker'[line'[i]].text = asker[line'[i]].text
    PROVE  Behind(o)'
BY DEF Behind, InOrderOf

LEMMA OneStep ==
    ASSUME TypeOK, AskInv, OneAtATime, NEW a \in Askers,
           Stat(a) \/ Check(a) \/ Parse(a) \/ Remember(a) \/ Begin(a) \/ Leave(a) \/ Answer(a),
           UNCHANGED vars
    PROVE  OneAtATime'
<1>1. /\ cache \in [key : 0 .. MaxWrites, text : Texts] /\ asker \in [Askers -> AskerType]
      /\ line \in Seq(Askers) /\ IsInjective(line)
      /\ \A b \in Askers : asker[b].at = "waiting" <=> b \in Range(line)
      /\ asker[a].text \in Texts /\ cache.text \in Texts
  BY DEF AskInv, InLine, AskerType
<1>2. \A b \in Askers : b # a => asker'[b] = asker[b]
  BY <1>1, AnswerMoves
<1>3. \/ Reading(a)' => Reading(a)
      \/ OnLoop(a) => ~\E b \in Askers \ {a} : OnLoop(b) /\ Reading(b)
  <2>1. CASE Stat(a)  BY <2>1 DEF Stat
  <2>2. CASE Check(a) \/ Parse(a) \/ Remember(a)
    BY <2>2 DEF Check, Parse, Remember, Reading
  <2>3. CASE Begin(a)
    BY <1>1, <2>3 DEF Begin, Reading, AskerType
  <2>4. ASSUME NEW x, Over(a, x) PROVE ~Reading(a)'
    BY <1>1, <2>4 DEF Over, NoAsker, Reading
  <2>5. CASE Leave(a) \/ Answer(a)
    BY <2>4, <2>5 DEF Leave, Answer
  <2> QED  BY <2>1, <2>2, <2>3, <2>5
<1>4. \A b, c \in Askers : (OnLoop(b) /\ OnLoop(c) /\ Reading(b) /\ Reading(c))' => b = c
  BY <1>2, <1>3 DEF OneAtATime, Reading, OnLoop
<1>5. asker'[a].at = "running" => Generating = {}
  <2>1. CASE Check(a)
    BY <1>1, <2>1, UsesMode DEF Check, AskerType
  <2>2. CASE Remember(a)
    BY <1>1, <2>2, UsesMode DEF Remember
  <2>3. ASSUME NEW x, Over(a, x) PROVE asker'[a].at = "over"
    BY <1>1, <2>3 DEF Over, NoAsker
  <2>4. CASE Stat(a)  BY <1>1, <2>4 DEF Stat, NoAsker
  <2>5. CASE Parse(a)  BY <1>1, <2>5 DEF Parse, AskerType
  <2>6. CASE Begin(a)  BY <2>6 DEF Begin
  <2>7. CASE Leave(a) \/ Answer(a)
    BY <2>3, <2>7 DEF Leave, Answer
  <2> QED  BY <2>1, <2>2, <2>4, <2>5, <2>6, <2>7
<1>6. \A b, c \in Generating' : b = c
  BY <1>2, <1>5 DEF OneAtATime, Generating
<1>7. \A o \in Operators : asker'[o].at # "idle" => op'[o].at = "stopped"
  <2>1. a \in Operators => op[a].at = "stopped"
    <3>1. CASE asker[a].at = "idle"
      <4>1. Begin(a) => asker[a].at = "waiting"
        BY <1>1, TailRange DEF Begin
      <4> QED  BY <3>1, <4>1 DEF Stat, Check, Parse, Remember, Leave, Answer
    <3>2. CASE asker[a].at # "idle"
      BY <3>2 DEF OneAtATime
    <3> QED  BY <3>1, <3>2
  <2> QED  BY <1>2, <2>1 DEF OneAtATime, vars, Askers
<1> QED  BY <1>4, <1>6, <1>7 DEF OneAtATime

\* The operator's check is under way, or was answered by the VM.
Counted(o) ==
    \/ asker[o].at \in {"check", "parse", "remember", "waiting", "running"}
    \/ asker[o].at = "over" /\ asker[o].outcome = "vm"

LEMMA SettledKept ==
    ASSUME TypeOK, AskInv, OneAtATime, OneAtATime', ~OnGpu, NEW o \in Operators, op[o].at = "stopped",
           Counted(o) => Settled(o), NEW a \in Askers,
           Stat(a) \/ Check(a) \/ Parse(a) \/ Remember(a) \/ Begin(a) \/ Leave(a) \/ Answer(a),
           UNCHANGED vars, Counted(o)'
    PROVE  Settled(o)'
<1>1. /\ cache \in [key : 0 .. MaxWrites, text : Texts] /\ asker \in [Askers -> AskerType]
      /\ line \in Seq(Askers) /\ IsInjective(line) /\ DOMAIN line = 1..Len(line) /\ Len(line) \in Nat
      /\ \A b \in Askers : asker[b].at = "waiting" <=> b \in Range(line)
      /\ asker[a].text \in Texts /\ cache.text \in Texts /\ o \in Askers /\ OnVm(file.text)
      /\ Consistent
      /\ file.text \in Texts
  BY Typed DEF AskInv, InLine, AskerType, Askers, OnVm, OnGpu, Texts
<1>2. \A b \in Askers : b # a => asker'[b] = asker[b]
  BY <1>1, AnswerMoves
<1>3. OnLoop(o)
  BY AnsweringAssumption DEF OnLoop
<1>4. CASE Stat(a)
  <2>1. asker'[a].at = "check" /\ asker'[a].held = {file.text} /\ line' = line /\ asker[a].at = "idle"
    BY <1>1, <1>4 DEF Stat, NoAsker
  <2>2. CASE a = o
    <3>1. \A b \in Askers : OnLoop(b) /\ Reading(b)' => b = o
      BY <1>2, <1>3, <1>4, <2>2 DEF Stat, Reading
    <3> QED  BY <1>1, <2>1, <2>2, <3>1 DEF Settled, OnLoop
  <2>3. CASE a # o
    <3>1. Counted(o) /\ Settled(o)
      BY <1>1, <1>2, <2>3 DEF Counted
    <3>2. \A b \in Askers : (OnLoop(b) /\ Reading(b))' => \A t \in asker'[b].held : OnVm(t)
      BY <1>1, <1>2, <2>1, <3>1 DEF Settled, Reading, OnLoop
    <3>3. Behind(o) => Behind(o)'
      <4>1. \A i \in DOMAIN line : line[i] \in Askers /\ line[i] # a
        BY <1>1, <2>1 DEF Range
      <4> QED  BY <1>2, <2>1, <4>1 DEF Behind
    <3> QED  BY <1>1, <1>2, <2>1, <2>3, <3>1, <3>2, <3>3 DEF Settled, Generating
  <2> QED  BY <2>2, <2>3
\* A reader goes on reading, or joins the line with what it held.
<1>5. CASE Check(a) \/ Parse(a) \/ Remember(a)
  <2>1. Reading(a)
    BY <1>5 DEF Check, Parse, Remember, Reading
  <2>2. Settled(o) /\ Counted(o)
    <3>1. a = o => Counted(o)
      BY <2>1 DEF Reading, Counted
    <3>2. a # o => Counted(o)
      BY <1>1, <1>2 DEF Counted
    <3> QED  BY <3>1, <3>2
  <2>3. Reading(a)' => asker'[a].held = asker[a].held
    <3>1. CASE Check(a)
      <4>1. CASE Uses(a, cache.text)
        BY <1>1, <4>1, UsesMode DEF Reading
      <4>2. CASE asker' = [asker EXCEPT ![a].at = "parse"]
        BY <1>1, <4>2 DEF AskerType
      <4> QED  BY <3>1, <4>1, <4>2 DEF Check
    <3>2. CASE Parse(a)
      BY <1>1, <3>2 DEF Parse, AskerType
    <3>3. CASE Remember(a)
      BY <1>1, <3>3, UsesMode DEF Remember, Reading
    <3> QED  BY <1>5, <3>1, <3>2, <3>3
  <2>4. \A b \in Askers : (OnLoop(b) /\ Reading(b))' => \A t \in asker'[b].held : OnVm(t)
    BY <1>2, <2>1, <2>2, <2>3 DEF Settled, Reading, OnLoop
  <2>5. asker[a].at # "waiting" /\ asker[a].at # "running" /\ asker[a].at # "over"
    BY <2>1 DEF Reading
  <2>6. \/ line' = line /\ asker'[a].at # "waiting" /\ asker'[a].at # "running"
        \/ line' = Append(line, a) /\ asker'[a].at = "waiting" /\ OnVm(asker'[a].text) /\ OnLoop(a)
    <3>1. CASE Check(a)
      <4>1. CASE Uses(a, cache.text) /\ cache.key = asker[a].key
        <5>1. cache.text \in asker[a].held
          BY <1>1, <2>1, <4>1 DEF Consistent
        <5> QED  BY <1>1, <2>1, <2>2, <4>1, <5>1, UsesMode DEF Settled, OnLoop
      <4>2. CASE asker' = [asker EXCEPT ![a].at = "parse"] /\ line' = line
        BY <1>1, <4>2 DEF AskerType
      <4> QED  BY <3>1, <4>1, <4>2 DEF Check
    <3>2. CASE Parse(a)
      BY <1>1, <3>2 DEF Parse, AskerType
    <3>3. CASE Remember(a)
      <4>1. asker[a].text \in asker[a].held /\ Uses(a, asker[a].text)
        BY <1>1, <3>3 DEF Consistent, Remember
      <4> QED  BY <1>1, <2>1, <2>2, <4>1, UsesMode DEF Settled, OnLoop
    <3> QED  BY <1>5, <3>1, <3>2, <3>3
  <2>7. CASE line' = line /\ asker'[a].at # "waiting" /\ asker'[a].at # "running"
    <3>1. Behind(o) => Behind(o)'
      <4>1. \A i \in DOMAIN line : line[i] \in Askers /\ line[i] # a
        BY <1>1, <2>5 DEF Range
      <4> QED  BY <1>2, <2>7, <4>1 DEF Behind
    <3>2. a = o => asker'[o].at # "over"
      <4>1. CASE a = o /\ asker'[o].at = "over"
        <5>1. \E t \in Texts : Uses(a, t)
          BY <1>1, <1>5, <4>1 DEF Check, Parse, Remember, AskerType
        <5>2. Over(o, "refused")
          BY <1>3, <4>1, <5>1, <2>7 DEF Uses, OnLoop, AskerType
        <5>3. asker'[o].outcome = "refused"
          BY <1>1, <5>2 DEF Over, NoAsker
        <5> QED  BY <4>1, <5>3 DEF Counted
      <4> QED  BY <4>1
    <3> QED  BY <1>1, <1>2, <2>2, <2>4, <2>5, <2>7, <3>1, <3>2 DEF Settled, Generating
  <2>8. CASE /\ line' = Append(line, a) /\ asker'[a].at = "waiting" /\ OnVm(asker'[a].text) /\ OnLoop(a)
    <3>1. /\ DOMAIN line' = 1..Len(line) + 1 /\ line'[Len(line) + 1] = a
          /\ \A j \in 1..Len(line) : line'[j] = line[j] /\ line[j] \in Askers /\ line[j] # a
      BY <1>1, <2>5, <2>8, AppendProperties, LenProperties DEF Range
    <3>2. asker'[o].at = "waiting" => Behind(o)'
      <4> SUFFICES ASSUME asker'[o].at = "waiting", NEW i \in DOMAIN line', NEW j \in DOMAIN line',
                          line'[i] = o, i < j
                   PROVE  OnVm(asker'[line'[j]].text)
        BY DEF Behind
      <4>1. i \in 1..Len(line)
        BY <1>1, <3>1
      <4>2. CASE j = Len(line) + 1
        BY <2>8, <3>1, <4>2
      <4>3. CASE j \in 1..Len(line)
        <5>1. a # o /\ asker[o].at = "waiting" /\ line[i] = o
          BY <1>2, <3>1, <4>1
        <5>2. OnVm(asker[line[j]].text)
          BY <1>1, <2>2, <4>1, <4>3, <5>1 DEF Settled, Behind
        <5> QED  BY <1>2, <3>1, <4>3, <5>2
      <4> QED  BY <1>1, <3>1, <4>2, <4>3
    <3> QED  BY <1>1, <1>2, <2>2, <2>4, <2>5, <2>8, <3>2 DEF Settled, Generating
  <2> QED  BY <2>6, <2>7, <2>8
\* The head of the line is served: everybody left in the line was behind it.
<1>6. CASE Begin(a)
  <2>1. /\ line # <<>> /\ a = Head(line) /\ a = line[1] /\ Generating = {} /\ line' = Tail(line)
        /\ a \in Range(line) /\ asker[a].at = "waiting"
        /\ asker' = [asker EXCEPT ![a].at = "running"]
    BY <1>1, <1>6, TailRange DEF Begin
  <2>2. /\ asker'[a].at = "running" /\ asker'[a].text = asker[a].text /\ asker'[a].held = asker[a].held
    BY <1>1, <2>1 DEF AskerType
  <2>3. Settled(o) /\ Counted(o)
    <3>1. a = o => Counted(o)
      BY <2>1 DEF Counted
    <3>2. a # o => Counted(o)
      BY <1>1, <1>2 DEF Counted
    <3> QED  BY <3>1, <3>2
  <2>4. \A b \in Askers : (OnLoop(b) /\ Reading(b))' => \A t \in asker'[b].held : OnVm(t)
    BY <1>2, <2>2, <2>3 DEF Settled, Reading, OnLoop
  <2>5. \A b \in Askers : asker'[b].text = asker[b].text /\ (asker'[b].at = "waiting" => asker[b].at = "waiting")
    BY <1>2, <2>2
  <2>6. asker'[o].at = "waiting" => Behind(o)'
    <3>1. CASE asker'[o].at = "waiting"
      <4>1. Behind(o)
        BY <1>1, <2>3, <2>5, <3>1 DEF Settled
      <4>2. InOrderOf(line', line) /\ line' \in Seq(Askers)
        BY <1>1, <2>1, TailOrder, TailRange
      <4>3. \A i \in DOMAIN line' : asker'[line'[i]].text = asker[line'[i]].text
        <5>1. \A i \in DOMAIN line' : line'[i] \in Askers
          BY <4>2
        <5> QED  BY <2>5, <5>1
      <4> QED  BY <4>1, <4>2, <4>3, BehindKept
    <3> QED  BY <3>1
  <2>7. asker'[o].at \in {"running", "over"} => \A b \in Askers : asker'[b].at = "waiting" => OnVm(asker'[b].text)
    <3>1. CASE a = o
      <4>1. ASSUME NEW b \in Askers, asker'[b].at = "waiting" PROVE OnVm(asker[b].text)
        <5>1. b # o /\ asker[b].at = "waiting"
          BY <2>2, <3>1, <4>1, <2>5
        <5>2. PICK j \in DOMAIN line : line[j] = b
          BY <1>1, <5>1 DEF Range
        <5>3. 1 \in DOMAIN line /\ 1 < j
          BY <1>1, <2>1, <3>1, <5>1, <5>2
        <5> QED  BY <2>1, <2>3, <3>1, <5>2, <5>3 DEF Settled, Behind
      <4> QED  BY <2>5, <4>1
    <3>2. CASE a # o
      BY <1>1, <1>2, <2>3, <2>5, <3>2 DEF Settled
    <3> QED  BY <3>1, <3>2
  <2>8. asker'[o].at = "over" => \A b \in Generating' : OnVm(asker'[b].text)
    <3>1. CASE asker'[o].at = "over"
      <4>1. a # o /\ asker[o].at = "over"
        BY <1>1, <1>2, <2>2, <3>1
      <4>2. OnVm(asker[a].text)
        BY <2>1, <2>3, <4>1 DEF Settled
      <4>3. \A b \in Generating' : b = a
        BY <1>2, <2>1 DEF Generating
      <4> QED  BY <2>5, <4>2, <4>3
    <3> QED  BY <3>1
  <2> QED  BY <2>4, <2>6, <2>7, <2>8 DEF Settled
\* Whoever goes leaves the others as they were; a check that goes proves nothing.
<1>7. CASE Leave(a) \/ Answer(a)
  <2>1. /\ asker[a].at \in {"waiting", "running"} /\ asker'[a].at = "over"
        /\ Leave(a) => asker'[a].outcome = "left"
    <3>1. ASSUME NEW x, Over(a, x) PROVE asker'[a].at = "over" /\ asker'[a].outcome = x
      BY <1>1, <3>1 DEF Over, NoAsker
    <3> QED  BY <1>7, <3>1 DEF Leave, Answer
  <2>2. Settled(o) /\ Counted(o)
    <3>1. a = o => Counted(o)
      BY <2>1 DEF Counted
    <3>2. a # o => Counted(o)
      BY <1>1, <1>2 DEF Counted
    <3> QED  BY <3>1, <3>2
  <2>3. \A b \in Askers : (OnLoop(b) /\ Reading(b))' => \A t \in asker'[b].held : OnVm(t)
    BY <1>2, <2>1, <2>2 DEF Settled, Reading, OnLoop
  <2>4. /\ InOrderOf(line', line) /\ line' \in Seq(Askers) /\ a \notin Range(line')
    <3>1. CASE Answer(a)
      <4>1. line' = line
        BY <3>1 DEF Answer
      <4>2. asker[a].at = "running"
        BY <3>1 DEF Answer
      <4> QED  BY <1>1, <4>1, <4>2 DEF InOrderOf
    <3>2. CASE Leave(a)
      <4>1. PICK i \in 1..Len(line) : line[i] = a /\ line' = RemoveAt(line, i)
        BY <1>1, <3>2 DEF Leave
      <4>2. InOrderOf(RemoveAt(line, i), line)
        BY <1>1, <4>1, RemoveAtOrder, ZenonT(60)
      <4>3. RemoveAt(line, i) \in Seq(Askers) /\ Range(RemoveAt(line, i)) = Range(line) \ {line[i]}
        BY <1>1, <4>1, RemoveAtRange, ZenonT(60)
      <4> QED  BY <4>1, <4>2, <4>3
    <3> QED  BY <1>7, <3>1, <3>2
  <2>5. asker'[o].at = "waiting" => Behind(o)'
    <3>1. CASE asker'[o].at = "waiting"
      <4>1. Behind(o)
        BY <1>1, <1>2, <2>1, <2>2, <3>1 DEF Settled
      <4>2. \A i \in DOMAIN line' : asker'[line'[i]].text = asker[line'[i]].text
        <5>1. \A i \in DOMAIN line' : line'[i] \in Askers /\ line'[i] # a
          BY <2>4 DEF Range
        <5> QED  BY <1>2, <5>1
      <4> QED  BY <2>4, <4>1, <4>2, BehindKept
    <3> QED  BY <3>1
  <2>6. a = o => asker[o].at = "running"
    <3>1. CASE a = o /\ Leave(a)
      BY <2>1, <3>1 DEF Counted
    <3>2. CASE a = o /\ Answer(a)
      BY <3>2 DEF Answer
    <3> QED  BY <1>7, <3>1, <3>2
  <2>7. asker'[o].at \in {"running", "over"} => \A b \in Askers : asker'[b].at = "waiting" => OnVm(asker'[b].text)
    BY <1>1, <1>2, <2>1, <2>2, <2>6 DEF Settled
  <2>8. asker'[o].at = "over" => \A b \in Generating' : OnVm(asker'[b].text)
    <3>1. CASE a = o
      <4>1. \A b \in Generating : b = o
        BY <1>1, <2>6, <3>1 DEF OneAtATime, Generating
      <4> QED  BY <1>2, <2>1, <3>1, <4>1 DEF Generating
    <3>2. CASE a # o
      BY <1>1, <1>2, <2>1, <2>2, <3>2 DEF Settled, Generating
    <3> QED  BY <3>1, <3>2
  <2> QED  BY <2>3, <2>5, <2>7, <2>8 DEF Settled
<1> QED  BY <1>4, <1>5, <1>6, <1>7

LEMMA OverlapStays ==
    ASSUME TypeOK, [Next]_vars, overlapped
    PROVE  overlapped'
BY DEF Next, vars, CommandStep, Start, OpenTunnel, Probe, Switch, Verify, Restore, Close, Stop,
       StopCloses, StopGivesUp, CommandKeeps, Overlaps, history, WatchStep, RunBegins, Judge, FailBack,
       Record, WarmUp, WarmedUp, VmMode, Defer, RunKilled, WatchKeeps, ServiceChanges, AllocationEnds,
       TunnelDrops, EnvironmentKeeps

\* What the commands, the watchdog and the network do leaves the line alone, and
\* while a stop is under way by itself they write nothing but VM mode.
LEMMA ModeMovesDrop ==
    ASSUME ModeInv, ModeInv', AskInv, DropInv, [Next]_vars, Noticed, UNCHANGED <<cache, line>>
    PROVE  DropInv'
<1>1. /\ asker \in [Askers -> AskerType] /\ OneAtATime
      /\ \A o \in Operators : o \in Askers
      /\ \A a \in Askers : asker[a].at \notin {"check", "parse", "remember", "waiting", "running", "over"}
                           => asker[a].at = "idle"
      /\ TypeOK /\ Alone' /\ \A i \in DOMAIN line : line[i] \in Askers
  <2>1. line \in Seq(Askers)
    BY DEF AskInv, InLine
  <2>2. \A i \in DOMAIN line : line[i] \in Askers
    BY <2>1
  <2> QED  BY <2>2 DEF AskInv, DropInv, Askers, AskerType, ModeInv
<1>2. OnVm(NoAsker.text) /\ NoAsker.at = "idle" /\ NoAsker.outcome = "none" /\ OnVm(FirstText)
  BY DEF NoAsker, FirstText, Text, OnVm
<1>3. ASSUME NEW a \in Askers
      PROVE  \/ asker'[a] = NoAsker /\ a \in Operators /\ op'[a].at = "idle"
             \/ /\ asker'[a].at = asker[a].at /\ asker'[a].text = asker[a].text
                /\ asker'[a].outcome = asker[a].outcome
                /\ asker'[a].held = IF Reading(a) THEN asker[a].held \cup {file'.text} ELSE asker[a].held
                /\ ~(a \in Operators /\ op[a].at # "idle" /\ op'[a].at = "idle")
  <2>1. CASE a \in Operators /\ op[a].at # "idle" /\ op'[a].at = "idle"
    BY <2>1 DEF Noticed
  <2>2. CASE ~(a \in Operators /\ op[a].at # "idle" /\ op'[a].at = "idle")
    <3>1. asker'[a] = IF Reading(a) THEN [asker[a] EXCEPT !.held = @ \cup {file'.text}] ELSE asker[a]
      BY <2>2 DEF Noticed
    <3>2. asker[a] \in AskerType
      BY <1>1
    <3> QED  BY <2>2, <3>1, <3>2 DEF AskerType
  <2> QED  BY <2>1, <2>2
<1>4. \A a \in Askers : /\ asker'[a].at = asker[a].at \/ asker'[a].at = "idle"
                        /\ asker'[a].text = asker[a].text \/ OnVm(asker'[a].text)
  BY <1>2, <1>3
<1>5. OneAtATime'
  <2>1. \A a, b \in Askers : (OnLoop(a) /\ OnLoop(b) /\ Reading(a) /\ Reading(b))' => a = b
    BY <1>1, <1>4 DEF OneAtATime, OnLoop, Reading
  <2>2. \A a, b \in Generating' : a = b
    BY <1>1, <1>4 DEF OneAtATime, Generating
  <2>3. ASSUME NEW o \in Operators, asker'[o].at # "idle" PROVE op'[o].at = "stopped"
    <3>1. /\ asker'[o].at = asker[o].at /\ ~(op[o].at # "idle" /\ op'[o].at = "idle")
      BY <1>1, <1>2, <1>3, <2>3
    <3>2. op[o].at = "stopped"
      BY <1>1, <2>3, <3>1 DEF OneAtATime
    <3> QED  BY <1>1, <3>1, <3>2, StopEnds
  <2> QED  BY <2>1, <2>2, <2>3 DEF OneAtATime
<1>6. ASSUME ~overlapped', NEW o \in Operators, Counted(o)' PROVE Settled(o)'
  <2>1. ~overlapped
    BY <1>1, <1>6, OverlapStays
  <2>2. asker'[o].at # "idle"
    BY <1>6 DEF Counted
  <2>3. asker'[o].at = asker[o].at /\ asker'[o].outcome = asker[o].outcome
    BY <1>1, <1>2, <1>3, <2>2
  <2>4. Settled(o)
    BY <1>6, <2>1, <2>3 DEF DropInv, Counted
  <2>5. OnVm(file'.text)
    <3>1. op'[o].at = "stopped" /\ ~OnGpu'
      BY <1>1, <1>5, <1>6, <2>2 DEF OneAtATime, Alone
    <3>2. file'.text.mode \in {"vm", "gpu"}
      BY DEF ModeInv, TypeOK, Texts
    <3> QED  BY <3>1, <3>2 DEF OnGpu, OnVm
  <2>6. \A a \in Askers : (OnLoop(a) /\ Reading(a))' => \A t \in asker'[a].held : OnVm(t)
    BY <1>2, <1>3, <2>4, <2>5 DEF Settled, OnLoop, Reading
  <2>7. Behind(o) => Behind(o)'
    BY <1>1, <1>4 DEF Behind
  <2> QED  BY <1>1, <1>4, <2>3, <2>4, <2>6, <2>7 DEF Settled, Generating
<1> QED  BY <1>5, <1>6 DEF DropInv, Counted

LEMMA DropNext == ModeInv /\ AskInv /\ DropInv /\ [ModeNext]_modeVars => DropInv'
<1> SUFFICES ASSUME ModeInv, AskInv, DropInv, [ModeNext]_modeVars PROVE DropInv'
  OBVIOUS
<1>1. [Next]_vars
  BY DEF ModeNext, modeVars
<1>2. ModeInv'
  BY <1>1, NextInv
<1>3. CASE Next /\ Noticed /\ UNCHANGED <<cache, line>>
  BY <1>1, <1>2, <1>3, ModeMovesDrop
<1>4. CASE AnswerStep /\ UNCHANGED vars
  <2>1. PICK a \in Askers :
          Stat(a) \/ Check(a) \/ Parse(a) \/ Remember(a) \/ Begin(a) \/ Leave(a) \/ Answer(a)
    BY <1>4 DEF AnswerStep
  <2>2. OneAtATime'
    BY <1>4, <2>1, OneStep DEF ModeInv, DropInv
  <2>3. ASSUME ~overlapped', NEW o \in Operators, Counted(o)' PROVE Settled(o)'
    <3>1. ~overlapped
      BY <1>4, <2>3 DEF vars
    <3>2. Counted(o) => Settled(o)
      BY <3>1 DEF DropInv, Counted
    <3>3. op[o].at = "stopped"
      <4>1. asker'[o].at # "idle"
        BY <2>3 DEF Counted
      <4> QED  BY <1>4, <2>2, <4>1 DEF OneAtATime, vars
    <3>4. ~OnGpu
      BY <3>1, <3>3 DEF ModeInv, Alone
    <3> QED  BY <1>4, <2>1, <2>2, <2>3, <3>2, <3>3, <3>4, SettledKept DEF ModeInv, DropInv
  <2> QED  BY <2>2, <2>3 DEF DropInv, Counted
<1>5. CASE UNCHANGED modeVars
  BY <1>5 DEF modeVars, vars, answeringVars, DropInv, OneAtATime, Settled, Behind, Generating, Reading,
              OnLoop
<1> QED  BY <1>3, <1>4, <1>5 DEF ModeNext

\* The tunnel is closed only when nothing needs it: a command that runs alone does
\* not cut off GPU mode, and a stop that the VM answered leaves no question behind
\* that still waits for the GPU (cmd_start, cmd_stop, current_mode).
THEOREM StopDropsNothing == ModeSpec => ClosesOnlyTheUnused
<1>1. ModeInit => DropInv
  <2> SUFFICES ASSUME ModeInit PROVE DropInv
    OBVIOUS
  <2>1. \A a \in Askers : asker[a].at = "idle"
    BY DEF ModeInit, AnsweringInit, NoAsker
  <2>2. OneAtATime
    BY <2>1 DEF OneAtATime, Reading, Generating, Askers
  <2>3. \A o \in Operators : asker[o].at = "idle"
    BY <2>1 DEF Askers
  <2> QED  BY <2>2, <2>3 DEF DropInv
<1>2. ModeInv /\ AskInv /\ DropInv /\ [ModeNext]_modeVars => NeverCutsOffTheGpu /\ DropsNothing
  <2> SUFFICES ASSUME ModeInv, AskInv, DropInv, [ModeNext]_modeVars
               PROVE  NeverCutsOffTheGpu /\ DropsNothing
    OBVIOUS
  <2>1. [Next]_vars
    BY DEF ModeNext, modeVars
  <2>2. NeverCutsOffTheGpu
    BY <2>1, NeverCutOff
  <2>3. ASSUME NEW o \in Operators, asker[o].at = "over", asker[o].outcome = "vm", ~overlapped, NEW a \in Askers, asker[a].at \in {"waiting", "running"}
        PROVE  asker[a].text.mode = "vm"
    <3>1. Settled(o)
      BY <2>3 DEF DropInv
    <3> QED  BY <2>3, <3>1 DEF Settled, Generating, OnVm
  <2> QED  BY <2>2, <2>3 DEF DropsNothing
<1> QED  BY <1>1, <1>2, AskInit, AskNext, DropNext, PTL DEF ModeSpec, ClosesOnlyTheUnused

=============================================================================
