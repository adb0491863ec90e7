---------------------------- MODULE Comparisons ----------------------------
(***************************************************************************)
(* The comparisons a student asks for in the tabs of one browser.  A tab   *)
(* asks the four approaches at once, except that rag waits for base, shows *)
(* each answer as it arrives, and keeps the finished run in its session    *)
(* storage, where the Evaluate page finds it.  A duplicated tab starts     *)
(* with a copy of that storage; a reloaded one forgets what is under way.  *)
(*                                                                         *)
(* A comparison's number stands for its question and its run id.           *)
(***************************************************************************)
EXTENDS Participation

CONSTANTS
    Approaches,        \* MODEL_KEYS
    NoRun,
    MaxComparisons     \* a bound

ASSUME ComparisonsAssumption == MaxComparisons \in Nat \ {0}

VARIABLES
    asked,      \* how many comparisons have been asked
    running,    \* the comparisons each tab still waits for, with what they got
    active,     \* what each tab shows on Compare
    stored      \* the run each tab stores

comparisonVars == <<asked, running, active, stored>>

Loading == [of |-> 0, ok |-> FALSE]
AllLoading == [k \in Approaches |-> Loading]
Blank == [question |-> 0, states |-> AllLoading]

ComparisonsInit ==
    /\ asked = 0
    /\ running = [t \in Tabs |-> {}]
    /\ active = [t \in Tabs |-> Blank]
    /\ stored = [t \in Tabs |-> NoRun]

\* running.current.has
MayStart(t) == running[t] = {}

\* startComparison
StartComparison(t) ==
    LET n == asked + 1 IN
    /\ MayStart(t) /\ n <= MaxComparisons
    /\ asked' = n
    /\ running' = [running EXCEPT ![t] = @ \cup {[id |-> n, got |-> AllLoading]}]
    /\ active' = [active EXCEPT ![t] = [question |-> n, states |-> AllLoading]]
    /\ UNCHANGED stored

Answered(got) == {k \in Approaches : got[k].ok}

\* runFourConditions: rag is asked once base has settled.
Asked(got, k) == k = "rag" /\ "base" \in Approaches => got["base"] # Loading

\* settle: an answer or a failure.  With the last of them the run is saved.
Settle(t, comparison, k) ==
    \E ok \in BOOLEAN :
        LET answer == [of |-> comparison.id, ok |-> ok]
            got == [comparison.got EXCEPT ![k] = answer]
            rest == running[t] \ {comparison}
        IN
        /\ comparison.got[k] = Loading /\ Asked(comparison.got, k)
        /\ active' = IF active[t].question = 0 THEN active ELSE [active EXCEPT ![t].states[k] = answer]
        /\ IF \A l \in Approaches : got[l] # Loading
           THEN /\ running' = [running EXCEPT ![t] = rest]
                /\ stored' = [stored EXCEPT ![t] = [run |-> comparison.id, answered |-> Answered(got),
                                                    rated |-> FALSE]]
           ELSE /\ running' = [running EXCEPT ![t] = rest \cup {[comparison EXCEPT !.got = got]}]
                /\ UNCHANGED stored
        /\ UNCHANGED asked

Shows(t) == stored[t] # NoRun

\* clearRun, from an Evaluate page that found no answer to rate: a comparison
\* still running is left alone.
ClearRun(t) ==
    /\ Shows(t) /\ stored[t].answered = {}
    /\ stored' = [stored EXCEPT ![t] = NoRun]
    /\ active' = IF running[t] # {} THEN active ELSE [active EXCEPT ![t] = Blank]
    /\ UNCHANGED <<asked, running>>

\* markRated: the run as it is now, if it is still the one that was rated.
MarkRated(t, run) ==
    IF Shows(t) /\ stored[t].run = run
    THEN [stored EXCEPT ![t].rated = TRUE]
    ELSE stored

\* A tab u is opened as a copy of t, or reloaded when u is t.
OpenTab(u, t) ==
    /\ running' = [running EXCEPT ![u] = {}]
    /\ active' = [active EXCEPT ![u] = Blank]
    /\ stored' = [stored EXCEPT ![u] = stored[t]]
    /\ UNCHANGED asked

---------------------------------------------------------------------------
(* Properties.                                                             *)

\* The answers beside a question are the answers to it, however late an answer
\* arrives and whatever was asked, cleared or reloaded meanwhile (ComparisonRunContext.tsx startComparison).
AnswersAreTheQuestions ==
    \A t \in Tabs :
        active[t].question # 0 =>
            \A k \in Approaches : active[t].states[k] \in {Loading}
                                    \cup [of : {active[t].question}, ok : BOOLEAN]

=============================================================================
