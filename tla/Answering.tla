----------------------------- MODULE Answering -----------------------------
(***************************************************************************)
(* The backend under classroom GPU mode: before every generation it reads  *)
(* the mode file, or its cached copy of it, then waits for its turn in the *)
(* generation queue and asks the engine of the mode it read.  A stop of    *)
(* GPU mode asks through the backend, too, before it closes the tunnel.    *)
(*                                                                         *)
(* Questions run on the event loop, where nothing else runs while one      *)
(* reads the mode; status pages run on threads, where everything may.  The *)
(* generation queue is a line with one slot (see GenerationQueue).         *)
(***************************************************************************)
EXTENDS GpuMode, Sequences, SequencesExt

CONSTANTS
    Students,   \* questions of students
    Pages       \* requests of the admin's status page

ASSUME AnsweringAssumption == Pages \cap (Students \cup Operators) = {}

VARIABLES
    cache,      \* _cache: the stamp and the text that was read under it
    asker,      \* each question, check and page: where it is and what it read
    line        \* the questions that wait for the slot

answeringVars == <<cache, asker, line>>
modeVars == <<vars, answeringVars>>

Askers == Students \cup Pages \cup Operators
NoAsker == [at |-> "idle", key |-> 0, text |-> FirstText, held |-> {}, outcome |-> "none"]
OnLoop(a) == a \notin Pages
Over(a, outcome) == asker' = [asker EXCEPT ![a] = [NoAsker EXCEPT !.at = "over", !.outcome = outcome]]

AnsweringInit ==
    /\ cache = [key |-> 0, text |-> FirstText]
    /\ asker = [a \in Askers |-> NoAsker] /\ line = <<>>

---------------------------------------------------------------------------
(* current_mode.                                                           *)

Reading(a) == asker[a].at \in {"check", "parse", "remember"}

\* A page is answered with the mode; a question joins the line or is refused.
Uses(a, text) ==
    \/ /\ a \in Pages
       /\ asker' = [asker EXCEPT ![a].at = "over", ![a].text = text, ![a].outcome = text.mode]
       /\ UNCHANGED line
    \/ /\ a \notin Pages
       /\ asker' = [asker EXCEPT ![a].at = "waiting", ![a].text = text]
       /\ line' = Append(line, a)
    \/ a \notin Pages /\ Over(a, "refused") /\ UNCHANGED line

\* The coroutine of a question keeps the loop until it has read the mode.  The
\* four checks of a stop share a comparison and come one after the other.
Stat(a) ==
    /\ asker[a].at = "idle" /\ (a \in Operators => op[a].at = "stopped")
    /\ OnLoop(a) => ~\E other \in Askers \ {a} : OnLoop(other) /\ Reading(other)
    /\ asker' = [asker EXCEPT ![a] = [NoAsker EXCEPT !.at = "check", !.key = file.stamp, !.held = {file.text}]]
    /\ UNCHANGED <<cache, line>>

Check(a) ==
    /\ asker[a].at = "check"
    /\ IF cache.key = asker[a].key THEN Uses(a, cache.text)
       ELSE asker' = [asker EXCEPT ![a].at = "parse"] /\ UNCHANGED line
    /\ UNCHANGED cache

\* Without a file the mode is VM; the file is read as it is by now.
Parse(a) ==
    /\ asker[a].at = "parse"
    /\ asker' = [asker EXCEPT ![a].at = "remember",
                              ![a].text = IF asker[a].key = 0 THEN FirstText ELSE file.text]
    /\ UNCHANGED <<cache, line>>

\* Mutant: what was read is kept under the stamp the file has afterwards.
RememberRestamped(a) ==
    /\ asker[a].at = "remember"
    /\ cache' = [key |-> file.stamp, text |-> asker[a].text]
    /\ Uses(a, asker[a].text)

\* _remember: under the lock, over whatever another thread has put there since.
Remember(a) ==
    /\ asker[a].at = "remember"
    /\ cache' = [key |-> asker[a].key, text |-> asker[a].text]
    /\ Uses(a, asker[a].text)

---------------------------------------------------------------------------
(* The generation.                                                         *)

Generating == {a \in Askers : asker[a].at = "running"}

\* Mutant: the newest question is served first.
BeginNewest(a) ==
    /\ line # <<>> /\ a = Last(line) /\ Generating = {}
    /\ line' = Front(line)
    /\ asker' = [asker EXCEPT ![a].at = "running"]
    /\ UNCHANGED cache

Begin(a) ==
    /\ line # <<>> /\ a = Head(line) /\ Generating = {}
    /\ line' = Tail(line)
    /\ asker' = [asker EXCEPT ![a].at = "running"]
    /\ UNCHANGED cache

\* Its time is up, or its client is gone.
Leave(a) ==
    /\ asker[a].at = "waiting"
    /\ \E i \in DOMAIN line : line[i] = a /\ line' = RemoveAt(line, i)
    /\ Over(a, "left")
    /\ UNCHANGED cache

\* generate_grounded_answer and generate_finetuned_answer: the engine of the mode
\* that was read answers, or nobody does.  An answer of the GPU is dropped when it
\* was not decoded as the VM would have.
Answer(a) ==
    /\ asker[a].at = "running"
    /\ \/ Over(a, "failed")
       \/ asker[a].text.mode = "vm" /\ Over(a, "vm")
       \/ asker[a].text.mode = "gpu" /\ Healthy /\ Over(a, "gpu")
    /\ UNCHANGED <<cache, line>>

AnswerStep ==
    \E a \in Askers : Stat(a) \/ Check(a) \/ Parse(a) \/ Remember(a) \/ Begin(a) \/ Leave(a) \/ Answer(a)

---------------------------------------------------------------------------
(* The backend and those who write the mode.                               *)

\* Whoever is reading may have read what is written now (history); an operator's
\* next command makes checks of its own.
Noticed ==
    asker' = [a \in Askers |->
        IF a \in Operators /\ op[a].at # "idle" /\ op'[a].at = "idle" THEN NoAsker
        ELSE IF Reading(a) THEN [asker[a] EXCEPT !.held = @ \cup {file'.text}] ELSE asker[a]]

\* cmd_stop: the tunnel is closed when the checks are over, whatever came of them;
\* one that fails on its way to the backend asks nothing.
ModeNext ==
    \/ /\ Next /\ Noticed /\ UNCHANGED <<cache, line>>
       /\ \A o \in Operators : op[o].at = "stopped" /\ op'[o].at = "idle" => asker[o].at \in {"idle", "over"}
    \/ AnswerStep /\ UNCHANGED vars

ModeInit == Init /\ AnsweringInit
ModeSpec == ModeInit /\ [][ModeNext]_modeVars /\ WF_modeVars(WatchStep /\ ModeNext)

---------------------------------------------------------------------------
(* Properties.                                                             *)

\* A question goes to the engine of a mode that was in force at some time while it
\* read it, whoever else reads, remembers and writes meanwhile; and a cached text
\* is never taken for a write it does not come from (current_mode).
ReadsWhatWasInForce ==
    /\ \A a \in Askers :
        asker[a].at \in {"waiting", "running"} \/ (asker[a].at = "over" /\ a \in Pages)
        => asker[a].text \in asker[a].held
    /\ cache.key = file.stamp => cache.text = file.text

AnsweringTypeOK ==
    /\ cache \in [key : 0 .. MaxWrites, text : Texts]
    /\ \A a \in Askers :
        /\ asker[a].at \in {"idle", "check", "parse", "remember", "waiting", "running", "over"}
        /\ asker[a].outcome \in {"none", "refused", "left", "failed", "vm", "gpu"}
        /\ asker[a].at = "waiting" <=> a \in ToSet(line)

ModeSafety == GpuModeSafety /\ AnsweringTypeOK /\ ReadsWhatWasInForce

\* A stop whose checks were answered by the VM closes the tunnel over no question
\* that is still to be answered by the GPU: those that came before the switch were
\* served before the checks (generation_mode.py: "nothing in flight dropped").
DropsNothing ==
    \A o \in Operators :
        /\ op[o].at = "stopped" /\ op'[o].at = "idle" /\ ~overlapped
        /\ asker[o].at = "over" /\ asker[o].outcome = "vm"
        => \A a \in Askers : asker[a].at \in {"waiting", "running"} => asker[a].text.mode = "vm"

\* The tunnel is closed only when nothing needs it any more.
ClosesOnlyTheUnused == [][NeverCutsOffTheGpu /\ DropsNothing]_modeVars

=============================================================================
