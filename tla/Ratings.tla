------------------------------ MODULE Ratings ------------------------------
(***************************************************************************)
(* The ratings of one course's comparisons: the Evaluate page in each tab, *)
(* the requests it sends, which may be lost, late or repeated, and the     *)
(* evaluations table.  Every request is one transaction; ratings of one    *)
(* run by one participant are serialised by an advisory lock.              *)
(*                                                                         *)
(* The approaches a rating names are represented by one of them.           *)
(***************************************************************************)
EXTENDS Comparisons

CONSTANTS
    Here,         \* the course
    MaxCalls      \* a bound: submissions

ASSUME RatingsAssumption == Here \in Courses /\ MaxCalls \in Nat \ {0}

VARIABLES
    page,        \* each tab's Evaluate page
    calls,       \* submissions, each sent once
    rows,        \* the course's evaluations
    recorded,    \* history: the runs of which a rating was ever stored
    replaced     \* history: the runs that took another's place under a filled form

ratingVars == <<page, calls, rows, recorded, replaced>>

Elsewhere == [open |-> FALSE, pick |-> {}, sight |-> 0, submitted |-> FALSE, saving |-> 0]
Form == [Elsewhere EXCEPT !.open = TRUE]
Calls == 1 .. MaxCalls
NoCall == [stage |-> "unsent", tab |-> {}, run |-> 0, answered |-> {}, pick |-> {}, sight |-> 0, who |-> {}]
Over == [NoCall EXCEPT !.stage = "over"]

RatingsInit ==
    /\ page = [t \in Tabs |-> Elsewhere]
    /\ calls = [c \in Calls |-> NoCall]
    /\ rows = {} /\ recorded = {} /\ replaced = {}

---------------------------------------------------------------------------
(* EvaluatePage.                                                           *)

TheForm(t) ==
    /\ page[t].open /\ ~page[t].submitted /\ Shows(t)
    /\ ~stored[t].rated /\ stored[t].answered # {}

OpenEvaluate(t) == ~page[t].open /\ page' = [page EXCEPT ![t] = Form]

\* Another page: what was chosen is forgotten, a request goes on.
LeaveEvaluate(t) == page[t].open /\ page' = [page EXCEPT ![t] = Elsewhere]

\* updateCriterion: an approach that did not answer is disabled.
Pick(t) ==
    /\ TheForm(t) /\ page[t].saving = 0
    /\ \E k \in stored[t].answered :
        page' = [page EXCEPT ![t].pick = {k}, ![t].sight = stored[t].run]

\* handleSubmit, with the run on the page and the browser's cookie.
Submit(t, c) ==
    /\ TheForm(t) /\ page[t].saving = 0 /\ page[t].pick # {}
    /\ calls[c].stage = "unsent" /\ \A d \in 1 .. c - 1 : calls[d].stage # "unsent"
    /\ calls' = [calls EXCEPT ![c] =
          [stage |-> "sent", tab |-> {t}, run |-> stored[t].run, answered |-> stored[t].answered,
           pick |-> page[t].pick, sight |-> page[t].sight, who |-> ParticipantOf(Here, Held)]]
    /\ page' = [page EXCEPT ![t].saving = c]

\* The page that sent c is on screen and is told nothing but that c has ended.
Unsaved(c) == [t \in Tabs |-> IF page[t].saving = c THEN [page[t] EXCEPT !.saving = 0] ELSE page[t]]
Thanks(c) ==
    [t \in Tabs |-> IF page[t].saving = c THEN [page[t] EXCEPT !.saving = 0, !.submitted = TRUE]
                                          ELSE page[t]]

\* The backend has finished with c, or will not hear of it; the tab no longer waits.
Deafened(c) ==
    IF calls[c].stage \in {"sent", "inserting"}
    THEN {[calls EXCEPT ![c].tab = {}], [calls EXCEPT ![c] = Over]}
    ELSE {[calls EXCEPT ![c] = Over]}

\* The request or its answer is lost.  A transaction that was under way commits
\* or is rolled back all the same.
LoseCall(c) ==
    /\ calls[c].tab # {}
    /\ calls' \in Deafened(c)
    /\ page' = Unsaved(c)
    /\ UNCHANGED <<rows, recorded, stored>>

\* A saved rating, and the refusal of a second one, mark the run as rated;
\* another error leaves the form as it is.
HearCall(c) ==
    \E t \in calls[c].tab :
        /\ calls[c].stage \in {"saved", "duplicate", "refused"}
        /\ stored' = IF calls[c].stage = "refused" THEN stored ELSE MarkRated(t, calls[c].run)
        /\ page' = IF calls[c].stage = "saved" THEN Thanks(c) ELSE Unsaved(c)
        /\ calls' = [calls EXCEPT ![c] = Over]
        /\ UNCHANGED <<rows, recorded>>

---------------------------------------------------------------------------
(* create_course_evaluation.                                               *)

Answer(c, stage) == calls' = [calls EXCEPT ![c] = IF @.tab = {} THEN Over ELSE [@ EXCEPT !.stage = stage]]

\* require_participant; _assert_rated_approaches_answered
Acceptable(c) == calls[c].who # {} /\ calls[c].pick \subseteq calls[c].answered

Refuse(c) ==
    /\ calls[c].stage = "sent" /\ ~Acceptable(c)
    /\ Answer(c, "refused")
    /\ UNCHANGED <<rows, recorded, stored, page>>

\* Mutant: no lock.
LockFreeAlways(c) == TRUE

\* _lock_participant_run: until the transaction that holds it has ended.
LockFree(c) ==
    ~\E d \in Calls : /\ calls[d].stage = "inserting"
                      /\ calls[d].who = calls[c].who /\ calls[d].run = calls[c].run

\* The SELECT sees every rating committed before the lock was taken.
CreateEvaluation(c) ==
    /\ calls[c].stage = "sent" /\ Acceptable(c) /\ LockFree(c)
    /\ IF \E r \in rows : r.who = calls[c].who /\ r.run = calls[c].run
       THEN Answer(c, "duplicate")
       ELSE calls' = [calls EXCEPT ![c].stage = "inserting"]
    /\ UNCHANGED <<rows, recorded, stored, page>>

Commit(c) ==
    LET call == calls[c] IN
    /\ call.stage = "inserting"
    /\ rows' = rows \cup {[id |-> c, who |-> call.who, run |-> call.run, answered |-> call.answered,
                           pick |-> call.pick, sight |-> call.sight]}
    /\ recorded' = recorded \cup {call.run}
    /\ Answer(c, "saved")
    /\ UNCHANGED <<stored, page>>

Rollback(c) ==
    /\ calls[c].stage = "inserting"
    /\ Answer(c, "refused")
    /\ UNCHANGED <<rows, recorded, stored, page>>

\* delete_evaluation, delete_all_evaluations
Delete ==
    /\ rows # {}
    /\ \E gone \in {rows} \cup {{r} : r \in rows} : rows' = rows \ gone
    /\ UNCHANGED <<recorded, stored, page, calls>>

---------------------------------------------------------------------------

\* A comparison that settles shows its answers on an Evaluate page whose form
\* keeps what was chosen.
Settles(t) ==
    /\ \E comparison \in running[t], k \in Approaches : Settle(t, comparison, k)
    /\ replaced' = IF stored' = stored \/ page[t].pick = {} THEN replaced
                   ELSE replaced \cup {stored'[t].run}
    /\ UNCHANGED <<page, calls, rows, recorded>>

\* Whatever the tab was waiting for, nobody hears the answer any more.
Reopens(u, t) ==
    /\ OpenTab(u, t)
    /\ page' = [page EXCEPT ![u] = Elsewhere]
    /\ calls' = [c \in Calls |-> IF u \notin calls[c].tab THEN calls[c]
                                 ELSE IF calls[c].stage \in {"sent", "inserting"}
                                      THEN [calls[c] EXCEPT !.tab = {}] ELSE Over]
    /\ UNCHANGED <<rows, recorded, replaced>>
    /\ IF join[u].at = "idle" THEN UNCHANGED participationVars ELSE LoseJoin(u)

Browses(t) ==
    \/ (OpenEvaluate(t) \/ LeaveEvaluate(t) \/ Pick(t))
          /\ UNCHANGED <<comparisonVars, calls, rows, recorded, replaced>>
    \/ (\E c \in Calls : Submit(t, c)) /\ UNCHANGED <<comparisonVars, rows, recorded, replaced>>
    \/ StartComparison(t) /\ UNCHANGED ratingVars
    \/ page[t].open /\ ClearRun(t) /\ UNCHANGED ratingVars
    \/ Settles(t)

Serves ==
    /\ \/ \E c \in Calls : \/ HearCall(c) \/ LoseCall(c) \/ Refuse(c)
                           \/ CreateEvaluation(c) \/ Commit(c) \/ Rollback(c)
       \/ Delete
    /\ UNCHANGED <<asked, running, active, replaced>>

RatingsNext ==
    \/ (Serves \/ \E t \in Tabs : Browses(t)) /\ UNCHANGED participationVars
    \/ \E t, u \in Tabs : Reopens(u, t)
    \/ ParticipationNext /\ UNCHANGED <<comparisonVars, ratingVars>>

classroomVars == <<participationVars, comparisonVars, ratingVars>>
ClassroomInit == ParticipationInit /\ ComparisonsInit /\ RatingsInit
ClassroomSpec == ClassroomInit /\ [][RatingsNext]_classroomVars

---------------------------------------------------------------------------
(* Properties.                                                             *)

RatingsTypeOK ==
    /\ \A t \in Tabs : page[t].sight \in 0 .. MaxComparisons /\ page[t].saving \in {0} \cup Calls
    /\ \A c \in Calls : /\ calls[c].stage \in {"unsent", "sent", "inserting", "saved", "duplicate",
                                                "refused", "over"}
                       /\ calls[c].who \subseteq Participants
    /\ recorded \subseteq 1 .. asked /\ replaced \subseteq 1 .. asked

\* A participant's second rating of a run is not stored, whether it comes from a
\* second tab, from a page that was left and opened again, or from a retry after
\* an answer that was lost (db_evaluations.py create_evaluation).  Nor does a
\* browser rate a run twice, unless it lost or doubled its participant.
OneRatingEach ==
    \A r, s \in rows : r.run = s.run /\ (lapses = {} \/ r.who = s.who) => r = s

\* A run is shown as rated only if a rating of it, and not one of an older or a
\* newer run, was stored (ComparisonRunContext.tsx markRated).
RatedWasRecorded == \A t \in Tabs : Shows(t) /\ stored[t].rated => stored[t].run \in recorded

\* A rating names an approach whose answer to this run was on the page when it
\* was chosen, unless a newer comparison settled under the filled form: its run
\* and its answers are then the newer one's, its choice was made of the older's
\* (EvaluatePage.tsx handleSubmit).
ChosenFromItsAnswers ==
    \A r \in rows : r.pick \subseteq r.answered /\ (r.sight = r.run \/ r.run \in replaced)

ClassroomSafety ==
    /\ RatingsTypeOK /\ OneParticipantEach /\ AnswersAreTheQuestions
    /\ OneRatingEach /\ RatedWasRecorded /\ ChosenFromItsAnswers

=============================================================================
