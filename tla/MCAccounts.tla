----------------------------- MODULE MCAccounts ----------------------------
(***************************************************************************)
(* The people for TLC: a behavior goes through the staff's accounts, the   *)
(* joining of two courses in two tabs of one browser, the comparisons      *)
(* asked in those tabs, or the rating of comparisons by a participant.     *)
(***************************************************************************)
EXTENDS Accounts, Ratings, TLC

CONSTANTS
    r1, r2,    \* requests
    t1, t2     \* tabs

TwoRequests == {r1, r2}
TwoTabs == {t1, t2}
Interchangeable == Permutations(TwoRequests) \cup Permutations(TwoTabs)

VARIABLE part

\* A bound: once two requests have raced, no request of somebody signed in is
\* followed any more; sign-ins and acceptances are, up to a race of the other kind.
OneRace ==
    /\ Cardinality(raced) <= 1
    /\ raced = {} \/ \A r \in Requests : request[r].at # "resolved"

\* A bound on the answers that get rated: to the second comparison rag has none,
\* to the first both have.
AnswersOk(n, k) == n = 1 \/ k = "base"
AnswersGiven ==
    part = "rating" =>
        \A t \in Tabs :
            /\ \A a \in running[t], k \in Approaches : a.got[k] # Loading => a.got[k].ok = AnswersOk(a.id, k)
            /\ Shows(t) => stored[t].answered = {k \in Approaches : AnswersOk(stored[t].run, k)}

Bounds == OneRace /\ AnswersGiven

\* The browser joined the course before, and its session may have ended since.
JoinedBefore ==
    /\ enrolled = <<Here>> /\ cookie = {1} /\ live \in {{1}, {}}
    /\ join = [t \in Tabs |-> NoJoin] /\ lapses = {}

PeopleInit ==
    /\ part \in {"staff", "joining", "asking", "rating"}
    /\ Init /\ ComparisonsInit /\ RatingsInit
    /\ part # "staff" => account = [u \in Users |-> [state |-> "active", role |-> "admin", password |-> 0]]
    /\ IF part = "rating" THEN JoinedBefore ELSE ParticipationInit

Browsing == (\E t \in Tabs : Browses(t)) /\ UNCHANGED participationVars
Serving == Serves /\ UNCHANGED participationVars

PeopleNext ==
    /\ UNCHANGED part
    /\ \/ part = "staff" /\ Next /\ UNCHANGED classroomVars
       \/ /\ part = "joining" /\ ParticipationNext
          /\ UNCHANGED <<vars, comparisonVars, ratingVars>>
       \/ part = "asking" /\ Browsing /\ UNCHANGED <<calls, vars>>
       \/ part = "rating" /\ (Browsing \/ Serving) /\ UNCHANGED vars
       \/ part \in {"asking", "rating"} /\ (\E t, u \in Tabs : Reopens(u, t)) /\ UNCHANGED vars

PeopleSpec == PeopleInit /\ [][PeopleNext]_<<part, vars, classroomVars>>

=============================================================================
