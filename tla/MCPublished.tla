---------------------------- MODULE MCPublished ----------------------------
(***************************************************************************)
(* From a trained version to the answers students get, for TLC: a behavior *)
(* goes through the registry of one course, with two publications at a     *)
(* time; or through the fine-tuned service, whose two courses have a first *)
(* version each that is published and activated, and one more promotion;   *)
(* or through the sessions of the service, with their clocks.              *)
(***************************************************************************)
EXTENDS ModelRegistry, Serving, TLC

CONSTANTS
    h1, h2,                       \* publications
    c1, c2, p1, p2, p3, r1, r2    \* courses, promotions, generations

TwoHandlers == {h1, h2}
TwoCourses == {c1, c2}
ThreePromotions == {p1, p2, p3}
TwoRequests == {r1, r2}
Interchangeable == Permutations(TwoHandlers) \cup Permutations(TwoRequests)

\* A bound: once two publications have overlapped, or a completion came twice, the
\* third version is not registered any more.
TwoVersionsFromThenOn == overlapped \/ redeliveries # 0 => Cardinality(Registered) <= 2

\* The two courses are alike, so let the promotion be one of the first course's.
OfTheFirstCourse == promotion[p3] \in {Waiting, Done} \/ promotion[p3].course = c1

VARIABLE part   \* what a behavior goes through

TheLimits == {2, 3}

\* A bound: where the service is asked, one job is submitted, its session is not
\* recorded and its clock does not run.
OneJobWithoutClock ==
    part = "service" => /\ start = Free /\ job[2] = "none"
                        /\ job[1] # "none" => clock[1] = 3

\* A bound: a second session begins when the record of the first has expired.
OneRecordAtATime == part = "session" /\ job[2] # "none" => lasts[1] = 0

Bounds == TwoVersionsFromThenOn /\ OfTheFirstCourse /\ OneJobWithoutClock /\ OneRecordAtATime

FirstVersions ==
    /\ tree = [c \in Courses |->
                [v \in TreeVersions |-> IF v # 1 THEN Absent ELSE IF c = c1 THEN p1 ELSE p2]]
    /\ pointer = [c \in Courses |-> [version |-> 1, source |-> IF c = c1 THEN p1 ELSE p2]]
    /\ registry = [c \in Courses |-> 1]
    /\ promotion = [p \in Promotions |-> IF p = p3 THEN Waiting ELSE Done]
    /\ SessionInit
    /\ loaded = <<>> /\ selected = Base /\ lock = Nobody
    /\ request = [r \in Requests |-> Unasked]
    /\ thread = [r \in Requests |-> Asleep]
    /\ asks = 0

\* The registry never stops; the service may, and stays as it is.
PublishedInit == part \in {"registry", "service", "session"} /\ Init /\ FirstVersions
PublishedNext ==
    /\ UNCHANGED part
    /\ \/ part = "registry" /\ Next /\ UNCHANGED servingVars
       \/ part = "service" /\ (ServingNext \/ UNCHANGED servingVars) /\ UNCHANGED vars
       \/ part = "session" /\ UNCHANGED <<vars, treeVars, asks>> /\ ServingNext

PublishedSpec == PublishedInit /\ [][PublishedNext]_<<part, vars, servingVars>>

=============================================================================
