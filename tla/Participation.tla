--------------------------- MODULE Participation ---------------------------
(***************************************************************************)
(* How one browser comes to be an anonymous participant of its courses.    *)
(* Redeeming a classroom code makes a participant and a session, whose     *)
(* token joins the others in the browser's one cookie; signing out ends    *)
(* the sessions and clears the cookie.  The backend reads the cookie when  *)
(* the request comes and rewrites all of it in the answer, and a browser   *)
(* has several tabs.                                                       *)
(*                                                                         *)
(* A participant stands for its session and its token.                     *)
(***************************************************************************)
EXTENDS Naturals, Sequences, FiniteSets

CONSTANTS
    Tabs,
    Courses,
    MaxJoined,         \* MAX_JOINED_COURSES
    MaxParticipants    \* a bound

ASSUME ParticipationAssumption ==
    MaxJoined \in Nat \ {0} /\ MaxParticipants \in Nat \ {0}

VARIABLES
    cookie,      \* the participants whose tokens the browser presents
    enrolled,    \* the course of each participant, in the order they were made
    live,        \* those whose session is neither revoked nor expired
    join,        \* what each tab waits for: a join, or with no course a sign-out
    lapses       \* history: what may have cost the browser a participant

participationVars == <<cookie, enrolled, live, join, lapses>>

Participants == DOMAIN enrolled
NoJoin == [at |-> "idle", course |-> {}, held |-> {}, token |-> {}]

ParticipationInit ==
    /\ cookie = {} /\ enrolled = <<>> /\ live = {}
    /\ join = [t \in Tabs |-> NoJoin]
    /\ lapses = {}

\* resolve_principal and participant_for
Held == cookie \cap live
ParticipantOf(c, held) == {p \in held : enrolled[p] = c}

\* The request leaves with the cookie of the moment, and its tokens are looked up.
Asks(t, course) ==
    /\ join[t].at = "idle"
    /\ join' = [join EXCEPT ![t] = [at |-> "asked", course |-> course, held |-> Held, token |-> {}]]
    /\ lapses' = lapses \cup {l \in {"overlap"} : \E u \in Tabs \ {t} : join[u].at # "idle"}
    /\ UNCHANGED <<cookie, enrolled, live>>

AskToJoin(t, c) == Asks(t, {c})
AskToSignOut(t) == Asks(t, {})

Answers(t, token) == join' = [join EXCEPT ![t].at = "answered", ![t].token = token]

\* The participant, the use of the code and the session commit together.
Enrols(t, c) ==
    LET p == Len(enrolled) + 1 IN
    /\ ParticipantOf(c, join[t].held) = {}
    /\ Cardinality(join[t].held) < MaxJoined
    /\ p <= MaxParticipants
    /\ enrolled' = Append(enrolled, c)
    /\ live' = live \cup {p}
    /\ Answers(t, {p})

\* join_course: a browser that holds the course keeps its participant; a code
\* that is not active, or is used up, is refused, and so is a course too many.
JoinCourse(t) ==
    /\ join[t].at = "asked" /\ join[t].course # {}
    /\ \/ \E c \in join[t].course : Enrols(t, c)
       \/ UNCHANGED <<enrolled, live>> /\ Answers(t, {})
    /\ UNCHANGED <<cookie, lapses>>

\* Mutant: the new course's token is the cookie.
CookieAfterAlone(held, token) == token

\* participant_cookie_value
CookieAfter(held, token) == held \cup token

HearJoin(t) ==
    /\ join[t].at = "answered" /\ join[t].course # {}
    /\ cookie' = IF join[t].token = {} THEN cookie ELSE CookieAfter(join[t].held, join[t].token)
    /\ join' = [join EXCEPT ![t] = NoJoin]
    /\ UNCHANGED <<enrolled, live, lapses>>

\* logout revokes the sessions that its own request carried,
SignOut(t) ==
    /\ join[t].at = "asked" /\ join[t].course = {}
    /\ live' = live \ join[t].held
    /\ Answers(t, {})
    /\ lapses' = lapses \cup {"left"}
    /\ UNCHANGED <<cookie, enrolled>>

\* and its answer clears the cookie, whatever was added to it in between.
HearSignOut(t) ==
    /\ join[t].at = "answered" /\ join[t].course = {}
    /\ cookie' = {}
    /\ join' = [join EXCEPT ![t] = NoJoin]
    /\ UNCHANGED <<enrolled, live, lapses>>

\* The answer is lost, or the tab is closed, whatever the backend has done; or
\* the backend fails a sign-out.
LoseJoin(t) ==
    /\ join[t].at # "idle"
    /\ join' = [join EXCEPT ![t] = NoJoin]
    /\ lapses' = lapses \cup {l \in {"lost"} : join[t].token # {}}
    /\ UNCHANGED <<cookie, enrolled, live>>

\* participant_session_lifetime
Expire(p) ==
    /\ p \in live
    /\ live' = live \ {p}
    /\ lapses' = lapses \cup {"left"}
    /\ UNCHANGED <<cookie, enrolled, join>>

ParticipationNext ==
    \/ \E t \in Tabs :
          \/ \E c \in Courses : AskToJoin(t, c)
          \/ AskToSignOut(t)
          \/ JoinCourse(t) \/ HearJoin(t) \/ SignOut(t) \/ HearSignOut(t) \/ LoseJoin(t)
    \/ \E p \in live : Expire(p)

---------------------------------------------------------------------------
(* Properties.                                                             *)

\* A browser that clicks the course's link again, in any tab, stays the same
\* participant, unless two of its requests overlapped, an answer was lost or its
\* session ended in between (auth_routes.py join_course).
OneParticipantEach ==
    \/ lapses # {}
    \/ \A p, q \in Participants : enrolled[p] = enrolled[q] => p = q

\* Joining a course leaves the browser in every course it had joined, and signing
\* out drops nobody whose session goes on, unless two joins, or a join and a
\* sign-out, were under way at once: each answer's cookie is made of what its own
\* request carried (auth_routes.py join_course, logout).
JoinedStays ==
    [][\A p \in cookie : p \in live' => p \in cookie' \/ "overlap" \in lapses]_participationVars

=============================================================================
