-------------------------- MODULE GenerationQueue --------------------------
(***************************************************************************)
(* The bounded queue in front of every generation the backend asks for     *)
(* (backend/app/generation_queue.py).  One asyncio event loop runs every   *)
(* request's `slot()` context manager; a step of the model is the code     *)
(* between two awaits, so every step is atomic and the interleavings are   *)
(* those the event loop can produce.                                       *)
(*                                                                         *)
(* A request is in one of these places:                                    *)
(*   idle        not yet arrived                                           *)
(*   waiting     in _wait_turn, suspended in asyncio.wait on its future    *)
(*   polling     in _wait_turn, awaiting disconnected()                    *)
(*   confirming  granted, awaiting disconnected() before it starts         *)
(*   running     inside the `async with` body, a generation in flight      *)
(*   served      the body returned or raised, and the slot was given back  *)
(*   refused     turned away on arrival: queue full, or too long a wait    *)
(*   gave_up     timed out, client gone or cancelled                       *)
(***************************************************************************)
EXTENDS Integers, FiniteSets, SequencesExt

CONSTANTS
    Interactive,     \* classroom requests
    Background,      \* starter-seed generations
    Comparisons,     \* ids of the Compare page's comparisons
    ComparisonOf,    \* the comparison of an interactive request, or NoComparison
    NoComparison,    \* a request that sent no usable x-comparison-id header
    MaxConcurrency,  \* GENERATION_MAX_CONCURRENCY
    MaxWaiting,      \* GENERATION_MAX_WAITING
    QueueTimeout,    \* GENERATION_QUEUE_TIMEOUT_SECONDS, in ticks
    ComparisonTTL,   \* COMPARISON_TTL_SECONDS, in ticks
    LastArrival,     \* bound: no request arrives after this tick
    Horizon          \* bound: the clock stops here

Requests == Interactive \cup Background

ASSUME RequestsAssumption ==
    /\ IsFiniteSet(Interactive) /\ IsFiniteSet(Background)
    /\ Interactive \cap Background = {}
    /\ NoComparison \notin Comparisons
    /\ ComparisonOf \in [Interactive -> Comparisons \cup {NoComparison}]

ASSUME LimitsAssumption ==
    /\ MaxConcurrency \in Nat \ {0} /\ MaxWaiting \in Nat \ {0}
    /\ QueueTimeout \in Nat \ {0}   /\ ComparisonTTL \in Nat
    /\ LastArrival \in Nat          /\ Horizon \in Nat

VARIABLES
    pc,           \* where each request is
    active,       \* _active: slots taken
    queue,        \* _waiters: the requests waiting, in the order they are served
    granted,      \* the requests whose future is done but whose task has not resumed
    key,          \* the waiter's sort key <<rank, group, sequence>>
    sequence,     \* _sequence: the next arrival number
    comparisons,  \* _comparisons: when each comparison was first seen, or Unseen
    ewma,         \* _service_ewma, or NoEstimate
    arrived,      \* `now` at the top of slot(), per request
    started,      \* `started` in slot(), per request
    gone,         \* the requests whose client has closed the connection
    now           \* the monotonic clock

vars == <<pc, active, queue, granted, key, sequence, comparisons, ewma,
          arrived, started, gone, now>>

Unseen == -1
NoEstimate == -1

Waiting == {"waiting", "polling"}
Holding == {"confirming", "running"}
Left == {"served", "refused", "gave_up"}

TypeOK ==
    /\ pc \in [Requests -> {"idle"} \cup Waiting \cup Holding \cup Left]
    /\ active \in Nat
    /\ queue \in Seq(Requests)
    /\ granted \in SUBSET Requests
    /\ key \in [Requests -> {0, 1} \X Nat \X Nat]
    /\ sequence \in Nat
    /\ comparisons \in [Comparisons -> Nat \cup {Unseen}]
    /\ ewma \in Nat \cup {NoEstimate}
    /\ arrived \in [Requests -> Nat]
    /\ started \in [Requests -> Nat]
    /\ gone \in SUBSET Interactive
    /\ now \in Nat

Init ==
    /\ pc = [r \in Requests |-> "idle"]
    /\ active = 0
    /\ queue = <<>>
    /\ granted = {}
    /\ key = [r \in Requests |-> <<0, 0, 0>>]
    /\ sequence = 0
    /\ comparisons = [c \in Comparisons |-> Unseen]
    /\ ewma = NoEstimate
    /\ arrived = [r \in Requests |-> 0]
    /\ started = [r \in Requests |-> 0]
    /\ gone = {}
    /\ now = 0

---------------------------------------------------------------------------
(* Who goes first: interactive before background, then the time the        *)
(* comparison was first seen, then arrival.                                *)

Rank(r) == IF r \in Interactive THEN 0 ELSE 1

Before(k, l) ==
    \/ k[1] < l[1]
    \/ k[1] = l[1] /\ k[2] < l[2]
    \/ k[1] = l[1] /\ k[2] = l[2] /\ k[3] < l[3]

\* _group_time: forget the ids past their time to live, then note a new one.
Remembered ==
    [c \in Comparisons |->
        IF comparisons[c] # Unseen /\ now - comparisons[c] > ComparisonTTL
        THEN Unseen ELSE comparisons[c]]

InComparison(r) == r \in Interactive /\ ComparisonOf[r] # NoComparison

\* Mutant: the second request of a comparison forgets when the first arrived.
GroupTimeArrival(r) == now

GroupTime(r) ==
    IF InComparison(r) /\ Remembered[ComparisonOf[r]] # Unseen
    THEN Remembered[ComparisonOf[r]] ELSE now

NoteComparison(r) ==
    IF InComparison(r)
    THEN comparisons' = [Remembered EXCEPT ![ComparisonOf[r]] = GroupTime(r)]
    ELSE UNCHANGED comparisons

\* bisect over the sorted waiters: how many go before a waiter with key k.
Ahead(k) == {i \in DOMAIN queue : Before(key[queue[i]], k)}
Students(positions) == {i \in positions : queue[i] \in Interactive}

\* estimated_wait(ahead) > queue_timeout * 1.5, without the divisions.
EstimateTooLong(ahead) ==
    /\ ewma # NoEstimate
    /\ 2 * (ahead + active) * ewma > 3 * QueueTimeout * MaxConcurrency

---------------------------------------------------------------------------
(* slot(), up to its first await.                                          *)

Arrive(r) ==
    /\ pc[r] = "idle"
    /\ now <= LastArrival
    /\ arrived' = [arrived EXCEPT ![r] = now]
    /\ NoteComparison(r)
    /\ UNCHANGED <<granted, ewma, gone, now>>

StartAtOnce(r) ==
    /\ Arrive(r)
    /\ active < MaxConcurrency /\ queue = <<>>
    /\ active' = active + 1
    /\ pc' = [pc EXCEPT ![r] = "running"]
    /\ started' = [started EXCEPT ![r] = now]
    /\ UNCHANGED <<queue, key, sequence>>

\* Every arrival that cannot start at once takes a sequence number, the
\* refused ones included.
NewKey(r) == <<Rank(r), GroupTime(r), sequence>>

CannotStart(r) ==
    /\ Arrive(r)
    /\ ~(active < MaxConcurrency /\ queue = <<>>)
    /\ sequence' = sequence + 1
    /\ UNCHANGED <<active, started>>

QueueFull == Cardinality(Students(DOMAIN queue)) >= MaxWaiting
WaitTooLong(r) == EstimateTooLong(Cardinality(Students(Ahead(NewKey(r)))))

Refuse(r) ==
    /\ CannotStart(r)
    /\ r \in Interactive
    /\ QueueFull \/ WaitTooLong(r)
    /\ pc' = [pc EXCEPT ![r] = "refused"]
    /\ UNCHANGED <<queue, key>>

JoinQueue(r) ==
    /\ CannotStart(r)
    /\ r \in Interactive => ~(QueueFull \/ WaitTooLong(r))
    /\ key' = [key EXCEPT ![r] = NewKey(r)]
    /\ queue' = InsertAt(queue, 1 + Cardinality(Ahead(NewKey(r))), r)
    /\ pc' = [pc EXCEPT ![r] = "waiting"]

Enter(r) == StartAtOnce(r) \/ Refuse(r) \/ JoinQueue(r)

---------------------------------------------------------------------------
(* The hand-off.                                                           *)

\* Mutant: a slot freed past the waiters.
ReleaseFree(still) ==
    /\ active' = active - 1
    /\ granted' = still
    /\ UNCHANGED queue

\* _release, of the slot one of `still` gave up: the slot passes straight to
\* the next waiter, or is free again.
Release(still) ==
    IF queue # <<>>
    THEN /\ queue' = Tail(queue)
         /\ granted' = still \cup {Head(queue)}
         /\ UNCHANGED active
    ELSE /\ active' = active - 1
         /\ granted' = still
         /\ UNCHANGED queue

Without(q, r) ==
    IF \E i \in DOMAIN q : q[i] = r
    THEN RemoveAt(q, CHOOSE i \in DOMAIN q : q[i] = r)
    ELSE q

\* Mutants: the slot that reached a waiter giving up is lost; a waiter that gave
\* up keeps its place.
AbandonLeaks(r) ==
    /\ queue' = Without(queue, r)
    /\ granted' = granted \ {r}
    /\ UNCHANGED active

AbandonKeepsPlace(r) ==
    IF r \in granted THEN Release(granted \ {r})
    ELSE UNCHANGED <<active, queue, granted>>

\* _abandon: a waiter that gave up.  If the slot reached it in the meantime,
\* it is passed on.
Abandon(r) ==
    IF r \in granted
    THEN Release(granted \ {r})
    ELSE /\ queue' = Without(queue, r)
         /\ UNCHANGED <<active, granted>>

Leave(r, outcome) == pc' = [pc EXCEPT ![r] = outcome]

---------------------------------------------------------------------------
(* A waiting request resumes.                                              *)

\* asyncio.wait returned with the future done.  An interactive request asks
\* once more whether its client is still there before it starts.
Granted(r) ==
    /\ pc[r] = "waiting" /\ r \in granted
    /\ granted' = granted \ {r}
    /\ IF r \in Interactive
       THEN Leave(r, "confirming") /\ UNCHANGED started
       ELSE Leave(r, "running") /\ started' = [started EXCEPT ![r] = now]
    /\ UNCHANGED <<active, queue, key, sequence, comparisons, ewma, arrived, gone, now>>

\* asyncio.wait timed out after the poll interval; ask disconnected().
PollClient(r) ==
    /\ pc[r] = "waiting" /\ r \notin granted /\ r \in Interactive
    /\ Leave(r, "polling")
    /\ UNCHANGED <<active, queue, granted, key, sequence, comparisons, ewma,
                   arrived, started, gone, now>>

\* Mutant: the deadline is not checked while the client is there.
PollAnswerNoDeadline(r) ==
    /\ pc[r] = "polling"
    /\ \/ r \in gone /\ Leave(r, "gave_up") /\ Abandon(r)
       \/ r \notin gone /\ Leave(r, "waiting") /\ UNCHANGED <<active, queue, granted>>
    /\ UNCHANGED <<key, sequence, comparisons, ewma, arrived, started, gone, now>>

\* disconnected() answered, and the loop's next pass checks the deadline.  The
\* slot may have been granted while the answer was awaited.
PollAnswer(r) ==
    /\ pc[r] = "polling"
    /\ \/ r \in gone /\ Leave(r, "gave_up") /\ Abandon(r)
       \/ /\ r \notin gone /\ now >= arrived[r] + QueueTimeout
          /\ Leave(r, "gave_up") /\ Abandon(r)
       \/ /\ r \notin gone /\ now < arrived[r] + QueueTimeout
          /\ Leave(r, "waiting")
          /\ UNCHANGED <<active, queue, granted>>
    /\ UNCHANGED <<key, sequence, comparisons, ewma, arrived, started, gone, now>>

\* Mutant: a granted request starts without asking whether its client is there.
ConfirmUnasked(r) ==
    /\ pc[r] = "confirming"
    /\ Leave(r, "running")
    /\ started' = [started EXCEPT ![r] = now]
    /\ UNCHANGED <<active, queue, granted, key, sequence, comparisons, ewma,
                   arrived, gone, now>>

Confirm(r) ==
    /\ pc[r] = "confirming"
    /\ IF r \in gone
       THEN Leave(r, "gave_up") /\ Release(granted) /\ UNCHANGED started
       ELSE /\ Leave(r, "running")
            /\ started' = [started EXCEPT ![r] = now]
            /\ UNCHANGED <<active, queue, granted>>
    /\ UNCHANGED <<key, sequence, comparisons, ewma, arrived, gone, now>>

Resume(r) == Granted(r) \/ PollClient(r) \/ PollAnswer(r) \/ Confirm(r)

---------------------------------------------------------------------------
(* A generation ends; tasks are cancelled; clients leave; time passes.     *)

\* _record_service: a moving average lies between its old value and the new
\* sample.  Background work is not recorded.
RecordService(r) ==
    LET seconds == now - started[r] IN
    IF r \notin Interactive THEN UNCHANGED ewma
    ELSE IF ewma = NoEstimate THEN ewma' = seconds
    ELSE ewma' \in {e \in 0..Horizon : \/ ewma <= e /\ e <= seconds
                                       \/ seconds <= e /\ e <= ewma}

EndBody(r, outcome) ==
    /\ pc[r] = "running"
    /\ Leave(r, outcome)
    /\ RecordService(r)
    /\ Release(granted)
    /\ started' = [started EXCEPT ![r] = 0]
    /\ UNCHANGED <<key, sequence, comparisons, arrived, gone, now>>

\* The body of the `async with` returned or raised.
Finish(r) == EndBody(r, "served")

\* Mutant: a cancellation between the grant and the start loses the slot.
CancelLeaks(r) ==
    \/ EndBody(r, "gave_up")
    \/ /\ \/ pc[r] \in Waiting /\ Abandon(r)
          \/ pc[r] = "confirming" /\ UNCHANGED <<active, queue, granted>>
       /\ Leave(r, "gave_up")
       /\ UNCHANGED <<key, sequence, comparisons, ewma, arrived, started, gone, now>>

\* CancelledError at the await a request is suspended in.
Cancel(r) ==
    \/ EndBody(r, "gave_up")
    \/ /\ \/ pc[r] \in Waiting /\ Abandon(r)
          \/ pc[r] = "confirming" /\ Release(granted)
       /\ Leave(r, "gave_up")
       /\ UNCHANGED <<key, sequence, comparisons, ewma, arrived, started, gone, now>>

\* The browser closes the connection.  A request already running no longer asks.
CloseClient(r) ==
    /\ r \in Interactive \ gone
    /\ pc[r] \in Waiting \cup {"confirming"}
    /\ gone' = gone \cup {r}
    /\ UNCHANGED <<pc, active, queue, granted, key, sequence, comparisons, ewma,
                   arrived, started, now>>

\* reset_estimate, when the generation mode changes engines.
ResetEstimate ==
    /\ ewma # NoEstimate
    /\ ewma' = NoEstimate
    /\ UNCHANGED <<pc, active, queue, granted, key, sequence, comparisons,
                   arrived, started, gone, now>>

Tick ==
    /\ now < Horizon
    /\ now' = now + 1
    /\ UNCHANGED <<pc, active, queue, granted, key, sequence, comparisons, ewma,
                   arrived, started, gone>>

Next ==
    \/ \E r \in Requests :
          Enter(r) \/ Resume(r) \/ Finish(r) \/ Cancel(r) \/ CloseClient(r)
    \/ ResetEstimate
    \/ Tick

Spec == Init /\ [][Next]_vars

\* The event loop resumes every runnable task and the clock advances, but
\* nothing obliges a generation to end.
LoopFairness ==
    /\ WF_vars(Tick)
    /\ \A r \in Requests : WF_vars(Resume(r))

HangingSpec == Spec /\ LoopFairness

\* Every call the backend makes under a slot has a timeout, so it does end.
GenerationsEnd == \A r \in Requests : WF_vars(Finish(r))

---------------------------------------------------------------------------
Holders == {r \in Requests : pc[r] \in Holding} \cup granted

\* Every slot counted in _active is held by exactly one request: none is lost
\* when a grant races a timeout, a disconnect or a cancellation, and none is
\* given twice.
SlotsConserved ==
    /\ active = Cardinality(Holders)
    /\ active <= MaxConcurrency

\* No free slot while somebody waits: a hand-off is never lost.
NoIdleSlotWhileWaiting == queue # <<>> => active = MaxConcurrency

\* The waiters are exactly the suspended requests not yet granted, each once.
WaitersAreQueued ==
    /\ IsInjective(queue)
    /\ Range(queue) = {r \in Requests : pc[r] \in Waiting} \ granted
    /\ granted \subseteq {r \in Requests : pc[r] \in Waiting}

TakesSlot(r) == r \notin Holders /\ r \in Holders'

\* Classroom work goes before starter work, whatever the order of arrival.
ClassroomFirst ==
    \A b \in Background : TakesSlot(b) => Range(queue) \cap Interactive = {}

SameComparison(r) ==
    IF InComparison(r)
    THEN {s \in Interactive : ComparisonOf[s] = ComparisonOf[r] /\ pc[s] # "idle"}
    ELSE {r}

\* When the comparison of r began, counting requests that started at once.
Began(r) == CHOOSE t \in 0..Horizon :
    /\ \E s \in SameComparison(r) : arrived[s] = t
    /\ \A s \in SameComparison(r) : t <= arrived[s]

WithinTTL(r) == \A s \in SameComparison(r) : arrived[s] - Began(r) <= ComparisonTTL

\* The student who asked first finishes first: a freed slot never goes to a
\* comparison that began later while a request of an earlier one waits, as
\* long as neither comparison outlived COMPARISON_TTL_SECONDS.
EarlierComparisonFirst ==
    \A r, w \in Interactive :
        (/\ TakesSlot(r)
         /\ pc[r] \in Waiting /\ w \in Range(queue) \ {r}
         /\ WithinTTL(r) /\ WithinTTL(w)) => Began(r) <= Began(w)

\* Who is given the slot that is freed.
ServedInOrder == [][ClassroomFirst /\ EarlierComparisonFirst]_vars

\* Classroom requests leave the queue even if the running generations hang.
ClassroomLeaves == <>[](\A r \in Interactive : pc[r] \notin Waiting)

\* A request whose client left while it waited never reaches a model.
GoneNeverRuns ==
    [][\A r \in Interactive : r \in gone /\ pc[r] \in Waiting \cup {"confirming"}
                                 => pc'[r] # "running"]_vars

\* Starter work has no deadline and is passed by every student, yet when
\* generations end it leaves the queue and is done with (slot).
StartersLeave ==
    GenerationsEnd => \A r \in Background : (pc[r] # "idle") ~> (pc[r] \in Left)

\* Nobody waits for ever in the queue (GenerationQueue.slot).
WaitEnds == ClassroomLeaves /\ StartersLeave

(* The queue keeps the promise of SlotPool: a request holds a slot from     *)
(* the moment its future is set, before its task resumes.                  *)
Pool == INSTANCE SlotPool WITH
    Limit   <- MaxConcurrency,
    fresh   <- {r \in Requests : pc[r] = "idle"},
    waiters <- Range(queue),
    holders <- Holders

ImplementsPool == Pool!Spec
=============================================================================
