----------------------- MODULE GenerationQueueProofs -----------------------
(* The generation queue for any set of requests, any comparisons and any   *)
(* limits: its slots are conserved, it serves in the documented order, and *)
(* it implements SlotPool.  And what its requests were asked for: for any  *)
(* question, any index and any registry, what the retrieval selects and    *)
(* fits, and which model answers from it.  And what the model is asked to  *)
(* make of a syllabus: for any syllabus, any answers and any limits, the   *)
(* inventory of facts (InventoryInv says what backs them at each stage).   *)
EXTENDS GenerationQueue, Conditions, SyllabusFacts, ListLemmas, FiniteSetTheorems

---------------------------------------------------------------------------
\* A waiter giving up leaves the list, whether or not it was still in it.
LEMMA WithoutRange ==
    ASSUME NEW S, NEW s \in Seq(S), NEW r, IsInjective(s)
    PROVE  /\ Without(s, r) \in Seq(S)
           /\ Range(Without(s, r)) = Range(s) \ {r}
           /\ IsInjective(Without(s, r))
<1>1. CASE \E i \in DOMAIN s : s[i] = r
  <2> DEFINE i == CHOOSE i \in DOMAIN s : s[i] = r
  <2>1. i \in 1..Len(s) /\ s[i] = r  BY <1>1
  <2>2. Without(s, r) = RemoveAt(s, i)  BY <1>1 DEF Without
  <2> QED  BY <2>1, <2>2, RemoveAtRange
<1>2. CASE ~ \E i \in DOMAIN s : s[i] = r
  BY <1>2 DEF Without, Range
<1> QED  BY <1>1, <1>2

---------------------------------------------------------------------------
(* The inductive invariant.  SlotsConserved alone is not inductive: that a *)
(* hand-off gives the slot to a request that does not hold one already     *)
(* rests on WaitersAreQueued, and that a newcomer who waits finds every    *)
(* slot taken rests on NoIdleSlotWhileWaiting.                             *)

SlotInv ==
    /\ pc \in [Requests -> {"idle"} \cup Waiting \cup Holding \cup Left]
    /\ active \in Nat
    /\ queue \in Seq(Requests)
    /\ granted \in SUBSET Requests
    /\ SlotsConserved
    /\ NoIdleSlotWhileWaiting
    /\ WaitersAreQueued

\* There are finitely many requests, so the slot holders can be counted.
LEMMA HoldersFinite ==
    ASSUME SlotInv
    PROVE  IsFiniteSet(Requests) /\ IsFiniteSet(Holders) /\ Holders \subseteq Requests
<1>1. IsFiniteSet(Requests)
  BY RequestsAssumption, FS_Union DEF Requests
<1>2. Holders \subseteq Requests
  BY DEF SlotInv, Holders
<1> QED  BY <1>1, <1>2, FS_Subset

\* The three kinds of suspended or running requests are apart.
LEMMA Apart ==
    /\ Waiting \cap Holding = {} /\ Waiting \cap Left = {} /\ Holding \cap Left = {}
    /\ "idle" \notin Waiting \cup Holding \cup Left
  BY DEF Waiting, Holding, Left

\* Whoever gives a slot back, for whatever reason, keeps every slot accounted
\* for: the head of the queue has it, or it is free and nobody waits.
LEMMA GiveBackKeeps ==
    ASSUME SlotInv, NEW r \in Holders, NEW o \in Left,
           Leave(r, o), Release(granted \ {r})
    PROVE  SlotInv'
<1>1. /\ IsFiniteSet(Holders) /\ r \in Requests
      /\ pc' = [pc EXCEPT ![r] = o] /\ pc' \in [Requests -> {"idle"} \cup Waiting \cup Holding \cup Left]
  BY HoldersFinite DEF Leave, SlotInv
<1>2. Cardinality(Holders) \in Nat /\ Cardinality(Holders \ {r}) = active - 1
      /\ IsFiniteSet(Holders \ {r})
  BY <1>1, FS_CardinalityType, FS_RemoveElement DEF SlotInv, SlotsConserved
<1>3. \A q \in Requests : /\ q # r => pc'[q] = pc[q]
                          /\ pc'[r] = o
  BY <1>1 DEF SlotInv
<1>4. o \notin Waiting /\ o \notin Holding
  BY Apart
<1>5. {q \in Requests : pc'[q] \in Holding} = {q \in Requests : pc[q] \in Holding} \ {r}
  BY <1>3, <1>4
<1>6. {q \in Requests : pc'[q] \in Waiting} = {q \in Requests : pc[q] \in Waiting} \ {r}
  BY <1>3, <1>4
<1>7. r \notin Range(queue)
  BY Apart DEF SlotInv, WaitersAreQueued, Holders
<1>8. CASE queue # <<>>
  <2> DEFINE w == Head(queue)
  <2>1. /\ queue' = Tail(queue) /\ granted' = (granted \ {r}) \cup {w}
        /\ active' = active
    BY <1>8 DEF Release
  <2>2. /\ Tail(queue) \in Seq(Requests) /\ w \in Range(queue) /\ w \in Requests
        /\ Range(Tail(queue)) = Range(queue) \ {w} /\ IsInjective(Tail(queue))
    BY <1>8, TailRange DEF SlotInv, WaitersAreQueued
  <2>3. w # r /\ pc[w] \in Waiting /\ w \notin granted /\ w \notin Holders
    BY <1>7, <2>2, Apart DEF SlotInv, WaitersAreQueued, Holders
  <2>4. Holders' = (Holders \ {r}) \cup {w}
    BY <1>5, <2>1, <2>3 DEF Holders
  <2>5. Cardinality(Holders') = active
    <3>1. Cardinality((Holders \ {r}) \cup {w}) = Cardinality(Holders \ {r}) + 1
      BY <1>2, <2>3, FS_AddElement
    <3> QED  BY <1>2, <2>4, <3>1 DEF SlotInv
  <2>6. SlotsConserved'
    BY <2>1, <2>5 DEF SlotInv, SlotsConserved
  <2>7. WaitersAreQueued'
    <3>1. granted' \subseteq {q \in Requests : pc'[q] \in Waiting}
      BY <1>6, <2>1, <2>2, <2>3 DEF SlotInv, WaitersAreQueued
    <3>2. Range(queue') = {q \in Requests : pc'[q] \in Waiting} \ granted'
      BY <1>6, <1>7, <2>1, <2>2 DEF SlotInv, WaitersAreQueued
    <3> QED  BY <2>1, <2>2, <3>1, <3>2 DEF WaitersAreQueued
  <2>8. NoIdleSlotWhileWaiting'
    BY <1>8, <2>1 DEF SlotInv, NoIdleSlotWhileWaiting
  <2> QED
    BY <1>1, <2>1, <2>2, <2>6, <2>7, <2>8 DEF SlotInv
<1>9. CASE queue = <<>>
  <2>1. queue' = <<>> /\ granted' = granted \ {r} /\ active' = active - 1
    BY <1>9 DEF Release
  <2>2. Holders' = Holders \ {r}
    BY <1>5, <2>1 DEF Holders
  <2>3. active' \in Nat /\ Cardinality(Holders') = active'
    BY <1>2, <2>1, <2>2, FS_CardinalityType
  <2>4. SlotsConserved'
    BY <2>1, <2>3, LimitsAssumption DEF SlotInv, SlotsConserved
  <2>5. WaitersAreQueued'
    <3>1. Range(queue') = {q \in Requests : pc'[q] \in Waiting} \ granted'
      BY <1>6, <1>7, <1>9, <2>1 DEF SlotInv, WaitersAreQueued
    <3>2. granted' \subseteq {q \in Requests : pc'[q] \in Waiting}
      BY <1>6, <2>1 DEF SlotInv, WaitersAreQueued
    <3> QED  BY <1>9, <2>1, <3>1, <3>2 DEF SlotInv, WaitersAreQueued
  <2> QED
    BY <1>1, <1>9, <2>1, <2>3, <2>4, <2>5 DEF SlotInv, NoIdleSlotWhileWaiting
<1> QED  BY <1>8, <1>9

\* A waiter that never had a slot leaves the queue and nothing else changes.
LEMMA LeaveQueueKeeps ==
    ASSUME SlotInv, NEW r \in Requests, NEW o \in Left,
           pc[r] \in Waiting, r \notin granted,
           Leave(r, o), queue' = Without(queue, r), UNCHANGED <<active, granted>>
    PROVE  SlotInv'
<1>1. /\ queue' \in Seq(Requests) /\ IsInjective(queue')
      /\ Range(queue') = Range(queue) \ {r}
  BY WithoutRange DEF SlotInv, WaitersAreQueued
<1>2. /\ pc' \in [Requests -> {"idle"} \cup Waiting \cup Holding \cup Left]
      /\ \A q \in Requests : (q # r => pc'[q] = pc[q]) /\ pc'[r] = o
  BY DEF Leave, SlotInv
<1>3. o \notin Waiting /\ o \notin Holding /\ pc[r] \notin Holding
  BY Apart
<1>4. Holders' = Holders
  BY <1>2, <1>3 DEF Holders
<1>5. {q \in Requests : pc'[q] \in Waiting} = {q \in Requests : pc[q] \in Waiting} \ {r}
  BY <1>2, <1>3
<1>6. queue' # <<>> => queue # <<>>
  <2>1. queue = <<>> => Range(queue') = {}
    BY <1>1 DEF Range, SlotInv
  <2>2. queue' # <<>> => 1 \in DOMAIN queue'
    BY <1>1, EmptySeq, LenProperties
  <2> QED  BY <2>1, <2>2 DEF Range
<1> QED
  BY <1>1, <1>2, <1>4, <1>5, <1>6
  DEF SlotInv, SlotsConserved, NoIdleSlotWhileWaiting, WaitersAreQueued

\* The insertion point is a place of the list.
LEMMA AheadBounded ==
    ASSUME SlotInv, NEW k
    PROVE  1 + Cardinality(Ahead(k)) \in 1..Len(queue) + 1
<1>1. Ahead(k) \in SUBSET (1..Len(queue)) /\ Len(queue) \in Nat
  BY LenProperties DEF SlotInv, Ahead
<1>2. IsFiniteSet(1..Len(queue)) /\ Cardinality(1..Len(queue)) = Len(queue)
  <2>1. /\ IsFiniteSet(1..Len(queue))
        /\ Cardinality(1..Len(queue)) = IF 1 > Len(queue) THEN 0 ELSE Len(queue) - 1 + 1
    <3>1. 1 \in Int /\ Len(queue) \in Int  BY <1>1
    <3> QED  BY <3>1, FS_Interval, Zenon
  <2> QED  BY <1>1, <2>1
<1>3. /\ Cardinality(Ahead(k)) \in Nat
      /\ Cardinality(Ahead(k)) <= Len(queue)
  BY <1>1, <1>2, FS_Subset, FS_CardinalityType
<1> QED  BY <1>1, <1>3

\* A newcomer: it starts at once, is turned away, or waits.
LEMMA EnterKeeps ==
    ASSUME SlotInv, NEW r \in Requests, Enter(r)
    PROVE  SlotInv'
<1>1. /\ pc[r] = "idle" /\ granted' = granted
      /\ r \notin Holders /\ r \notin Range(queue) /\ r \notin granted
  <2>1. Arrive(r)
    BY DEF Enter, StartAtOnce, Refuse, JoinQueue, CannotStart
  <2>2. pc[r] = "idle" /\ granted' = granted
    BY <2>1 DEF Arrive
  <2>3. pc[r] \notin Waiting /\ pc[r] \notin Holding
    BY <2>2, Apart
  <2> QED  BY <2>2, <2>3 DEF SlotInv, WaitersAreQueued, Holders
<1>2. IsFiniteSet(Holders) /\ Cardinality(Holders) = active
  BY HoldersFinite DEF SlotInv, SlotsConserved
<1>3. CASE StartAtOnce(r)
  <2>1. /\ active < MaxConcurrency /\ active' = active + 1 /\ queue' = queue
        /\ pc' = [pc EXCEPT ![r] = "running"]
    BY <1>3 DEF StartAtOnce
  <2>2. /\ pc' \in [Requests -> {"idle"} \cup Waiting \cup Holding \cup Left]
        /\ \A q \in Requests : (q # r => pc'[q] = pc[q]) /\ pc'[r] = "running"
    BY <2>1 DEF SlotInv, Holding
  <2>3. {q \in Requests : pc'[q] \in Waiting} = {q \in Requests : pc[q] \in Waiting}
    BY <1>1, <2>2 DEF Waiting
  <2>4. Holders' = Holders \cup {r}
    BY <1>1, <2>2 DEF Holders, Holding
  <2>5. Cardinality(Holders') = active + 1
    BY <1>1, <1>2, <2>4, FS_AddElement
  <2>6. SlotsConserved'
    BY <2>1, <2>5, LimitsAssumption DEF SlotInv, SlotsConserved
  <2> QED
    BY <1>1, <1>3, <2>1, <2>2, <2>3, <2>6
    DEF StartAtOnce, SlotInv, NoIdleSlotWhileWaiting, WaitersAreQueued
<1>4. CASE Refuse(r)
  <2>1. active' = active /\ queue' = queue /\ pc' = [pc EXCEPT ![r] = "refused"]
    BY <1>4 DEF Refuse, CannotStart
  <2>2. /\ pc' \in [Requests -> {"idle"} \cup Waiting \cup Holding \cup Left]
        /\ \A q \in Requests : (q # r => pc'[q] = pc[q]) /\ pc'[r] = "refused"
    BY <2>1 DEF SlotInv, Left
  <2>3. /\ {q \in Requests : pc'[q] \in Waiting} = {q \in Requests : pc[q] \in Waiting}
        /\ {q \in Requests : pc'[q] \in Holding} = {q \in Requests : pc[q] \in Holding}
    BY <1>1, <2>2 DEF Waiting, Holding
  <2> QED
    BY <1>1, <2>1, <2>2, <2>3
    DEF SlotInv, SlotsConserved, NoIdleSlotWhileWaiting, WaitersAreQueued, Holders
<1>5. CASE JoinQueue(r)
  <2> DEFINE at == 1 + Cardinality(Ahead(NewKey(r)))
  <2>1. /\ active' = active /\ queue' = InsertAt(queue, at, r)
        /\ pc' = [pc EXCEPT ![r] = "waiting"]
        /\ ~(active < MaxConcurrency /\ queue = <<>>)
    BY <1>5 DEF JoinQueue, CannotStart
  <2>2. at \in 1..Len(queue) + 1
    BY AheadBounded
  <2> HIDE DEF at
  <2>3. /\ queue' \in Seq(Requests) /\ IsInjective(queue')
        /\ Range(queue') = Range(queue) \cup {r}
    BY <1>1, <2>1, <2>2, InsertAtElements, InsertAtRange DEF SlotInv, WaitersAreQueued
  <2>4. /\ pc' \in [Requests -> {"idle"} \cup Waiting \cup Holding \cup Left]
        /\ \A q \in Requests : (q # r => pc'[q] = pc[q]) /\ pc'[r] = "waiting"
    BY <2>1 DEF SlotInv, Waiting
  <2>5. /\ {q \in Requests : pc'[q] \in Waiting} = {q \in Requests : pc[q] \in Waiting} \cup {r}
        /\ {q \in Requests : pc'[q] \in Holding} = {q \in Requests : pc[q] \in Holding}
    BY <1>1, <2>4 DEF Waiting, Holding
  <2>6. active' = MaxConcurrency
    BY <2>1, LimitsAssumption DEF SlotInv, SlotsConserved, NoIdleSlotWhileWaiting
  <2>7. SlotsConserved'
    BY <1>1, <2>1, <2>5 DEF SlotInv, SlotsConserved, Holders
  <2>8. WaitersAreQueued'
    BY <1>1, <2>3, <2>5 DEF SlotInv, WaitersAreQueued
  <2> QED
    BY <1>1, <2>1, <2>3, <2>4, <2>6, <2>7, <2>8 DEF SlotInv, NoIdleSlotWhileWaiting
<1> QED  BY <1>3, <1>4, <1>5 DEF Enter

\* A request moving between two places of the same kind disturbs nothing.
LEMMA MoveKeeps ==
    ASSUME SlotInv, NEW r \in Requests, NEW o,
           pc' = [pc EXCEPT ![r] = o], UNCHANGED <<active, queue, granted>>,
           \/ pc[r] \in Waiting /\ o \in Waiting
           \/ pc[r] \in Holding /\ o \in Holding
    PROVE  SlotInv'
<1>1. /\ pc' \in [Requests -> {"idle"} \cup Waiting \cup Holding \cup Left]
      /\ \A q \in Requests : (q # r => pc'[q] = pc[q]) /\ pc'[r] = o
  BY DEF SlotInv
<1>2. /\ {q \in Requests : pc'[q] \in Waiting} = {q \in Requests : pc[q] \in Waiting}
      /\ {q \in Requests : pc'[q] \in Holding} = {q \in Requests : pc[q] \in Holding}
  BY <1>1, Apart
<1> QED
  BY <1>1, <1>2
  DEF SlotInv, SlotsConserved, NoIdleSlotWhileWaiting, WaitersAreQueued, Holders

\* A waiter that gives up either passes on the slot it was given or leaves.
LEMMA AbandonKeeps ==
    ASSUME SlotInv, NEW r \in Requests, NEW o \in Left,
           pc[r] \in Waiting, Leave(r, o), Abandon(r)
    PROVE  SlotInv'
<1>1. CASE r \in granted
  <2>1. r \in Holders /\ Release(granted \ {r})
    BY <1>1 DEF Abandon, Holders
  <2> QED  BY <2>1, GiveBackKeeps
<1>2. CASE r \notin granted
  BY <1>2, LeaveQueueKeeps DEF Abandon
<1> QED  BY <1>1, <1>2

\* A request that holds a slot and is no longer waiting is not in `granted`.
LEMMA HolderGivesBack ==
    ASSUME SlotInv, NEW r \in Requests, NEW o \in Left,
           pc[r] \in Holding, Leave(r, o), Release(granted)
    PROVE  SlotInv'
<1>1. r \in Holders /\ granted \ {r} = granted
  BY Apart DEF SlotInv, WaitersAreQueued, Holders
<1>2. Release(granted \ {r})
  BY <1>1
<1> QED  BY <1>1, <1>2, GiveBackKeeps

\* A waiting request resumes.
LEMMA ResumeKeeps ==
    ASSUME SlotInv, NEW r \in Requests, Resume(r)
    PROVE  SlotInv'
<1>1. CASE Granted(r)
  <2>1. /\ pc[r] = "waiting" /\ r \in granted /\ granted' = granted \ {r}
        /\ active' = active /\ queue' = queue
    BY <1>1 DEF Granted
  <2>2. PICK o \in Holding : pc' = [pc EXCEPT ![r] = o]
    BY <1>1 DEF Granted, Leave, Holding
  <2>3. /\ pc' \in [Requests -> {"idle"} \cup Waiting \cup Holding \cup Left]
        /\ \A q \in Requests : (q # r => pc'[q] = pc[q]) /\ pc'[r] = o
    BY <2>2 DEF SlotInv
  <2>4. /\ {q \in Requests : pc'[q] \in Waiting} = {q \in Requests : pc[q] \in Waiting} \ {r}
        /\ {q \in Requests : pc'[q] \in Holding} = {q \in Requests : pc[q] \in Holding} \cup {r}
    BY <2>3, Apart
  <2>5. Holders' = Holders
    BY <2>1, <2>4 DEF Holders
  <2>6. WaitersAreQueued'
    BY <2>1, <2>4 DEF SlotInv, WaitersAreQueued
  <2> QED
    BY <2>1, <2>3, <2>5, <2>6 DEF SlotInv, SlotsConserved, NoIdleSlotWhileWaiting
<1>2. CASE PollClient(r)
  <2>1. /\ pc[r] \in Waiting /\ "polling" \in Waiting
        /\ pc' = [pc EXCEPT ![r] = "polling"] /\ UNCHANGED <<active, queue, granted>>
    BY <1>2 DEF PollClient, Leave, Waiting
  <2> QED  BY <2>1, MoveKeeps
<1>3. CASE PollAnswer(r)
  <2>1. pc[r] \in Waiting /\ "waiting" \in Waiting /\ "gave_up" \in Left
    BY <1>3 DEF PollAnswer, Waiting, Left
  <2>2. CASE Leave(r, "gave_up") /\ Abandon(r)
    BY <2>1, <2>2, AbandonKeeps
  <2>3. CASE Leave(r, "waiting") /\ UNCHANGED <<active, queue, granted>>
    <3>1. pc' = [pc EXCEPT ![r] = "waiting"]  BY <2>3 DEF Leave
    <3> QED  BY <2>1, <2>3, <3>1, MoveKeeps
  <2> QED  BY <1>3, <2>2, <2>3 DEF PollAnswer
<1>4. CASE Confirm(r)
  <2>1. pc[r] \in Holding /\ "running" \in Holding /\ "gave_up" \in Left
    BY <1>4 DEF Confirm, Holding, Left
  <2>2. CASE Leave(r, "gave_up") /\ Release(granted)
    BY <2>1, <2>2, HolderGivesBack
  <2>3. CASE Leave(r, "running") /\ UNCHANGED <<active, queue, granted>>
    <3>1. pc' = [pc EXCEPT ![r] = "running"]  BY <2>3 DEF Leave
    <3> QED  BY <2>1, <2>3, <3>1, MoveKeeps
  <2> QED  BY <1>4, <2>2, <2>3 DEF Confirm
<1> QED  BY <1>1, <1>2, <1>3, <1>4 DEF Resume

\* A generation ends, or its task is cancelled wherever it is suspended.
LEMMA EndKeeps ==
    ASSUME SlotInv, NEW r \in Requests, Finish(r) \/ Cancel(r)
    PROVE  SlotInv'
<1>1. "served" \in Left /\ "gave_up" \in Left
  BY DEF Left
<1>2. ASSUME NEW o \in Left, EndBody(r, o) PROVE SlotInv'
  <2>1. pc[r] \in Holding /\ Leave(r, o) /\ Release(granted)
    BY <1>2 DEF EndBody, Holding
  <2> QED  BY <2>1, HolderGivesBack
<1>3. CASE pc[r] \in Waiting /\ Abandon(r) /\ Leave(r, "gave_up")
  BY <1>1, <1>3, AbandonKeeps
<1>4. CASE pc[r] = "confirming" /\ Release(granted) /\ Leave(r, "gave_up")
  BY <1>1, <1>4, HolderGivesBack DEF Holding
<1> QED  BY <1>1, <1>2, <1>3, <1>4 DEF Finish, Cancel

---------------------------------------------------------------------------
\* SlotInv holds in every reachable state: no slot is lost or given twice
\* however grants, timeouts, disconnects and cancellations interleave.
THEOREM SlotInvariant == Spec => []SlotInv
<1>1. Init => SlotInv
  <2> SUFFICES ASSUME Init PROVE SlotInv
    OBVIOUS
  <2>1. pc \in [Requests -> {"idle"} \cup Waiting \cup Holding \cup Left] /\ active \in Nat
        /\ queue \in Seq(Requests) /\ granted \in SUBSET Requests
    BY DEF Init
  <2>2. Holders = {} /\ {q \in Requests : pc[q] \in Waiting} = {}
    BY Apart DEF Init, Holders
  <2>3. SlotsConserved
    BY <2>2, FS_EmptySet, LimitsAssumption DEF Init, SlotsConserved
  <2>4. WaitersAreQueued
    <3>1. Range(queue) = {} /\ IsInjective(queue)
      BY DEF Init, Range, IsInjective
    <3> QED  BY <2>2, <3>1 DEF Init, WaitersAreQueued
  <2> QED
    BY <2>1, <2>3, <2>4 DEF Init, SlotInv, NoIdleSlotWhileWaiting
<1>2. SlotInv /\ [Next]_vars => SlotInv'
  <2> SUFFICES ASSUME SlotInv, [Next]_vars PROVE SlotInv'
    OBVIOUS
  <2>1. ASSUME NEW r \in Requests, Enter(r) PROVE SlotInv'
    BY <2>1, EnterKeeps
  <2>2. ASSUME NEW r \in Requests, Resume(r) PROVE SlotInv'
    BY <2>2, ResumeKeeps
  <2>3. ASSUME NEW r \in Requests, Finish(r) \/ Cancel(r) PROVE SlotInv'
    BY <2>3, EndKeeps
  <2>4. CASE UNCHANGED <<pc, active, queue, granted>>
    BY <2>4 DEF SlotInv, SlotsConserved, NoIdleSlotWhileWaiting, WaitersAreQueued, Holders
  <2>5. ASSUME NEW r \in Requests, CloseClient(r) PROVE SlotInv'
    BY <2>4, <2>5 DEF CloseClient
  <2>6. CASE ResetEstimate \/ Tick
    BY <2>4, <2>6 DEF ResetEstimate, Tick
  <2>7. CASE UNCHANGED vars
    BY <2>4, <2>7 DEF vars
  <2> QED  BY <2>1, <2>2, <2>3, <2>5, <2>6, <2>7 DEF Next
<1> QED  BY <1>1, <1>2, PTL DEF Spec

\* Every slot counted in _active is held by exactly one request, and there are
\* never more than GENERATION_MAX_CONCURRENCY of them.
THEOREM SlotsAreConserved == Spec => []SlotsConserved
<1>1. SlotInv => SlotsConserved  BY DEF SlotInv
<1> QED  BY <1>1, SlotInvariant, PTL

\* No slot is free while somebody waits for one.
THEOREM NoSlotIdles == Spec => []NoIdleSlotWhileWaiting
<1>1. SlotInv => NoIdleSlotWhileWaiting  BY DEF SlotInv
<1> QED  BY <1>1, SlotInvariant, PTL

\* The queue holds the suspended requests without a slot, each once.
THEOREM QueueIsExact == Spec => []WaitersAreQueued
<1>1. SlotInv => WaitersAreQueued  BY DEF SlotInv
<1> QED  BY <1>1, SlotInvariant, PTL

---------------------------------------------------------------------------
(* Types.  A service time is a natural number because no request started   *)
(* in the future.                                                          *)

DataInv ==
    /\ key \in [Requests -> {0, 1} \X Nat \X Nat]
    /\ sequence \in Nat
    /\ comparisons \in [Comparisons -> Nat \cup {Unseen}]
    /\ ewma \in Nat \cup {NoEstimate}
    /\ arrived \in [Requests -> Nat]
    /\ started \in [Requests -> Nat]
    /\ gone \in SUBSET Interactive
    /\ now \in Nat
    /\ \A r \in Requests : started[r] <= now

\* A comparison's recorded start is a time, and so is the group of a new key.
LEMMA GroupTimes ==
    ASSUME DataInv, NEW r \in Requests
    PROVE  /\ GroupTime(r) \in Nat
           /\ NoteComparison(r) => comparisons' \in [Comparisons -> Nat \cup {Unseen}]
<1>1. Remembered \in [Comparisons -> Nat \cup {Unseen}]
  BY DEF DataInv, Remembered
<1>2. InComparison(r) => ComparisonOf[r] \in Comparisons
  BY RequestsAssumption DEF InComparison
<1>3. GroupTime(r) \in Nat
  <2>1. CASE InComparison(r) /\ Remembered[ComparisonOf[r]] # Unseen
    BY <1>1, <1>2, <2>1 DEF GroupTime
  <2>2. CASE ~(InComparison(r) /\ Remembered[ComparisonOf[r]] # Unseen)
    BY <2>2 DEF GroupTime, DataInv
  <2> QED  BY <2>1, <2>2
<1>4. ASSUME NoteComparison(r) PROVE comparisons' \in [Comparisons -> Nat \cup {Unseen}]
  <2>1. CASE InComparison(r)
    <3>1. comparisons' = [Remembered EXCEPT ![ComparisonOf[r]] = GroupTime(r)]
      BY <1>4, <2>1 DEF NoteComparison
    <3> QED  BY <1>1, <1>3, <3>1
  <2>2. CASE ~InComparison(r)
    BY <1>4, <2>2 DEF NoteComparison, DataInv
  <2> QED  BY <2>1, <2>2
<1> QED  BY <1>3, <1>4

\* An arrival notes its comparison, its time and its key.
LEMMA EnterData ==
    ASSUME DataInv, NEW r \in Requests, Enter(r)
    PROVE  DataInv'
<1>1. /\ arrived' = [arrived EXCEPT ![r] = now] /\ NoteComparison(r)
      /\ UNCHANGED <<ewma, gone, now>>
  BY DEF Enter, StartAtOnce, Refuse, JoinQueue, CannotStart, Arrive
<1>2. /\ comparisons' \in [Comparisons -> Nat \cup {Unseen}]
      /\ arrived' \in [Requests -> Nat]
  BY <1>1, GroupTimes DEF DataInv
<1>3. NewKey(r) \in {0, 1} \X Nat \X Nat
  BY GroupTimes DEF NewKey, Rank, DataInv
<1>4. CASE StartAtOnce(r)
  BY <1>1, <1>2, <1>4 DEF StartAtOnce, DataInv
<1>5. CASE Refuse(r)
  BY <1>1, <1>2, <1>5 DEF Refuse, CannotStart, DataInv
<1>6. CASE JoinQueue(r)
  <2>1. key' = [key EXCEPT ![r] = NewKey(r)] /\ sequence' = sequence + 1 /\ started' = started
    BY <1>6 DEF JoinQueue, CannotStart
  <2>2. key' \in [Requests -> {0, 1} \X Nat \X Nat]
    BY <1>3, <2>1 DEF DataInv
  <2> QED  BY <1>1, <1>2, <2>1, <2>2 DEF DataInv
<1> QED  BY <1>4, <1>5, <1>6 DEF Enter

\* The moving average of natural numbers is one.
LEMMA RecordServiceData ==
    ASSUME DataInv, NEW r \in Requests, RecordService(r)
    PROVE  ewma' \in Nat \cup {NoEstimate}
<1>1. now - started[r] \in Nat
  BY DEF DataInv
<1>2. CASE r \notin Interactive
  BY <1>2 DEF RecordService, DataInv
<1>3. CASE r \in Interactive /\ ewma = NoEstimate
  BY <1>1, <1>3 DEF RecordService
<1>4. CASE r \in Interactive /\ ewma # NoEstimate
  BY <1>4, LimitsAssumption DEF RecordService
<1> QED  BY <1>2, <1>3, <1>4

\* DataInv is inductive on its own.
LEMMA DataStep ==
    ASSUME DataInv, [Next]_vars
    PROVE  DataInv'
<1>1. ASSUME NEW r \in Requests, Enter(r) PROVE DataInv'
  BY <1>1, EnterData
<1>2. ASSUME NEW r \in Requests, Resume(r) PROVE DataInv'
  <2>1. UNCHANGED <<key, sequence, comparisons, ewma, arrived, gone, now>>
    BY <1>2 DEF Resume, Granted, PollClient, PollAnswer, Confirm
  <2>2. started' = started \/ started' = [started EXCEPT ![r] = now]
    BY <1>2 DEF Resume, Granted, PollClient, PollAnswer, Confirm
  <2> QED  BY <2>1, <2>2 DEF DataInv
<1>3. ASSUME NEW r \in Requests, Finish(r) \/ Cancel(r) PROVE DataInv'
  <2>1. UNCHANGED <<key, sequence, comparisons, arrived, gone, now>>
    BY <1>3 DEF Finish, Cancel, EndBody
  <2>2. ewma' = ewma \/ RecordService(r)
    BY <1>3 DEF Finish, Cancel, EndBody
  <2>3. started' = started \/ started' = [started EXCEPT ![r] = 0]
    BY <1>3 DEF Finish, Cancel, EndBody
  <2> QED  BY <2>1, <2>2, <2>3, RecordServiceData DEF DataInv
<1>4. ASSUME NEW r \in Requests, CloseClient(r) PROVE DataInv'
  BY <1>4 DEF CloseClient, DataInv
<1>5. CASE ResetEstimate
  BY <1>5 DEF ResetEstimate, DataInv
<1>6. CASE Tick
  BY <1>6 DEF Tick, DataInv
<1>7. CASE UNCHANGED vars
  BY <1>7 DEF vars, DataInv
<1> QED  BY <1>1, <1>2, <1>3, <1>4, <1>5, <1>6, <1>7 DEF Next

\* The type invariant, in every reachable state.
THEOREM TypeCorrect == Spec => []TypeOK
<1>1. Init => DataInv
  BY DEF Init, DataInv
<1>2. DataInv /\ [Next]_vars => DataInv'
  BY DataStep
<1>3. Spec => []DataInv
  BY <1>1, <1>2, PTL DEF Spec
<1>4. SlotInv /\ DataInv => TypeOK
  BY DEF SlotInv, DataInv, TypeOK
<1> QED  BY <1>3, <1>4, SlotInvariant, PTL

---------------------------------------------------------------------------
(* The order of service.  Who has a slot next is the head of the list, so  *)
(* the list must be sorted; and a key must name the time its comparison    *)
(* began, which _comparisons forgets after COMPARISON_TTL_SECONDS.         *)

Precedes(q, k) == \A i, j \in DOMAIN q : i < j => Before(k[q[i]], k[q[j]])

\* The requests of comparison c that have arrived, refused ones included.
Members(c) == {s \in Interactive : ComparisonOf[s] = c /\ pc[s] # "idle"}

BeganAt(c, b) ==
    /\ \E s \in Members(c) : arrived[s] = b
    /\ \A s \in Members(c) : b <= arrived[s]

OutOfTime(c, b) == \E s \in Members(c) : arrived[s] - b > ComparisonTTL

Known(c, b) ==
    /\ \/ comparisons[c] = b
       \/ comparisons[c] = Unseen /\ now - b > ComparisonTTL
    /\ \A s \in Members(c) \cap Range(queue) : key[s][2] = b

Recorded(c) ==
    \/ Members(c) = {} /\ comparisons[c] = Unseen
    \/ \E b \in 0..now : BeganAt(c, b) /\ (OutOfTime(c, b) \/ Known(c, b))

KeysInv ==
    \A r \in Range(queue) :
        /\ key[r][1] = Rank(r) /\ key[r][3] < sequence
        /\ ~InComparison(r) => key[r][2] = arrived[r]

ArrivalsInv ==
    /\ now \in 0..Horizon
    /\ \A r \in Requests : pc[r] # "idle" => arrived[r] <= now

OrderInv ==
    /\ Precedes(queue, key)
    /\ KeysInv
    /\ ArrivalsInv
    /\ \A c \in Comparisons : Recorded(c)

\* A set of places that has, with each, every earlier one is the first so many.
LEMMA FirstPlaces ==
    ASSUME NEW n \in Nat, NEW A \in SUBSET (1..n),
           \A i \in A : \A j \in 1..n : j < i => j \in A
    PROVE  Cardinality(A) \in Nat /\ A = 1..Cardinality(A)
<1> DEFINE m == Cardinality(A)
<1>1. IsFiniteSet(A) /\ m \in Nat
  <2>1. IsFiniteSet(1..n)
    BY FS_Interval
  <2>2. IsFiniteSet(A)
    BY <2>1, FS_Subset
  <2> QED  BY <2>2, FS_CardinalityType
<1>2. ASSUME NEW x \in A PROVE x <= m
  <2>1. x \in 1..n /\ 1..x \subseteq A
    BY <1>2
  <2>2. Cardinality(1..x) = x
    BY <2>1, FS_Interval
  <2>3. IsFiniteSet(A) /\ Cardinality(1..x) <= Cardinality(A)
    BY <1>1, <2>1, FS_Subset
  <2> QED  BY <2>2, <2>3
<1>3. A \subseteq 1..m
  BY <1>1, <1>2
<1>4. IsFiniteSet(1..m) /\ Cardinality(1..m) = m
  BY <1>1, FS_Interval
<1>5. A = 1..m
  BY <1>3, <1>4, FS_Subset
<1> QED  BY <1>1, <1>5

Keys == {0, 1} \X Nat \X Nat

\* Before is a strict order, and total on keys with different numbers.
LEMMA BeforeIsOrder ==
    ASSUME NEW k \in Keys, NEW l \in Keys, NEW m \in Keys
    PROVE  /\ Before(k, l) /\ Before(l, m) => Before(k, m)
           /\ k[3] # l[3] => Before(k, l) \/ Before(l, k)
           /\ Before(k, l) => k[1] <= l[1] /\ (k[1] = l[1] => k[2] <= l[2])
<1>1. /\ k[1] \in {0, 1} /\ k[2] \in Nat /\ k[3] \in Nat
      /\ l[1] \in {0, 1} /\ l[2] \in Nat /\ l[3] \in Nat
      /\ m[1] \in {0, 1} /\ m[2] \in Nat /\ m[3] \in Nat
  BY DEF Keys
<1> QED  BY <1>1 DEF Before

\* Part of a sorted list is sorted.
LEMMA PartIsSorted ==
    ASSUME NEW q, NEW s, NEW k, Precedes(s, k), InOrderOf(q, s)
    PROVE  Precedes(q, k)
BY DEF Precedes, InOrderOf

\* A list stays sorted under keys k when an element comes between those before
\* it and those after it.
LEMMA InsertPrecedes ==
    ASSUME NEW S, NEW q \in Seq(S), NEW r \in S, NEW p \in 1..Len(q) + 1, NEW k,
           Precedes(q, k),
           \A i \in 1..Len(q) : IF i < p THEN Before(k[q[i]], k[r]) ELSE Before(k[r], k[q[i]])
    PROVE  Precedes(InsertAt(q, p, r), k)
<1> DEFINE t == InsertAt(q, p, r)
           n == Len(q)
<1>1. /\ t \in Seq(S) /\ Len(t) = n + 1 /\ n \in Nat
      /\ \A j \in 1..n + 1 : t[j] = IF j < p THEN q[j] ELSE IF j = p THEN r ELSE q[j - 1]
  <2>1. n \in Nat  BY LenProperties
  <2>2. t \in Seq(S) /\ Len(t) = n + 1  BY InsertAtElements
  <2>3. \A j \in 1..n + 1 : t[j] = IF j < p THEN q[j] ELSE IF j = p THEN r ELSE q[j - 1]
    BY InsertAtElements
  <2> HIDE DEF t, n
  <2> QED  BY <2>1, <2>2, <2>3
<1>2. DOMAIN t = 1..n + 1 /\ DOMAIN q = 1..n
  <2>1. DOMAIN q = 1..n  BY LenProperties
  <2> HIDE DEF t
  <2>2. DOMAIN t = 1..n + 1  BY <1>1, LenProperties
  <2> QED  BY <2>1, <2>2
<1> HIDE DEF t, n
<1>3. \A i, j \in 1..n : i < j => Before(k[q[i]], k[q[j]])
  BY <1>2 DEF Precedes
<1>4. \A i \in 1..n : IF i < p THEN Before(k[q[i]], k[r]) ELSE Before(k[r], k[q[i]])
  BY DEF n
<1>5. n \in Nat /\ p \in 1..n + 1
  BY <1>1 DEF n
<1>6. ASSUME NEW i \in 1..n + 1, NEW j \in 1..n + 1, i < j
      PROVE  Before(k[t[i]], k[t[j]])
  <2>1. CASE j < p
    <3>1. i \in 1..n /\ j \in 1..n /\ t[j] = q[j] /\ t[i] = q[i]
      BY <1>1, <1>5, <1>6, <2>1
    <3> QED  BY <1>3, <1>6, <3>1
  <2>2. CASE j = p
    <3>1. i \in 1..n /\ i < p /\ t[j] = r /\ t[i] = q[i]
      BY <1>1, <1>5, <1>6, <2>2
    <3> QED  BY <1>4, <3>1
  <2>3. CASE i = p
    <3>1. j - 1 \in 1..n /\ ~(j - 1 < p) /\ t[j] = q[j - 1] /\ t[i] = r
      BY <1>1, <1>5, <1>6, <2>3
    <3> QED  BY <1>4, <3>1
  <2>4. CASE i < p /\ p < j
    <3>1. /\ i \in 1..n /\ j - 1 \in 1..n /\ i < j - 1
          /\ t[j] = q[j - 1] /\ t[i] = q[i]
      BY <1>1, <1>5, <1>6, <2>4
    <3> QED  BY <1>3, <3>1
  <2>5. CASE p < i
    <3>1. /\ i - 1 \in 1..n /\ j - 1 \in 1..n /\ i - 1 < j - 1
          /\ t[j] = q[j - 1] /\ t[i] = q[i - 1]
      BY <1>1, <1>5, <1>6, <2>5
    <3> QED  BY <1>3, <3>1
  <2> QED  BY <1>5, <1>6, <2>1, <2>2, <2>3, <2>4, <2>5
<1>7. Precedes(t, k)
  BY <1>2, <1>6 DEF Precedes
<1> QED  BY <1>7 DEF t

\* bisect.insort into a sorted list leaves a sorted list.
LEMMA InsertIsSorted ==
    ASSUME SlotInv, DataInv, OrderInv, NEW r \in Requests, JoinQueue(r)
    PROVE  Precedes(queue', key')
<1> DEFINE k == NewKey(r)
           A == Ahead(k)
           n == Len(queue)
<1>1. /\ pc[r] = "idle" /\ key' = [key EXCEPT ![r] = k]
      /\ queue' = InsertAt(queue, 1 + Cardinality(A), r)
  BY DEF JoinQueue, CannotStart, Arrive
<1>2. r \notin Range(queue)
  BY <1>1, Apart DEF SlotInv, WaitersAreQueued
<1>3. n \in Nat /\ DOMAIN queue = 1..n /\ queue \in Seq(Requests)
      /\ \A i \in 1..n : queue[i] \in Requests /\ queue[i] \in Range(queue)
  BY LenProperties, ElementOfSeq DEF SlotInv, Range
<1>4. k \in Keys /\ k[3] = sequence
  BY GroupTimes DEF NewKey, Rank, DataInv, Keys
<1> HIDE DEF k
<1>5. \A i \in 1..n : key[queue[i]] \in Keys /\ key[queue[i]][3] # k[3]
  BY <1>3, <1>4 DEF OrderInv, KeysInv, DataInv, Keys
<1>6. \A i \in 1..n : i \in A <=> Before(key[queue[i]], k)
  BY <1>3 DEF Ahead
<1>7. ASSUME NEW i \in A, NEW j \in 1..n, j < i PROVE j \in A
  <2>1. i \in 1..n /\ Before(key[queue[i]], k)
    BY <1>3 DEF Ahead
  <2>2. Before(key[queue[j]], key[queue[i]])
    BY <1>3, <1>7, <2>1 DEF OrderInv, Precedes
  <2>3. Before(key[queue[j]], k)
    BY <1>4, <1>5, <2>1, <2>2, BeforeIsOrder
  <2> QED  BY <1>6, <2>3
<1>8. A \in SUBSET (1..n)
  BY <1>3 DEF Ahead
<1> HIDE DEF A
<1> DEFINE p == 1 + Cardinality(A)
<1>9. Cardinality(A) \in Nat /\ A = 1..Cardinality(A)
  BY <1>3, <1>7, <1>8, FirstPlaces
<1>10. p \in 1..n + 1 /\ \A i \in 1..n : i \in A <=> i < p
  BY <1>3, <1>8, <1>9
<1>11. queue' = InsertAt(queue, p, r)
  BY <1>1
<1> HIDE DEF p
<1>12. key'[r] = k /\ \A i \in 1..n : key'[queue[i]] = key[queue[i]]
  BY <1>1, <1>2, <1>3 DEF DataInv
<1>13. \A i \in 1..n : IF i < p THEN Before(key'[queue[i]], key'[r])
                                 ELSE Before(key'[r], key'[queue[i]])
  BY <1>4, <1>5, <1>6, <1>10, <1>12, BeforeIsOrder
<1>14. Precedes(queue, key')
  BY <1>3, <1>12 DEF OrderInv, Precedes
<1>15. Precedes(InsertAt(queue, p, r), key')
  BY <1>3, <1>10, <1>13, <1>14, InsertPrecedes
<1> QED  BY <1>11, <1>15

\* Only an arrival adds to the list; everything else leaves it a part of itself.
LEMMA OthersTake ==
    ASSUME SlotInv, NEW r \in Requests, Resume(r) \/ Finish(r) \/ Cancel(r)
    PROVE  /\ queue' = queue \/ InOrderOf(queue', queue)
           /\ Range(queue') \subseteq Range(queue)
           /\ UNCHANGED <<key, sequence, comparisons, arrived, now>>
           /\ \A s \in Requests : pc'[s] = "idle" <=> pc[s] = "idle"
<1>1. UNCHANGED <<key, sequence, comparisons, arrived, now>>
  BY DEF Resume, Granted, PollClient, PollAnswer, Confirm, Finish, Cancel, EndBody
<1>2. pc[r] # "idle" /\ \E o \in Waiting \cup Holding \cup Left : pc' = [pc EXCEPT ![r] = o]
  BY DEF Resume, Granted, PollClient, PollAnswer, Confirm, Finish, Cancel, EndBody, Leave,
         Waiting, Holding, Left
<1>3. \A s \in Requests : pc'[s] = "idle" <=> pc[s] = "idle"
  BY <1>2, Apart DEF SlotInv
<1>4. \/ queue' = queue \/ (queue # <<>> /\ queue' = Tail(queue))
      \/ queue' = Without(queue, r)
  BY DEF Resume, Granted, PollClient, PollAnswer, Confirm, Finish, Cancel, EndBody, Abandon, Release
<1>5. CASE queue # <<>> /\ queue' = Tail(queue)
  BY <1>1, <1>3, <1>5, TailRange, TailOrder DEF SlotInv, WaitersAreQueued
<1>6. CASE queue' = Without(queue, r)
  <2>1. Range(queue') \subseteq Range(queue)
    BY <1>6, WithoutRange DEF SlotInv, WaitersAreQueued
  <2>2. queue' = queue \/ InOrderOf(queue', queue)
    <3>1. CASE \E i \in DOMAIN queue : queue[i] = r
      <4> DEFINE i == CHOOSE i \in DOMAIN queue : queue[i] = r
      <4>1. i \in 1..Len(queue) /\ queue' = RemoveAt(queue, i)
        BY <1>6, <3>1, LenProperties DEF Without, SlotInv
      <4> HIDE DEF i
      <4>2. queue \in Seq(Requests)
        BY DEF SlotInv
      <4> QED  BY <4>1, <4>2, RemoveAtOrder
    <3>2. CASE ~ \E i \in DOMAIN queue : queue[i] = r
      BY <1>6, <3>2 DEF Without
    <3> QED  BY <3>1, <3>2
  <2> QED  BY <1>1, <1>3, <2>1, <2>2
<1> QED  BY <1>1, <1>3, <1>4, <1>5, <1>6

\* What an arrival does to the list, the keys and the times.
LEMMA EnterTakes ==
    ASSUME SlotInv, DataInv, NEW r \in Requests, Enter(r)
    PROVE  /\ pc[r] = "idle" /\ r \notin Range(queue)
           /\ \A s \in Requests : pc'[s] = "idle" <=> pc[s] = "idle" /\ s # r
           /\ arrived' = [arrived EXCEPT ![r] = now] /\ now' = now /\ NoteComparison(r)
           /\ sequence' \in {sequence, sequence + 1}
           /\ Range(queue') \subseteq Range(queue) \cup {r}
           /\ \A s \in Requests : s # r => key'[s] = key[s]
           /\ r \in Range(queue') => key'[r] = NewKey(r) /\ sequence' = sequence + 1
<1>1. /\ pc[r] = "idle" /\ arrived' = [arrived EXCEPT ![r] = now] /\ now' = now
      /\ NoteComparison(r)
  BY DEF Enter, StartAtOnce, Refuse, JoinQueue, CannotStart, Arrive
<1>2. r \notin Range(queue)
  BY <1>1, Apart DEF SlotInv, WaitersAreQueued
<1>3. \E o \in {"running", "refused", "waiting"} : pc' = [pc EXCEPT ![r] = o]
  BY DEF Enter, StartAtOnce, Refuse, JoinQueue
<1>4. \A s \in Requests : pc'[s] = "idle" <=> pc[s] = "idle" /\ s # r
  BY <1>1, <1>3 DEF SlotInv
<1>5. CASE StartAtOnce(r)
  BY <1>1, <1>2, <1>4, <1>5 DEF StartAtOnce
<1>6. CASE Refuse(r)
  BY <1>1, <1>2, <1>4, <1>6 DEF Refuse, CannotStart
<1>7. CASE JoinQueue(r)
  <2> DEFINE at == 1 + Cardinality(Ahead(NewKey(r)))
  <2>1. /\ queue' = InsertAt(queue, at, r) /\ key' = [key EXCEPT ![r] = NewKey(r)]
        /\ sequence' = sequence + 1
    BY <1>7 DEF JoinQueue, CannotStart
  <2>2. at \in 1..Len(queue) + 1
    BY AheadBounded
  <2> HIDE DEF at
  <2>3. Range(queue') = Range(queue) \cup {r}
    BY <2>1, <2>2, InsertAtRange DEF SlotInv
  <2>4. key'[r] = NewKey(r) /\ \A s \in Requests : s # r => key'[s] = key[s]
    BY <2>1 DEF DataInv
  <2> QED  BY <1>1, <1>2, <1>4, <2>1, <2>3, <2>4
<1> QED  BY <1>5, <1>6, <1>7 DEF Enter

\* What is recorded of a comparison stays true while nobody arrives.
LEMMA RecordedStays ==
    ASSUME SlotInv, DataInv, NEW c \in Comparisons, Recorded(c),
           \A s \in Requests : pc'[s] = "idle" <=> pc[s] = "idle",
           arrived' = arrived, comparisons' = comparisons, key' = key,
           now' \in {now, now + 1}, Range(queue') \subseteq Range(queue)
    PROVE  Recorded(c)'
<1>1. Members(c)' = Members(c)
  BY DEF Members, Requests
<1>2. CASE Members(c) = {} /\ comparisons[c] = Unseen
  BY <1>1, <1>2 DEF Recorded
<1>3. ASSUME NEW b \in 0..now, BeganAt(c, b), OutOfTime(c, b) \/ Known(c, b)
      PROVE  Recorded(c)'
  <2>1. BeganAt(c, b)'
    BY <1>1, <1>3 DEF BeganAt
  <2>2. b \in 0..now' /\ now \in Nat /\ now' \in Nat /\ now <= now'
    BY DEF DataInv
  <2>3. OutOfTime(c, b) => OutOfTime(c, b)'
    BY <1>1 DEF OutOfTime
  <2>4. ASSUME Known(c, b) PROVE Known(c, b)'
    <3>1. \A s \in Members(c)' \cap Range(queue)' : key'[s][2] = b
      BY <1>1, <2>4 DEF Known
    <3>2. now - b > ComparisonTTL => now' - b > ComparisonTTL
      <4>1. PICK limit \in Nat : limit = ComparisonTTL  BY LimitsAssumption
      <4>2. PICK after \in Nat : after = now'  BY <2>2
      <4>3. PICK before \in Nat : before = now  BY <2>2
      <4>4. b \in Nat  BY <2>2, <4>2
      <4>5. before <= after  BY <2>2, <4>2, <4>3
      <4>6. before - b > limit => after - b > limit  BY <4>4, <4>5
      <4> QED  BY <4>1, <4>2, <4>3, <4>6
    <3>3. comparisons'[c] = b \/ (comparisons'[c] = Unseen /\ now' - b > ComparisonTTL)
      BY <2>4, <3>2 DEF Known
    <3> QED  BY <3>1, <3>3 DEF Known
  <2>5. OutOfTime(c, b)' \/ Known(c, b)'
    BY <1>3, <2>3, <2>4
  <2> QED  BY <2>1, <2>2, <2>5 DEF Recorded
<1> QED  BY <1>2, <1>3 DEF Recorded

\* An arrival leaves what is recorded of a comparison true: of another than its
\* own, which may be forgotten in its time, and of its own, whose first request
\* it may be, or the one that shows it out of time.
LEMMA RecordedAtArrival ==
    ASSUME SlotInv, DataInv, NEW c \in Comparisons, Recorded(c), NEW r \in Requests, Enter(r)
    PROVE  Recorded(c)'
<1>1. /\ pc[r] = "idle" /\ r \notin Range(queue) /\ now' = now /\ now \in Nat
      /\ NoteComparison(r) /\ Range(queue') \subseteq Range(queue) \cup {r}
      /\ arrived'[r] = now /\ \A s \in Requests : s # r => arrived'[s] = arrived[s]
      /\ \A s \in Requests : pc'[s] = "idle" <=> pc[s] = "idle" /\ s # r
      /\ \A s \in Requests : s # r => key'[s] = key[s]
  BY EnterTakes DEF DataInv
<1>2. r \in Range(queue') => key'[r][2] = GroupTime(r)
  BY EnterTakes DEF NewKey
<1>3. /\ comparisons[c] \in Nat \cup {Unseen} /\ Unseen = -1 /\ ComparisonTTL \in Nat
      /\ \A s \in Requests : arrived[s] \in Nat
  BY LimitsAssumption DEF DataInv, Unseen
<1>4. \/ Remembered[c] = comparisons[c] /\ ~(comparisons[c] # Unseen /\ now - comparisons[c] > ComparisonTTL)
      \/ Remembered[c] = Unseen /\ comparisons[c] # Unseen /\ now - comparisons[c] > ComparisonTTL
  BY DEF Remembered
<1>5. \A s \in Members(c) : s \in Requests /\ s # r
  BY <1>1 DEF Members, Requests
<1>6. CASE InComparison(r) /\ ComparisonOf[r] = c
  <2>1. Members(c)' = Members(c) \cup {r}
    BY <1>1, <1>6 DEF Members, InComparison, Requests
  <2>2. comparisons'[c] = GroupTime(r)
    <3>1. comparisons' = [Remembered EXCEPT ![c] = GroupTime(r)]
      BY <1>1, <1>6 DEF NoteComparison
    <3> QED  BY <3>1 DEF Remembered
  <2>3. GroupTime(r) = IF Remembered[c] # Unseen THEN Remembered[c] ELSE now
    BY <1>6 DEF GroupTime
  <2>4. CASE Members(c) = {} /\ comparisons[c] = Unseen
    <3>1. Members(c)' = {r} /\ GroupTime(r) = now
      BY <1>4, <2>1, <2>3, <2>4
    <3>2. now \in 0..now' /\ BeganAt(c, now)' /\ Known(c, now)'
      BY <1>1, <1>2, <2>2, <3>1 DEF BeganAt, Known
    <3> QED  BY <1>1, <3>2 DEF Recorded
  <2>5. ASSUME NEW b \in 0..now, BeganAt(c, b), OutOfTime(c, b) \/ Known(c, b)
        PROVE  Recorded(c)'
    <3>1. BeganAt(c, b)'
      BY <1>1, <1>5, <2>1, <2>5 DEF BeganAt
    <3>2. OutOfTime(c, b) => OutOfTime(c, b)'
      BY <1>1, <1>5, <2>1 DEF OutOfTime
    <3>3. CASE now - b > ComparisonTTL
      <4>1. OutOfTime(c, b)'
        BY <1>1, <2>1, <3>3 DEF OutOfTime
      <4> QED  BY <1>1, <3>1, <4>1 DEF Recorded
    <3>4. CASE ~(now - b > ComparisonTTL) /\ Known(c, b)
      <4>1. comparisons[c] = b
        BY <3>4 DEF Known
      <4>2. GroupTime(r) = b
        BY <1>3, <1>4, <2>3, <3>4, <4>1
      <4>3. Known(c, b)'
        <5>1. comparisons'[c] = b
          BY <2>2, <4>2
        <5>2. \A s \in Members(c)' \cap Range(queue') : key'[s][2] = b
          BY <1>1, <1>2, <1>5, <2>1, <3>4, <4>2 DEF Known
        <5> QED  BY <5>1, <5>2 DEF Known
      <4> QED  BY <1>1, <3>1, <4>3 DEF Recorded
    <3> QED  BY <1>1, <2>5, <3>1, <3>2, <3>3, <3>4 DEF Recorded
  <2> QED  BY <2>4, <2>5 DEF Recorded
<1>7. CASE ~(InComparison(r) /\ ComparisonOf[r] = c)
  <2>1. Members(c)' = Members(c)
    <3>1. ~(r \in Interactive /\ ComparisonOf[r] = c)
      BY <1>7, RequestsAssumption DEF InComparison
    <3> QED  BY <1>1, <3>1 DEF Members, Requests
  <2>2. comparisons'[c] = comparisons[c] \/ comparisons'[c] = Remembered[c]
    <3>1. CASE InComparison(r)
      <4>1. comparisons' = [Remembered EXCEPT ![ComparisonOf[r]] = GroupTime(r)]
        BY <1>1, <3>1 DEF NoteComparison
      <4> QED  BY <1>7, <3>1, <4>1 DEF Remembered
    <3>2. CASE ~InComparison(r)
      BY <1>1, <3>2 DEF NoteComparison
    <3> QED  BY <3>1, <3>2
  <2>3. CASE Members(c) = {} /\ comparisons[c] = Unseen
    BY <1>4, <2>1, <2>2, <2>3 DEF Recorded
  <2>4. ASSUME NEW b \in 0..now, BeganAt(c, b), OutOfTime(c, b) \/ Known(c, b)
        PROVE  Recorded(c)'
    <3>1. BeganAt(c, b)'
      BY <1>1, <1>5, <2>1, <2>4 DEF BeganAt
    <3>2. OutOfTime(c, b) => OutOfTime(c, b)'
      BY <1>1, <1>5, <2>1 DEF OutOfTime
    <3>3. ASSUME Known(c, b) PROVE Known(c, b)'
      <4>1. \A s \in Members(c)' \cap Range(queue') : key'[s][2] = b
        BY <1>1, <1>5, <2>1, <3>3 DEF Known
      <4>2. comparisons'[c] = b \/ (comparisons'[c] = Unseen /\ now' - b > ComparisonTTL)
        BY <1>1, <1>3, <1>4, <2>2, <3>3 DEF Known
      <4> QED  BY <4>1, <4>2 DEF Known
    <3> QED  BY <1>1, <2>4, <3>1, <3>2, <3>3 DEF Recorded
  <2> QED  BY <2>3, <2>4 DEF Recorded
<1> QED  BY <1>6, <1>7

\* The order is kept by every step.
LEMMA OrderStep ==
    ASSUME SlotInv, DataInv, OrderInv, [Next]_vars
    PROVE  OrderInv'
<1>1. ASSUME NEW r \in Requests, Enter(r) PROVE OrderInv'
  <2>1. /\ r \notin Range(queue) /\ now' = now /\ sequence' \in {sequence, sequence + 1}
        /\ \A s \in Requests : pc'[s] = "idle" <=> pc[s] = "idle" /\ s # r
        /\ arrived'[r] = now /\ \A s \in Requests : s # r => arrived'[s] = arrived[s]
        /\ \A s \in Requests : s # r => key'[s] = key[s]
        /\ Range(queue') \subseteq Range(queue) \cup {r}
        /\ r \in Range(queue') => key'[r] = NewKey(r) /\ sequence' = sequence + 1
    BY <1>1, EnterTakes DEF DataInv
  <2>2. Precedes(queue', key')
    <3>1. CASE JoinQueue(r)
      BY <3>1, InsertIsSorted
    <3>2. CASE StartAtOnce(r) \/ Refuse(r)
      BY <3>2 DEF StartAtOnce, Refuse, CannotStart, OrderInv
    <3> QED  BY <1>1, <3>1, <3>2 DEF Enter
  <2>3. KeysInv'
    <3>1. SUFFICES ASSUME NEW s \in Range(queue')
                   PROVE  /\ key'[s][1] = Rank(s) /\ key'[s][3] < sequence'
                          /\ ~InComparison(s) => key'[s][2] = arrived'[s]
      BY DEF KeysInv, Rank, InComparison
    <3>2. sequence \in Nat /\ Range(queue) \subseteq Requests /\ key \in [Requests -> Keys]
      BY DEF DataInv, SlotInv, WaitersAreQueued, Keys
    <3>3. CASE s = r
      <4>1. key'[s] = <<Rank(s), GroupTime(s), sequence>> /\ sequence' = sequence + 1
        BY <2>1, <3>1, <3>3 DEF NewKey
      <4>2. ~InComparison(s) => GroupTime(s) = now
        BY DEF GroupTime
      <4> QED  BY <2>1, <3>2, <3>3, <4>1, <4>2
    <3>4. CASE s # r
      <4>1. s \in Range(queue) /\ s \in Requests /\ key'[s] = key[s] /\ arrived'[s] = arrived[s]
        BY <2>1, <3>1, <3>2, <3>4
      <4>2. key[s][3] < sequence /\ key[s][3] \in Nat
        BY <3>2, <4>1 DEF OrderInv, KeysInv, Keys
      <4>3. key'[s][3] < sequence'
        BY <2>1, <3>2, <4>1, <4>2
      <4> QED  BY <4>1, <4>3 DEF OrderInv, KeysInv
    <3> QED  BY <3>3, <3>4
  <2>4. ArrivalsInv'
    BY <2>1 DEF OrderInv, ArrivalsInv, DataInv
  <2>5. \A c \in Comparisons : Recorded(c)'
    BY <1>1, RecordedAtArrival DEF OrderInv
  <2> QED  BY <2>2, <2>3, <2>4, <2>5 DEF OrderInv
<1>2. ASSUME NEW r \in Requests, Resume(r) \/ Finish(r) \/ Cancel(r) PROVE OrderInv'
  <2>1. /\ queue' = queue \/ InOrderOf(queue', queue)
        /\ Range(queue') \subseteq Range(queue)
        /\ key' = key /\ sequence' = sequence /\ comparisons' = comparisons
        /\ arrived' = arrived /\ now' = now
        /\ \A s \in Requests : pc'[s] = "idle" <=> pc[s] = "idle"
    BY <1>2, OthersTake
  <2>2. Precedes(queue', key')
    BY <2>1, PartIsSorted DEF OrderInv
  <2>3. KeysInv' /\ ArrivalsInv'
    BY <2>1 DEF OrderInv, KeysInv, ArrivalsInv, Rank, InComparison
  <2>4. \A c \in Comparisons : Recorded(c)'
    BY <2>1, RecordedStays DEF OrderInv
  <2> QED  BY <2>2, <2>3, <2>4 DEF OrderInv
<1>3. CASE /\ UNCHANGED <<pc, queue, key, sequence, comparisons, arrived>>
           /\ now' = now \/ (now' = now + 1 /\ now < Horizon)
  <2>1. Precedes(queue', key')
    BY <1>3 DEF OrderInv
  <2>2. KeysInv'
    BY <1>3 DEF OrderInv, KeysInv, Rank, InComparison
  <2>3. ArrivalsInv'
    BY <1>3, LimitsAssumption DEF OrderInv, ArrivalsInv, DataInv
  <2>4. \A c \in Comparisons : Recorded(c)'
    BY <1>3, RecordedStays DEF OrderInv
  <2> QED  BY <2>1, <2>2, <2>3, <2>4 DEF OrderInv
<1>4. ASSUME NEW r \in Requests, CloseClient(r) PROVE OrderInv'
  BY <1>3, <1>4 DEF CloseClient
<1>5. CASE ResetEstimate \/ Tick \/ UNCHANGED vars
  BY <1>3, <1>5 DEF ResetEstimate, Tick, vars
<1> QED  BY <1>1, <1>2, <1>4, <1>5 DEF Next

LEMMA OrderInvariant == Spec => [](SlotInv /\ DataInv /\ OrderInv)
<1>1. Init => DataInv
  BY DEF Init, DataInv
<1>2. Init => OrderInv
  <2> SUFFICES ASSUME Init PROVE OrderInv
    OBVIOUS
  <2>1. queue = <<>> /\ DOMAIN queue = {} /\ Range(queue) = {}
    BY DEF Init, Range
  <2>2. Precedes(queue, key) /\ KeysInv
    BY <2>1 DEF Precedes, KeysInv
  <2>3. ArrivalsInv
    BY LimitsAssumption DEF Init, ArrivalsInv
  <2>4. \A c \in Comparisons : Recorded(c)
    BY DEF Init, Recorded, Members, Requests
  <2> QED  BY <2>2, <2>3, <2>4 DEF OrderInv
<1>3. DataInv /\ [Next]_vars => DataInv'
  BY DataStep
<1>4. SlotInv /\ DataInv /\ OrderInv /\ [Next]_vars => OrderInv'
  BY OrderStep
<1> QED  BY <1>1, <1>2, <1>3, <1>4, SlotInvariant, PTL DEF Spec

\* Whoever comes to hold a slot was the first in the list, or found none.
LEMMA OnlyHeadIsServed ==
    ASSUME SlotInv, [Next]_vars, NEW s \in Requests, TakesSlot(s)
    PROVE  queue = <<>> \/ s = Head(queue)
<1>1. s \notin Holders /\ s \in Holders'
  BY DEF TakesSlot
<1>2. ASSUME NEW r \in Requests, NEW o \in Left, Leave(r, o), NEW still \in SUBSET granted, Release(still)
      PROVE  queue = <<>> \/ s = Head(queue)
  <2>1. pc'[s] \in Holding => pc[s] \in Holding
    BY <1>2, Apart DEF Leave, SlotInv
  <2>2. s \in granted'
    BY <1>1, <2>1 DEF Holders
  <2> QED  BY <1>1, <1>2, <2>2 DEF Release, Holders
<1>3. ASSUME NEW r \in Requests, NEW o \in Left, Leave(r, o), Abandon(r)
      PROVE  queue = <<>> \/ s = Head(queue)
  <2>1. CASE r \in granted
    BY <1>2, <1>3, <2>1 DEF Abandon
  <2>2. CASE r \notin granted
    <3>1. granted' = granted /\ (pc'[s] \in Holding => pc[s] \in Holding)
      BY <1>3, <2>2, Apart DEF Abandon, Leave, SlotInv
    <3> QED  BY <1>1, <3>1 DEF Holders
  <2> QED  BY <2>1, <2>2
<1>4. ASSUME UNCHANGED granted, \A q \in Requests : pc'[q] \in Holding => pc[q] \in Holding
      PROVE  FALSE
  BY <1>1, <1>4 DEF Holders
<1>5. "served" \in Left /\ "gave_up" \in Left
  BY DEF Left
<1>6. ASSUME NEW r \in Requests, Enter(r) PROVE queue = <<>> \/ s = Head(queue)
  <2>1. CASE StartAtOnce(r)
    BY <2>1 DEF StartAtOnce
  <2>2. CASE Refuse(r) \/ JoinQueue(r)
    <3>1. UNCHANGED granted /\ (Leave(r, "refused") \/ Leave(r, "waiting"))
      BY <2>2 DEF Refuse, JoinQueue, CannotStart, Arrive, Leave
    <3>2. \A q \in Requests : pc'[q] \in Holding => pc[q] \in Holding
      BY <3>1 DEF Leave, SlotInv, Holding
    <3> QED  BY <1>4, <3>1, <3>2
  <2> QED  BY <1>6, <2>1, <2>2 DEF Enter
<1>7. ASSUME NEW r \in Requests, Resume(r) PROVE queue = <<>> \/ s = Head(queue)
  <2>1. CASE Granted(r)
    <3>1. r \in granted /\ granted' = granted \ {r} /\ \A q \in Requests : q # r => pc'[q] = pc[q]
      BY <2>1 DEF Granted, Leave, SlotInv
    <3> QED  BY <1>1, <3>1 DEF Holders
  <2>2. CASE PollClient(r)
    <3>1. UNCHANGED granted /\ \A q \in Requests : pc'[q] \in Holding => pc[q] \in Holding
      BY <2>2 DEF PollClient, Leave, SlotInv, Holding
    <3> QED  BY <1>4, <3>1
  <2>3. CASE PollAnswer(r)
    <3>1. CASE Leave(r, "gave_up") /\ Abandon(r)
      BY <1>3, <1>5, <3>1
    <3>2. CASE Leave(r, "waiting") /\ UNCHANGED <<active, queue, granted>>
      <4>1. \A q \in Requests : pc'[q] \in Holding => pc[q] \in Holding
        BY <3>2 DEF Leave, SlotInv, Holding
      <4> QED  BY <1>4, <3>2, <4>1
    <3> QED  BY <2>3, <3>1, <3>2 DEF PollAnswer
  <2>4. CASE Confirm(r)
    <3>1. CASE Leave(r, "gave_up") /\ Release(granted)
      BY <1>2, <1>5, <3>1
    <3>2. CASE Leave(r, "running") /\ UNCHANGED <<active, queue, granted>>
      <4>1. \A q \in Requests : pc'[q] \in Holding => pc[q] \in Holding
        BY <2>4, <3>2 DEF Confirm, Leave, SlotInv, Holding
      <4> QED  BY <1>4, <3>2, <4>1
    <3> QED  BY <2>4, <3>1, <3>2 DEF Confirm
  <2> QED  BY <1>7, <2>1, <2>2, <2>3, <2>4 DEF Resume
<1>8. ASSUME NEW r \in Requests, Finish(r) \/ Cancel(r) PROVE queue = <<>> \/ s = Head(queue)
  <2>1. ASSUME NEW o \in Left, EndBody(r, o) PROVE queue = <<>> \/ s = Head(queue)
    BY <1>2, <2>1 DEF EndBody
  <2>2. CASE Leave(r, "gave_up") /\ Abandon(r)
    BY <1>3, <1>5, <2>2
  <2>3. CASE Leave(r, "gave_up") /\ Release(granted)
    BY <1>2, <1>5, <2>3
  <2> QED  BY <1>5, <1>8, <2>1, <2>2, <2>3 DEF Finish, Cancel
<1>9. CASE UNCHANGED <<pc, granted>>
  BY <1>4, <1>9
<1>10. ASSUME NEW r \in Requests, CloseClient(r) PROVE queue = <<>> \/ s = Head(queue)
  BY <1>9, <1>10 DEF CloseClient
<1>11. CASE ResetEstimate \/ Tick \/ UNCHANGED vars
  BY <1>9, <1>11 DEF ResetEstimate, Tick, vars
<1> QED  BY <1>6, <1>7, <1>8, <1>10, <1>11 DEF Next

\* A waiter's key says when its comparison began, unless that was too long ago.
LEMMA KeyIsBegan ==
    ASSUME SlotInv, DataInv, OrderInv, NEW r \in Range(queue), r \in Interactive, WithinTTL(r)
    PROVE  key[r][2] = Began(r)
<1> DEFINE First(t) == /\ \E s \in SameComparison(r) : arrived[s] = t
                       /\ \A s \in SameComparison(r) : t <= arrived[s]
<1>1. /\ r \in Requests /\ pc[r] # "idle" /\ arrived[r] <= now /\ now \in 0..Horizon
      /\ Horizon \in Nat /\ \A s \in Requests : arrived[s] \in Nat
  BY Apart, LimitsAssumption DEF SlotInv, WaitersAreQueued, OrderInv, ArrivalsInv, DataInv
<1>2. SameComparison(r) \subseteq Requests
  BY <1>1 DEF SameComparison, Requests
<1>3. \A t, u \in 0..Horizon : First(t) /\ First(u) => t = u
  BY <1>1, <1>2
<1>4. ASSUME NEW b \in 0..Horizon, First(b) PROVE Began(r) = b
  <2>1. Began(r) = CHOOSE t \in 0..Horizon : First(t)
    BY DEF Began
  <2>2. \E t \in 0..Horizon : First(t)
    BY <1>4
  <2> HIDE DEF First
  <2>3. Began(r) \in 0..Horizon /\ First(Began(r))
    BY <2>1, <2>2
  <2> QED  BY <1>3, <1>4, <2>3
<1>5. CASE InComparison(r)
  <2> DEFINE c == ComparisonOf[r]
  <2>1. c \in Comparisons /\ SameComparison(r) = Members(c) /\ r \in Members(c)
    BY <1>1, <1>5, RequestsAssumption DEF InComparison, SameComparison, Members
  <2>2. Recorded(c)
    BY <2>1 DEF OrderInv
  <2>3. PICK b \in 0..now : BeganAt(c, b) /\ (OutOfTime(c, b) \/ Known(c, b))
    BY <2>1, <2>2 DEF Recorded
  <2>4. b \in 0..Horizon /\ First(b)
    BY <1>1, <2>1, <2>3 DEF BeganAt
  <2>5. Began(r) = b
    BY <1>4, <2>4
  <2>6. \A s \in Members(c) : ~(arrived[s] - b > ComparisonTTL)
    BY <1>1, <1>2, <2>1, <2>5, LimitsAssumption DEF WithinTTL
  <2>7. Known(c, b)
    BY <2>3, <2>6 DEF OutOfTime
  <2> QED  BY <2>1, <2>5, <2>7 DEF Known
<1>6. CASE ~InComparison(r)
  <2>1. SameComparison(r) = {r}
    BY <1>6 DEF SameComparison
  <2>2. arrived[r] \in 0..Horizon /\ First(arrived[r])
    BY <1>1, <2>1
  <2>3. Began(r) = arrived[r]
    BY <1>4, <2>2
  <2> QED  BY <1>6, <2>3 DEF OrderInv, KeysInv
<1> QED  BY <1>5, <1>6

\* A slot goes to classroom work before starter work, and to the comparison that
\* began first, as long as neither has outlived COMPARISON_TTL_SECONDS.
THEOREM ServedInTurn == Spec => ServedInOrder
<1>1. SlotInv /\ DataInv /\ OrderInv /\ [Next]_vars => [ClassroomFirst /\ EarlierComparisonFirst]_vars
  <2> SUFFICES ASSUME SlotInv, DataInv, OrderInv, [Next]_vars
               PROVE  ClassroomFirst /\ EarlierComparisonFirst
    OBVIOUS
  <2>1. /\ DOMAIN queue = 1..Len(queue) /\ Len(queue) \in Nat
        /\ \A w \in Range(queue) : \E i \in 1..Len(queue) : w = queue[i]
        /\ queue # <<>> => Head(queue) = queue[1] /\ 1 \in 1..Len(queue)
        /\ Range(queue) \subseteq Requests /\ key \in [Requests -> Keys]
    BY LenProperties DEF SlotInv, Range, DataInv, Keys, WaitersAreQueued
  <2>2. ASSUME NEW s \in Requests, TakesSlot(s), NEW w \in Range(queue), w # s
        PROVE  s \in Range(queue) /\ Before(key[s], key[w]) /\ key[s] \in Keys /\ key[w] \in Keys
    <3>1. queue # <<>>
      BY <2>2 DEF Range
    <3>2. s = queue[1] /\ 1 \in 1..Len(queue)
      BY <2>1, <2>2, <3>1, OnlyHeadIsServed
    <3>3. PICK i \in 1..Len(queue) : w = queue[i]
      BY <2>1
    <3>4. 1 < i
      BY <2>2, <3>2, <3>3
    <3>5. Before(key[s], key[w])
      BY <2>1, <3>2, <3>3, <3>4 DEF OrderInv, Precedes
    <3>6. s \in Range(queue)
      BY <2>1, <3>2 DEF Range
    <3> QED  BY <2>1, <2>2, <3>5, <3>6
  <2>3. ClassroomFirst
    <3>1. SUFFICES ASSUME NEW b \in Background, TakesSlot(b), NEW w \in Range(queue) \cap Interactive
                   PROVE  FALSE
      BY DEF ClassroomFirst
    <3>2. b \in Requests /\ w # b /\ b \notin Interactive
      BY RequestsAssumption DEF Requests
    <3>3. b \in Range(queue) /\ Before(key[b], key[w]) /\ key[b] \in Keys /\ key[w] \in Keys
      BY <2>2, <3>1, <3>2
    <3>4. key[b][1] = 1 /\ key[w][1] = 0
      BY <3>1, <3>2, <3>3 DEF OrderInv, KeysInv, Rank
    <3> QED  BY <3>3, <3>4, BeforeIsOrder
  <2>4. EarlierComparisonFirst
    <3>1. SUFFICES ASSUME NEW r \in Interactive, NEW w \in Interactive, TakesSlot(r),
                          w \in Range(queue) \ {r}, WithinTTL(r), WithinTTL(w)
                   PROVE  Began(r) <= Began(w)
      BY DEF EarlierComparisonFirst
    <3>2. r \in Range(queue) /\ Before(key[r], key[w]) /\ key[r] \in Keys /\ key[w] \in Keys
      BY <2>2, <3>1 DEF Requests
    <3>3. key[r][1] = 0 /\ key[w][1] = 0
      BY <3>1, <3>2 DEF OrderInv, KeysInv, Rank
    <3>4. key[r][2] <= key[w][2]
      BY <3>2, <3>3, BeforeIsOrder
    <3>5. key[r][2] = Began(r) /\ key[w][2] = Began(w)
      BY <3>1, <3>2, KeyIsBegan
    <3> QED  BY <3>4, <3>5
  <2> QED  BY <2>3, <2>4
<1> QED  BY <1>1, OrderInvariant, PTL DEF Spec, ServedInOrder

\* A request whose client left while it waited never reaches a model: a classroom
\* request asks once more before it starts.
THEOREM DepartedNeverStart == Spec => GoneNeverRuns
<1> DEFINE Stays == \A r \in Interactive :
             r \in gone /\ pc[r] \in Waiting \cup {"confirming"} => pc'[r] # "running"
<1>1. SlotInv /\ [Next]_vars => [Stays]_vars
  <2> SUFFICES ASSUME SlotInv, [Next]_vars,
                      NEW r \in Interactive, r \in gone, pc[r] \in Waiting \cup {"confirming"}
               PROVE  pc'[r] # "running"
    BY DEF Stays
  <2>1. r \in Requests /\ pc[r] # "running" /\ pc[r] # "idle"
    BY DEF Requests, Waiting
  <2>2. ASSUME NEW s \in Requests, NEW o, pc' = [pc EXCEPT ![s] = o], s # r \/ o # "running"
        PROVE  pc'[r] # "running"
    BY <2>1, <2>2 DEF SlotInv
  <2>3. ASSUME NEW s \in Requests, Enter(s) PROVE pc'[r] # "running"
    <3>1. s # r /\ \E o \in {"running", "refused", "waiting"} : pc' = [pc EXCEPT ![s] = o]
      BY <2>1, <2>3 DEF Enter, StartAtOnce, Refuse, JoinQueue, CannotStart, Arrive
    <3> QED  BY <2>2, <3>1
  <2>4. ASSUME NEW s \in Requests, Resume(s) PROVE pc'[r] # "running"
    <3>1. \E o \in {"confirming", "polling", "waiting", "gave_up", "running"} :
            pc' = [pc EXCEPT ![s] = o] /\ (o = "running" => s \notin Interactive \/ s \notin gone)
      BY <2>4 DEF Resume, Granted, PollClient, PollAnswer, Confirm, Leave
    <3> QED  BY <2>2, <3>1
  <2>5. ASSUME NEW s \in Requests, Finish(s) \/ Cancel(s) PROVE pc'[r] # "running"
    <3>1. \E o \in {"served", "gave_up"} : pc' = [pc EXCEPT ![s] = o]
      BY <2>5 DEF Finish, Cancel, EndBody, Leave
    <3> QED  BY <2>2, <3>1
  <2>6. CASE pc' = pc
    BY <2>1, <2>6
  <2>7. ASSUME NEW s \in Requests, CloseClient(s) PROVE pc'[r] # "running"
    BY <2>6, <2>7 DEF CloseClient
  <2>8. CASE ResetEstimate \/ Tick \/ UNCHANGED vars
    BY <2>6, <2>8 DEF ResetEstimate, Tick, vars
  <2> QED  BY <2>3, <2>4, <2>5, <2>7, <2>8 DEF Next
<1> QED  BY <1>1, SlotInvariant, PTL DEF Spec, GoneNeverRuns

---------------------------------------------------------------------------
(* The queue implements the abstract pool of slots.                        *)

\* A slot given back in the queue is given back, or handed over, in the pool.
LEMMA GiveBackIsPool ==
    ASSUME SlotInv, NEW r \in Holders, NEW o \in Left,
           Leave(r, o), Release(granted \ {r})
    PROVE  Pool!Next
<1>1. r \in Requests /\ pc[r] # "idle" /\ r \notin Range(queue)
  BY Apart, HoldersFinite DEF SlotInv, WaitersAreQueued, Holders
<1>2. \A q \in Requests : (q # r => pc'[q] = pc[q]) /\ pc'[r] = o
  BY <1>1 DEF Leave, SlotInv
<1>3. /\ {q \in Requests : pc'[q] = "idle"} = {q \in Requests : pc[q] = "idle"}
      /\ {q \in Requests : pc'[q] \in Holding} = {q \in Requests : pc[q] \in Holding} \ {r}
  BY <1>1, <1>2, Apart
<1>4. CASE queue # <<>>
  <2> DEFINE w == Head(queue)
  <2>1. queue' = Tail(queue) /\ granted' = (granted \ {r}) \cup {w}
    BY <1>4 DEF Release
  <2>2. w \in Range(queue) /\ w \in Requests /\ Range(queue') = Range(queue) \ {w}
    BY <1>4, <2>1, TailRange DEF SlotInv, WaitersAreQueued
  <2>3. w # r /\ w \notin Holders
    BY <1>1, <2>2, Apart DEF SlotInv, WaitersAreQueued, Holders
  <2>4. Holders' = (Holders \ {r}) \cup {w}
    BY <1>3, <2>1, <2>3 DEF Holders
  <2>5. Pool!HandOver(r, w)
    BY <1>3, <2>2, <2>4 DEF Pool!HandOver
  <2> QED  BY <1>1, <2>2, <2>5 DEF Pool!Next
<1>5. CASE queue = <<>>
  <2>1. queue' = <<>> /\ granted' = granted \ {r}
    BY <1>5 DEF Release
  <2>2. Holders' = Holders \ {r}
    BY <1>3, <2>1 DEF Holders
  <2>3. Range(queue) = {} /\ Range(queue') = {}
    BY <1>5, <2>1 DEF Range
  <2>4. Pool!GiveBack(r)
    BY <1>3, <2>2, <2>3 DEF Pool!GiveBack
  <2> QED  BY <1>1, <2>4 DEF Pool!Next
<1> QED  BY <1>4, <1>5

\* A step that moves a request within a kind of place is a stutter.
LEMMA MoveIsStutter ==
    ASSUME SlotInv, NEW r \in Requests, NEW o,
           pc' = [pc EXCEPT ![r] = o], UNCHANGED <<queue, granted>>,
           \/ pc[r] \in Waiting /\ o \in Waiting
           \/ pc[r] \in Holding /\ o \in Holding
    PROVE  UNCHANGED Pool!poolVars
<1>1. \A q \in Requests : (q # r => pc'[q] = pc[q]) /\ pc'[r] = o
  BY DEF SlotInv
<1>2. /\ {q \in Requests : pc'[q] = "idle"} = {q \in Requests : pc[q] = "idle"}
      /\ {q \in Requests : pc'[q] \in Holding} = {q \in Requests : pc[q] \in Holding}
  BY <1>1, Apart
<1> QED  BY <1>2 DEF Pool!poolVars, Holders

\* The pool counts with the same operator.
LEMMA PoolCounts == \A S : Pool!Cardinality(S) = Cardinality(S)
  BY DEF Pool!Cardinality, Cardinality

\* An arrival is an acquisition, a wait or a refusal of the pool.
LEMMA EnterIsPool ==
    ASSUME SlotInv, NEW r \in Requests, Enter(r)
    PROVE  Pool!Next
<1>1. /\ pc[r] = "idle" /\ granted' = granted
      /\ r \notin Holders /\ r \notin Range(queue)
  <2>1. Arrive(r)
    BY DEF Enter, StartAtOnce, Refuse, JoinQueue, CannotStart
  <2>2. pc[r] = "idle" /\ granted' = granted
    BY <2>1 DEF Arrive
  <2>3. pc[r] \notin Waiting /\ pc[r] \notin Holding
    BY <2>2, Apart
  <2> QED  BY <2>2, <2>3 DEF SlotInv, WaitersAreQueued, Holders
<1>2. Cardinality(Holders) = active /\ active \in Nat
  BY DEF SlotInv, SlotsConserved
<1>3. CASE StartAtOnce(r)
  <2>1. /\ active < MaxConcurrency /\ queue = <<>> /\ queue' = queue
        /\ pc' = [pc EXCEPT ![r] = "running"]
    BY <1>3 DEF StartAtOnce
  <2>2. \A q \in Requests : (q # r => pc'[q] = pc[q]) /\ pc'[r] = "running"
    BY <2>1 DEF SlotInv
  <2>3. /\ {q \in Requests : pc'[q] = "idle"} = {q \in Requests : pc[q] = "idle"} \ {r}
        /\ Holders' = Holders \cup {r}
    BY <1>1, <2>2 DEF Holders, Holding
  <2>4. Range(queue) = {} /\ Range(queue') = Range(queue)
    BY <2>1 DEF Range
  <2>5. Pool!Acquire(r)
    BY <1>1, <1>2, <2>1, <2>3, <2>4, PoolCounts DEF Pool!Acquire
  <2> QED  BY <2>5 DEF Pool!Next
<1>4. ASSUME ~(active < MaxConcurrency /\ queue = <<>>) PROVE Cardinality(Holders) = MaxConcurrency
  BY <1>2, <1>4, LimitsAssumption DEF SlotInv, SlotsConserved, NoIdleSlotWhileWaiting
<1>5. CASE Refuse(r)
  <2>1. /\ queue' = queue /\ pc' = [pc EXCEPT ![r] = "refused"]
        /\ ~(active < MaxConcurrency /\ queue = <<>>)
    BY <1>5 DEF Refuse, CannotStart
  <2>2. \A q \in Requests : (q # r => pc'[q] = pc[q]) /\ pc'[r] = "refused"
    BY <2>1 DEF SlotInv
  <2>3. /\ {q \in Requests : pc'[q] = "idle"} = {q \in Requests : pc[q] = "idle"} \ {r}
        /\ Holders' = Holders
    BY <1>1, <2>2 DEF Holders, Holding
  <2>4. Pool!TurnAway(r)
    BY <1>1, <1>4, <2>1, <2>3, PoolCounts DEF Pool!TurnAway, Pool!Saturated
  <2> QED  BY <2>4 DEF Pool!Next
<1>6. CASE JoinQueue(r)
  <2> DEFINE at == 1 + Cardinality(Ahead(NewKey(r)))
  <2>1. /\ queue' = InsertAt(queue, at, r) /\ pc' = [pc EXCEPT ![r] = "waiting"]
        /\ ~(active < MaxConcurrency /\ queue = <<>>)
    BY <1>6 DEF JoinQueue, CannotStart
  <2>2. at \in 1..Len(queue) + 1
    BY AheadBounded
  <2> HIDE DEF at
  <2>3. Range(queue') = Range(queue) \cup {r}
    BY <2>1, <2>2, InsertAtRange DEF SlotInv
  <2>4. \A q \in Requests : (q # r => pc'[q] = pc[q]) /\ pc'[r] = "waiting"
    BY <2>1 DEF SlotInv
  <2>5. /\ {q \in Requests : pc'[q] = "idle"} = {q \in Requests : pc[q] = "idle"} \ {r}
        /\ Holders' = Holders
    BY <1>1, <2>4 DEF Holders, Holding
  <2>6. Pool!Wait(r)
    BY <1>1, <1>4, <2>1, <2>3, <2>5, PoolCounts DEF Pool!Wait, Pool!Saturated
  <2> QED  BY <2>6 DEF Pool!Next
<1> QED  BY <1>3, <1>5, <1>6 DEF Enter

\* A waiter that gives up hands over the slot that reached it, or leaves.
LEMMA AbandonIsPool ==
    ASSUME SlotInv, NEW r \in Requests, NEW o \in Left,
           pc[r] \in Waiting, Leave(r, o), Abandon(r)
    PROVE  Pool!Next
<1>1. CASE r \in granted
  <2>1. r \in Holders /\ Release(granted \ {r})
    BY <1>1 DEF Abandon, Holders
  <2> QED  BY <2>1, GiveBackIsPool
<1>2. CASE r \notin granted
  <2>1. queue' = Without(queue, r) /\ granted' = granted
    BY <1>2 DEF Abandon
  <2>2. Range(queue') = Range(queue) \ {r} /\ r \in Range(queue)
    BY <1>2, <2>1, WithoutRange DEF SlotInv, WaitersAreQueued
  <2>3. \A q \in Requests : (q # r => pc'[q] = pc[q]) /\ pc'[r] = o
    BY DEF Leave, SlotInv
  <2>4. /\ {q \in Requests : pc'[q] = "idle"} = {q \in Requests : pc[q] = "idle"}
        /\ {q \in Requests : pc'[q] \in Holding} = {q \in Requests : pc[q] \in Holding}
    BY <2>3, Apart
  <2>5. Pool!GiveUp(r)
    BY <2>1, <2>2, <2>4 DEF Pool!GiveUp, Holders
  <2> QED  BY <2>5 DEF Pool!Next
<1> QED  BY <1>1, <1>2

\* A holder that is past its wait gives its slot back.
LEMMA HolderIsPool ==
    ASSUME SlotInv, NEW r \in Requests, NEW o \in Left,
           pc[r] \in Holding, Leave(r, o), Release(granted)
    PROVE  Pool!Next
<1>1. r \in Holders /\ granted \ {r} = granted
  BY Apart DEF SlotInv, WaitersAreQueued, Holders
<1>2. Release(granted \ {r})
  BY <1>1
<1> QED  BY <1>1, <1>2, GiveBackIsPool

\* Resuming is a stutter of the pool, or gives a slot or a place up.
LEMMA ResumeIsPool ==
    ASSUME SlotInv, NEW r \in Requests, Resume(r)
    PROVE  Pool!Next \/ UNCHANGED Pool!poolVars
<1>1. CASE Granted(r)
  <2>1. /\ pc[r] = "waiting" /\ r \in granted /\ granted' = granted \ {r}
        /\ queue' = queue
    BY <1>1 DEF Granted
  <2>2. PICK o \in Holding : pc' = [pc EXCEPT ![r] = o]
    BY <1>1 DEF Granted, Leave, Holding
  <2>3. \A q \in Requests : (q # r => pc'[q] = pc[q]) /\ pc'[r] = o
    BY <2>2 DEF SlotInv
  <2>4. /\ {q \in Requests : pc'[q] = "idle"} = {q \in Requests : pc[q] = "idle"}
        /\ {q \in Requests : pc'[q] \in Holding} = {q \in Requests : pc[q] \in Holding} \cup {r}
    BY <2>1, <2>3, Apart
  <2>5. Holders' = Holders
    BY <2>1, <2>4 DEF Holders
  <2> QED  BY <2>1, <2>4, <2>5 DEF Pool!poolVars
<1>2. CASE PollClient(r)
  <2>1. /\ pc[r] \in Waiting /\ "polling" \in Waiting
        /\ pc' = [pc EXCEPT ![r] = "polling"] /\ UNCHANGED <<queue, granted>>
    BY <1>2 DEF PollClient, Leave, Waiting
  <2> QED  BY <2>1, MoveIsStutter
<1>3. CASE PollAnswer(r)
  <2>1. pc[r] \in Waiting /\ "waiting" \in Waiting /\ "gave_up" \in Left
    BY <1>3 DEF PollAnswer, Waiting, Left
  <2>2. CASE Leave(r, "gave_up") /\ Abandon(r)
    BY <2>1, <2>2, AbandonIsPool
  <2>3. CASE Leave(r, "waiting") /\ UNCHANGED <<active, queue, granted>>
    <3>1. pc' = [pc EXCEPT ![r] = "waiting"]  BY <2>3 DEF Leave
    <3> QED  BY <2>1, <2>3, <3>1, MoveIsStutter
  <2> QED  BY <1>3, <2>2, <2>3 DEF PollAnswer
<1>4. CASE Confirm(r)
  <2>1. pc[r] \in Holding /\ "running" \in Holding /\ "gave_up" \in Left
    BY <1>4 DEF Confirm, Holding, Left
  <2>2. CASE Leave(r, "gave_up") /\ Release(granted)
    BY <2>1, <2>2, HolderIsPool
  <2>3. CASE Leave(r, "running") /\ UNCHANGED <<active, queue, granted>>
    <3>1. pc' = [pc EXCEPT ![r] = "running"]  BY <2>3 DEF Leave
    <3> QED  BY <2>1, <2>3, <3>1, MoveIsStutter
  <2> QED  BY <1>4, <2>2, <2>3 DEF Confirm
<1> QED  BY <1>1, <1>2, <1>3, <1>4 DEF Resume

\* The end of a generation, and every cancellation, is a step of the pool.
LEMMA EndIsPool ==
    ASSUME SlotInv, NEW r \in Requests, Finish(r) \/ Cancel(r)
    PROVE  Pool!Next
<1>1. "served" \in Left /\ "gave_up" \in Left
  BY DEF Left
<1>2. ASSUME NEW o \in Left, EndBody(r, o) PROVE Pool!Next
  <2>1. pc[r] \in Holding /\ Leave(r, o) /\ Release(granted)
    BY <1>2 DEF EndBody, Holding
  <2> QED  BY <2>1, HolderIsPool
<1>3. CASE pc[r] \in Waiting /\ Abandon(r) /\ Leave(r, "gave_up")
  BY <1>1, <1>3, AbandonIsPool
<1>4. CASE pc[r] = "confirming" /\ Release(granted) /\ Leave(r, "gave_up")
  BY <1>1, <1>4, HolderIsPool DEF Holding
<1> QED  BY <1>1, <1>2, <1>3, <1>4 DEF Finish, Cancel

\* A free slot never passes a waiter by and a slot given back goes to a waiter
\* in the same step: the generation queue implements SlotPool.
THEOREM QueueImplementsPool == Spec => ImplementsPool
<1>1. Init => Pool!Init
  <2> SUFFICES ASSUME Init PROVE Pool!Init
    OBVIOUS
  <2>1. Holders = {} /\ {q \in Requests : pc[q] = "idle"} = Requests
    BY Apart DEF Init, Holders
  <2>2. Range(queue) = {}
    BY DEF Init, Range
  <2> QED  BY <2>1, <2>2 DEF Pool!Init
<1>2. SlotInv /\ [Next]_vars => [Pool!Next]_(Pool!poolVars)
  <2> SUFFICES ASSUME SlotInv, [Next]_vars
               PROVE  Pool!Next \/ UNCHANGED Pool!poolVars
    OBVIOUS
  <2>1. ASSUME NEW r \in Requests, Enter(r) PROVE Pool!Next
    BY <2>1, EnterIsPool
  <2>2. ASSUME NEW r \in Requests, Resume(r)
        PROVE  Pool!Next \/ UNCHANGED Pool!poolVars
    BY <2>2, ResumeIsPool
  <2>3. ASSUME NEW r \in Requests, Finish(r) \/ Cancel(r) PROVE Pool!Next
    BY <2>3, EndIsPool
  <2>4. CASE UNCHANGED <<pc, queue, granted>>
    BY <2>4 DEF Pool!poolVars, Holders
  <2>5. ASSUME NEW r \in Requests, CloseClient(r)
        PROVE  Pool!Next \/ UNCHANGED Pool!poolVars
    BY <2>4, <2>5 DEF CloseClient
  <2>6. CASE ResetEstimate \/ Tick
    BY <2>4, <2>6 DEF ResetEstimate, Tick
  <2>7. CASE UNCHANGED vars
    BY <2>4, <2>7 DEF vars
  <2> QED  BY <2>1, <2>2, <2>3, <2>5, <2>6, <2>7 DEF Next
<1> QED  BY <1>1, <1>2, SlotInvariant, PTL DEF Spec, ImplementsPool, Pool!Spec
---------------------------------------------------------------------------
(* The retrieval.  Nothing that is selected is dropped again, and a pass   *)
(* only adds, so what a pass has looked at and left stays either selected, *)
(* said again or in a section already taken (Passes); what the prompt      *)
(* holds is the start of what was kept, each piece cut to what remained    *)
(* (Fitted).                                                               *)

\* Numbers are in a line.
LEMMA NumbersInLine ==
    /\ \A x \in Int : ~(x < x)
    /\ \A x, y \in Int : x = y \/ x < y \/ y < x
    /\ \A x, y, z \in Int : x < y /\ y < z => x < z
    /\ \A x, y \in Int : y = x \/ y < x => x >= y
    /\ \A x, y \in Int : y = x \/ x < y => x <= y
OBVIOUS

\* The n-th of a set of places is one of them.
LEMMA NthIs ==
    ASSUME NEW m \in Nat, NEW P \in SUBSET (1 .. m), NEW n \in 1 .. Cardinality(P)
    PROVE  Nth(P, n) \in P
<1> DEFINE R == {p \in P \X P : p[1] < p[2]}
<1>1. IsFiniteSet(P)
  <2>1. IsFiniteSet(1 .. m)  BY FS_Interval
  <2> QED  BY <2>1, FS_Subset
<1>2. \A x, y \in P : <<x, y>> \in R <=> x < y  OBVIOUS
<1>3. \A x \in P : x \in Int  OBVIOUS
<1> HIDE DEF R
<1>4. \A x \in P : <<x, x>> \notin R  BY <1>2, <1>3, NumbersInLine, Zenon
<1>5. \A x, y \in P : x = y \/ <<x, y>> \in R \/ <<y, x>> \in R  BY <1>2, <1>3, NumbersInLine, Zenon
<1>6. \A x, y, z \in P : <<x, y>> \in R /\ <<y, z>> \in R => <<x, z>> \in R  BY <1>2, <1>3, NumbersInLine, Zenon
<1>7. \A k \in 1 .. Cardinality(P) : \E x \in P : Cardinality({y \in P : <<y, x>> \in R}) = k - 1
  BY <1>1, <1>4, <1>5, <1>6, RankExists
<1>8. PICK x \in P : Cardinality({y \in P : <<y, x>> \in R}) = n - 1  BY <1>7
<1>9. {y \in P : <<y, x>> \in R} = {q \in P : q < x}  BY <1>2
<1>10. \E p \in P : Cardinality({q \in P : q < p}) = n - 1  BY <1>8, <1>9
<1> QED  BY <1>10, Zenon DEF Nth

\* The last of a finite set.
LEMMA LastOfAll ==
    ASSUME NEW S, IsFiniteSet(S), S # {}, NEW R,
           \A x, y \in S : x = y \/ <<x, y>> \in R \/ <<y, x>> \in R,
           \A x, y, z \in S : <<x, y>> \in R /\ <<y, z>> \in R => <<x, z>> \in R
    PROVE  \E x \in S : \A y \in S : y = x \/ <<y, x>> \in R
<1>1. S \in SUBSET S  OBVIOUS
<1> QED  BY <1>1, LastExists

\* The ends of a finite set of numbers.
LEMMA GreatestIn ==
    ASSUME NEW u \in SUBSET Int, IsFiniteSet(u), u # {}
    PROVE  Max(u) \in u
<1> DEFINE R == {p \in u \X u : p[1] < p[2]}
<1>1. \A x, y \in u : <<x, y>> \in R <=> x < y  OBVIOUS
<1>2. \A x \in u : x \in Int  OBVIOUS
<1> HIDE DEF R
<1>3. \A x, y \in u : x = y \/ <<x, y>> \in R \/ <<y, x>> \in R  BY <1>1, <1>2, NumbersInLine, Zenon
<1>4. \A x, y, z \in u : <<x, y>> \in R /\ <<y, z>> \in R => <<x, z>> \in R  BY <1>1, <1>2, NumbersInLine, Zenon
<1>5. \E x \in u : \A y \in u : y = x \/ <<y, x>> \in R  BY <1>3, <1>4, LastOfAll
<1>6. PICK x \in u : \A y \in u : y = x \/ <<y, x>> \in R  BY <1>5
<1>7. \A y \in u : x >= y  BY <1>1, <1>2, <1>6, NumbersInLine, Zenon
<1> QED  BY <1>7, Zenon DEF Max

LEMMA LeastIn ==
    ASSUME NEW u \in SUBSET Int, IsFiniteSet(u), u # {}
    PROVE  Min(u) \in u
<1> DEFINE R == {p \in u \X u : p[2] < p[1]}
<1>1. \A x, y \in u : <<x, y>> \in R <=> y < x  OBVIOUS
<1>2. \A x \in u : x \in Int  OBVIOUS
<1> HIDE DEF R
<1>3. \A x, y \in u : x = y \/ <<x, y>> \in R \/ <<y, x>> \in R  BY <1>1, <1>2, NumbersInLine, Zenon
<1>4. \A x, y, z \in u : <<x, y>> \in R /\ <<y, z>> \in R => <<x, z>> \in R  BY <1>1, <1>2, NumbersInLine, Zenon
<1>5. \E x \in u : \A y \in u : y = x \/ <<y, x>> \in R  BY <1>3, <1>4, LastOfAll
<1>6. PICK x \in u : \A y \in u : y = x \/ <<y, x>> \in R  BY <1>5
<1>7. \A y \in u : x <= y  BY <1>1, <1>2, <1>6, NumbersInLine, Zenon
<1> QED  BY <1>7, Zenon DEF Min


\* The facets are a list of parts.
LEMMA FacetsAre ==
    ASSUME ask \in Asks
    PROVE  Len(Facets) \in 0 .. MaxFacets /\ FacetIds = 1 .. Len(Facets)
<1>1. MaxFacets \in Nat \ {0}  BY RetrievalAssumption
<1>2. PICK m \in Nat : DOMAIN ask.parts = 1 .. m
  <2>1. ask.parts \in Seq(SUBSET ask.words)  BY AsksAssumption
  <2> QED  BY <2>1, LenProperties
<1>3. PICK c \in Nat : c = Cardinality(FirstMentions)
  <2>1. FirstMentions \subseteq 1 .. m  BY <1>2 DEF FirstMentions
  <2>2. IsFiniteSet(1 .. m)  BY FS_Interval
  <2> QED  BY <2>1, <2>2, FS_Subset, FS_CardinalityType
<1>4. PICK k \in Nat : k <= MaxFacets /\ k = IF Cardinality(FirstMentions) >= 2
                                            THEN Min({MaxFacets, Cardinality(FirstMentions)}) ELSE 0
  <2>1. CASE c >= 2
    <3>1. Min({MaxFacets, c}) = IF MaxFacets <= c THEN MaxFacets ELSE c
      <4>1. CASE MaxFacets <= c  BY <1>1, <4>1 DEF Min
      <4>2. CASE ~(MaxFacets <= c)  BY <1>1, <4>2 DEF Min
      <4> QED  BY <4>1, <4>2
    <3> QED  BY <1>1, <1>3, <2>1, <3>1
  <2>2. CASE ~(c >= 2)
    <3>1. 0 \in Nat /\ 0 <= MaxFacets  BY <1>1
    <3> QED  BY <1>3, <2>2, <3>1
  <2> QED  BY <2>1, <2>2
<1>5. Facets = [n \in 1 .. k |-> ask.parts[Nth(FirstMentions, n)]]  BY <1>4 DEF Facets
<1>6. Len(Facets) = k /\ DOMAIN Facets = 1 .. k
  <2> DEFINE S == {ask.parts[Nth(FirstMentions, n)] : n \in 1 .. k}
  <2>1. Facets \in [1 .. k -> S]  BY <1>5
  <2> HIDE DEF S
  <2> QED  BY <2>1, SequenceOf
<1> QED  BY <1>1, <1>4, <1>6 DEF FacetIds

\* Four numbers compared one after the other: the greater, the smaller, the greater,
\* the smaller first.
ComesFirst(a, b, c, d, e, f, g, h) ==
    \/ a > e
    \/ a = e /\ b < f
    \/ a = e /\ b = f /\ c > g
    \/ a = e /\ b = f /\ c = g /\ d < h

LEMMA NotBeforeItself ==
    ASSUME NEW a \in Int, NEW b \in Int, NEW c \in Int, NEW d \in Int
    PROVE  ~ComesFirst(a, b, c, d, a, b, c, d)
BY DEF ComesFirst

LEMMA OneComesFirst ==
    ASSUME NEW a \in Int, NEW b \in Int, NEW c \in Int, NEW d \in Int,
           NEW e \in Int, NEW f \in Int, NEW g \in Int, NEW h \in Int
    PROVE  d = h \/ ComesFirst(a, b, c, d, e, f, g, h) \/ ComesFirst(e, f, g, h, a, b, c, d)
BY DEF ComesFirst

LEMMA FirstIsTransitive ==
    ASSUME NEW a \in Int, NEW b \in Int, NEW c \in Int, NEW d \in Int,
           NEW e \in Int, NEW f \in Int, NEW g \in Int, NEW h \in Int,
           NEW i \in Int, NEW j \in Int, NEW k \in Int, NEW l \in Int,
           ComesFirst(a, b, c, d, e, f, g, h), ComesFirst(e, f, g, h, i, j, k, l)
    PROVE  ComesFirst(a, b, c, d, i, j, k, l)
BY DEF ComesFirst

Cand == [id : DOMAIN ask.chunks, score : Int, tags : SUBSET FacetIds]

\* The ranking is a list of the index's chunks.
LEMMA RankedPool ==
    ASSUME ask \in Asks, NEW by, by = Finders
    PROVE  MergedPool(by) \in Seq(Cand)
<1> DEFINE found == {id \in DOMAIN by : by[id] # {}}
           R == {p \in found \X found : RanksBefore(by, p[1], p[2])}
<1>1. /\ Len(Facets) \in Nat /\ Len(Facets) <= MaxFacets /\ FacetIds = 1 .. Len(Facets)
      /\ MaxFacets \in Nat
  BY FacetsAre, RetrievalAssumption
<1>2. PICK m \in Nat : DOMAIN ask.chunks = 1 .. m  BY AsksAssumption
<1>3. DOMAIN by = 1 .. m /\ \A id \in 1 .. m : by[id] \in SUBSET (0 .. MaxFacets)
  <2>1. DOMAIN by = 1 .. m  BY <1>2 DEF Finders
  <2>2. ASSUME NEW id \in 1 .. m PROVE by[id] \in SUBSET (0 .. MaxFacets)
    <3>1. by[id] \subseteq {0} \cup FacetIds  BY <1>2 DEF Finders
    <3>2. {0} \cup FacetIds \subseteq 0 .. MaxFacets  BY <1>1
    <3> QED  BY <3>1, <3>2
  <2> QED  BY <2>1, <2>2
<1>4. IsFiniteSet(0 .. MaxFacets)  BY <1>1, FS_Interval
<1>5. IsFiniteSet(found)
  <2>1. IsFiniteSet(1 .. m)  BY FS_Interval
  <2>2. found \subseteq 1 .. m  BY <1>3
  <2> QED  BY <2>1, <2>2, FS_Subset
<1>6. ASSUME NEW id \in found
      PROVE  /\ id \in 1 .. m /\ Min(by[id]) \in by[id] /\ Min(by[id]) \in 0 .. MaxFacets
             /\ ScoreOf(by, id) \in Int
             /\ \A q \in 0 .. MaxFacets : ask.near[q][id] \in Int
  <2>1. id \in 1 .. m /\ by[id] # {} /\ by[id] \in SUBSET (0 .. MaxFacets)  BY <1>3
  <2>2. IsFiniteSet(by[id])  BY <1>4, <2>1, FS_Subset
  <2>3. Min(by[id]) \in by[id]
    <3>1. by[id] \in SUBSET Int  BY <2>1
    <3> QED  BY <2>1, <2>2, <3>1, LeastIn
  <2>4. \A q \in 0 .. MaxFacets : ask.near[q][id] \in Int  BY <1>2, <2>1, AsksAssumption
  <2> DEFINE T == {ask.near[query][id] : query \in by[id]}
  <2>5. T \in SUBSET Int  BY <2>1, <2>4
  <2>6. T # {}  BY <2>1
  <2>7. IsFiniteSet(T)
    <3> DEFINE g == [query \in by[id] |-> ask.near[query][id]]
    <3>1. g \in Surjection(by[id], T)  BY DEF Surjection
    <3>2. \E s \in Surjection(by[id], T) : TRUE  BY <3>1, Zenon
    <3> QED  BY <2>2, <3>1, FS_Surjection
  <2> HIDE DEF T
  <2>8. Max(T) \in T  BY <2>5, <2>6, <2>7, GreatestIn
  <2>9. ScoreOf(by, id) = Max(T)  BY Zenon DEF ScoreOf, T
  <2>10. ScoreOf(by, id) \in Int  BY <2>5, <2>8, <2>9
  <2>11. Min(by[id]) \in 0 .. MaxFacets  BY <2>1, <2>3
  <2> QED  BY <2>1, <2>3, <2>4, <2>10, <2>11
<1> DEFINE nr(x) == ask.near[Min(by[x])][x]
           Ranks(x, y) == ComesFirst(ScoreOf(by, x), Min(by[x]), nr(x), x, ScoreOf(by, y), Min(by[y]), nr(y), y)
<1>7. ASSUME NEW x \in found, NEW y \in found PROVE RanksBefore(by, x, y) <=> Ranks(x, y)
  BY DEF RanksBefore, ComesFirst, Nearer
<1>8. ASSUME NEW x \in found
      PROVE  ScoreOf(by, x) \in Int /\ Min(by[x]) \in Int /\ nr(x) \in Int /\ x \in Int
  BY <1>6
<1> HIDE DEF found, nr
<1>9. ASSUME NEW x \in found PROVE ~Ranks(x, x)
  BY <1>8, NotBeforeItself
<1>10. ASSUME NEW x \in found, NEW y \in found PROVE x = y \/ Ranks(x, y) \/ Ranks(y, x)
  BY <1>8, OneComesFirst
<1>11. ASSUME NEW x \in found, NEW y \in found, NEW z \in found, Ranks(x, y), Ranks(y, z) PROVE Ranks(x, z)
  BY <1>8, <1>11, FirstIsTransitive
<1> HIDE DEF Ranks
<1>12. \A x, y \in found : <<x, y>> \in R <=> Ranks(x, y)  BY <1>7
<1> HIDE DEF R
<1>13. \A n \in 1 .. Cardinality(found) : \E x \in found : Cardinality({y \in found : <<y, x>> \in R}) = n - 1
  <2>1. \A x \in found : <<x, x>> \notin R  BY <1>9, <1>12, Zenon
  <2>2. \A x, y \in found : x = y \/ <<x, y>> \in R \/ <<y, x>> \in R  BY <1>10, <1>12, Zenon
  <2>3. \A x, y, z \in found : <<x, y>> \in R /\ <<y, z>> \in R => <<x, z>> \in R
    <3>1. \A x, y, z \in found : Ranks(x, y) /\ Ranks(y, z) => Ranks(x, z)  BY <1>11, Zenon
    <3> QED  BY <1>12, <3>1, Zenon
  <2> QED  BY <1>5, <2>1, <2>2, <2>3, RankExists
<1> DEFINE At(n) == CHOOSE id \in found : Cardinality({o \in found : RanksBefore(by, o, id)}) = n - 1
<1>14. ASSUME NEW n \in 1 .. Cardinality(found) PROVE At(n) \in found
  <2>1. PICK x \in found : Cardinality({y \in found : <<y, x>> \in R}) = n - 1  BY <1>13
  <2>2. {y \in found : <<y, x>> \in R} = {o \in found : RanksBefore(by, o, x)}  BY <1>7, <1>12, Zenon
  <2>3. \E id \in found : Cardinality({o \in found : RanksBefore(by, o, id)}) = n - 1  BY <2>1, <2>2
  <2> QED  BY <2>3, Zenon
<1>15. PICK k \in Nat : k = Cardinality(found)  BY <1>5, FS_CardinalityType
<1>16. MergedPool(by) = [n \in 1 .. k |-> Candidate(by, At(n))]  BY <1>15, Zenon DEF MergedPool, found
<1>17. ASSUME NEW n \in 1 .. k PROVE Candidate(by, At(n)) \in Cand
  <2>1. At(n) \in found  BY <1>14, <1>15
  <2> HIDE DEF At
  <2>2. At(n) \in DOMAIN ask.chunks /\ ScoreOf(by, At(n)) \in Int  BY <1>2, <1>6, <2>1
  <2> QED  BY <2>2 DEF Candidate, Cand
<1> HIDE DEF At
<1>18. MergedPool(by) \in [1 .. k -> Cand]  BY <1>16, <1>17
<1> HIDE DEF Cand
<1> QED  BY <1>18, SequenceOf

\* A question's texts are what they were while it is answered.
LEMMA FacetsStay ==
    ASSUME ask' = ask
    PROVE  /\ Facets' = Facets /\ FacetIds' = FacetIds /\ MultiFacet' = MultiFacet
           /\ FinalTopK' = FinalTopK /\ TotalLimit' = TotalLimit /\ Cand' = Cand
<1>1. Facets' = Facets  BY DEF Facets, FirstMentions
<1>2. FacetIds' = FacetIds  BY <1>1 DEF FacetIds
<1>3. MultiFacet' = MultiFacet  BY <1>2 DEF MultiFacet
<1> QED  BY <1>1, <1>2, <1>3 DEF FinalTopK, TotalLimit, Cand

\* At least one and at most five places.
LEMMA PlacesAre ==
    ASSUME ask \in Asks
    PROVE  FinalTopK \in Nat /\ 1 <= FinalTopK /\ FinalTopK <= MultiTopK
<1>1. PICK k \in Nat : k = ask.topK /\ 1 <= k
  <2>1. ask.topK \in Nat \ {0}  BY AsksAssumption
  <2> QED  BY <2>1
<1>2. Min({MultiTopK, k}) = IF MultiTopK <= k THEN MultiTopK ELSE k
  <2>1. CASE MultiTopK <= k  BY <2>1 DEF Min, MultiTopK
  <2>2. CASE ~(MultiTopK <= k)  BY <2>2 DEF Min, MultiTopK
  <2> QED  BY <2>1, <2>2
<1>3. FinalTopK = IF MultiFacet THEN MultiTopK ELSE IF MultiTopK <= k THEN MultiTopK ELSE k
  BY <1>1, <1>2 DEF FinalTopK
<1> QED  BY <1>1, <1>3 DEF MultiTopK

Text == [id : DOMAIN ask.chunks, size : Nat]
Rounds == {"embed", "cover", "spread", "fill", "weigh", "fit", "answered", "failed"}

RTypes ==
    /\ ask \in Asks /\ round \in Rounds /\ turn \in Nat \ {0}
    /\ pool \in Seq(Cand) /\ chosen \in Seq(Cand) /\ kept \in Seq(Cand) /\ context \in Seq(Text)
    /\ Len(chosen) <= FinalTopK /\ Len(kept) <= Len(chosen)

\* What a pass has looked at, and what it leaves.
Fresh(c) == ~IsChosen(c) /\ ~SaysAgain(c)
Passed(f) == \A n \in DOMAIN pool : f \in pool[n].tags => SaysAgain(pool[n]) \/ SectionTaken(pool[n])
AllTaken == \A n \in DOMAIN pool : SaysAgain(pool[n]) \/ SectionTaken(pool[n])
AllSeen == \A n \in DOMAIN pool : IsChosen(pool[n]) \/ SaysAgain(pool[n])
AllTagged == \A n \in DOMAIN chosen : chosen[n].tags # {}
Once == \A i, j \in DOMAIN chosen : i # j => SectionOf(chosen[i]) # SectionOf(chosen[j])
Served == \A f \in FacetIds \ CoveredFacets : (~HasRoom /\ AllTagged) \/ Passed(f)

Passes ==
    /\ NoRepeats
    /\ round = "embed" => chosen = <<>> /\ turn = 1
    /\ round = "cover" => AllTagged /\ \A f \in FacetIds : f < turn => f \in CoveredFacets \/ Passed(f)
    /\ round \notin {"embed", "cover", "failed"} => Served
    /\ round \in {"cover", "spread"} => Once
    /\ round = "spread" => \A n \in DOMAIN pool : n < turn => SaysAgain(pool[n]) \/ SectionTaken(pool[n])
    /\ round \in {"fill", "weigh", "fit", "answered"} => Once \/ AllTaken
    /\ round = "fill" /\ HasRoom => AllTaken
    /\ round = "fill" => \A n \in DOMAIN pool : n < turn => IsChosen(pool[n]) \/ SaysAgain(pool[n])
    /\ round \in {"weigh", "fit", "answered"} /\ HasRoom => AllSeen

LEMMA LikenessIsMutual == \A c, d : Alike(c, d) <=> Alike(d, c)
<1>1. ASSUME NEW c, NEW d PROVE Alike(c, d) => Alike(d, c)
  <2>1. /\ WordsOf(c.id) \cap WordsOf(d.id) = WordsOf(d.id) \cap WordsOf(c.id)
        /\ WordsOf(c.id) \cup WordsOf(d.id) = WordsOf(d.id) \cup WordsOf(c.id)
    OBVIOUS
  <2> HIDE DEF WordsOf
  <2> QED  BY <2>1 DEF Alike
<1> QED  BY <1>1

LEMMA MayAddIs ==
    /\ \A c : MayAdd(c, TRUE) <=> Fresh(c) /\ ~SectionTaken(c)
    /\ round = "spread" => \A c : MayAdd(c, round = "spread") <=> Fresh(c) /\ ~SectionTaken(c)
    /\ round = "fill" => \A c : MayAdd(c, round = "spread") <=> Fresh(c)
BY DEF MayAdd, Fresh

\* What a list with one more has.
LEMMA OneMore ==
    ASSUME NEW S, NEW s \in Seq(S), NEW e \in S
    PROVE  /\ Append(s, e) \in Seq(S) /\ Len(Append(s, e)) = Len(s) + 1 /\ Len(s) \in Nat
           /\ DOMAIN s = 1 .. Len(s) /\ DOMAIN Append(s, e) = 1 .. Len(s) + 1
           /\ \A n \in DOMAIN s : n \in DOMAIN Append(s, e) /\ Append(s, e)[n] = s[n]
           /\ Append(s, e)[Len(s) + 1] = e /\ Len(s) + 1 \in DOMAIN Append(s, e)
           /\ \A n \in DOMAIN Append(s, e) : n \in DOMAIN s \/ (n = Len(s) + 1 /\ n \notin DOMAIN s)
BY AppendProperties, LenProperties

\* Adding a candidate that is not chosen and repeats none, or adding none.
Adds ==
    \/ chosen' = chosen
    \/ HasRoom /\ \E n \in DOMAIN pool : Fresh(pool[n]) /\ chosen' = Append(chosen, pool[n])

LEMMA AddsKeep ==
    ASSUME RTypes, NoRepeats, ask' = ask, pool' = pool, Adds
    PROVE  /\ chosen' \in Seq(Cand) /\ Len(chosen') <= FinalTopK /\ NoRepeats'
           /\ \A d : /\ SaysAgain(d) => SaysAgain(d)'
                     /\ SectionTaken(d) => SectionTaken(d)'
                     /\ IsChosen(d) => IsChosen(d)'
           /\ CoveredFacets \subseteq CoveredFacets'
           /\ ~HasRoom => chosen' = chosen
<1>1. /\ chosen \in Seq(Cand) /\ pool \in Seq(Cand) /\ Len(chosen) \in Nat
      /\ FinalTopK' = FinalTopK /\ FinalTopK \in Nat
  BY FacetsStay, LenProperties, PlacesAre DEF RTypes
<1>2. CASE chosen' = chosen
  <2>1. NoRepeats'  BY <1>2 DEF NoRepeats, Alike, WordsOf
  <2>2. \A d : /\ SaysAgain(d) => SaysAgain(d)'
               /\ SectionTaken(d) => SectionTaken(d)'
               /\ IsChosen(d) => IsChosen(d)'
    BY <1>2 DEF SaysAgain, SectionTaken, IsChosen, SectionOf, Alike, WordsOf
  <2>3. CoveredFacets' = CoveredFacets  BY <1>2 DEF CoveredFacets
  <2> QED  BY <1>1, <1>2, <2>1, <2>2, <2>3 DEF RTypes
<1>3. CASE HasRoom /\ \E n \in DOMAIN pool : Fresh(pool[n]) /\ chosen' = Append(chosen, pool[n])
  <2>1. PICK n \in DOMAIN pool : Fresh(pool[n]) /\ chosen' = Append(chosen, pool[n])  BY <1>3
  <2> DEFINE c == pool[n]
  <2>2. c \in Cand  BY <1>1, <2>1, LenProperties, ElementOfSeq
  <2>3. Fresh(c) /\ chosen' = Append(chosen, c)  BY <2>1
  <2> HIDE DEF c
  <2>4. /\ chosen' \in Seq(Cand) /\ Len(chosen') = Len(chosen) + 1 /\ Len(chosen) \in Nat
        /\ DOMAIN chosen = 1 .. Len(chosen) /\ DOMAIN chosen' = 1 .. Len(chosen) + 1
        /\ \A k \in DOMAIN chosen : k \in DOMAIN chosen' /\ chosen'[k] = chosen[k]
        /\ chosen'[Len(chosen) + 1] = c /\ Len(chosen) + 1 \in DOMAIN chosen'
        /\ \A k \in DOMAIN chosen' : k \in DOMAIN chosen \/ (k = Len(chosen) + 1 /\ k \notin DOMAIN chosen)
    BY <1>1, <2>2, <2>3, OneMore
  <2>5. ToSet(chosen) \subseteq ToSet(chosen')
    <3>1. ASSUME NEW d \in ToSet(chosen) PROVE d \in ToSet(chosen')
      <4>1. PICK k \in DOMAIN chosen : d = chosen[k]  BY DEF ToSet
      <4>2. k \in DOMAIN chosen' /\ d = chosen'[k]  BY <2>4, <4>1
      <4> QED  BY <4>2 DEF ToSet
    <3> QED  BY <3>1
  <2>6. Len(chosen') <= FinalTopK  BY <1>1, <1>3, <2>4 DEF HasRoom
  <2>7. \A d : /\ SaysAgain(d) => SaysAgain(d)'
               /\ SectionTaken(d) => SectionTaken(d)'
               /\ IsChosen(d) => IsChosen(d)'
    BY <2>5 DEF SaysAgain, SectionTaken, IsChosen, SectionOf, Alike, WordsOf
  <2>8. CoveredFacets \subseteq CoveredFacets'  BY <2>5 DEF CoveredFacets
  <2>9. \A k \in DOMAIN chosen : chosen[k].id # c.id /\ ~Alike(chosen[k], c) /\ ~Alike(c, chosen[k])
    BY <2>3, LikenessIsMutual DEF Fresh, IsChosen, SaysAgain, ToSet
  <2>10. \A d, e : Alike(d, e)' <=> Alike(d, e)  BY DEF Alike, WordsOf
  <2>11. NoRepeats'
    <3> SUFFICES ASSUME NEW i \in DOMAIN chosen', NEW j \in DOMAIN chosen', i # j
                 PROVE  chosen'[i].id # chosen'[j].id /\ ~Alike(chosen'[i], chosen'[j])
      BY <2>10 DEF NoRepeats
    <3>1. CASE i \in DOMAIN chosen /\ j \in DOMAIN chosen  BY <2>4, <3>1 DEF NoRepeats
    <3>2. CASE i \notin DOMAIN chosen
      <4>1. j \in DOMAIN chosen /\ chosen'[i] = c /\ chosen'[j] = chosen[j]  BY <2>4, <3>2
      <4> QED  BY <2>9, <4>1
    <3>3. CASE j \notin DOMAIN chosen
      <4>1. i \in DOMAIN chosen /\ chosen'[j] = c /\ chosen'[i] = chosen[i]  BY <2>4, <3>3
      <4> QED  BY <2>9, <4>1
    <3> QED  BY <3>1, <3>2, <3>3
  <2> QED  BY <1>3, <2>4, <2>6, <2>7, <2>8, <2>11
<1> QED  BY <1>2, <1>3 DEF Adds

\* What happens to the facets' promises when candidates are added.
LEMMA ServedKept ==
    ASSUME RTypes, NoRepeats, ask' = ask, pool' = pool, Adds
    PROVE  /\ \A f : Passed(f) => Passed(f)'
           /\ Served => Served'
           /\ (AllTaken => AllTaken') /\ (AllSeen => AllSeen')
           /\ HasRoom' => HasRoom
<1>1. /\ chosen' \in Seq(Cand) /\ NoRepeats'
      /\ \A d : /\ SaysAgain(d) => SaysAgain(d)'
                /\ SectionTaken(d) => SectionTaken(d)'
                /\ IsChosen(d) => IsChosen(d)'
      /\ CoveredFacets \subseteq CoveredFacets'
      /\ ~HasRoom => chosen' = chosen
  BY AddsKeep
<1>2. \A f : Passed(f) => Passed(f)'  BY <1>1 DEF Passed
<1>3. HasRoom' => HasRoom
  <2>1. FinalTopK' = FinalTopK  BY FacetsStay
  <2> QED  BY <1>1, <2>1 DEF HasRoom
<1>4. ~HasRoom /\ AllTagged => ~HasRoom' /\ AllTagged'
  BY <1>1, <1>3 DEF AllTagged
<1>5. Served => Served'
  <2>1. FacetIds' = FacetIds  BY FacetsStay
  <2> QED  BY <1>1, <1>2, <1>4, <2>1 DEF Served
<1>6. (AllTaken => AllTaken') /\ (AllSeen => AllSeen')
  BY <1>1 DEF AllTaken, AllSeen
<1> QED  BY <1>2, <1>3, <1>5, <1>6

\* Nothing is chosen, then the passes start.
LEMMA RankStep ==
    ASSUME RTypes, Passes, RankCandidates
    PROVE  RTypes' /\ Passes'
<1>1. /\ round = "embed" /\ chosen = <<>> /\ turn = 1 /\ ask' = ask /\ turn' = turn /\ chosen' = chosen
      /\ kept' = kept /\ context' = context /\ round' \in {"cover", "spread"}
      /\ round' = "spread" => ~MultiFacet
  BY DEF RankCandidates, Passes
<1>2. pool' \in Seq(Cand)  BY RankedPool DEF RankCandidates, RTypes
<1>3. RTypes'
  <2>1. FinalTopK' = FinalTopK /\ Cand' = Cand /\ Text' = Text  BY <1>1, FacetsStay DEF Text
  <2> QED  BY <1>1, <1>2, <2>1 DEF RTypes, Rounds
<1>4. DOMAIN chosen' = {} /\ 1 .. 0 = {}  BY <1>1
<1>5. NoRepeats' /\ Once' /\ AllTagged'  BY <1>4 DEF NoRepeats, Once, AllTagged
<1>6. FacetIds' = FacetIds /\ FacetIds = 1 .. Len(Facets)  BY <1>1, FacetsStay, FacetsAre DEF RTypes
<1>7. \A f \in FacetIds' : ~(f < turn')  BY <1>1, <1>6
<1>8. \A n \in DOMAIN pool' : ~(n < turn')
  <2>1. DOMAIN pool' = 1 .. Len(pool') /\ Len(pool') \in Nat  BY <1>2, LenProperties
  <2> QED  BY <1>1, <2>1
<1>9. round' = "spread" => Served'  BY <1>1, <1>6 DEF Served, MultiFacet
<1> QED  BY <1>1, <1>3, <1>5, <1>7, <1>8, <1>9 DEF Passes

LEMMA AddTypes ==
    ASSUME RTypes, NoRepeats, ask' = ask, pool' = pool, Adds, round' \in Rounds, turn' = turn + 1,
           kept = <<>>, kept' = kept, context' = context
    PROVE  RTypes'
<1>1. chosen' \in Seq(Cand) /\ Len(chosen') <= FinalTopK  BY AddsKeep
<1>2. FinalTopK' = FinalTopK /\ Cand' = Cand /\ Text' = Text  BY FacetsStay DEF Text
<1>3. Len(kept') = 0 /\ Len(chosen') \in Nat  BY <1>1, LenProperties
<1>4. turn' \in Nat \ {0}  BY DEF RTypes
<1> QED  BY <1>1, <1>2, <1>3, <1>4 DEF RTypes

\* A candidate from a section that no chosen one is of.
LEMMA OnceKept ==
    ASSUME RTypes, NEW c \in Cand, ask' = ask, chosen' = Append(chosen, c), ~SectionTaken(c), Once
    PROVE  Once'
<1>1. /\ DOMAIN chosen = 1 .. Len(chosen) /\ DOMAIN chosen' = 1 .. Len(chosen) + 1
      /\ \A k \in DOMAIN chosen : k \in DOMAIN chosen' /\ chosen'[k] = chosen[k]
      /\ chosen'[Len(chosen) + 1] = c
      /\ \A k \in DOMAIN chosen' : k \in DOMAIN chosen \/ (k = Len(chosen) + 1 /\ k \notin DOMAIN chosen)
  <2>1. chosen \in Seq(Cand)  BY DEF RTypes
  <2> QED  BY <2>1, OneMore
<1>2. \A k \in DOMAIN chosen : SectionOf(chosen[k]) # SectionOf(c)  BY DEF SectionTaken, ToSet
<1>3. \A d : SectionOf(d)' = SectionOf(d)  BY DEF SectionOf
<1> SUFFICES ASSUME NEW i \in DOMAIN chosen', NEW j \in DOMAIN chosen', i # j
             PROVE  SectionOf(chosen'[i]) # SectionOf(chosen'[j])
  BY <1>3 DEF Once
<1>4. CASE i \in DOMAIN chosen /\ j \in DOMAIN chosen  BY <1>1, <1>4 DEF Once
<1>5. CASE i \notin DOMAIN chosen
  <2>1. j \in DOMAIN chosen /\ chosen'[i] = c /\ chosen'[j] = chosen[j]  BY <1>1, <1>5
  <2> QED  BY <1>2, <2>1
<1>6. CASE j \notin DOMAIN chosen
  <2>1. i \in DOMAIN chosen /\ chosen'[j] = c /\ chosen'[i] = chosen[i]  BY <1>1, <1>6
  <2> QED  BY <1>2, <2>1
<1> QED  BY <1>4, <1>5, <1>6

LEMMA TaggedKept ==
    ASSUME RTypes, NEW c \in Cand, chosen' = Append(chosen, c), c.tags # {}, AllTagged
    PROVE  AllTagged'
<1>1. /\ DOMAIN chosen = 1 .. Len(chosen) /\ DOMAIN chosen' = 1 .. Len(chosen) + 1
      /\ \A k \in DOMAIN chosen : k \in DOMAIN chosen' /\ chosen'[k] = chosen[k]
      /\ chosen'[Len(chosen) + 1] = c
      /\ \A k \in DOMAIN chosen' : k \in DOMAIN chosen \/ (k = Len(chosen) + 1 /\ k \notin DOMAIN chosen)
  <2>1. chosen \in Seq(Cand)  BY DEF RTypes
  <2> QED  BY <2>1, OneMore
<1> SUFFICES ASSUME NEW i \in DOMAIN chosen' PROVE chosen'[i].tags # {}
  BY DEF AllTagged
<1> QED  BY <1>1 DEF AllTagged

\* What is chosen is chosen, with its text, its section and its facets.
LEMMA ChosenIsSeen ==
    ASSUME RTypes, NEW c \in Cand, ask' = ask, chosen' = Append(chosen, c)
    PROVE  IsChosen(c)' /\ SectionTaken(c)' /\ c.tags \subseteq CoveredFacets'
<1>1. c \in ToSet(chosen')
  <2>1. chosen \in Seq(Cand)  BY DEF RTypes
  <2>2. chosen'[Len(chosen) + 1] = c /\ Len(chosen) + 1 \in DOMAIN chosen'  BY <2>1, OneMore
  <2> QED  BY <2>2 DEF ToSet
<1> QED  BY <1>1 DEF IsChosen, SectionTaken, SectionOf, CoveredFacets

\* A section is taken with every chosen chunk.
LEMMA ChosenIsTaken == \A c : IsChosen(c) => SectionTaken(c)
BY DEF IsChosen, SectionTaken, SectionOf

LEMMA CoverStep ==
    ASSUME RTypes, Passes, kept = <<>>, CoverFacet
    PROVE  RTypes' /\ Passes'
<1> DEFINE fits == {n \in DOMAIN pool : turn \in pool[n].tags /\ Fresh(pool[n]) /\ ~SectionTaken(pool[n])}
<1>0. PICK t \in Nat : t = turn  BY DEF RTypes
<1>1. /\ round = "cover" /\ HasRoom /\ turn <= Len(Facets) /\ turn' = turn + 1
      /\ chosen' = (IF turn \in CoveredFacets \/ fits = {} THEN chosen ELSE Append(chosen, pool[Min(fits)]))
      /\ ask' = ask /\ round' = round /\ pool' = pool /\ kept' = kept /\ context' = context
  <2>1. fits = {n \in DOMAIN pool : turn \in pool[n].tags /\ MayAdd(pool[n], TRUE)}  BY MayAddIs
  <2> HIDE DEF fits
  <2> QED  BY <2>1 DEF CoverFacet, Looks
<1>2. NoRepeats /\ AllTagged /\ Once /\ \A f \in FacetIds : f < turn => f \in CoveredFacets \/ Passed(f)
  BY <1>1 DEF Passes
<1>3. DOMAIN pool = 1 .. Len(pool) /\ Len(pool) \in Nat /\ \A n \in DOMAIN pool : pool[n] \in Cand
  <2>1. pool \in Seq(Cand)  BY DEF RTypes
  <2> QED  BY <2>1, LenProperties, ElementOfSeq
<1>4. fits # {} => Min(fits) \in fits
  <2>1. fits \subseteq DOMAIN pool  OBVIOUS
  <2> HIDE DEF fits
  <2>2. IsFiniteSet(1 .. Len(pool))  BY <1>3, FS_Interval
  <2>3. IsFiniteSet(fits) /\ fits \in SUBSET Int  BY <1>3, <2>1, <2>2, FS_Subset
  <2> QED  BY <2>3, LeastIn
<1>5. Adds
  <2>1. CASE turn \in CoveredFacets \/ fits = {}  BY <1>1, <2>1 DEF Adds
  <2>2. CASE ~(turn \in CoveredFacets \/ fits = {})  BY <1>1, <1>4, <2>2 DEF Adds
  <2> QED  BY <2>1, <2>2
<1>6. RTypes'
  <2>1. round' \in Rounds  BY <1>1 DEF Rounds
  <2> QED  BY <1>1, <1>2, <1>5, <2>1, AddTypes
<1>7. /\ NoRepeats' /\ CoveredFacets \subseteq CoveredFacets'
      /\ \A f : Passed(f) => Passed(f)'
  BY <1>1, <1>2, <1>5, AddsKeep, ServedKept
<1>8. AllTagged' /\ Once' /\ (t \in CoveredFacets' \/ Passed(t)')
  <2>1. CASE turn \in CoveredFacets  
    <3>1. chosen' = chosen  BY <1>1, <2>1
    <3>2. AllTagged' /\ Once'  BY <1>1, <1>2, <3>1 DEF AllTagged, Once, SectionOf
    <3> QED  BY <1>7, <1>0, <2>1, <3>2
  <2>2. CASE turn \notin CoveredFacets /\ fits = {}
    <3>1. chosen' = chosen  BY <1>1, <2>2
    <3>2. AllTagged' /\ Once'  BY <1>1, <1>2, <3>1 DEF AllTagged, Once, SectionOf
    <3>3. \A n \in DOMAIN pool : t \in pool[n].tags => ~Fresh(pool[n]) \/ SectionTaken(pool[n])
      BY <1>0, <2>2
    <3>4. Passed(t)  BY <3>3, ChosenIsTaken DEF Passed, Fresh
    <3> QED  BY <1>7, <3>2, <3>4
  <2>3. CASE turn \notin CoveredFacets /\ fits # {}
    <3>1. PICK n \in DOMAIN pool : n = Min(fits) /\ turn \in pool[n].tags /\ ~SectionTaken(pool[n])  BY <1>4, <2>3
    <3>2. PICK c \in Cand : c = pool[n]  BY <1>3
    <3>3. chosen' = Append(chosen, c) /\ turn \in c.tags /\ ~SectionTaken(c)  BY <1>1, <2>3, <3>1, <3>2
    <3>4. AllTagged'  BY <1>2, <3>3, TaggedKept
    <3>5. Once'  BY <1>1, <1>2, <3>3, OnceKept
    <3>6. t \in CoveredFacets'  BY <1>0, <1>1, <3>3, ChosenIsSeen
    <3> QED  BY <3>4, <3>5, <3>6
  <2> QED  BY <2>1, <2>2, <2>3
<1>9. ASSUME NEW f \in FacetIds', f < turn' PROVE f \in CoveredFacets' \/ Passed(f)'
  <2>1. f \in FacetIds /\ FacetIds = 1 .. Len(Facets) /\ Len(Facets) \in Nat
    BY <1>1, FacetsStay, FacetsAre DEF RTypes
  <2>2. turn' = t + 1  BY <1>0, <1>1
  <2>3. CASE f = t  BY <1>8, <2>3
  <2>4. CASE f # t
    <3>1. f < t  BY <1>9, <2>1, <2>2, <2>4
    <3> QED  BY <1>0, <1>2, <1>7, <2>1, <3>1
  <2> QED  BY <2>3, <2>4
<1> QED  BY <1>1, <1>6, <1>7, <1>8, <1>9 DEF Passes

LEMMA TryStep ==
    ASSUME RTypes, Passes, kept = <<>>, TryCandidate
    PROVE  RTypes' /\ Passes'
<1>0. PICK t \in Nat : t = turn /\ t \in 1 .. Len(pool)
  <2>1. turn \in Nat \ {0} /\ turn <= Len(pool)  BY DEF RTypes, TryCandidate, Looks
  <2>2. Len(pool) \in Nat  BY LenProperties DEF RTypes
  <2> QED  BY <2>1, <2>2
<1>1. /\ round \in {"spread", "fill"} /\ HasRoom /\ turn' = t + 1
      /\ chosen' = (IF MayAdd(pool[t], round = "spread") THEN Append(chosen, pool[t]) ELSE chosen)
      /\ ask' = ask /\ round' = round /\ pool' = pool /\ kept' = kept /\ context' = context
  BY <1>0 DEF TryCandidate, Looks
<1>2. NoRepeats /\ Served  BY <1>1 DEF Passes
<1>3. DOMAIN pool = 1 .. Len(pool) /\ pool[t] \in Cand
  <2>1. pool \in Seq(Cand)  BY DEF RTypes
  <2> QED  BY <1>0, <2>1, LenProperties, ElementOfSeq
<1>4. PICK c \in Cand : c = pool[t]  BY <1>3
<1>5. CASE round = "spread"
  <2>1. MayAdd(c, round = "spread") <=> Fresh(c) /\ ~SectionTaken(c)  BY <1>5, MayAddIs
  <2>2. chosen' = IF Fresh(c) /\ ~SectionTaken(c) THEN Append(chosen, c) ELSE chosen
    BY <1>1, <1>4, <2>1
  <2>3. Adds  BY <1>0, <1>1, <1>3, <1>4, <2>2 DEF Adds
  <2>4. RTypes'
    <3>1. round' \in Rounds /\ turn' = turn + 1  BY <1>0, <1>1 DEF Rounds
    <3> QED  BY <1>1, <1>2, <2>3, <3>1, AddTypes
  <2>5. NoRepeats' /\ Served' /\ \A d : (SaysAgain(d) => SaysAgain(d)') /\ (SectionTaken(d) => SectionTaken(d)')
    BY <1>1, <1>2, <2>3, AddsKeep, ServedKept
  <2>6. Once /\ \A n \in DOMAIN pool : n < t => SaysAgain(pool[n]) \/ SectionTaken(pool[n])
    BY <1>0, <1>5 DEF Passes
  <2>7. Once' /\ (SaysAgain(c)' \/ SectionTaken(c)')
    <3>1. CASE Fresh(c) /\ ~SectionTaken(c)
      <4>1. chosen' = Append(chosen, c) /\ ~SectionTaken(c)  BY <2>2, <3>1
      <4>2. Once'  BY <1>1, <2>6, <4>1, OnceKept
      <4>3. SectionTaken(c)'  BY <1>1, <4>1, ChosenIsSeen
      <4> QED  BY <4>2, <4>3
    <3>2. CASE ~(Fresh(c) /\ ~SectionTaken(c))
      <4>1. chosen' = chosen  BY <2>2, <3>2
      <4>2. Once'  BY <1>1, <2>6, <4>1 DEF Once, SectionOf
      <4>3. SaysAgain(c) \/ SectionTaken(c)  BY <3>2, ChosenIsTaken DEF Fresh
      <4> QED  BY <2>5, <4>2, <4>3
    <3> QED  BY <3>1, <3>2
  <2>8. ASSUME NEW n \in DOMAIN pool', n < turn' PROVE SaysAgain(pool[n])' \/ SectionTaken(pool[n])'
    <3>1. n \in DOMAIN pool /\ n \in Nat /\ pool'[n] = pool[n]  BY <1>1, <1>3
    <3>2. CASE n = t  BY <1>4, <2>7, <3>1, <3>2
    <3>3. CASE n # t
      <4>1. n < t  BY <1>0, <1>1, <2>8, <3>1, <3>3
      <4> QED  BY <2>5, <2>6, <3>1, <4>1
    <3> QED  BY <3>2, <3>3
  <2> QED  BY <1>1, <1>5, <2>4, <2>5, <2>7, <2>8 DEF Passes
<1>6. CASE round = "fill"
  <2>1. MayAdd(c, round = "spread") <=> Fresh(c)  BY <1>6, MayAddIs
  <2>2. chosen' = IF Fresh(c) THEN Append(chosen, c) ELSE chosen
    BY <1>1, <1>4, <2>1
  <2>3. Adds  BY <1>0, <1>1, <1>3, <1>4, <2>2 DEF Adds
  <2>4. RTypes'
    <3>1. round' \in Rounds /\ turn' = turn + 1  BY <1>0, <1>1 DEF Rounds
    <3> QED  BY <1>1, <1>2, <2>3, <3>1, AddTypes
  <2>5. /\ NoRepeats' /\ Served'
        /\ \A d : (SaysAgain(d) => SaysAgain(d)') /\ (IsChosen(d) => IsChosen(d)')
        /\ AllTaken => AllTaken'
    BY <1>1, <1>2, <2>3, AddsKeep, ServedKept
  <2>6. AllTaken /\ \A n \in DOMAIN pool : n < t => IsChosen(pool[n]) \/ SaysAgain(pool[n])
    BY <1>0, <1>1, <1>6 DEF Passes
  <2>7. IsChosen(c)' \/ SaysAgain(c)'
    <3>1. CASE Fresh(c)
      <4>1. chosen' = Append(chosen, c)  BY <2>2, <3>1
      <4> QED  BY <1>1, <4>1, ChosenIsSeen
    <3>2. CASE ~Fresh(c)  BY <2>5, <3>2 DEF Fresh
    <3> QED  BY <3>1, <3>2
  <2>8. ASSUME NEW n \in DOMAIN pool', n < turn' PROVE IsChosen(pool[n])' \/ SaysAgain(pool[n])'
    <3>1. n \in DOMAIN pool /\ n \in Nat /\ pool'[n] = pool[n]  BY <1>1, <1>3
    <3>2. CASE n = t  BY <1>4, <2>7, <3>1, <3>2
    <3>3. CASE n # t
      <4>1. n < t  BY <1>0, <1>1, <2>8, <3>1, <3>3
      <4> QED  BY <2>5, <2>6, <3>1, <4>1
    <3> QED  BY <3>2, <3>3
  <2> QED  BY <1>1, <1>6, <2>4, <2>5, <2>6, <2>8 DEF Passes
<1> QED  BY <1>1, <1>5, <1>6

LEMMA EndPassStep ==
    ASSUME RTypes, Passes, kept = <<>>, EndPass
    PROVE  RTypes' /\ Passes'
<1>1. /\ ask' = ask /\ pool' = pool /\ chosen' = chosen /\ kept' = kept /\ context' = context /\ turn' = 1
      /\ round \in {"cover", "spread", "fill"}
      /\ round = "cover" => round' = "spread" /\ (~HasRoom \/ turn > Len(Facets))
      /\ round = "spread" => round' = "fill" /\ (~HasRoom \/ turn > Len(pool))
      /\ round = "fill" => round' = "weigh" /\ (~HasRoom \/ turn > Len(pool))
  BY DEF EndPass
<1>2. RTypes'
  <2>1. FinalTopK' = FinalTopK /\ Cand' = Cand /\ Text' = Text  BY <1>1, FacetsStay DEF Text
  <2> QED  BY <1>1, <2>1 DEF RTypes, Rounds
<1>3. Adds  BY <1>1 DEF Adds
<1>4. /\ NoRepeats' /\ (Served => Served') /\ (AllTaken => AllTaken') /\ (AllSeen => AllSeen')
      /\ HasRoom' => HasRoom
  BY <1>1, <1>3, AddsKeep, ServedKept DEF Passes
<1>5. Once => Once'  BY <1>1 DEF Once, SectionOf
<1>6. DOMAIN pool = 1 .. Len(pool) /\ Len(pool) \in Nat /\ turn \in Nat  BY LenProperties DEF RTypes
<1>7. \A n \in DOMAIN pool' : ~(n < turn')  BY <1>1, <1>6
<1>8. CASE round = "cover"
  <2>1. Served
    <3>1. CASE ~HasRoom  BY <1>8, <3>1 DEF Passes, Served
    <3>2. CASE turn > Len(Facets)
      <4>1. FacetIds = 1 .. Len(Facets) /\ Len(Facets) \in Nat  BY FacetsAre DEF RTypes
      <4>2. \A f \in FacetIds : f < turn  BY <1>6, <3>2, <4>1
      <4> QED  BY <1>8, <4>2 DEF Passes, Served
    <3> QED  BY <1>1, <1>8, <3>1, <3>2
  <2> QED  BY <1>1, <1>2, <1>4, <1>5, <1>7, <1>8, <2>1 DEF Passes
<1>9. CASE round = "spread"
  <2>1. HasRoom => AllTaken
    <3>1. ASSUME HasRoom PROVE AllTaken
      <4>1. \A n \in DOMAIN pool : n < turn  BY <1>1, <1>6, <1>9, <3>1
      <4> QED  BY <1>9, <4>1 DEF Passes, AllTaken
    <3> QED  BY <3>1
  <2> QED  BY <1>1, <1>2, <1>4, <1>5, <1>7, <1>9, <2>1 DEF Passes
<1>10. CASE round = "fill"
  <2>1. HasRoom => AllSeen
    <3>1. ASSUME HasRoom PROVE AllSeen
      <4>1. \A n \in DOMAIN pool : n < turn  BY <1>1, <1>6, <1>10, <3>1
      <4> QED  BY <1>10, <4>1 DEF Passes, AllSeen
    <3> QED  BY <3>1
  <2> QED  BY <1>1, <1>2, <1>4, <1>5, <1>10, <2>1 DEF Passes
<1> QED  BY <1>1, <1>8, <1>9, <1>10

\* Nothing more is chosen afterwards.
LEMMA ChosenStay ==
    ASSUME RTypes, Passes, ask' = ask, pool' = pool, chosen' = chosen,
           \/ round \in {"weigh", "fit"} /\ round' \in {"fit", "answered", "failed"}
           \/ round' = "failed"
           \/ round' = round /\ turn' = turn
    PROVE  Passes'
<1>1. Adds  BY DEF Adds
<1>2. /\ NoRepeats' /\ (Served => Served') /\ (AllTaken => AllTaken') /\ (AllSeen => AllSeen')
      /\ HasRoom' => HasRoom
  BY <1>1, AddsKeep, ServedKept DEF Passes
<1>3. Once => Once'  BY DEF Once, SectionOf
<1>4. CASE round \in {"weigh", "fit"} /\ round' \in {"fit", "answered", "failed"}
  BY <1>2, <1>3, <1>4 DEF Passes
<1>5. CASE round' = "failed"  BY <1>2, <1>5 DEF Passes
<1>6. CASE round' = round /\ turn' = turn
  <2>1. /\ \A d : SaysAgain(d)' <=> SaysAgain(d)
        /\ \A d : SectionTaken(d)' <=> SectionTaken(d)
        /\ \A d : IsChosen(d)' <=> IsChosen(d)
    BY DEF SaysAgain, SectionTaken, IsChosen, SectionOf, Alike, WordsOf
  <2>2. \A f : Passed(f)' <=> Passed(f)  BY <2>1 DEF Passed
  <2>3. FacetIds' = FacetIds /\ CoveredFacets' = CoveredFacets /\ (AllTagged <=> AllTagged')
    BY FacetsStay DEF CoveredFacets, AllTagged
  <2> QED  BY <1>2, <1>3, <1>6, <2>1, <2>2, <2>3 DEF Passes
<1> QED  BY <1>4, <1>5, <1>6

\* The room a prompt's texts take.
Total(texts) == FoldLeft(+, 0, [n \in DOMAIN texts |-> texts[n].size])

LEMMA TotalGrows ==
    ASSUME NEW I, NEW texts \in Seq([id : I, size : Nat]), NEW text \in [id : I, size : Nat]
    PROVE  /\ Total(texts) \in Int
           /\ Total(Append(texts, text)) = Total(texts) + text.size
<1> DEFINE T == [id : I, size : Nat]
           sizes == [n \in DOMAIN texts |-> texts[n].size]
           more == Append(texts, text)
           sizes2 == [n \in DOMAIN more |-> more[n].size]
<1>1. DOMAIN texts = 1 .. Len(texts) /\ Len(texts) \in Nat /\ \A n \in 1 .. Len(texts) : texts[n] \in T
  BY LenProperties, ElementOfSeq
<1>2. /\ DOMAIN more = 1 .. Len(texts) + 1 /\ more[Len(texts) + 1] = text
      /\ \A n \in 1 .. Len(texts) : more[n] = texts[n]
  BY <1>1, AppendProperties
<1>3. sizes \in Seq(Int) /\ Len(sizes) = Len(texts)
  <2>1. sizes \in [1 .. Len(texts) -> Int]  BY <1>1
  <2> HIDE DEF sizes
  <2> QED  BY <1>1, <2>1, SequenceOf
<1>4. text.size \in Int  OBVIOUS
<1>5. sizes2 = Append(sizes, text.size)
  <2>1. /\ Append(sizes, text.size) \in Seq(Int) /\ Len(Append(sizes, text.size)) = Len(texts) + 1
        /\ Append(sizes, text.size)[Len(texts) + 1] = text.size
        /\ \A n \in 1 .. Len(texts) : Append(sizes, text.size)[n] = sizes[n]
    <3> HIDE DEF sizes
    <3> QED  BY <1>3, <1>4, AppendProperties
  <2>2. DOMAIN Append(sizes, text.size) = 1 .. Len(texts) + 1  BY <2>1, LenProperties
  <2>3. \A n \in 1 .. Len(texts) : sizes[n] = texts[n].size  BY <1>1
  <2>4. \A n \in 1 .. Len(texts) + 1 : sizes2[n] = Append(sizes, text.size)[n]
    <3>1. ASSUME NEW n \in 1 .. Len(texts) + 1 PROVE sizes2[n] = Append(sizes, text.size)[n]
      <4>1. sizes2[n] = more[n].size  BY <1>2
      <4>2. CASE n = Len(texts) + 1  BY <1>2, <2>1, <4>1, <4>2
      <4>3. CASE n # Len(texts) + 1
        <5>1. n \in 1 .. Len(texts)  BY <1>1, <4>3
        <5> QED  BY <1>2, <2>1, <2>3, <4>1, <5>1
      <4> QED  BY <4>2, <4>3
    <3> QED  BY <3>1
  <2>5. Append(sizes, text.size) = [n \in 1 .. Len(texts) + 1 |-> Append(sizes, text.size)[n]]
    <3> HIDE DEF sizes
    <3> QED  BY <2>1, <2>2
  <2> HIDE DEF sizes
  <2>6. sizes2 = [n \in 1 .. Len(texts) + 1 |-> sizes2[n]]  BY <1>2
  <2> HIDE DEF sizes2
  <2> QED  BY <2>4, <2>5, <2>6
<1>6. Total(texts) = FoldLeft(+, 0, sizes) /\ Total(more) = FoldLeft(+, 0, sizes2)
  BY Zenon DEF Total
<1> HIDE DEF sizes, sizes2, more
<1>7. FoldLeft(+, 0, sizes) \in Int /\ FoldLeft(+, 0, Append(sizes, text.size)) = FoldLeft(+, 0, sizes) + text.size
  BY <1>3, <1>4, SumAppend
<1>8. Total(texts) \in Int /\ Total(more) = Total(texts) + text.size  BY <1>5, <1>6, <1>7, Zenon
<1> QED  BY <1>8 DEF more

LEMMA NoTotal == Total(<<>>) = 0
<1>1. [n \in DOMAIN <<>> |-> <<>>[n].size] = <<>>  OBVIOUS
<1> QED  BY <1>1, NoSum, Zenon DEF Total

LEMMA RemainingIs == Remaining = TotalLimit - Total(context)
BY Zenon DEF Remaining, Total

LEMMA RemainingStays ==
    ASSUME ask' = ask, context' = context
    PROVE  Remaining' = Remaining
<1>1. (Remaining = TotalLimit - Total(context))'  BY Zenon DEF Remaining, Total
<1>2. TotalLimit' = TotalLimit  BY FacetsStay
<1>3. Total(context)' = Total(context)  OBVIOUS
<1> QED  BY <1>1, <1>2, <1>3, RemainingIs, Zenon

LEMMA TruncatedIs ==
    ASSUME NEW size \in Nat, NEW limit \in Nat, NEW left \in Truncated(size, limit)
    PROVE  left \in Nat /\ left <= limit /\ left <= size /\ (left < size => limit <= 2 * left + 1)
<1>1. CASE size <= limit  BY <1>1 DEF Truncated
<1>2. CASE ~(size <= limit)
  <2>1. limit \div 2 \in Nat /\ 2 * (limit \div 2) <= limit /\ limit <= 2 * (limit \div 2) + 1
    OBVIOUS
  <2>2. PICK half \in Nat : half = limit \div 2 /\ 2 * half <= limit /\ limit <= 2 * half + 1
    BY <2>1
  <2>3. left = half \/ left = limit  BY <1>2, <2>2 DEF Truncated
  <2> QED  BY <1>2, <2>2, <2>3
<1> QED  BY <1>1, <1>2

TooLittle == ~MultiFacet /\ Remaining < 2 * Useful

Fitted ==
    /\ Len(context) <= Len(kept)
    /\ \A n \in DOMAIN context : context[n].id = kept[n].id /\ context[n].size <= Largest
    /\ Total(context) <= TotalLimit /\ Total(context) <= Largest * Len(context)
    /\ round \in {"embed", "cover", "spread", "fill", "weigh"} => kept = <<>> /\ context = <<>>
    /\ round = "weigh" => turn = 1
    /\ round = "fit" => turn = Len(context) + 1 \/ (turn = Len(kept) + 1 /\ TooLittle)
    /\ round = "answered" => context # <<>> /\ (Len(context) < Len(kept) => TooLittle)

\* Everything but the round and the turn as it was.
LEMMA FittedStays ==
    ASSUME RTypes, Fitted, ask' = ask, kept' = kept, context' = context,
           \/ round' \in {"cover", "spread", "fill"} /\ round \notin {"fit", "answered", "failed"}
           \/ round' = "weigh" /\ round = "fill" /\ turn' = 1
           \/ round' = "failed"
           \/ round' = round /\ turn' = turn
    PROVE  Fitted'
<1>1. TotalLimit' = TotalLimit /\ MultiFacet' = MultiFacet /\ Total(context)' = Total(context)
  BY FacetsStay
<1>2. Remaining' = Remaining  BY RemainingStays
<1>3. TooLittle' <=> TooLittle  BY <1>1, <1>2 DEF TooLittle
<1> HIDE DEF TooLittle
<1> QED  BY <1>1, <1>3 DEF Fitted, RTypes, Rounds

LEMMA FloorStep ==
    ASSUME RTypes, Passes, Fitted, ApplyFloor
    PROVE  RTypes' /\ Passes' /\ Fitted'
<1> DEFINE relevant == {n \in DOMAIN chosen : IsRelevant(chosen[n])}
<1>1. /\ round = "weigh" /\ round' = "fit" /\ ask' = ask /\ turn' = turn /\ pool' = pool /\ chosen' = chosen
      /\ context' = context /\ kept = <<>> /\ context = <<>> /\ turn = 1
      /\ kept' = [n \in 1 .. Cardinality(relevant) |-> chosen[Nth(relevant, n)]]
  BY DEF ApplyFloor, Fitted
<1>2. chosen \in Seq(Cand) /\ DOMAIN chosen = 1 .. Len(chosen) /\ Len(chosen) \in Nat
      /\ \A n \in 1 .. Len(chosen) : chosen[n] \in Cand
  BY LenProperties, ElementOfSeq DEF RTypes
<1>3. relevant \in SUBSET (1 .. Len(chosen))  BY <1>2
<1> HIDE DEF relevant
<1>4. PICK k \in Nat : k = Cardinality(relevant) /\ k <= Len(chosen)
  <2>1. IsFiniteSet(1 .. Len(chosen)) /\ Cardinality(1 .. Len(chosen)) = Len(chosen)
    <3>1. PICK l \in Nat : l = Len(chosen)  BY <1>2
    <3>2. 1 \in Int /\ l \in Int  OBVIOUS
    <3>3. /\ IsFiniteSet(1 .. l)
          /\ Cardinality(1 .. l) = IF 1 > l THEN 0 ELSE l - 1 + 1
      BY <3>2, FS_Interval
    <3>4. (IF 1 > l THEN 0 ELSE l - 1 + 1) = l  BY <3>1
    <3> QED  BY <3>1, <3>3, <3>4
  <2>2. Cardinality(relevant) \in Nat /\ Cardinality(relevant) <= Cardinality(1 .. Len(chosen))
    BY <1>3, <2>1, FS_Subset, FS_CardinalityType
  <2> QED  BY <2>1, <2>2
<1>5. kept' \in Seq(Cand) /\ Len(kept') = k
  <2>1. \A n \in 1 .. k : Nth(relevant, n) \in relevant  BY <1>2, <1>3, <1>4, NthIs
  <2>2. \A n \in 1 .. k : chosen[Nth(relevant, n)] \in Cand  BY <1>2, <1>3, <2>1
  <2>3. kept' \in [1 .. k -> Cand]  BY <1>1, <1>4, <2>2
  <2> QED  BY <2>3, SequenceOf
<1>6. RTypes'
  <2>1. FinalTopK' = FinalTopK /\ Cand' = Cand /\ Text' = Text  BY <1>1, FacetsStay DEF Text
  <2> QED  BY <1>1, <1>4, <1>5, <2>1 DEF RTypes, Rounds
<1>7. Passes'  BY <1>1, ChosenStay
<1>8. Fitted'
  <2>1. TotalLimit' = TotalLimit  BY <1>1, FacetsStay
  <2>2. Len(<<>>) = 0 /\ DOMAIN <<>> = {} /\ Total(<<>>) = 0  BY NoTotal
  <2>3. Total(context)' = 0 /\ Len(context') = 0 /\ DOMAIN context' = {}  BY <1>1, <2>2
  <2>4. TotalLimit \in Nat  BY DEF TotalLimit
  <2> QED  BY <1>1, <1>4, <1>5, <2>1, <2>3, <2>4 DEF Fitted, Largest
<1> QED  BY <1>6, <1>7, <1>8

LEMMA FitStep ==
    ASSUME RTypes, Passes, Fitted, FitChunk
    PROVE  RTypes' /\ Passes' /\ Fitted'
<1>1. /\ round = "fit" /\ round' = round /\ ask' = ask /\ pool' = pool /\ chosen' = chosen /\ kept' = kept
      /\ turn <= Len(kept)
  BY DEF FitChunk
<1>2. PICK n \in Nat : n = Len(context)  BY LenProperties DEF RTypes
<1>3. PICK m \in Nat : m = Len(kept) /\ m <= MultiTopK
  <2>1. Len(kept) \in Nat /\ Len(chosen) \in Nat /\ Len(kept) <= Len(chosen) /\ Len(chosen) <= FinalTopK
    BY LenProperties DEF RTypes
  <2>2. FinalTopK \in Nat /\ FinalTopK <= MultiTopK  BY PlacesAre DEF RTypes
  <2> QED  BY <2>1, <2>2 DEF MultiTopK
<1>4. turn = n + 1 /\ n + 1 <= m  BY <1>1, <1>2, <1>3 DEF Fitted
<1>5. PICK total \in Int : total = Total(context)
  <2>1. PICK id0 \in DOMAIN ask.chunks : TRUE
    <3>1. kept[n + 1] \in Cand  BY <1>3, <1>4, ElementOfSeq DEF RTypes
    <3> QED  BY <3>1 DEF Cand
  <2>2. [id |-> id0, size |-> 0] \in Text  BY DEF Text
  <2>3. context \in Seq(Text)  BY DEF RTypes
  <2> QED  BY <2>2, <2>3, TotalGrows DEF Text
<1>6. PICK most \in Nat : most = TotalLimit  BY DEF TotalLimit
<1>7. PICK room \in Nat : room = Remaining /\ room = most - total /\ total <= Largest * n /\ total <= most
  <2>1. total <= most /\ total <= Largest * n  BY <1>2, <1>5, <1>6 DEF Fitted
  <2>2. Remaining = most - total  BY <1>5, <1>6, RemainingIs
  <2> QED  BY <2>1, <2>2
<1>8. PICK limit \in Nat : limit = Min({Largest, Remaining}) /\ limit = IF Largest <= room THEN Largest ELSE room
  <2>1. Min({Largest, room}) = IF Largest <= room THEN Largest ELSE room
    <3>1. CASE Largest <= room  BY <3>1 DEF Min, Largest
    <3>2. CASE ~(Largest <= room)  BY <3>2 DEF Min, Largest
    <3> QED  BY <3>1, <3>2
  <2> QED  BY <1>7, <2>1 DEF Largest
<1>9. kept[n + 1] \in Cand /\ kept[n + 1].id \in DOMAIN ask.chunks
  <2>1. kept[n + 1] \in Cand  BY <1>3, <1>4, ElementOfSeq DEF RTypes
  <2> QED  BY <2>1 DEF Cand
<1>10. PICK size \in Nat : size = ask.chunks[kept[turn].id].size
  BY <1>4, <1>9, AsksAssumption DEF RTypes
<1>11. PICK left \in Truncated(size, limit) :
         IF left < Useful /\ left < size
         THEN turn' = Len(kept) + 1 /\ context' = context
         ELSE turn' = turn + 1 /\ context' = Append(context, [id |-> kept[turn].id, size |-> left])
  BY <1>8, <1>10, Zenon DEF FitChunk
<1>12. left \in Nat /\ left <= limit /\ left <= size /\ (left < size => limit <= 2 * left + 1)
  BY TruncatedIs
<1>13. /\ FinalTopK' = FinalTopK /\ Cand' = Cand /\ Text' = Text /\ TotalLimit' = TotalLimit
       /\ MultiFacet' = MultiFacet
  BY <1>1, FacetsStay DEF Text
<1>14. CASE left < Useful /\ left < size
  <2>1. turn' = m + 1 /\ context' = context  BY <1>3, <1>11, <1>14
  <2>2. room < 2 * Useful  BY <1>8, <1>12, <1>14 DEF Useful, Largest
  <2>3. ~MultiFacet
    <3>1. SUFFICES ASSUME MultiFacet PROVE FALSE  OBVIOUS
    <3>2. most = 4200  BY <1>6, <3>1 DEF TotalLimit
    <3>3. n <= 4  BY <1>3, <1>4 DEF MultiTopK
    <3>4. total <= 3600  BY <1>7, <3>3 DEF Largest
    <3> QED  BY <1>7, <2>2, <3>2, <3>4 DEF Useful
  <2>4. Total(context)' = Total(context) /\ Remaining' = Remaining
    <3>1. Total(context)' = Total(context)  BY <2>1
    <3> QED  BY <1>1, <2>1, <3>1, RemainingStays
  <2>5. TooLittle'  BY <1>7, <1>13, <2>2, <2>3, <2>4 DEF TooLittle
  <2>6. RTypes'  BY <1>1, <1>3, <1>13, <2>1 DEF RTypes
  <2>7. Passes'
    <3>1. round \in {"weigh", "fit"} /\ round' \in {"fit", "answered", "failed"}  BY <1>1
    <3> QED  BY <1>1, <3>1, ChosenStay
  <2>8. Fitted'
    <3> HIDE DEF TooLittle
    <3> QED  BY <1>1, <1>3, <1>13, <2>1, <2>4, <2>5 DEF Fitted
  <2> QED  BY <2>6, <2>7, <2>8
<1>15. CASE ~(left < Useful /\ left < size)
  <2> DEFINE text == [id |-> kept[turn].id, size |-> left]
  <2>1. turn' = n + 2 /\ context' = Append(context, text)  BY <1>4, <1>11, <1>15
  <2>2. text \in Text /\ text.id = kept[n + 1].id /\ text.size = left  BY <1>4, <1>9, <1>12 DEF Text
  <2> HIDE DEF text
  <2>3. context \in Seq(Text)  BY DEF RTypes
  <2>4. /\ context' \in Seq(Text) /\ Len(context') = n + 1 /\ context'[n + 1] = text
        /\ DOMAIN context = 1 .. n /\ \A i \in DOMAIN context : context'[i] = context[i]
        /\ \A i \in DOMAIN context' : i \in DOMAIN context \/ i = n + 1
    BY <1>2, <2>1, <2>2, <2>3, OneMore
  <2>5. Total(context)' = total + left
    <3>1. Total(Append(context, text)) = Total(context) + text.size  BY <2>2, <2>3, TotalGrows DEF Text
    <3> QED  BY <1>5, <2>1, <2>2, <3>1
  <2>6. left <= Largest /\ left <= room  BY <1>8, <1>12 DEF Largest
  <2>7. RTypes'  BY <1>1, <1>13, <2>1, <2>4 DEF RTypes
  <2>8. Passes'
    <3>1. round \in {"weigh", "fit"} /\ round' \in {"fit", "answered", "failed"}  BY <1>1
    <3> QED  BY <1>1, <3>1, ChosenStay
  <2>9. Total(context)' <= TotalLimit' /\ Total(context)' <= Largest * Len(context')
    <3>1. total + left <= most  BY <1>7, <1>12, <2>6
    <3>2. total + left <= Largest * (n + 1)  BY <1>7, <1>12, <2>6 DEF Largest
    <3> QED  BY <1>6, <1>13, <2>4, <2>5, <3>1, <3>2
  <2>10. \A i \in DOMAIN context' : context'[i].id = kept'[i].id /\ context'[i].size <= Largest
    <3>1. ASSUME NEW i \in DOMAIN context' PROVE context'[i].id = kept'[i].id /\ context'[i].size <= Largest
      <4>1. CASE i \in DOMAIN context  BY <1>1, <2>4, <4>1 DEF Fitted
      <4>2. CASE i = n + 1  BY <1>1, <2>2, <2>4, <2>6, <4>2
      <4> QED  BY <2>4, <4>1, <4>2
    <3> QED  BY <3>1
  <2>11. Fitted'
    <3>1. Len(context') <= Len(kept') /\ turn' = Len(context') + 1  BY <1>1, <1>3, <1>4, <2>1, <2>4
    <3> QED  BY <1>1, <2>9, <2>10, <3>1 DEF Fitted
  <2> QED  BY <2>7, <2>8, <2>11
<1> QED  BY <1>14, <1>15

RetrievalInv == RTypes /\ Passes /\ Fitted

LEMMA RetrievalStarts ==
    ASSUME RetrievalInit
    PROVE  RetrievalInv
<1>1. /\ ask \in Asks /\ round = "embed" /\ turn = 1 /\ pool = <<>> /\ chosen = <<>> /\ kept = <<>>
      /\ context = <<>>
  BY DEF RetrievalInit
<1>2. Len(<<>>) = 0 /\ DOMAIN <<>> = {}  OBVIOUS
<1>3. <<>> \in Seq(Cand) /\ <<>> \in Seq(Text)  OBVIOUS
<1>4. FinalTopK \in Nat  BY <1>1, PlacesAre
<1>5. RTypes  BY <1>1, <1>2, <1>3, <1>4 DEF RTypes, Rounds
<1>6. Passes  BY <1>1, <1>2 DEF Passes, NoRepeats
<1>7. Fitted
  <2>1. Total(context) = 0 /\ Len(context) = 0 /\ DOMAIN context = {}  BY <1>1, <1>2, NoTotal
  <2>2. TotalLimit \in Nat  BY DEF TotalLimit
  <2> QED  BY <1>1, <1>2, <2>1, <2>2 DEF Fitted, Largest
<1> QED  BY <1>5, <1>6, <1>7 DEF RetrievalInv

\* Beside the retrieval.
LEMMA RetrievalRests ==
    ASSUME RetrievalInv, UNCHANGED retrievalVars
    PROVE  RetrievalInv'
<1>1. /\ ask' = ask /\ round' = round /\ turn' = turn /\ pool' = pool /\ chosen' = chosen /\ kept' = kept
      /\ context' = context
  BY DEF retrievalVars
<1>2. RTypes'
  <2>1. FinalTopK' = FinalTopK /\ Cand' = Cand /\ Text' = Text  BY <1>1, FacetsStay DEF Text
  <2> QED  BY <1>1, <2>1 DEF RetrievalInv, RTypes
<1>3. Passes' /\ Fitted'  BY <1>1, ChosenStay, FittedStays DEF RetrievalInv
<1> QED  BY <1>2, <1>3 DEF RetrievalInv

LEMMA FailStep ==
    ASSUME RTypes, Passes, Fitted, NothingIndexed \/ EmbeddingFails
    PROVE  RTypes' /\ Passes' /\ Fitted'
<1>1. /\ ask' = ask /\ round' = "failed" /\ turn' = turn /\ pool' = pool /\ chosen' = chosen /\ kept' = kept
      /\ context' = context
  BY DEF NothingIndexed, EmbeddingFails
<1>2. RTypes'
  <2>1. FinalTopK' = FinalTopK /\ Cand' = Cand /\ Text' = Text  BY <1>1, FacetsStay DEF Text
  <2> QED  BY <1>1, <2>1 DEF RTypes, Rounds
<1>3. Passes' /\ Fitted'  BY <1>1, ChosenStay, FittedStays
<1> QED  BY <1>2, <1>3

LEMMA PromptStep ==
    ASSUME RTypes, Passes, Fitted, BuildPrompt
    PROVE  RTypes' /\ Passes' /\ Fitted'
<1>1. /\ ask' = ask /\ turn' = turn /\ pool' = pool /\ chosen' = chosen /\ kept' = kept /\ context' = context
      /\ round = "fit" /\ turn > Len(kept)
      /\ round' = IF context = <<>> THEN "failed" ELSE "answered"
  BY DEF BuildPrompt
<1>2. RTypes'
  <2>1. FinalTopK' = FinalTopK /\ Cand' = Cand /\ Text' = Text  BY <1>1, FacetsStay DEF Text
  <2> QED  BY <1>1, <2>1 DEF RTypes, Rounds
<1>3. Passes'
  <2>1. round \in {"weigh", "fit"} /\ round' \in {"fit", "answered", "failed"}  BY <1>1
  <2> QED  BY <1>1, <2>1, ChosenStay
<1>4. Fitted'
  <2>1. TotalLimit' = TotalLimit /\ MultiFacet' = MultiFacet /\ Total(context)' = Total(context)
    BY <1>1, FacetsStay
  <2>2. Remaining' = Remaining  BY <1>1, RemainingStays
  <2>3. TooLittle' <=> TooLittle  BY <2>1, <2>2 DEF TooLittle
  <2>4. Len(context) \in Nat /\ Len(kept) \in Nat  BY LenProperties DEF RTypes
  <2>5. Len(context) < Len(kept) => TooLittle  BY <1>1, <2>4 DEF Fitted
  <2> HIDE DEF TooLittle
  <2> QED  BY <1>1, <2>1, <2>3, <2>5 DEF Fitted
<1> QED  BY <1>2, <1>3, <1>4

LEMMA RetrievalStep ==
    ASSUME RetrievalInv, RetrievalNext
    PROVE  RetrievalInv'
<1>0. RTypes /\ Passes /\ Fitted  BY DEF RetrievalInv
<1>1. CASE NothingIndexed \/ EmbeddingFails  BY <1>0, <1>1, FailStep DEF RetrievalInv
<1>2. CASE RankCandidates
  <2>1. RTypes' /\ Passes'  BY <1>0, <1>2, RankStep
  <2>2. /\ round = "embed" /\ round' \in {"cover", "spread", "fill"} /\ ask' = ask /\ kept' = kept
        /\ context' = context
    BY <1>2 DEF RankCandidates
  <2>3. Fitted'  BY <1>0, <2>2, FittedStays
  <2> QED  BY <2>1, <2>3 DEF RetrievalInv
<1>3. CASE CoverFacet
  <2>1. round = "cover" /\ round' = "cover" /\ ask' = ask /\ kept' = kept /\ context' = context
    BY <1>3 DEF CoverFacet
  <2>2. kept = <<>>  BY <1>0, <2>1 DEF Fitted
  <2>3. RTypes' /\ Passes'  BY <1>0, <1>3, <2>2, CoverStep
  <2>4. Fitted'  BY <1>0, <2>1, FittedStays
  <2> QED  BY <2>3, <2>4 DEF RetrievalInv
<1>4. CASE TryCandidate
  <2>1. round \in {"spread", "fill"} /\ round' = round /\ ask' = ask /\ kept' = kept /\ context' = context
    BY <1>4 DEF TryCandidate
  <2>2. kept = <<>>  BY <1>0, <2>1 DEF Fitted
  <2>3. RTypes' /\ Passes'  BY <1>0, <1>4, <2>2, TryStep
  <2>4. Fitted'  BY <1>0, <2>1, FittedStays
  <2> QED  BY <2>3, <2>4 DEF RetrievalInv
<1>5. CASE EndPass
  <2>1. /\ round \in {"cover", "spread", "fill"} /\ ask' = ask /\ kept' = kept /\ context' = context
        /\ round' \in {"spread", "fill"} \/ (round = "fill" /\ round' = "weigh" /\ turn' = 1)
    BY <1>5 DEF EndPass
  <2>2. kept = <<>>  BY <1>0, <2>1 DEF Fitted
  <2>3. RTypes' /\ Passes'  BY <1>0, <1>5, <2>2, EndPassStep
  <2>4. Fitted'  BY <1>0, <2>1, FittedStays
  <2> QED  BY <2>3, <2>4 DEF RetrievalInv
<1>6. CASE ApplyFloor  BY <1>0, <1>6, FloorStep DEF RetrievalInv
<1>7. CASE FitChunk  BY <1>0, <1>7, FitStep DEF RetrievalInv
<1>8. CASE BuildPrompt  BY <1>0, <1>8, PromptStep DEF RetrievalInv
<1> QED  BY <1>1, <1>2, <1>3, <1>4, <1>5, <1>6, <1>7, <1>8 DEF RetrievalNext

LEMMA RetrievalIsSafe ==
    ASSUME RetrievalInv
    PROVE  RetrievalSafety
<1>1. RTypes /\ Passes /\ Fitted  BY DEF RetrievalInv
<1>2. NoRepeats  BY <1>1 DEF Passes
<1>3. NoPlaceIsWasted  BY <1>1 DEF Passes, NoPlaceIsWasted, Selected, AllSeen, ToSet
<1>4. SectionsSpread  BY <1>1 DEF Passes, SectionsSpread, Selected, AllTaken, Once, ToSet
<1>5. FacetsServed
  <2>1. Selected => Served  BY <1>1 DEF Passes, Selected
  <2> QED  BY <2>1 DEF FacetsServed, Served, AllTagged, Passed, ToSet
<1>6. ContextFits
  <2>1. /\ Len(context) \in Nat /\ Len(kept) \in Nat /\ Len(chosen) \in Nat /\ Len(kept) <= Len(chosen)
        /\ Len(chosen) <= FinalTopK /\ FinalTopK \in Nat
    BY <1>1, LenProperties, PlacesAre DEF RTypes
  <2>2. Len(context) <= FinalTopK  BY <1>1, <2>1 DEF Fitted
  <2>3. Remaining >= 0
    <3>1. PICK total \in Int : total = Total(context)
      <4>1. CASE context = <<>>  BY <4>1, NoTotal
      <4>2. CASE context # <<>>
        <5>1. context \in Seq(Text)  BY <1>1 DEF RTypes
        <5>2. context[1] \in Text  BY <4>2, <5>1, ElementOfSeq
        <5> QED  BY <5>1, <5>2, TotalGrows DEF Text
      <4> QED  BY <4>1, <4>2
    <3>2. PICK most \in Nat : most = TotalLimit  BY DEF TotalLimit
    <3>3. total <= most  BY <1>1, <3>1, <3>2 DEF Fitted
    <3> QED  BY <3>1, <3>2, <3>3, RemainingIs
  <2> QED  BY <1>1, <2>2, <2>3 DEF Fitted, ContextFits, TooLittle
<1> QED  BY <1>2, <1>3, <1>4, <1>5, <1>6 DEF RetrievalSafety

---------------------------------------------------------------------------
(* The routes: who is asked what, and from what, at each place it stands. *)

\* What each route asks, in order.
Plan ==
    IF ask.by \in {"base", "rag"} THEN <<Base>>
    ELSE IF ask.by \in {"fineTuned", "fineTunedRag"} THEN <<Course>>
    ELSE IF ask.by = "pair" THEN <<Base, ask.model>>
    ELSE <<IF ask.mode = "rag" THEN Base ELSE ask.model>>

\* Nothing asked yet, or the first half of a pair.
ToAnswer == (answers = <<>> /\ targets = Plan) \/ (ask.by = "pair" /\ answers = <<Base>> /\ targets = <<ask.model>>)

\* A version that was read is the one named, or was activated for the course.
IsResolved ==
    \/ resolved = NoModel
    \/ Head(targets) = Course /\ resolved \in wasOnline
    \/ Head(targets) \in Models /\ resolved = Head(targets)

\* What a question ends with.
Answered ==
    IF ask.by \in {"test", "pair"} THEN answers = Plan ELSE \E v \in {Base} \cup wasOnline : answers = <<v>>

Registry == ready \subseteq Models /\ online \subseteq wasOnline /\ wasOnline \subseteq Models

\* Where a question stands, and what was done for it.
Stands ==
    /\ stand \in {"received", "grounding", "answering", "done", "refused"}
    /\ stand \in {"received", "grounding"} => answers = <<>> /\ resolved = NoModel
    /\ stand = "received" => round = "embed"
    /\ stand = "grounding" => Grounded /\ MayAsk /\ targets = Plan
    /\ stand = "answering" => MayAsk /\ ToAnswer /\ IsResolved
    /\ stand = "refused" => answers = <<>> \/ (ask.by = "pair" /\ round = "answered" /\ answers = <<Base>>)
    /\ stand = "done" => Answered
    /\ stand \in {"answering", "done"} => round = IF Grounded THEN "answered" ELSE "embed"

RouteInv == RetrievalInv /\ Registry /\ Stands

\* Every question is asked by one of the six routes, and its names are apart.
LEMMA RouteIs ==
    ASSUME ask \in Asks
    PROVE  /\ ask.by \in {"base", "fineTuned", "rag", "fineTunedRag", "test", "pair"}
           /\ Base \notin Models /\ Course \notin Models /\ NoModel \notin Models
           /\ Base # Course /\ Base # NoModel /\ Course # NoModel
           /\ ask.by = "pair" => ask.model \in Models
           /\ MayAsk /\ ask.by = "test" /\ ask.mode # "rag" => ask.model \in Models
<1>1. /\ {Base, Course, NoModel} \cap Models = {} /\ Base # Course /\ NoModel \notin {Base, Course}
      /\ ask.by \in {"base", "fineTuned", "rag", "fineTunedRag", "test", "pair"}
      /\ ask.model \in IF ask.by = "pair" THEN Models ELSE Models \cup {NoModel}
  BY ConditionsAssumption
<1> QED  BY <1>1 DEF MayAsk, Misasked

LEMMA CourseModelIs ==
    ASSUME Registry, CourseModel # NoModel
    PROVE  CourseModel \in wasOnline
<1>1. Servable # {}  BY DEF CourseModel
<1>2. Servable \in SUBSET Int /\ IsFiniteSet(Servable)
  <2>1. Servable \subseteq Models  BY DEF Registry, Servable
  <2>2. Models \subseteq Nat /\ IsFiniteSet(Models)  BY ConditionsAssumption
  <2>3. Models \subseteq Int  BY <2>2
  <2>4. IsFiniteSet(Servable)  BY <2>1, <2>2, FS_Subset
  <2> QED  BY <2>1, <2>3, <2>4
<1>3. Max(Servable) \in Servable
  <2> HIDE DEF Servable
  <2> QED  BY <1>1, <1>2, GreatestIn
<1> QED  BY <1>1, <1>3 DEF CourseModel, Servable, Registry

\* The plan is a question's own.
LEMMA PlanStays ==
    ASSUME ask' = ask
    PROVE  Plan' = Plan /\ (MayAsk' <=> MayAsk) /\ (Grounded' <=> Grounded)
BY DEF Plan, MayAsk, Grounded, IsBlank, Misasked

LEMMA RouteStarts ==
    ASSUME ConditionsInit
    PROVE  RouteInv
<1>1. RetrievalInv  BY RetrievalStarts DEF ConditionsInit
<1>2. /\ ask \in Asks /\ round = "embed" /\ stand = "received" /\ resolved = NoModel /\ answers = <<>>
      /\ ready = ask.ready /\ online = ask.online /\ wasOnline = online
  BY DEF ConditionsInit, RetrievalInit
<1>3. ask.ready \subseteq Models /\ ask.online \subseteq Models  BY <1>2, ConditionsAssumption
<1>4. Registry  BY <1>2, <1>3 DEF Registry
<1>5. Stands  BY <1>2 DEF Stands
<1> QED  BY <1>1, <1>4, <1>5 DEF RouteInv

\* A question that is asked: refused, or on to its retrieval or its generation.
LEMMA AskStep ==
    ASSUME RouteInv,
           RefuseAsked \/ AskBase \/ AskFineTuned \/ AskRag \/ AskFineTunedRag \/ AskTest \/ AskPair
    PROVE  RouteInv'
<1>1. /\ stand = "received" /\ UNCHANGED <<retrievalVars, resolved, answers, registryVars>>
      /\ stand' = "refused" \/ (MayAsk /\ targets' = Plan /\ stand' = IF Grounded THEN "grounding" ELSE "answering")
  BY DEF RefuseAsked, AskBase, AskFineTuned, AskRag, AskFineTunedRag, AskTest, AskPair, Receives, Goes, Plan, Grounded
<1>2. RetrievalInv'  BY <1>1, RetrievalRests DEF RouteInv
<1>3. Registry'  BY <1>1 DEF RouteInv, Registry, registryVars
<1>4. /\ ask' = ask /\ round' = round /\ resolved' = resolved /\ answers' = answers
      /\ round = "embed" /\ resolved = NoModel /\ answers = <<>>
  BY <1>1 DEF retrievalVars, RouteInv, Stands
<1>5. Plan' = Plan /\ (MayAsk' <=> MayAsk) /\ (Grounded' <=> Grounded)  BY <1>4, PlanStays
<1>6. Stands'
  <2>1. CASE stand' = "refused"  BY <1>4, <2>1 DEF Stands
  <2>2. CASE MayAsk /\ targets' = Plan /\ stand' = IF Grounded THEN "grounding" ELSE "answering"
    <3>1. stand' = "grounding" \/ (stand' = "answering" /\ ~Grounded)  BY <2>2
    <3>2. ToAnswer' /\ IsResolved'  BY <1>4, <1>5, <2>2 DEF ToAnswer, IsResolved
    <3>3. CASE Grounded  BY <1>4, <1>5, <2>2, <3>2, <3>3 DEF Stands
    <3>4. CASE ~Grounded  BY <1>4, <1>5, <2>2, <3>2, <3>4 DEF Stands
    <3> QED  BY <3>3, <3>4
  <2> QED  BY <1>1, <2>1, <2>2
<1> QED  BY <1>2, <1>3, <1>6 DEF RouteInv

LEMMA GroundStep ==
    ASSUME RouteInv, Ground
    PROVE  RouteInv'
<1>1. /\ stand = "grounding" /\ UNCHANGED <<resolved, answers, registryVars>>
      /\ Grounded /\ MayAsk /\ targets = Plan /\ answers = <<>> /\ resolved = NoModel
  BY DEF Ground, RouteInv, Stands
<1>2. Registry'  BY <1>1 DEF RouteInv, Registry, registryVars
<1>3. CASE RetrievalNext /\ UNCHANGED <<stand, targets>>
  <2>1. RetrievalInv'  BY <1>3, RetrievalStep DEF RouteInv
  <2>2. ask' = ask
    BY <1>3 DEF RetrievalNext, NothingIndexed, EmbeddingFails, RankCandidates, CoverFacet, TryCandidate, EndPass,
                ApplyFloor, FitChunk, BuildPrompt
  <2>3. Plan' = Plan /\ (MayAsk' <=> MayAsk) /\ (Grounded' <=> Grounded)  BY <2>2, PlanStays
  <2>4. Stands'  BY <1>1, <1>3, <2>3 DEF Stands
  <2> QED  BY <1>2, <2>1, <2>4 DEF RouteInv
<1>4. CASE UNCHANGED retrievalVars /\ ((round = "answered" /\ stand' = "answering" /\ targets' = targets) \/ stand' = "refused")
  <2>1. RetrievalInv'  BY <1>4, RetrievalRests DEF RouteInv
  <2>2. ask' = ask /\ round' = round  BY <1>4 DEF retrievalVars
  <2>3. Plan' = Plan /\ (MayAsk' <=> MayAsk) /\ (Grounded' <=> Grounded)  BY <2>2, PlanStays
  <2>4. resolved' = NoModel /\ answers' = <<>>  BY <1>1
  <2>5. Stands'
    <3>1. CASE stand' = "refused"  BY <2>4, <3>1 DEF Stands
    <3>2. CASE round = "answered" /\ stand' = "answering" /\ targets' = targets
      <4>1. ToAnswer' /\ IsResolved'  BY <1>1, <2>3, <2>4, <3>2 DEF ToAnswer, IsResolved
      <4> QED  BY <1>1, <2>2, <2>3, <3>2, <4>1 DEF Stands
    <3> QED  BY <1>4, <3>1, <3>2
  <2> QED  BY <1>2, <2>1, <2>5 DEF RouteInv
<1> QED  BY <1>3, <1>4 DEF Ground, Goes

\* The heads of what is to be asked.
LEMMA TargetIs ==
    ASSUME ask \in Asks, MayAsk, ToAnswer
    PROVE  /\ targets # <<>> /\ Head(targets) \in {Base, Course} \cup Models
           /\ Head(targets) = Course => ask.by \in {"fineTuned", "fineTunedRag"}
           /\ \/ Tail(targets) = <<>> /\ ask.by \notin {"test", "pair"} /\ Head(targets) \in {Base, Course} /\ answers = <<>>
              \/ Tail(targets) = <<>> /\ ask.by \in {"test", "pair"} /\ Head(targets) # Course /\ Plan = Append(answers, Head(targets))
              \/ ask.by = "pair" /\ Tail(targets) = <<ask.model>> /\ Head(targets) = Base /\ answers = <<>>
<1>1. /\ ask.by \in {"base", "fineTuned", "rag", "fineTunedRag", "test", "pair"}
      /\ Base \notin Models /\ Course \notin Models /\ Base # Course
      /\ ask.by = "pair" => ask.model \in Models
      /\ ask.by = "test" /\ ask.mode # "rag" => ask.model \in Models
  BY RouteIs
<1>2. \A x : Head(<<x>>) = x /\ Tail(<<x>>) = <<>> /\ <<x>> # <<>> /\ Append(<<>>, x) = <<x>>  OBVIOUS
<1>3. \A x, y : Head(<<x, y>>) = x /\ Tail(<<x, y>>) = <<y>> /\ <<x, y>> # <<>> /\ Append(<<x>>, y) = <<x, y>>
  <2> SUFFICES ASSUME NEW x, NEW y
               PROVE  Head(<<x, y>>) = x /\ Tail(<<x, y>>) = <<y>> /\ <<x, y>> # <<>> /\ Append(<<x>>, y) = <<x, y>>
    OBVIOUS
  <2>1. Head(<<x, y>>) = x  OBVIOUS
  <2>2. Tail(<<x, y>>) = <<y>>  OBVIOUS
  <2>3. <<x, y>> # <<>>  OBVIOUS
  <2>4. Append(<<x>>, y) = <<x, y>>
    <3>1. <<x>> \in Seq({x, y}) /\ <<x, y>> \in Seq({x, y}) /\ y \in {x, y} /\ Len(<<x>>) = 1 /\ Len(<<x, y>>) = 2
      OBVIOUS
    <3>2. <<x>>[1] = x  OBVIOUS
    <3>3. PICK s \in Seq({x, y}) : s = <<x>>  BY <3>1
    <3>4. /\ Append(s, y) \in Seq({x, y}) /\ Len(Append(s, y)) = Len(s) + 1
          /\ \A i \in 1 .. Len(s) : Append(s, y)[i] = s[i]
          /\ Append(s, y)[Len(s) + 1] = y
      BY <3>1, AppendProperties
    <3>5. Len(s) = 1 /\ s[1] = x  BY <3>1, <3>2, <3>3
    <3>6. Len(Append(s, y)) = 2 /\ Append(s, y)[1] = x /\ Append(s, y)[2] = y  BY <3>4, <3>5
    <3>7. \A i \in 1 .. 2 : Append(s, y)[i] = <<x, y>>[i]  BY <3>6
    <3>8. Append(s, y) = <<x, y>>  BY <3>1, <3>4, <3>6, <3>7, SeqEqual
    <3> QED  BY <3>3, <3>8
  <2> QED  BY <2>1, <2>2, <2>3, <2>4
<1>4. CASE ask.by \in {"base", "rag"}  BY <1>1, <1>2, <1>4 DEF ToAnswer, Plan
<1>5. CASE ask.by \in {"fineTuned", "fineTunedRag"}  BY <1>1, <1>2, <1>5 DEF ToAnswer, Plan
<1>6. CASE ask.by = "test"  BY <1>1, <1>2, <1>6 DEF ToAnswer, Plan
<1>7. CASE ask.by = "pair" /\ answers = <<>> /\ targets = Plan
  <2>1. Plan = <<Base, ask.model>>  BY <1>7 DEF Plan
  <2> QED  BY <1>1, <1>3, <1>7, <2>1
<1>8. CASE ask.by = "pair" /\ answers = <<Base>> /\ targets = <<ask.model>>
  <2>1. Plan = <<Base, ask.model>>  BY <1>8 DEF Plan
  <2> QED  BY <1>1, <1>2, <1>3, <1>8, <2>1
<1> QED  BY <1>1, <1>4, <1>5, <1>6, <1>7, <1>8 DEF ToAnswer

\* What every step beside the retrieval leaves alone.
LEMMA AskedStays ==
    ASSUME RouteInv, UNCHANGED retrievalVars
    PROVE  /\ RetrievalInv' /\ ask' = ask /\ round' = round /\ ask \in Asks
           /\ Plan' = Plan /\ (MayAsk' <=> MayAsk) /\ (Grounded' <=> Grounded)
<1>1. RetrievalInv'  BY RetrievalRests DEF RouteInv
<1>2. ask' = ask /\ round' = round  BY DEF retrievalVars
<1>3. ask \in Asks  BY DEF RouteInv, RetrievalInv, RTypes
<1> QED  BY <1>1, <1>2, <1>3, PlanStays

\* Only a pair is refused with an answer, its first.
LEMMA RefuseStep ==
    ASSUME RouteInv, stand = "answering", UNCHANGED <<retrievalVars, answers, registryVars>>, stand' = "refused"
    PROVE  RouteInv'
<1>1. /\ RetrievalInv' /\ ask' = ask /\ round' = round /\ (Grounded' <=> Grounded)
      /\ answers' = answers
  BY AskedStays
<1>2. Registry'  BY DEF RouteInv, Registry, registryVars
<1>3. answers = <<>> \/ (ask.by = "pair" /\ answers = <<Base>>)  BY DEF RouteInv, Stands, ToAnswer
<1>4. ask.by = "pair" => round = "answered"  BY DEF RouteInv, Stands, Grounded
<1>5. Stands'  BY <1>1, <1>3, <1>4 DEF Stands
<1> QED  BY <1>1, <1>2, <1>5 DEF RouteInv

LEMMA ResolveStep ==
    ASSUME RouteInv, Resolve
    PROVE  RouteInv'
<1> DEFINE version == IF Head(targets) = Course THEN CourseModel ELSE NamedModel(Head(targets))
<1>1. /\ stand = "answering" /\ targets # <<>> /\ Head(targets) # Base /\ resolved = NoModel
      /\ UNCHANGED <<retrievalVars, answers, registryVars>>
      /\ \/ version = NoModel /\ stand' = "refused"
         \/ version # NoModel /\ resolved' = version /\ stand' = stand /\ targets' = targets
  BY DEF Resolve, Goes
<1>2. CASE stand' = "refused"  BY <1>1, <1>2, RefuseStep
<1>3. CASE version # NoModel /\ resolved' = version /\ stand' = stand /\ targets' = targets
  <2>1. /\ RetrievalInv' /\ ask' = ask /\ round' = round /\ ask \in Asks
        /\ Plan' = Plan /\ (MayAsk' <=> MayAsk) /\ (Grounded' <=> Grounded) /\ answers' = answers
    BY <1>1, AskedStays
  <2>2. Registry' /\ wasOnline' = wasOnline  BY <1>1 DEF RouteInv, Registry, registryVars
  <2>3. MayAsk /\ ToAnswer  BY <1>1 DEF RouteInv, Stands
  <2>4. ToAnswer'  BY <1>3, <2>1, <2>3 DEF ToAnswer
  <2>5. IsResolved'
    <3>1. Head(targets) \in {Base, Course} \cup Models  BY <2>1, <2>3, TargetIs
    <3>2. CASE Head(targets) = Course
      <4>1. CourseModel \in wasOnline  BY <1>3, <3>2, CourseModelIs DEF RouteInv
      <4> QED  BY <1>3, <2>2, <3>2, <4>1 DEF IsResolved
    <3>3. CASE Head(targets) # Course
      <4>1. version = Head(targets)  BY <1>3, <3>3 DEF NamedModel
      <4> QED  BY <1>1, <1>3, <3>1, <3>3, <4>1 DEF IsResolved
    <3> QED  BY <3>2, <3>3
  <2>6. Stands'
    <3> HIDE DEF version
    <3> QED  BY <1>1, <1>3, <2>1, <2>3, <2>4, <2>5 DEF RouteInv, Stands
  <2> QED  BY <2>1, <2>2, <2>6 DEF RouteInv
<1> QED  BY <1>1, <1>2, <1>3

LEMMA GenerateStep ==
    ASSUME RouteInv, Generate
    PROVE  RouteInv'
<1> DEFINE answer == IF Head(targets) = Base THEN Base ELSE resolved
<1>1. /\ stand = "answering" /\ targets # <<>> /\ (Head(targets) = Base \/ resolved # NoModel)
      /\ answers' = Append(answers, answer) /\ targets' = Tail(targets) /\ resolved' = NoModel
      /\ stand' = IF targets' = <<>> THEN "done" ELSE stand
      /\ UNCHANGED <<retrievalVars, registryVars>>
  BY DEF Generate
<1>2. /\ RetrievalInv' /\ ask' = ask /\ round' = round /\ ask \in Asks
      /\ Plan' = Plan /\ (MayAsk' <=> MayAsk) /\ (Grounded' <=> Grounded)
  BY <1>1, AskedStays
<1>3. Registry' /\ wasOnline' = wasOnline  BY <1>1 DEF RouteInv, Registry, registryVars
<1>4. MayAsk /\ ToAnswer /\ IsResolved /\ round = IF Grounded THEN "answered" ELSE "embed"
  BY <1>1 DEF RouteInv, Stands
<1>5. Base \notin Models /\ Course \notin Models /\ Base # Course
  BY <1>2, RouteIs
<1>6. /\ Head(targets) \in {Base, Course} \cup Models
      /\ Head(targets) = Course => ask.by \in {"fineTuned", "fineTunedRag"}
      /\ \/ Tail(targets) = <<>> /\ ask.by \notin {"test", "pair"} /\ Head(targets) \in {Base, Course} /\ answers = <<>>
         \/ Tail(targets) = <<>> /\ ask.by \in {"test", "pair"} /\ Head(targets) # Course /\ Plan = Append(answers, Head(targets))
         \/ ask.by = "pair" /\ Tail(targets) = <<ask.model>> /\ Head(targets) = Base /\ answers = <<>>
  BY <1>2, <1>4, TargetIs
<1>7. IF Head(targets) = Course THEN answer \in wasOnline ELSE answer = Head(targets)
  BY <1>1, <1>4, <1>5 DEF IsResolved
<1>8. \A x : <<x>> # <<>> /\ Append(<<>>, x) = <<x>>  OBVIOUS
<1> HIDE DEF answer
<1>9. CASE Tail(targets) = <<>> /\ ask.by \notin {"test", "pair"} /\ Head(targets) \in {Base, Course} /\ answers = <<>>
  <2>1. answer \in {Base} \cup wasOnline  BY <1>7, <1>9
  <2>2. answers' = <<answer>> /\ stand' = "done"  BY <1>1, <1>8, <1>9
  <2>3. Answered'  BY <1>2, <1>3, <1>9, <2>1, <2>2 DEF Answered
  <2>4. Stands'  BY <1>1, <1>2, <1>4, <2>2, <2>3 DEF Stands
  <2> QED  BY <1>2, <1>3, <2>4 DEF RouteInv
<1>10. CASE Tail(targets) = <<>> /\ ask.by \in {"test", "pair"} /\ Head(targets) # Course /\ Plan = Append(answers, Head(targets))
  <2>1. answers' = Plan /\ stand' = "done"  BY <1>1, <1>7, <1>10
  <2>2. Answered'  BY <1>2, <1>10, <2>1 DEF Answered
  <2>3. Stands'  BY <1>1, <1>2, <1>4, <2>1, <2>2 DEF Stands
  <2> QED  BY <1>2, <1>3, <2>3 DEF RouteInv
<1>11. CASE ask.by = "pair" /\ Tail(targets) = <<ask.model>> /\ Head(targets) = Base /\ answers = <<>>
  <2>1. answers' = <<Base>> /\ targets' = <<ask.model>> /\ stand' = "answering"
    BY <1>1, <1>5, <1>7, <1>8, <1>11
  <2>2. ToAnswer' /\ IsResolved'  BY <1>1, <1>2, <1>11, <2>1 DEF ToAnswer, IsResolved
  <2>3. Stands'  BY <1>1, <1>2, <1>4, <2>1, <2>2 DEF Stands
  <2> QED  BY <1>2, <1>3, <2>3 DEF RouteInv
<1> QED  BY <1>6, <1>9, <1>10, <1>11

\* The registry only adds to what was online.
LEMMA RegistryStep ==
    ASSUME RouteInv, NEW v \in Models, Activated(v) \/ Registered(v)
    PROVE  RouteInv'
<1>1. /\ stand = "answering" /\ UNCHANGED <<retrievalVars, stand, targets, resolved, answers>>
      /\ Registry' /\ wasOnline \subseteq wasOnline'
  BY DEF Activated, Registered, RegistryMoves, RouteInv, Registry
<1>2. /\ RetrievalInv' /\ ask' = ask /\ round' = round /\ ask \in Asks
      /\ Plan' = Plan /\ (MayAsk' <=> MayAsk) /\ (Grounded' <=> Grounded)
  BY <1>1, AskedStays
<1>3. ToAnswer /\ IsResolved /\ MayAsk  BY <1>1 DEF RouteInv, Stands
<1>4. ToAnswer' /\ IsResolved'  BY <1>1, <1>2, <1>3 DEF ToAnswer, IsResolved
<1>5. Stands'  BY <1>1, <1>2, <1>3, <1>4 DEF RouteInv, Stands
<1> QED  BY <1>1, <1>2, <1>5 DEF RouteInv

LEMMA RouteStep ==
    ASSUME RouteInv, [ConditionsNext]_<<retrievalVars, routeVars>>
    PROVE  RouteInv'
<1>1. CASE RefuseAsked \/ AskBase \/ AskFineTuned \/ AskRag \/ AskFineTunedRag \/ AskTest \/ AskPair
  BY <1>1, AskStep
<1>2. CASE Ground  BY <1>2, GroundStep
<1>3. CASE Resolve  BY <1>3, ResolveStep
<1>4. CASE Generate  BY <1>4, GenerateStep
<1>5. CASE GenerationFails  BY <1>5, RefuseStep DEF GenerationFails, Goes
<1>6. CASE \E v \in Models : Activated(v) \/ Registered(v)  BY <1>6, RegistryStep
<1>7. CASE UNCHANGED <<retrievalVars, routeVars>>
  <2>1. /\ UNCHANGED retrievalVars /\ stand' = stand /\ targets' = targets /\ resolved' = resolved /\ answers' = answers
        /\ ready' = ready /\ online' = online /\ wasOnline' = wasOnline
    BY <1>7 DEF routeVars
  <2>2. /\ RetrievalInv' /\ ask' = ask /\ round' = round
        /\ Plan' = Plan /\ (MayAsk' <=> MayAsk) /\ (Grounded' <=> Grounded)
    BY <2>1, AskedStays
  <2>3. Registry'  BY <2>1 DEF RouteInv, Registry
  <2>4. (ToAnswer' <=> ToAnswer) /\ (IsResolved' <=> IsResolved) /\ (Answered' <=> Answered)
    BY <2>1, <2>2 DEF ToAnswer, IsResolved, Answered
  <2>5. Stands'  BY <2>1, <2>2, <2>4 DEF RouteInv, Stands
  <2> QED  BY <2>2, <2>3, <2>5 DEF RouteInv
<1> QED  BY <1>1, <1>2, <1>3, <1>4, <1>5, <1>6, <1>7 DEF ConditionsNext

LEMMA RouteIsSafe ==
    ASSUME RouteInv
    PROVE  QuestionSafety
<1>1. RetrievalSafety /\ ask \in Asks /\ Fitted /\ RTypes  BY RetrievalIsSafe DEF RouteInv, RetrievalInv, RTypes
<1>2. ClassGetsTheCourses
  <2>1. CASE answers = <<>>  BY <2>1 DEF ClassGetsTheCourses
  <2>2. CASE answers # <<>> /\ stand # "done"
    <3>1. ask.by = "pair"  BY <2>2 DEF RouteInv, Stands, ToAnswer
    <3> QED  BY <3>1 DEF ClassGetsTheCourses
  <2>3. CASE stand = "done"  BY <2>3 DEF RouteInv, Stands, Answered, ClassGetsTheCourses
  <2> QED  BY <2>1, <2>2, <2>3
<1>3. TestGetsTheNamed  BY DEF TestGetsTheNamed, RouteInv, Stands, Answered, Plan
<1>4. GroundedOrNot
  <2>1. SUFFICES ASSUME answers # <<>>
                 PROVE  (Grounded <=> round = "answered") /\ (Grounded <=> context # <<>>)
    BY DEF GroundedOrNot
  <2>2. round = "answered" => context # <<>>  BY <1>1 DEF Fitted
  <2>3. round = "embed" => context = <<>>  BY <1>1 DEF Fitted
  <2>4. stand \in {"answering", "done", "refused"}  BY <2>1 DEF RouteInv, Stands
  <2>5. CASE stand = "refused"
    <3>1. ask.by = "pair" /\ round = "answered"  BY <2>1, <2>5 DEF RouteInv, Stands
    <3> QED  BY <2>2, <3>1 DEF Grounded
  <2>6. CASE stand \in {"answering", "done"}
    <3>1. round = IF Grounded THEN "answered" ELSE "embed"  BY <2>6 DEF RouteInv, Stands
    <3> QED  BY <2>2, <2>3, <3>1
  <2> QED  BY <2>4, <2>5, <2>6
<1> QED  BY <1>1, <1>2, <1>3, <1>4 DEF QuestionSafety

\* Whatever is asked by whichever route, of any index and any registry, is
\* retrieved, fitted and answered as QuestionSafety says.
THEOREM QuestionsAreSafe == ConditionsSpec => []QuestionSafety
<1>1. ConditionsInit => RouteInv  BY RouteStarts
<1>2. RouteInv /\ [ConditionsNext]_<<retrievalVars, routeVars>> => RouteInv'  BY RouteStep
<1>3. RouteInv => QuestionSafety  BY RouteIsSafe
<1> QED  BY <1>1, <1>2, <1>3, PTL DEF ConditionsSpec

---------------------------------------------------------------------------
(* The inventory of facts.  First, its folds one place at a time.          *)

\* What one sentence adds to the policies that are salvaged, and one fact to those
\* that are kept.
SalvagedOne(old, taken, s) ==
    IF Salvageable(s.text) /\ ~Covered(old \o taken, s.text) THEN Append(taken, PolicyFact(s)) ELSE taken
MergedOne(taken, f) ==
    IF StatementKey(f.statement) = {} THEN taken
    ELSE MergedInto(taken, f, {k \in DOMAIN taken : Repeats(taken[k], f)})
SimilarOne(taken, f) == MergedInto(taken, f, {k \in DOMAIN taken : Topic(taken[k].statement) = Topic(f.statement)})

\* Packing pieces one by one.
PackedStays(T, pieces, n) == \A v \in T, k \in 1 .. n : Packed(v, pieces[k]) \in T

LEMMA PackedChain ==
    ASSUME NEW T, <<>> \in T, NEW n \in Nat, NEW pieces, DOMAIN pieces = 1 .. n, PackedStays(T, pieces, n)
    PROVE  \E c \in [0 .. n -> T] :
              /\ c[0] = <<>> /\ \A k \in 1 .. n : c[k] = Packed(c[k - 1], pieces[k])
              /\ PackedAll(pieces) = c[n]
<1> DEFINE D == DOMAIN pieces
           Made(v, x) == Packed(v, x)
           IsIter(i) == i = [u \in SUBSET D |-> IF u = {} THEN <<>> ELSE LET x == Max(u) IN Made(i[u \ {x}], pieces[x])]
           iter == CHOOSE i : IsIter(i)
           g == [p \in T \X (1 .. n) |-> Made(p[1], pieces[p[2]])]
<1>1. PackedAll(pieces) = iter[D]
  BY Zenon DEF FoldLeft, MapThenFoldSet, PackedAll
<1>2. \A v \in T, k \in 1 .. n : Made(v, pieces[k]) \in T  BY DEF PackedStays
<1> HIDE DEF Made
<1>3. g \in [T \X (1 .. n) -> T] /\ \A v \in T, k \in 1 .. n : g[<<v, k>>] = Made(v, pieces[k])  BY <1>2
<1> HIDE DEF g
<1>4. PICK f \in [SUBSET (1 .. n) -> T] : FoldsUp(f, n, <<>>, g)  BY <1>3, FoldExists
<1>5. IsIter(f)
  <2>1. f = [u \in SUBSET D |-> f[u]]  OBVIOUS
  <2>2. ASSUME NEW u \in SUBSET D
        PROVE  f[u] = IF u = {} THEN <<>> ELSE LET x == Max(u) IN Made(f[u \ {x}], pieces[x])
    <3>1. CASE u = {}  BY <1>4, <3>1 DEF FoldsUp
    <3>2. CASE u # {}
      <4>1. f[u] = g[<<f[u \ {Max(u)}], Max(u)>>]  BY <1>4, <3>2 DEF FoldsUp
      <4>2. f[u \ {Max(u)}] \in T  BY <1>4
      <4>3. Max(u) \in 1 .. n  BY <3>2, LargestIn
      <4> QED  BY <1>3, <3>2, <4>1, <4>2, <4>3
    <3> QED  BY <3>1, <3>2
  <2> QED  BY <2>1, <2>2, Zenon
<1>6. IsIter(iter)  BY <1>5, Zenon
<1> HIDE DEF iter
<1>7. \A u \in SUBSET (1 .. n) : iter[u] = IF u = {} THEN <<>> ELSE Made(iter[u \ {Max(u)}], pieces[Max(u)])
  BY <1>6
<1>8. StepsBy(iter, n, T, <<>>, g)
  <2>1. 1 .. 0 = {} /\ {} \in SUBSET (1 .. n)  OBVIOUS
  <2>2. iter[1 .. 0] = <<>>  BY <1>7, <2>1
  <2>3. ASSUME NEW m \in 0 .. n - 1, iter[1 .. m] \in T PROVE iter[1 .. m + 1] = g[<<iter[1 .. m], m + 1>>]
    <3>1. iter[1 .. m + 1] = Made(iter[1 .. m], pieces[m + 1])  BY <1>7, OnePlaceBack
    <3> QED  BY <1>3, <2>3, <3>1, OnePlaceBack
  <2> QED  BY <2>2, <2>3 DEF StepsBy
<1>a. g \in [T \X (1 .. n) -> T]  BY <1>3
<1>b. HasChain(iter, n, T, <<>>, g)  BY <1>a, <1>8, FoldChain
<1>9. PICK c \in [0 .. n -> T] : ChainOf(c, n, <<>>, g) /\ c[n] = iter[1 .. n]
  BY <1>b DEF HasChain
<1>10. ASSUME NEW k \in 1 .. n PROVE c[k] = Packed(c[k - 1], pieces[k])
  <2>1. k - 1 \in 0 .. n  OBVIOUS
  <2>2. c[k] = Made(c[k - 1], pieces[k])  BY <1>3, <1>9, <2>1 DEF ChainOf
  <2> QED  BY <2>2, Zenon DEF Made
<1>11. c[0] = <<>> /\ PackedAll(pieces) = c[n]  BY <1>1, <1>9, Zenon DEF ChainOf
<1> QED  BY <1>10, <1>11, Zenon

\* Grouping chunks one by one.
GroupsStays(T, n) == \A v \in T, k \in 1 .. n : Grouped(v, syllabus[k]) \in T

LEMMA GroupsChain ==
    ASSUME NEW T, <<>> \in T, NEW n \in Nat, DOMAIN syllabus = 1 .. n, GroupsStays(T, n)
    PROVE  \E c \in [0 .. n -> T] :
              /\ c[0] = <<>> /\ \A k \in 1 .. n : c[k] = Grouped(c[k - 1], syllabus[k])
              /\ Groups = c[n]
<1> DEFINE D == DOMAIN syllabus
           Made(v, x) == Grouped(v, x)
           IsIter(i) == i = [u \in SUBSET D |-> IF u = {} THEN <<>> ELSE LET x == Max(u) IN Made(i[u \ {x}], syllabus[x])]
           iter == CHOOSE i : IsIter(i)
           g == [p \in T \X (1 .. n) |-> Made(p[1], syllabus[p[2]])]
<1>1. Groups = iter[D]
  BY Zenon DEF FoldLeft, MapThenFoldSet, Groups
<1>2. \A v \in T, k \in 1 .. n : Made(v, syllabus[k]) \in T  BY DEF GroupsStays
<1> HIDE DEF Made
<1>3. g \in [T \X (1 .. n) -> T] /\ \A v \in T, k \in 1 .. n : g[<<v, k>>] = Made(v, syllabus[k])  BY <1>2
<1> HIDE DEF g
<1>4. PICK f \in [SUBSET (1 .. n) -> T] : FoldsUp(f, n, <<>>, g)  BY <1>3, FoldExists
<1>5. IsIter(f)
  <2>1. f = [u \in SUBSET D |-> f[u]]  OBVIOUS
  <2>2. ASSUME NEW u \in SUBSET D
        PROVE  f[u] = IF u = {} THEN <<>> ELSE LET x == Max(u) IN Made(f[u \ {x}], syllabus[x])
    <3>1. CASE u = {}  BY <1>4, <3>1 DEF FoldsUp
    <3>2. CASE u # {}
      <4>1. f[u] = g[<<f[u \ {Max(u)}], Max(u)>>]  BY <1>4, <3>2 DEF FoldsUp
      <4>2. f[u \ {Max(u)}] \in T  BY <1>4
      <4>3. Max(u) \in 1 .. n  BY <3>2, LargestIn
      <4> QED  BY <1>3, <3>2, <4>1, <4>2, <4>3
    <3> QED  BY <3>1, <3>2
  <2> QED  BY <2>1, <2>2, Zenon
<1>6. IsIter(iter)  BY <1>5, Zenon
<1> HIDE DEF iter
<1>7. \A u \in SUBSET (1 .. n) : iter[u] = IF u = {} THEN <<>> ELSE Made(iter[u \ {Max(u)}], syllabus[Max(u)])
  BY <1>6
<1>8. StepsBy(iter, n, T, <<>>, g)
  <2>1. 1 .. 0 = {} /\ {} \in SUBSET (1 .. n)  OBVIOUS
  <2>2. iter[1 .. 0] = <<>>  BY <1>7, <2>1
  <2>3. ASSUME NEW m \in 0 .. n - 1, iter[1 .. m] \in T PROVE iter[1 .. m + 1] = g[<<iter[1 .. m], m + 1>>]
    <3>1. iter[1 .. m + 1] = Made(iter[1 .. m], syllabus[m + 1])  BY <1>7, OnePlaceBack
    <3> QED  BY <1>3, <2>3, <3>1, OnePlaceBack
  <2> QED  BY <2>2, <2>3 DEF StepsBy
<1>a. g \in [T \X (1 .. n) -> T]  BY <1>3
<1>b. HasChain(iter, n, T, <<>>, g)  BY <1>a, <1>8, FoldChain
<1>9. PICK c \in [0 .. n -> T] : ChainOf(c, n, <<>>, g) /\ c[n] = iter[1 .. n]
  BY <1>b DEF HasChain
<1>10. ASSUME NEW k \in 1 .. n PROVE c[k] = Grouped(c[k - 1], syllabus[k])
  <2>1. k - 1 \in 0 .. n  OBVIOUS
  <2>2. c[k] = Made(c[k - 1], syllabus[k])  BY <1>3, <1>9, <2>1 DEF ChainOf
  <2> QED  BY <2>2, Zenon DEF Made
<1>11. c[0] = <<>> /\ Groups = c[n]  BY <1>1, <1>9, Zenon DEF ChainOf
<1> QED  BY <1>10, <1>11, Zenon

\* The facts of one answer after the other.
UsableStays(T, said, n) == \A v \in T, k \in 1 .. n : (IF Usable(said[k]) THEN Append(v, NormalizedFact(said[k])) ELSE v) \in T

LEMMA UsableChain ==
    ASSUME NEW T, <<>> \in T, NEW n \in Nat, NEW said, DOMAIN said = 1 .. n, UsableStays(T, said, n)
    PROVE  \E c \in [0 .. n -> T] :
              /\ c[0] = <<>> /\ \A k \in 1 .. n : c[k] = (IF Usable(said[k]) THEN Append(c[k - 1], NormalizedFact(said[k])) ELSE c[k - 1])
              /\ UsableFacts(said) = c[n]
<1> DEFINE D == DOMAIN said
           Made(v, x) == (IF Usable(x) THEN Append(v, NormalizedFact(x)) ELSE v)
           IsIter(i) == i = [u \in SUBSET D |-> IF u = {} THEN <<>> ELSE LET x == Max(u) IN Made(i[u \ {x}], said[x])]
           iter == CHOOSE i : IsIter(i)
           g == [p \in T \X (1 .. n) |-> Made(p[1], said[p[2]])]
<1>1. UsableFacts(said) = iter[D]
  BY Zenon DEF FoldLeft, MapThenFoldSet, UsableFacts
<1>2. \A v \in T, k \in 1 .. n : Made(v, said[k]) \in T  BY DEF UsableStays
<1> HIDE DEF Made
<1>3. g \in [T \X (1 .. n) -> T] /\ \A v \in T, k \in 1 .. n : g[<<v, k>>] = Made(v, said[k])  BY <1>2
<1> HIDE DEF g
<1>4. PICK f \in [SUBSET (1 .. n) -> T] : FoldsUp(f, n, <<>>, g)  BY <1>3, FoldExists
<1>5. IsIter(f)
  <2>1. f = [u \in SUBSET D |-> f[u]]  OBVIOUS
  <2>2. ASSUME NEW u \in SUBSET D
        PROVE  f[u] = IF u = {} THEN <<>> ELSE LET x == Max(u) IN Made(f[u \ {x}], said[x])
    <3>1. CASE u = {}  BY <1>4, <3>1 DEF FoldsUp
    <3>2. CASE u # {}
      <4>1. f[u] = g[<<f[u \ {Max(u)}], Max(u)>>]  BY <1>4, <3>2 DEF FoldsUp
      <4>2. f[u \ {Max(u)}] \in T  BY <1>4
      <4>3. Max(u) \in 1 .. n  BY <3>2, LargestIn
      <4> QED  BY <1>3, <3>2, <4>1, <4>2, <4>3
    <3> QED  BY <3>1, <3>2
  <2> QED  BY <2>1, <2>2, Zenon
<1>6. IsIter(iter)  BY <1>5, Zenon
<1> HIDE DEF iter
<1>7. \A u \in SUBSET (1 .. n) : iter[u] = IF u = {} THEN <<>> ELSE Made(iter[u \ {Max(u)}], said[Max(u)])
  BY <1>6
<1>8. StepsBy(iter, n, T, <<>>, g)
  <2>1. 1 .. 0 = {} /\ {} \in SUBSET (1 .. n)  OBVIOUS
  <2>2. iter[1 .. 0] = <<>>  BY <1>7, <2>1
  <2>3. ASSUME NEW m \in 0 .. n - 1, iter[1 .. m] \in T PROVE iter[1 .. m + 1] = g[<<iter[1 .. m], m + 1>>]
    <3>1. iter[1 .. m + 1] = Made(iter[1 .. m], said[m + 1])  BY <1>7, OnePlaceBack
    <3> QED  BY <1>3, <2>3, <3>1, OnePlaceBack
  <2> QED  BY <2>2, <2>3 DEF StepsBy
<1>a. g \in [T \X (1 .. n) -> T]  BY <1>3
<1>b. HasChain(iter, n, T, <<>>, g)  BY <1>a, <1>8, FoldChain
<1>9. PICK c \in [0 .. n -> T] : ChainOf(c, n, <<>>, g) /\ c[n] = iter[1 .. n]
  BY <1>b DEF HasChain
<1>10. ASSUME NEW k \in 1 .. n PROVE c[k] = (IF Usable(said[k]) THEN Append(c[k - 1], NormalizedFact(said[k])) ELSE c[k - 1])
  <2>1. k - 1 \in 0 .. n  OBVIOUS
  <2>2. c[k] = Made(c[k - 1], said[k])  BY <1>3, <1>9, <2>1 DEF ChainOf
  <2> QED  BY <2>2, Zenon DEF Made
<1>11. c[0] = <<>> /\ UsableFacts(said) = c[n]  BY <1>1, <1>9, Zenon DEF ChainOf
<1> QED  BY <1>10, <1>11, Zenon

\* One sentence after the other.
AmongStays(T, sentences, wanted, n) == \A v \in T, k \in 1 .. n : (IF sentences[k] \in wanted THEN Append(v, sentences[k]) ELSE v) \in T

LEMMA AmongChain ==
    ASSUME NEW T, <<>> \in T, NEW n \in Nat, NEW sentences, NEW wanted, DOMAIN sentences = 1 .. n, AmongStays(T, sentences, wanted, n)
    PROVE  \E c \in [0 .. n -> T] :
              /\ c[0] = <<>> /\ \A k \in 1 .. n : c[k] = (IF sentences[k] \in wanted THEN Append(c[k - 1], sentences[k]) ELSE c[k - 1])
              /\ Among(sentences, wanted) = c[n]
<1> DEFINE D == DOMAIN sentences
           Made(v, x) == (IF x \in wanted THEN Append(v, x) ELSE v)
           IsIter(i) == i = [u \in SUBSET D |-> IF u = {} THEN <<>> ELSE LET x == Max(u) IN Made(i[u \ {x}], sentences[x])]
           iter == CHOOSE i : IsIter(i)
           g == [p \in T \X (1 .. n) |-> Made(p[1], sentences[p[2]])]
<1>1. Among(sentences, wanted) = iter[D]
  BY Zenon DEF FoldLeft, MapThenFoldSet, Among
<1>2. \A v \in T, k \in 1 .. n : Made(v, sentences[k]) \in T  BY DEF AmongStays
<1> HIDE DEF Made
<1>3. g \in [T \X (1 .. n) -> T] /\ \A v \in T, k \in 1 .. n : g[<<v, k>>] = Made(v, sentences[k])  BY <1>2
<1> HIDE DEF g
<1>4. PICK f \in [SUBSET (1 .. n) -> T] : FoldsUp(f, n, <<>>, g)  BY <1>3, FoldExists
<1>5. IsIter(f)
  <2>1. f = [u \in SUBSET D |-> f[u]]  OBVIOUS
  <2>2. ASSUME NEW u \in SUBSET D
        PROVE  f[u] = IF u = {} THEN <<>> ELSE LET x == Max(u) IN Made(f[u \ {x}], sentences[x])
    <3>1. CASE u = {}  BY <1>4, <3>1 DEF FoldsUp
    <3>2. CASE u # {}
      <4>1. f[u] = g[<<f[u \ {Max(u)}], Max(u)>>]  BY <1>4, <3>2 DEF FoldsUp
      <4>2. f[u \ {Max(u)}] \in T  BY <1>4
      <4>3. Max(u) \in 1 .. n  BY <3>2, LargestIn
      <4> QED  BY <1>3, <3>2, <4>1, <4>2, <4>3
    <3> QED  BY <3>1, <3>2
  <2> QED  BY <2>1, <2>2, Zenon
<1>6. IsIter(iter)  BY <1>5, Zenon
<1> HIDE DEF iter
<1>7. \A u \in SUBSET (1 .. n) : iter[u] = IF u = {} THEN <<>> ELSE Made(iter[u \ {Max(u)}], sentences[Max(u)])
  BY <1>6
<1>8. StepsBy(iter, n, T, <<>>, g)
  <2>1. 1 .. 0 = {} /\ {} \in SUBSET (1 .. n)  OBVIOUS
  <2>2. iter[1 .. 0] = <<>>  BY <1>7, <2>1
  <2>3. ASSUME NEW m \in 0 .. n - 1, iter[1 .. m] \in T PROVE iter[1 .. m + 1] = g[<<iter[1 .. m], m + 1>>]
    <3>1. iter[1 .. m + 1] = Made(iter[1 .. m], sentences[m + 1])  BY <1>7, OnePlaceBack
    <3> QED  BY <1>3, <2>3, <3>1, OnePlaceBack
  <2> QED  BY <2>2, <2>3 DEF StepsBy
<1>a. g \in [T \X (1 .. n) -> T]  BY <1>3
<1>b. HasChain(iter, n, T, <<>>, g)  BY <1>a, <1>8, FoldChain
<1>9. PICK c \in [0 .. n -> T] : ChainOf(c, n, <<>>, g) /\ c[n] = iter[1 .. n]
  BY <1>b DEF HasChain
<1>10. ASSUME NEW k \in 1 .. n PROVE c[k] = (IF sentences[k] \in wanted THEN Append(c[k - 1], sentences[k]) ELSE c[k - 1])
  <2>1. k - 1 \in 0 .. n  OBVIOUS
  <2>2. c[k] = Made(c[k - 1], sentences[k])  BY <1>3, <1>9, <2>1 DEF ChainOf
  <2> QED  BY <2>2, Zenon DEF Made
<1>11. c[0] = <<>> /\ Among(sentences, wanted) = c[n]  BY <1>1, <1>9, Zenon DEF ChainOf
<1> QED  BY <1>10, <1>11, Zenon

\* One sentence of the syllabus after the other.
SalvagedStays(T, stock, n) == \A v \in T, k \in 1 .. n : SalvagedOne(stock, v, Sentences[k]) \in T

LEMMA SalvagedChain ==
    ASSUME NEW T, <<>> \in T, NEW n \in Nat, NEW stock, DOMAIN Sentences = 1 .. n, SalvagedStays(T, stock, n)
    PROVE  \E c \in [0 .. n -> T] :
              /\ c[0] = <<>> /\ \A k \in 1 .. n : c[k] = SalvagedOne(stock, c[k - 1], Sentences[k])
              /\ Salvaged(stock) = c[n]
<1> DEFINE D == DOMAIN Sentences
           Made(v, x) == SalvagedOne(stock, v, x)
           IsIter(i) == i = [u \in SUBSET D |-> IF u = {} THEN <<>> ELSE LET x == Max(u) IN Made(i[u \ {x}], Sentences[x])]
           iter == CHOOSE i : IsIter(i)
           g == [p \in T \X (1 .. n) |-> Made(p[1], Sentences[p[2]])]
<1>1. Salvaged(stock) = iter[D]
  BY Zenon DEF FoldLeft, MapThenFoldSet, Salvaged, SalvagedOne
<1>2. \A v \in T, k \in 1 .. n : Made(v, Sentences[k]) \in T  BY DEF SalvagedStays
<1> HIDE DEF Made
<1>3. g \in [T \X (1 .. n) -> T] /\ \A v \in T, k \in 1 .. n : g[<<v, k>>] = Made(v, Sentences[k])  BY <1>2
<1> HIDE DEF g
<1>4. PICK f \in [SUBSET (1 .. n) -> T] : FoldsUp(f, n, <<>>, g)  BY <1>3, FoldExists
<1>5. IsIter(f)
  <2>1. f = [u \in SUBSET D |-> f[u]]  OBVIOUS
  <2>2. ASSUME NEW u \in SUBSET D
        PROVE  f[u] = IF u = {} THEN <<>> ELSE LET x == Max(u) IN Made(f[u \ {x}], Sentences[x])
    <3>1. CASE u = {}  BY <1>4, <3>1 DEF FoldsUp
    <3>2. CASE u # {}
      <4>1. f[u] = g[<<f[u \ {Max(u)}], Max(u)>>]  BY <1>4, <3>2 DEF FoldsUp
      <4>2. f[u \ {Max(u)}] \in T  BY <1>4
      <4>3. Max(u) \in 1 .. n  BY <3>2, LargestIn
      <4> QED  BY <1>3, <3>2, <4>1, <4>2, <4>3
    <3> QED  BY <3>1, <3>2
  <2> QED  BY <2>1, <2>2, Zenon
<1>6. IsIter(iter)  BY <1>5, Zenon
<1> HIDE DEF iter
<1>7. \A u \in SUBSET (1 .. n) : iter[u] = IF u = {} THEN <<>> ELSE Made(iter[u \ {Max(u)}], Sentences[Max(u)])
  BY <1>6
<1>8. StepsBy(iter, n, T, <<>>, g)
  <2>1. 1 .. 0 = {} /\ {} \in SUBSET (1 .. n)  OBVIOUS
  <2>2. iter[1 .. 0] = <<>>  BY <1>7, <2>1
  <2>3. ASSUME NEW m \in 0 .. n - 1, iter[1 .. m] \in T PROVE iter[1 .. m + 1] = g[<<iter[1 .. m], m + 1>>]
    <3>1. iter[1 .. m + 1] = Made(iter[1 .. m], Sentences[m + 1])  BY <1>7, OnePlaceBack
    <3> QED  BY <1>3, <2>3, <3>1, OnePlaceBack
  <2> QED  BY <2>2, <2>3 DEF StepsBy
<1>a. g \in [T \X (1 .. n) -> T]  BY <1>3
<1>b. HasChain(iter, n, T, <<>>, g)  BY <1>a, <1>8, FoldChain
<1>9. PICK c \in [0 .. n -> T] : ChainOf(c, n, <<>>, g) /\ c[n] = iter[1 .. n]
  BY <1>b DEF HasChain
<1>10. ASSUME NEW k \in 1 .. n PROVE c[k] = SalvagedOne(stock, c[k - 1], Sentences[k])
  <2>1. k - 1 \in 0 .. n  OBVIOUS
  <2>2. c[k] = Made(c[k - 1], Sentences[k])  BY <1>3, <1>9, <2>1 DEF ChainOf
  <2> QED  BY <2>2, Zenon DEF Made
<1>11. c[0] = <<>> /\ Salvaged(stock) = c[n]  BY <1>1, <1>9, Zenon DEF ChainOf
<1> QED  BY <1>10, <1>11, Zenon

\* One fact after the other.
MergedStays(T, n) == \A v \in T, k \in 1 .. n : MergedOne(v, facts[LongestFirst[k]]) \in T

LEMMA MergedChain ==
    ASSUME NEW T, <<>> \in T, NEW n \in Nat, DOMAIN LongestFirst = 1 .. n, MergedStays(T, n)
    PROVE  \E c \in [0 .. n -> T] :
              /\ c[0] = <<>> /\ \A k \in 1 .. n : c[k] = MergedOne(c[k - 1], facts[LongestFirst[k]])
              /\ Merged = c[n]
<1> DEFINE D == DOMAIN LongestFirst
           Made(v, x) == MergedOne(v, facts[x])
           IsIter(i) == i = [u \in SUBSET D |-> IF u = {} THEN <<>> ELSE LET x == Max(u) IN Made(i[u \ {x}], LongestFirst[x])]
           iter == CHOOSE i : IsIter(i)
           g == [p \in T \X (1 .. n) |-> Made(p[1], LongestFirst[p[2]])]
<1>1. Merged = iter[D]
  BY Zenon DEF FoldLeft, MapThenFoldSet, Merged, MergedOne
<1>2. \A v \in T, k \in 1 .. n : Made(v, LongestFirst[k]) \in T  BY DEF MergedStays
<1> HIDE DEF Made
<1>3. g \in [T \X (1 .. n) -> T] /\ \A v \in T, k \in 1 .. n : g[<<v, k>>] = Made(v, LongestFirst[k])  BY <1>2
<1> HIDE DEF g
<1>4. PICK f \in [SUBSET (1 .. n) -> T] : FoldsUp(f, n, <<>>, g)  BY <1>3, FoldExists
<1>5. IsIter(f)
  <2>1. f = [u \in SUBSET D |-> f[u]]  OBVIOUS
  <2>2. ASSUME NEW u \in SUBSET D
        PROVE  f[u] = IF u = {} THEN <<>> ELSE LET x == Max(u) IN Made(f[u \ {x}], LongestFirst[x])
    <3>1. CASE u = {}  BY <1>4, <3>1 DEF FoldsUp
    <3>2. CASE u # {}
      <4>1. f[u] = g[<<f[u \ {Max(u)}], Max(u)>>]  BY <1>4, <3>2 DEF FoldsUp
      <4>2. f[u \ {Max(u)}] \in T  BY <1>4
      <4>3. Max(u) \in 1 .. n  BY <3>2, LargestIn
      <4> QED  BY <1>3, <3>2, <4>1, <4>2, <4>3
    <3> QED  BY <3>1, <3>2
  <2> QED  BY <2>1, <2>2, Zenon
<1>6. IsIter(iter)  BY <1>5, Zenon
<1> HIDE DEF iter
<1>7. \A u \in SUBSET (1 .. n) : iter[u] = IF u = {} THEN <<>> ELSE Made(iter[u \ {Max(u)}], LongestFirst[Max(u)])
  BY <1>6
<1>8. StepsBy(iter, n, T, <<>>, g)
  <2>1. 1 .. 0 = {} /\ {} \in SUBSET (1 .. n)  OBVIOUS
  <2>2. iter[1 .. 0] = <<>>  BY <1>7, <2>1
  <2>3. ASSUME NEW m \in 0 .. n - 1, iter[1 .. m] \in T PROVE iter[1 .. m + 1] = g[<<iter[1 .. m], m + 1>>]
    <3>1. iter[1 .. m + 1] = Made(iter[1 .. m], LongestFirst[m + 1])  BY <1>7, OnePlaceBack
    <3> QED  BY <1>3, <2>3, <3>1, OnePlaceBack
  <2> QED  BY <2>2, <2>3 DEF StepsBy
<1>a. g \in [T \X (1 .. n) -> T]  BY <1>3
<1>b. HasChain(iter, n, T, <<>>, g)  BY <1>a, <1>8, FoldChain
<1>9. PICK c \in [0 .. n -> T] : ChainOf(c, n, <<>>, g) /\ c[n] = iter[1 .. n]
  BY <1>b DEF HasChain
<1>10. ASSUME NEW k \in 1 .. n PROVE c[k] = MergedOne(c[k - 1], facts[LongestFirst[k]])
  <2>1. k - 1 \in 0 .. n  OBVIOUS
  <2>2. c[k] = Made(c[k - 1], LongestFirst[k])  BY <1>3, <1>9, <2>1 DEF ChainOf
  <2> QED  BY <2>2, Zenon DEF Made
<1>11. c[0] = <<>> /\ Merged = c[n]  BY <1>1, <1>9, Zenon DEF ChainOf
<1> QED  BY <1>10, <1>11, Zenon

\* One fact after the other.
SimilarStays(T, n) == \A v \in T, k \in 1 .. n : SimilarOne(v, facts[WeightiestFirst[k]]) \in T

LEMMA SimilarChain ==
    ASSUME NEW T, <<>> \in T, NEW n \in Nat, DOMAIN WeightiestFirst = 1 .. n, SimilarStays(T, n)
    PROVE  \E c \in [0 .. n -> T] :
              /\ c[0] = <<>> /\ \A k \in 1 .. n : c[k] = SimilarOne(c[k - 1], facts[WeightiestFirst[k]])
              /\ SemanticMerged = c[n]
<1> DEFINE D == DOMAIN WeightiestFirst
           Made(v, x) == SimilarOne(v, facts[x])
           IsIter(i) == i = [u \in SUBSET D |-> IF u = {} THEN <<>> ELSE LET x == Max(u) IN Made(i[u \ {x}], WeightiestFirst[x])]
           iter == CHOOSE i : IsIter(i)
           g == [p \in T \X (1 .. n) |-> Made(p[1], WeightiestFirst[p[2]])]
<1>1. SemanticMerged = iter[D]
  BY Zenon DEF FoldLeft, MapThenFoldSet, SemanticMerged, SimilarOne
<1>2. \A v \in T, k \in 1 .. n : Made(v, WeightiestFirst[k]) \in T  BY DEF SimilarStays
<1> HIDE DEF Made
<1>3. g \in [T \X (1 .. n) -> T] /\ \A v \in T, k \in 1 .. n : g[<<v, k>>] = Made(v, WeightiestFirst[k])  BY <1>2
<1> HIDE DEF g
<1>4. PICK f \in [SUBSET (1 .. n) -> T] : FoldsUp(f, n, <<>>, g)  BY <1>3, FoldExists
<1>5. IsIter(f)
  <2>1. f = [u \in SUBSET D |-> f[u]]  OBVIOUS
  <2>2. ASSUME NEW u \in SUBSET D
        PROVE  f[u] = IF u = {} THEN <<>> ELSE LET x == Max(u) IN Made(f[u \ {x}], WeightiestFirst[x])
    <3>1. CASE u = {}  BY <1>4, <3>1 DEF FoldsUp
    <3>2. CASE u # {}
      <4>1. f[u] = g[<<f[u \ {Max(u)}], Max(u)>>]  BY <1>4, <3>2 DEF FoldsUp
      <4>2. f[u \ {Max(u)}] \in T  BY <1>4
      <4>3. Max(u) \in 1 .. n  BY <3>2, LargestIn
      <4> QED  BY <1>3, <3>2, <4>1, <4>2, <4>3
    <3> QED  BY <3>1, <3>2
  <2> QED  BY <2>1, <2>2, Zenon
<1>6. IsIter(iter)  BY <1>5, Zenon
<1> HIDE DEF iter
<1>7. \A u \in SUBSET (1 .. n) : iter[u] = IF u = {} THEN <<>> ELSE Made(iter[u \ {Max(u)}], WeightiestFirst[Max(u)])
  BY <1>6
<1>8. StepsBy(iter, n, T, <<>>, g)
  <2>1. 1 .. 0 = {} /\ {} \in SUBSET (1 .. n)  OBVIOUS
  <2>2. iter[1 .. 0] = <<>>  BY <1>7, <2>1
  <2>3. ASSUME NEW m \in 0 .. n - 1, iter[1 .. m] \in T PROVE iter[1 .. m + 1] = g[<<iter[1 .. m], m + 1>>]
    <3>1. iter[1 .. m + 1] = Made(iter[1 .. m], WeightiestFirst[m + 1])  BY <1>7, OnePlaceBack
    <3> QED  BY <1>3, <2>3, <3>1, OnePlaceBack
  <2> QED  BY <2>2, <2>3 DEF StepsBy
<1>a. g \in [T \X (1 .. n) -> T]  BY <1>3
<1>b. HasChain(iter, n, T, <<>>, g)  BY <1>a, <1>8, FoldChain
<1>9. PICK c \in [0 .. n -> T] : ChainOf(c, n, <<>>, g) /\ c[n] = iter[1 .. n]
  BY <1>b DEF HasChain
<1>10. ASSUME NEW k \in 1 .. n PROVE c[k] = SimilarOne(c[k - 1], facts[WeightiestFirst[k]])
  <2>1. k - 1 \in 0 .. n  OBVIOUS
  <2>2. c[k] = Made(c[k - 1], WeightiestFirst[k])  BY <1>3, <1>9, <2>1 DEF ChainOf
  <2> QED  BY <2>2, Zenon DEF Made
<1>11. c[0] = <<>> /\ SemanticMerged = c[n]  BY <1>1, <1>9, Zenon DEF ChainOf
<1> QED  BY <1>10, <1>11, Zenon

---------------------------------------------------------------------------
(* The batches of a syllabus.                                              *)

\* What may be a batch.
Fitting(S) == {chunksOf \in Seq(S) : SizeOf(chunksOf) <= CharBudget \/ Len(chunksOf) = 1}

LEMMA PackedStep ==
    ASSUME NEW S, NEW v \in Seq(Fitting(S)), NEW piece \in Fitting(S)
    PROVE  Packed(v, piece) \in Seq(Fitting(S))
<1> DEFINE F == Fitting(S)
<1>1. CASE v # <<>> /\ SizeOf(Last(v) \o piece) <= CharBudget
  <2>1. Front(v) \in Seq(F) /\ Last(v) \in F
    <3> HIDE DEF F
    <3>1. v \in Seq(F) /\ v # <<>>  BY <1>1 DEF F
    <3> QED  BY <3>1, FrontAndLast
  <2>2. Last(v) \o piece \in F
    <3>1. Last(v) \in Seq(S) /\ piece \in Seq(S)  BY <2>1 DEF Fitting
    <3>2. Last(v) \o piece \in Seq(S)  BY <3>1, ConcatProperties
    <3> QED  BY <1>1, <3>2 DEF Fitting
  <2>3. Packed(v, piece) = Front(v) \o <<Last(v) \o piece>>  BY <1>1 DEF Packed
  <2> HIDE DEF F
  <2>4. Front(v) \o <<Last(v) \o piece>> = Append(Front(v), Last(v) \o piece)  BY <2>1, <2>2, AppendIsConcat
  <2>5. Append(Front(v), Last(v) \o piece) \in Seq(F)  BY <2>1, <2>2, AppendProperties
  <2> QED  BY <2>3, <2>4, <2>5 DEF F
<1>2. CASE ~(v # <<>> /\ SizeOf(Last(v) \o piece) <= CharBudget)
  <2>1. Packed(v, piece) = Append(v, piece)  BY <1>2 DEF Packed
  <2> HIDE DEF F
  <2>2. v \in Seq(F) /\ piece \in F  BY DEF F
  <2>3. Append(v, piece) \in Seq(F)  BY <2>2, AppendProperties
  <2> QED  BY <2>1, <2>3 DEF F
<1> QED  BY <1>1, <1>2

\* Packing keeps the chunks and their order, and what fits.
LEMMA PackedPieces ==
    ASSUME NEW S, NEW n \in Nat, NEW pieces \in [1 .. n -> Fitting(S)]
    PROVE  /\ PackedAll(pieces) \in Seq(Fitting(S))
           /\ FlattenSeq(PackedAll(pieces)) = FlattenSeq(pieces)
<1> DEFINE T == Seq(Fitting(S))
<1>1. <<>> \in T  BY EmptySeq
<1>2. PackedStays(T, pieces, n)  BY PackedStep DEF PackedStays
<1>3. DOMAIN pieces = 1 .. n  OBVIOUS
<1> HIDE DEF T
<1>4. PICK c \in [0 .. n -> T] :
         /\ c[0] = <<>> /\ \A k \in 1 .. n : c[k] = Packed(c[k - 1], pieces[k])
         /\ PackedAll(pieces) = c[n]
  BY <1>1, <1>2, <1>3, PackedChain
<1>5. \A k \in 1 .. n : \/ c[k] = Append(c[k - 1], pieces[k])
                        \/ c[k - 1] # <<>> /\ c[k] = Front(c[k - 1]) \o <<Last(c[k - 1]) \o pieces[k]>>
  BY <1>4 DEF Packed
<1>6. c \in [0 .. n -> T] /\ PackedAll(pieces) = c[n] /\ c[n] \in T
  BY <1>4
<1>7. Fitting(S) \subseteq Seq(S)  BY DEF Fitting
<1>8. T \subseteq Seq(Seq(S))  BY <1>7, SeqWider DEF T
<1>9. c \in [0 .. n -> Seq(Seq(S))] /\ pieces \in [1 .. n -> Seq(S)]  BY <1>6, <1>7, <1>8
<1>10. PutTogether(S, c, pieces, n)  BY <1>4, <1>5, <1>9 DEF PutTogether
<1>11. FlattenSeq(c[n]) = FlattenSeq(pieces)  BY <1>10, PiecesStay
<1> QED  BY <1>6, <1>11 DEF T

LEMMA SplitKeeps ==
    ASSUME NEW S, NEW group \in Seq(S)
    PROVE  SplitToBudget(group) \in Seq(Fitting(S)) /\ FlattenSeq(SplitToBudget(group)) = group
<1> DEFINE ones(m) == [i \in 1 .. m |-> <<group[i]>>]
<1>1. PICK n \in Nat : DOMAIN group = 1 .. n /\ group \in [1 .. n -> S]  BY LenProperties, ElementOfSeq
<1>2. \A i \in 1 .. n : <<group[i]>> \in Fitting(S)
  <2> TAKE i \in 1 .. n
  <2>1. <<group[i]>> \in Seq(S) /\ Len(<<group[i]>>) = 1  BY <1>1, OneOf
  <2> QED  BY <2>1 DEF Fitting
<1>3. ones(n) \in [1 .. n -> Fitting(S)]  BY <1>2
<1>4. FlattenSeq(ones(n)) = group  BY <1>1, FlattenOnes
<1>5. SplitToBudget(group) = PackedAll(ones(n))  BY <1>1 DEF SplitToBudget
<1> HIDE DEF ones
<1>6. PackedAll(ones(n)) \in Seq(Fitting(S))
      /\ FlattenSeq(PackedAll(ones(n))) = FlattenSeq(ones(n))
  BY <1>3, PackedPieces
<1> QED  BY <1>4, <1>5, <1>6

\* The chunks of a syllabus.
LEMMA SyllabusIs ==
    ASSUME syllabus \in Syllabi
    PROVE  \E n \in Nat : /\ DOMAIN syllabus = 1 .. n /\ Len(syllabus) = n
                          /\ syllabus \in [1 .. n -> ToSet(syllabus)]
<1>1. syllabus \in Seq(ToSet(syllabus))  BY FactsAssumption
<1> QED  BY <1>1, LenProperties, ElementOfSeq

LEMMA GroupsKeep ==
    ASSUME syllabus \in Syllabi
    PROVE  Groups \in Seq(Seq(ToSet(syllabus))) /\ FlattenSeq(Groups) = syllabus
<1> DEFINE S == ToSet(syllabus)
           T == Seq(Seq(S))
           ones(m) == [i \in 1 .. m |-> <<syllabus[i]>>]
<1>1. PICK n \in Nat : DOMAIN syllabus = 1 .. n /\ syllabus \in [1 .. n -> S]  BY SyllabusIs
<1> HIDE DEF S
<1>2. <<>> \in T  BY EmptySeq
<1>3. ASSUME NEW v \in T, v # <<>>, NEW e \in S
      PROVE  Front(v) \o <<Append(Last(v), e)>> = Front(v) \o <<Last(v) \o <<e>>>>
             /\ Front(v) \o <<Last(v) \o <<e>>>> \in T
  <2> DEFINE R == Seq(S)
  <2>1. Front(v) \in Seq(R) /\ Last(v) \in R
    <3>1. v \in Seq(R) /\ v # <<>>  BY <1>3
    <3> HIDE DEF R
    <3> QED  BY <3>1, FrontAndLast
  <2>2. Append(Last(v), e) = Last(v) \o <<e>> /\ Append(Last(v), e) \in R  BY <2>1, AppendIsConcat, AppendProperties
  <2>3. Last(v) \o <<e>> \in R  BY <2>2
  <2> HIDE DEF R
  <2>4. Front(v) \o <<Last(v) \o <<e>>>> = Append(Front(v), Last(v) \o <<e>>)  BY <2>1, <2>3, AppendIsConcat
  <2>5. Append(Front(v), Last(v) \o <<e>>) \in Seq(R)  BY <2>1, <2>3, AppendProperties
  <2> QED  BY <2>2, <2>4, <2>5 DEF R
<1>4. \A v \in T, e \in S : Append(v, <<e>>) \in T
  <2> TAKE v \in T, e \in S
  <2> DEFINE R == Seq(S)
  <2>1. <<e>> \in R /\ v \in Seq(R)  BY OneOf
  <2> HIDE DEF R
  <2>2. Append(v, <<e>>) \in Seq(R)  BY <2>1, AppendProperties
  <2> QED  BY <2>2 DEF R
<1>5. GroupsStays(T, n)
  <2> SUFFICES \A v \in T, k \in 1 .. n : Grouped(v, syllabus[k]) \in T  BY DEF GroupsStays
  <2> TAKE v \in T, k \in 1 .. n
  <2>1. syllabus[k] \in S  BY <1>1
  <2> HIDE DEF T
  <2> QED  BY <1>3, <1>4, <2>1 DEF Grouped
<1> HIDE DEF T
<1>6. PICK c \in [0 .. n -> T] :
         /\ c[0] = <<>> /\ \A k \in 1 .. n : c[k] = Grouped(c[k - 1], syllabus[k])
         /\ Groups = c[n]
  BY <1>1, <1>2, <1>5, GroupsChain
<1>7. ASSUME NEW k \in 1 .. n
      PROVE  \/ c[k] = Append(c[k - 1], ones(n)[k])
             \/ c[k - 1] # <<>> /\ c[k] = Front(c[k - 1]) \o <<Last(c[k - 1]) \o ones(n)[k]>>
  <2>1. k - 1 \in 0 .. n  OBVIOUS
  <2>2. PICK v \in T, e \in S : v = c[k - 1] /\ e = syllabus[k]  BY <1>1, <1>6, <2>1
  <2>3. c[k] = Grouped(v, e)  BY <1>6, <2>2
  <2>4. \/ Grouped(v, e) = Append(v, <<e>>)
        \/ v # <<>> /\ Grouped(v, e) = Front(v) \o <<Append(Last(v), e)>>
    BY DEF Grouped
  <2>5. ones(n)[k] = <<e>>  BY <2>2
  <2> QED  BY <1>3, <2>2, <2>3, <2>4, <2>5
<1>8. c \in [0 .. n -> T] /\ Groups = c[n] /\ c[n] \in T  BY <1>6
<1>9. ones(n) \in [1 .. n -> Seq(S)]  BY <1>1, OneOf
<1>10. FlattenSeq(ones(n)) = syllabus  BY <1>1, FlattenOnes
<1>11. c \in [0 .. n -> Seq(Seq(S))]  BY <1>8 DEF T
<1> HIDE DEF ones
<1>12. PutTogether(S, c, ones(n), n)  BY <1>6, <1>7, <1>9, <1>11 DEF PutTogether
<1>13. FlattenSeq(c[n]) = FlattenSeq(ones(n))  BY <1>12, PiecesStay
<1> QED  BY <1>8, <1>10, <1>13 DEF T, S

LEMMA BatchesCover ==
    ASSUME syllabus \in Syllabi
    PROVE  BatchesCoverTheSyllabus /\ Len(Batches) \in Nat
<1> DEFINE S == ToSet(syllabus)
           F == Fitting(S)
           splits(m) == [i \in 1 .. m |-> SplitToBudget(Groups[i])]
           pieces(m) == FlattenSeq(splits(m))
<1>1. Groups \in Seq(Seq(S)) /\ FlattenSeq(Groups) = syllabus  BY GroupsKeep
<1> HIDE DEF S
<1>2. PICK n \in Nat : DOMAIN Groups = 1 .. n /\ Groups \in [1 .. n -> Seq(S)]
  <2> DEFINE R == Seq(S)
  <2>1. Groups \in Seq(R)  BY <1>1
  <2> HIDE DEF R
  <2>2. \E n \in Nat : DOMAIN Groups = 1 .. n /\ Groups \in [1 .. n -> R]  BY <2>1, LenProperties, ElementOfSeq
  <2> QED  BY <2>2 DEF R
<1>3. \A i \in 1 .. n : SplitToBudget(Groups[i]) \in Seq(F) /\ FlattenSeq(SplitToBudget(Groups[i])) = Groups[i]
  BY <1>2, SplitKeeps
<1>4. splits(n) \in [1 .. n -> Seq(F)] /\ \A i \in 1 .. n : splits(n)[i] = SplitToBudget(Groups[i])  BY <1>3
<1>5. Batches = PackedAll(FlattenSeq(splits(n)))  BY <1>2, Zenon DEF Batches
<1>6. F \subseteq Seq(S)  BY DEF Fitting
<1> HIDE DEF splits, F
<1>7. FlattenSeq(splits(n)) \in Seq(F)
  <2>1. splits(n) \in Seq(Seq(F))  BY <1>4, SequenceOf
  <2> QED  BY <2>1, FlattenType
<1>8. FlattenSeq(FlattenSeq(splits(n))) = syllabus
  <2>1. Seq(F) \subseteq Seq(Seq(S))  BY <1>6, SeqWider
  <2>2. splits(n) \in [1 .. n -> Seq(Seq(S))]  BY <1>4, <2>1
  <2>3. FlattenSeq(FlattenSeq(splits(n))) = FlattenSeq([i \in 1 .. n |-> FlattenSeq(splits(n)[i])])
    BY <2>2, FlattenTwice
  <2>4. [i \in 1 .. n |-> FlattenSeq(splits(n)[i])] = Groups  BY <1>2, <1>3, <1>4
  <2> QED  BY <1>1, <2>3, <2>4
<1>9. PICK m \in Nat : FlattenSeq(splits(n)) \in [1 .. m -> F]  BY <1>7, LenProperties, ElementOfSeq
<1>10. Batches \in Seq(F) /\ FlattenSeq(Batches) = FlattenSeq(FlattenSeq(splits(n)))
  BY <1>5, <1>9, PackedPieces DEF F
<1>11. \A i \in DOMAIN Batches : SizeOf(Batches[i]) <= CharBudget \/ Len(Batches[i]) = 1
  <2>1. \A i \in DOMAIN Batches : Batches[i] \in F  BY <1>10, LenProperties, ElementOfSeq
  <2> QED  BY <2>1 DEF F, Fitting
<1> QED  BY <1>8, <1>10, <1>11, LenProperties DEF BatchesCoverTheSyllabus

---------------------------------------------------------------------------
(* The facts of a syllabus.                                                *)

RawAnswers == UNION {ToSet(said) : said \in RawFacts}
FactKinds == {raw.kind : raw \in RawAnswers} \cup {"late_work", "grading", "contact", "other"}
FactScopes == {raw.scope : raw \in RawAnswers} \cup {"course_wide", "resource", "other"}
FactRecords ==
    [statement : SUBSET Phrases, quote : SUBSET Phrases, sources : SUBSET Ids,
     importance : {"high", "medium", "low"}, ask : Int, complexity : Int, kind : FactKinds, scope : FactScopes]

\* The quote is in a chunk that is named.
Backed(quote, sources) ==
    sources # {} /\ sources \subseteq Ids /\ \E id \in sources : quote \subseteq TextOf(Chunk(id))

BackedFacts == {f \in FactRecords : Backed(f.quote, f.sources)}
SaysNoMore(f) == f.statement = f.quote \/ Overstates(f.statement, f.quote) = "none"
PlainFacts == {f \in BackedFacts : SaysNoMore(f)}

\* A sentence and the chunk it is from.
Quotable == {s \in [text : SUBSET Phrases, id : Ids] : s.text \subseteq TextOf(Chunk(s.id))}

LEMMA ChunkIs ==
    ASSUME syllabus \in Syllabi, NEW i \in DOMAIN syllabus
    PROVE  syllabus[i].id \in Ids /\ Chunk(syllabus[i].id) = syllabus[i]
<1>1. syllabus[i] \in ToSet(syllabus) /\ \A c \in ToSet(syllabus) : \E j \in DOMAIN syllabus : c = syllabus[j]
  BY DEF ToSet
<1>2. \A j \in DOMAIN syllabus : syllabus[j].id = syllabus[i].id => j = i  BY FactsAssumption
<1>3. \A c \in ToSet(syllabus) : c.id = syllabus[i].id => c = syllabus[i]  BY <1>1, <1>2
<1>4. Chunk(syllabus[i].id) = syllabus[i]  BY <1>1, <1>3 DEF Chunk
<1> QED  BY <1>1, <1>4 DEF Ids

\* A quote that is verified stands in a chunk that is named.
LEMMA VerifiedIsBacked ==
    ASSUME syllabus \in Syllabi, NEW quote, NEW ids, VerifiedIn(quote, ids) # {}
    PROVE  Backed(quote, VerifiedIn(quote, ids))
<1> DEFINE within == {id \in ids \cap Ids : quote \subseteq TextOf(Chunk(id))}
           taken == {i \in DOMAIN syllabus : quote \subseteq TextOf(syllabus[i])}
<1>1. CASE within # {}
  <2>1. VerifiedIn(quote, ids) = within  BY <1>1 DEF VerifiedIn
  <2> QED  BY <1>1, <2>1 DEF Backed
<1>2. CASE within = {}
  <2>1. taken # {} /\ VerifiedIn(quote, ids) = {syllabus[Min(taken)].id}  BY <1>2 DEF VerifiedIn
  <2>2. PICK n \in Nat : DOMAIN syllabus = 1 .. n  BY SyllabusIs
  <2>3. Min(taken) \in taken
    <3>1. taken \in SUBSET (1 .. n)  BY <2>2
    <3> HIDE DEF taken
    <3> QED  BY <2>1, <3>1, SmallestIn
  <2>4. PICK i \in DOMAIN syllabus : i = Min(taken) /\ quote \subseteq TextOf(syllabus[i])  BY <2>3
  <2>5. syllabus[i].id \in Ids /\ Chunk(syllabus[i].id) = syllabus[i]  BY ChunkIs
  <2>6. VerifiedIn(quote, ids) = {syllabus[i].id}  BY <2>1, <2>4
  <2> QED  BY <2>4, <2>5, <2>6 DEF Backed
<1> QED  BY <1>1, <1>2

LEMMA NormalizedIs ==
    ASSUME syllabus \in Syllabi, NEW raw \in RawAnswers, Usable(raw)
    PROVE  NormalizedFact(raw) \in PlainFacts
<1>1. PICK said \in RawFacts : raw \in ToSet(said)  BY DEF RawAnswers
<1>2. raw.statement \in SUBSET Phrases /\ raw.quote \in SUBSET Phrases
      /\ raw.importance \in Int /\ raw.ask \in Int /\ raw.complexity \in Int
  BY <1>1, FactsAssumption
<1>3. Backed(raw.quote, Verified(raw)) /\ Overstates(raw.statement, raw.quote) = "none"
  BY VerifiedIsBacked DEF Usable, Verified
<1>4. CoercedImportance(raw.importance) \in {"high", "medium", "low"}  BY DEF CoercedImportance
<1>5. CoercedUnit(raw.ask) \in Int /\ CoercedComplexity(raw.complexity) \in Int
  BY <1>2 DEF CoercedUnit, CoercedComplexity, Larger, Smaller
<1>6. raw.kind \in FactKinds /\ raw.scope \in FactScopes  BY DEF FactKinds, FactScopes
<1>7. Verified(raw) \in SUBSET Ids  BY <1>3 DEF Backed
<1>8. NormalizedFact(raw) \in FactRecords  BY <1>2, <1>4, <1>5, <1>6, <1>7 DEF NormalizedFact, FactRecords
<1>9. NormalizedFact(raw).quote = raw.quote /\ NormalizedFact(raw).sources = Verified(raw)
      /\ NormalizedFact(raw).statement = raw.statement
  BY DEF NormalizedFact
<1> QED  BY <1>3, <1>8, <1>9 DEF PlainFacts, BackedFacts, SaysNoMore

LEMMA UsableAre ==
    ASSUME syllabus \in Syllabi, NEW said \in RawFacts
    PROVE  UsableFacts(said) \in Seq(PlainFacts)
<1> DEFINE T == Seq(PlainFacts)
<1>1. PICK n \in Nat : DOMAIN said = 1 .. n /\ said \in [1 .. n -> ToSet(said)]
  <2>1. said \in Seq(ToSet(said))  BY FactsAssumption
  <2> QED  BY <2>1, LenProperties, ElementOfSeq
<1>2. \A k \in 1 .. n : said[k] \in RawAnswers  BY <1>1 DEF RawAnswers
<1>3. <<>> \in T  BY EmptySeq
<1>4. UsableStays(T, said, n)
  <2> SUFFICES \A v \in T, k \in 1 .. n :
                 (IF Usable(said[k]) THEN Append(v, NormalizedFact(said[k])) ELSE v) \in T
    BY DEF UsableStays
  <2> TAKE v \in T, k \in 1 .. n
  <2>1. CASE Usable(said[k])
    <3>1. NormalizedFact(said[k]) \in PlainFacts  BY <1>2, <2>1, NormalizedIs
    <3>2. Append(v, NormalizedFact(said[k])) \in T  BY <3>1, AppendProperties
    <3> QED  BY <2>1, <3>2
  <2> QED  BY <2>1
<1> HIDE DEF T
<1>5. PICK c \in [0 .. n -> T] : UsableFacts(said) = c[n]
  BY <1>1, <1>3, <1>4, UsableChain
<1>6. UsableFacts(said) \in T  BY <1>5
<1> QED  BY <1>6 DEF T

---------------------------------------------------------------------------
(* Facts from sentences.                                                   *)

LEMMA SentencesAre ==
    ASSUME syllabus \in Syllabi
    PROVE  /\ \A i \in DOMAIN syllabus :
                 /\ syllabus[i].sentences \in Seq((SUBSET Phrases) \ {{}})
                 /\ \A j \in DOMAIN syllabus[i].sentences :
                       [text |-> syllabus[i].sentences[j], id |-> syllabus[i].id] \in Quotable
           /\ Sentences \in Seq(Quotable)
<1>1. ASSUME NEW i \in DOMAIN syllabus, NEW j \in DOMAIN syllabus[i].sentences
      PROVE  [text |-> syllabus[i].sentences[j], id |-> syllabus[i].id] \in Quotable
  <2> DEFINE Wordings == (SUBSET Phrases) \ {{}}
  <2>1. syllabus[i].sentences \in Seq(Wordings)  BY FactsAssumption
  <2> HIDE DEF Wordings
  <2>2. syllabus[i].sentences[j] \in Wordings  BY <2>1, ElementOfSeq, LenProperties
  <2>3. syllabus[i].sentences[j] \subseteq TextOf(syllabus[i])  BY DEF TextOf, ToSet
  <2>4. syllabus[i].id \in Ids /\ Chunk(syllabus[i].id) = syllabus[i]  BY ChunkIs
  <2> DEFINE s == [text |-> syllabus[i].sentences[j], id |-> syllabus[i].id]
  <2>5. s \in [text : SUBSET Phrases, id : Ids]  BY <2>2, <2>4 DEF Wordings
  <2>6. s.text \subseteq TextOf(Chunk(s.id))  BY <2>2, <2>3, <2>4 DEF Wordings
  <2> QED  BY <2>5, <2>6 DEF Quotable
<1>2. \A i \in DOMAIN syllabus : syllabus[i].sentences \in Seq((SUBSET Phrases) \ {{}})
  BY FactsAssumption
<1>3. PICK n \in Nat : DOMAIN syllabus = 1 .. n  BY SyllabusIs
<1> DEFINE of(i) == [j \in DOMAIN syllabus[i].sentences |->
                        [text |-> syllabus[i].sentences[j], id |-> syllabus[i].id]]
           all(m) == [i \in 1 .. m |-> of(i)]
<1>4. \A i \in 1 .. n : of(i) \in Seq(Quotable)
  <2> TAKE i \in 1 .. n
  <2>1. PICK m \in Nat : DOMAIN syllabus[i].sentences = 1 .. m  BY <1>2, <1>3, LenProperties
  <2>2. of(i) \in [1 .. m -> Quotable]  BY <1>1, <1>3, <2>1
  <2> HIDE DEF of
  <2> QED  BY <2>1, <2>2, SequenceOf
<1>5. Sentences = FlattenSeq(all(n))  BY <1>3 DEF Sentences
<1> HIDE DEF of
<1>6. all(n) \in [1 .. n -> Seq(Quotable)]  BY <1>4
<1> HIDE DEF all
<1>7. all(n) \in Seq(Seq(Quotable))  BY <1>6, SequenceOf
<1>8. Sentences \in Seq(Quotable)  BY <1>5, <1>7, FlattenType
<1> QED  BY <1>1, <1>2, <1>8

LEMMA SentenceFact ==
    ASSUME syllabus \in Syllabi, NEW s \in Quotable, Cardinality(s.text) >= ShortText,
           NEW importance \in {"high", "medium", "low"}, NEW many \in Int, NEW complexity \in Int,
           NEW kind \in FactKinds, NEW scope \in FactScopes
    PROVE  /\ FromSentence(s, importance, many, complexity, kind, scope) \in PlainFacts
           /\ FromSentence(s, importance, many, complexity, kind, scope).statement = s.text
<1> DEFINE f == FromSentence(s, importance, many, complexity, kind, scope)
<1>1. s.text \in SUBSET Phrases /\ s.id \in Ids /\ s.text \subseteq TextOf(Chunk(s.id))
  BY DEF Quotable
<1>2. VerifiedIn(s.text, {s.id}) # {}
  <2>1. s.id \in {id \in {s.id} \cap Ids : s.text \subseteq TextOf(Chunk(id))}  BY <1>1
  <2>2. ~(Cardinality(s.text) < ShortText)
    <3>1. PICK m \in Nat : m = Cardinality(s.text)
      <4>1. s.text \subseteq Phrases /\ IsFiniteSet(Phrases)  BY <1>1, FactsAssumption
      <4> QED  BY <4>1, FS_Subset, FS_CardinalityType
    <3> QED  BY <3>1 DEF ShortText
  <2> QED  BY <1>1, <2>1, <2>2 DEF VerifiedIn
<1>3. Backed(s.text, VerifiedIn(s.text, {s.id}))  BY <1>2, VerifiedIsBacked
<1>4. f.statement = s.text /\ f.quote = s.text /\ f.sources = VerifiedIn(s.text, {s.id})  BY DEF FromSentence
<1>5. VerifiedIn(s.text, {s.id}) \in SUBSET Ids  BY <1>3 DEF Backed
<1>6. f \in FactRecords  BY <1>1, <1>5 DEF FromSentence, FactRecords
<1> HIDE DEF f
<1>7. f \in PlainFacts  BY <1>3, <1>4, <1>6 DEF PlainFacts, BackedFacts, SaysNoMore
<1> QED  BY <1>4, <1>7 DEF f

LEMMA PolicyFactIs ==
    ASSUME syllabus \in Syllabi, NEW s \in Quotable, Cardinality(s.text) >= ShortText
    PROVE  PolicyFact(s) \in PlainFacts /\ PolicyFact(s).statement = s.text
<1> DEFINE cues == s.text \cap {"condition", "exception", "limit", "one_per"}
<1>1. 1 + Cardinality(cues) \in Int
  <2>1. IsFiniteSet(cues)
    <3>1. cues \subseteq Phrases /\ IsFiniteSet(Phrases)  BY FactsAssumption DEF Quotable
    <3> HIDE DEF cues
    <3> QED  BY <3>1, FS_Subset
  <2> HIDE DEF cues
  <2>2. Cardinality(cues) \in Nat  BY <2>1, FS_CardinalityType
  <2> QED  BY <2>2
<1>2. "late_work" \in FactKinds /\ "course_wide" \in FactScopes  BY DEF FactKinds, FactScopes
<1> HIDE DEF cues
<1>3. PolicyFact(s) = FromSentence(s, "high", 90, 1 + Cardinality(cues), "late_work", "course_wide")
  BY DEF PolicyFact, cues
<1>4. 90 \in Int /\ "high" \in {"high", "medium", "low"}  OBVIOUS
<1> QED  BY <1>1, <1>2, <1>3, <1>4, SentenceFact

LEMMA CoveredStays ==
    ASSUME NEW S, NEW old \in Seq(S), NEW e \in S, NEW words
    PROVE  /\ Covered(old, words) => Covered(Append(old, e), words)
           /\ e.statement = words => Covered(Append(old, e), words)
<1>1. PICK n \in Nat : /\ DOMAIN old = 1 .. n /\ DOMAIN Append(old, e) = 1 .. n + 1
                       /\ Append(old, e)[n + 1] = e /\ \A i \in 1 .. n : Append(old, e)[i] = old[i]
  BY LenProperties, AppendProperties
<1>2. n + 1 \in 1 .. n + 1 /\ \A i \in 1 .. n : i \in 1 .. n + 1  OBVIOUS
<1>3. ASSUME Covered(old, words) PROVE Covered(Append(old, e), words)
  BY <1>1, <1>2, <1>3 DEF Covered
<1>4. ASSUME e.statement = words PROVE Covered(Append(old, e), words)
  <2>1. OneInOther(e.statement, words)  BY <1>4 DEF OneInOther
  <2> QED  BY <1>1, <1>2, <2>1 DEF Covered
<1> QED  BY <1>3, <1>4

\* Every policy that can be salvaged is covered by the facts there were, or is salvaged.
LEMMA SalvagedAre ==
    ASSUME syllabus \in Syllabi, NEW old \in Seq(PlainFacts)
    PROVE  /\ Salvaged(old) \in Seq(PlainFacts)
           /\ \A i \in DOMAIN Sentences :
                 Salvageable(Sentences[i].text) => Covered(old \o Salvaged(old), Sentences[i].text)
<1> DEFINE T == Seq(PlainFacts)
<1>1. PICK n \in Nat : DOMAIN Sentences = 1 .. n /\ \A k \in 1 .. n : Sentences[k] \in Quotable
  BY SentencesAre, LenProperties, ElementOfSeq
<1>2. \A k \in 1 .. n : Salvageable(Sentences[k].text) =>
         PolicyFact(Sentences[k]) \in PlainFacts /\ PolicyFact(Sentences[k]).statement = Sentences[k].text
  BY <1>1, PolicyFactIs DEF Salvageable
<1>3. <<>> \in T  BY EmptySeq
<1>4. SalvagedStays(T, old, n)
  <2>1. \A v \in T, k \in 1 .. n : SalvagedOne(old, v, Sentences[k]) \in T
    BY <1>2, AppendProperties DEF SalvagedOne
  <2> QED  BY <2>1 DEF SalvagedStays
<1>t. \A v \in T, e \in PlainFacts : old \o v \in T /\ old \o Append(v, e) = Append(old \o v, e)
  <2> TAKE v \in T, e \in PlainFacts
  <2>1. old \o v \in T  BY ConcatProperties
  <2>2. <<e>> \in T  BY OneOf
  <2>3. Append(v, e) = v \o <<e>> /\ Append(old \o v, e) = (old \o v) \o <<e>>  BY <2>1, AppendIsConcat
  <2>4. (old \o v) \o <<e>> = old \o (v \o <<e>>)  BY <2>2, ConcatInAnyOrder
  <2> QED  BY <2>1, <2>3, <2>4
<1> HIDE DEF T
<1>5. PICK c \in [0 .. n -> T] :
         /\ c[0] = <<>>
         /\ \A k \in 1 .. n : c[k] = SalvagedOne(old, c[k - 1], Sentences[k])
         /\ Salvaged(old) = c[n]
  <2>1. DOMAIN Sentences = 1 .. n  BY <1>1
  <2> QED  BY <1>3, <1>4, <2>1, SalvagedChain
<1> DEFINE Had(v, m) == \A i \in 1 .. m : Salvageable(Sentences[i].text) => Covered(old \o v, Sentences[i].text)
           G == {m \in 0 .. n : Had(c[m], m)}
<1>6. 0 \in G  OBVIOUS
<1>7. ASSUME NEW m \in 0 .. n - 1, m \in G PROVE m + 1 \in G
  <2>1. m \in 0 .. n /\ m + 1 \in 0 .. n /\ m + 1 \in 1 .. n /\ (m + 1) - 1 = m  OBVIOUS
  <2>2. PICK v \in T : v = c[m] /\ Had(v, m)  BY <1>7, <2>1
  <2>3. PICK s \in Quotable :
           /\ s = Sentences[m + 1]
           /\ Salvageable(s.text) => PolicyFact(s) \in PlainFacts /\ PolicyFact(s).statement = s.text
    BY <1>1, <1>2, <2>1
  <2>4. c[m + 1] = IF Salvageable(s.text) /\ ~Covered(old \o v, s.text) THEN Append(v, PolicyFact(s)) ELSE v
    BY <1>5, <2>1, <2>2, <2>3 DEF SalvagedOne
  <2>5. \A i \in 1 .. m + 1 : i \in 1 .. m \/ i = m + 1  BY <2>1
  <2>6. CASE Salvageable(s.text) /\ ~Covered(old \o v, s.text)
    <3>1. c[m + 1] = Append(v, PolicyFact(s)) /\ old \o c[m + 1] = Append(old \o v, PolicyFact(s))
      BY <1>t, <2>3, <2>4, <2>6
    <3>2. PICK w \in T, e \in PlainFacts : w = old \o v /\ e = PolicyFact(s) /\ old \o c[m + 1] = Append(w, e)
      BY <1>t, <2>3, <2>6, <3>1
    <3>3. \A i \in 1 .. m : Salvageable(Sentences[i].text) => Covered(old \o c[m + 1], Sentences[i].text)
      <4>1. ASSUME NEW words PROVE Covered(w, words) => Covered(Append(w, e), words)
        <5>1. w \in Seq(PlainFacts) /\ e \in PlainFacts  BY DEF T
        <5> QED  BY <5>1, CoveredStays
      <4>2. \A i \in 1 .. m : Salvageable(Sentences[i].text) => Covered(w, Sentences[i].text)  BY <2>2, <3>2
      <4> QED  BY <3>2, <4>1, <4>2
    <3>4. Covered(old \o c[m + 1], s.text)
      <4>1. e.statement = s.text => Covered(Append(w, e), s.text)
        <5>1. w \in Seq(PlainFacts) /\ e \in PlainFacts  BY DEF T
        <5> QED  BY <5>1, CoveredStays
      <4> QED  BY <2>3, <2>6, <3>2, <4>1
    <3> QED  BY <2>1, <2>3, <2>5, <3>3, <3>4
  <2>7. CASE ~(Salvageable(s.text) /\ ~Covered(old \o v, s.text))
    <3>1. c[m + 1] = v  BY <2>4, <2>7
    <3>2. Salvageable(s.text) => Covered(old \o c[m + 1], s.text)  BY <2>7, <3>1
    <3>3. \A i \in 1 .. m : Salvageable(Sentences[i].text) => Covered(old \o c[m + 1], Sentences[i].text)
      BY <2>2, <3>1
    <3> QED  BY <2>1, <2>3, <2>5, <3>2, <3>3
  <2> QED  BY <2>6, <2>7
<1>8. \A m \in 0 .. n - 1 : m \in G => m + 1 \in G  BY <1>7
<1> HIDE DEF G
<1>9. n \in G
  <2>1. \A m \in 0 .. n : m \in G  BY <1>6, <1>8, UpTo
  <2> QED  BY <2>1
<1>10. c[n] \in T /\ Salvaged(old) = c[n]  BY <1>5
<1>11. Had(Salvaged(old), n)  BY <1>9, <1>10 DEF G
<1> QED  BY <1>1, <1>10, <1>11 DEF T

Lists(v, e) == \E i \in DOMAIN v : v[i] = e

\* Of the sentences of a chunk, those that are wanted.
LEMMA AmongAre ==
    ASSUME NEW S, NEW sentences \in Seq(S), NEW wanted
    PROVE  /\ Among(sentences, wanted) \in Seq(S \cap wanted)
           /\ \A i \in DOMAIN sentences : sentences[i] \in wanted => Lists(Among(sentences, wanted), sentences[i])
<1> DEFINE T == Seq(S \cap wanted)
<1>1. PICK n \in Nat : DOMAIN sentences = 1 .. n /\ \A k \in 1 .. n : sentences[k] \in S
  BY LenProperties, ElementOfSeq
<1>2. <<>> \in T  BY EmptySeq
<1>3. AmongStays(T, sentences, wanted, n)
  <2>1. ASSUME NEW v \in T, NEW k \in 1 .. n, sentences[k] \in wanted PROVE Append(v, sentences[k]) \in T
    <3>1. sentences[k] \in S \cap wanted  BY <1>1, <2>1
    <3> QED  BY <3>1, AppendProperties
  <2> QED  BY <2>1 DEF AmongStays
<1>a. ASSUME NEW v \in T, NEW e \in S \cap wanted
      PROVE  Lists(Append(v, e), e) /\ \A d : Lists(v, d) => Lists(Append(v, e), d)
  <2>1. PICK m \in Nat : /\ DOMAIN v = 1 .. m /\ DOMAIN Append(v, e) = 1 .. m + 1
                         /\ Append(v, e)[m + 1] = e /\ \A i \in 1 .. m : Append(v, e)[i] = v[i]
    BY LenProperties, AppendProperties
  <2>2. m + 1 \in 1 .. m + 1 /\ \A i \in 1 .. m : i \in 1 .. m + 1  OBVIOUS
  <2> QED  BY <2>1, <2>2 DEF Lists
<1> HIDE DEF T
<1>4. PICK c \in [0 .. n -> T] :
         /\ \A k \in 1 .. n : c[k] = (IF sentences[k] \in wanted THEN Append(c[k - 1], sentences[k]) ELSE c[k - 1])
         /\ Among(sentences, wanted) = c[n]
  BY <1>1, <1>2, <1>3, AmongChain
<1>5. Among(sentences, wanted) \in T  BY <1>4
<1>6. ASSUME NEW i \in DOMAIN sentences, sentences[i] \in wanted PROVE Lists(Among(sentences, wanted), sentences[i])
  <2> DEFINE e == sentences[i]
             G == {m \in 0 .. n : m >= i => Lists(c[m], e)}
  <2>1. i \in 1 .. n /\ e \in S \cap wanted  BY <1>1, <1>6
  <2>2. 0 \in G  BY <2>1
  <2>3. ASSUME NEW m \in 0 .. n - 1, m \in G PROVE m + 1 \in G
    <3>1. m \in 0 .. n /\ m + 1 \in 0 .. n /\ m + 1 \in 1 .. n /\ (m + 1) - 1 = m  OBVIOUS
    <3>2. PICK v \in T : v = c[m]  BY <3>1
    <3>3. PICK d \in S : d = sentences[m + 1]  BY <1>1, <3>1
    <3>4. c[m + 1] = IF d \in wanted THEN Append(v, d) ELSE v  BY <1>4, <3>1, <3>2, <3>3
    <3>5. m >= i => Lists(v, e)  BY <2>3, <3>2
    <3> HIDE DEF e
    <3>6. CASE d \in wanted
      <4>1. Lists(Append(v, d), d) /\ (Lists(v, e) => Lists(Append(v, d), e))  BY <1>a, <3>6
      <4>2. c[m + 1] = Append(v, d)  BY <3>4, <3>6
      <4>3. m + 1 = i => d = e  BY <3>3 DEF e
      <4>4. m + 1 >= i => m >= i \/ m + 1 = i  BY <2>1
      <4>5. m + 1 >= i => Lists(c[m + 1], e)  BY <3>5, <4>1, <4>2, <4>3, <4>4
      <4> QED  BY <3>1, <4>5
    <3>7. CASE d \notin wanted
      <4>1. m + 1 # i  BY <1>6, <3>3, <3>7
      <4>2. m + 1 >= i => m >= i  BY <2>1, <4>1
      <4>3. c[m + 1] = v  BY <3>4, <3>7
      <4>4. m + 1 >= i => Lists(c[m + 1], e)  BY <3>5, <4>2, <4>3
      <4> QED  BY <3>1, <4>4
    <3> QED  BY <3>6, <3>7
  <2>4. \A m \in 0 .. n - 1 : m \in G => m + 1 \in G  BY <2>3
  <2> HIDE DEF G
  <2>5. \A m \in 0 .. n : m \in G  BY <2>2, <2>4, UpTo
  <2>6. n \in G  BY <2>5
  <2>7. Lists(c[n], e)  BY <2>1, <2>6 DEF G
  <2> QED  BY <1>4, <2>7
<1> QED  BY <1>5, <1>6 DEF T

\* The sentences of a chunk that are quoted are its own and long enough, and there
\* are some when it tells something.
LEMMA QuotedAre ==
    ASSUME NEW sentences \in Seq((SUBSET Phrases) \ {{}})
    PROVE  /\ Quoted(sentences) \in Seq({words \in ToSet(sentences) : Cardinality(words) >= ShortText})
           /\ Telling(sentences) => Quoted(sentences) # <<>>
<1> DEFINE S == ToSet(sentences)
           main == {words \in S : ~Boilerplate(words)}
           rich == {words \in S : HighValue(words)}
           long == {words \in S : Cardinality(words) >= ShortText}
<1>1. sentences \in Seq(S) /\ \A words \in S : /\ words \in SUBSET Phrases
                                               /\ \E i \in DOMAIN sentences : sentences[i] = words
  <2>1. PICK m \in Nat : DOMAIN sentences = 1 .. m /\ \A i \in 1 .. m : sentences[i] \in (SUBSET Phrases) \ {{}}
    BY LenProperties, ElementOfSeq
  <2>2. S = {sentences[i] : i \in 1 .. m}  BY <2>1 DEF ToSet
  <2>3. sentences \in [1 .. m -> S]  BY <2>1, <2>2, LenProperties
  <2>4. sentences \in Seq(S)  BY <2>3, SequenceOf
  <2> HIDE DEF S
  <2> QED  BY <2>1, <2>2, <2>4
<1> DEFINE subs == Substantive(sentences)
           vals == Valuable(sentences)
           taken == Picks(sentences)
<1>2. subs = Among(sentences, main) /\ vals = Among(subs, rich) /\ Quoted(sentences) = Among(taken, long)
  BY DEF Substantive, Valuable, Quoted
<1>3. taken = IF vals # <<>> THEN vals ELSE IF subs # <<>> THEN <<subs[1]>> ELSE <<>>  BY DEF Picks
<1> HIDE DEF S, main, rich, long, subs, vals, taken
<1>4. subs \in Seq(S \cap main) /\ \A i \in DOMAIN sentences : sentences[i] \in main => Lists(subs, sentences[i])
  BY <1>1, <1>2, AmongAre
<1>5. vals \in Seq((S \cap main) \cap rich) /\ \A i \in DOMAIN subs : subs[i] \in rich => Lists(vals, subs[i])
  BY <1>2, <1>4, AmongAre
<1>6. PICK k \in Nat : DOMAIN subs = 1 .. k /\ (subs # <<>> => k # 0) /\ \A i \in 1 .. k : subs[i] \in S \cap main
  BY <1>4, LenProperties, ElementOfSeq, EmptySeq
<1>7. subs # <<>> => subs[1] \in S \cap main  BY <1>6
<1>8. taken \in Seq(S)
  <2>1. vals \in Seq(S)
    <3>1. (S \cap main) \cap rich \subseteq S  OBVIOUS
    <3> QED  BY <1>5, <3>1, SeqWider
  <2> QED  BY <1>3, <1>7, <2>1, OneOf, EmptySeq
<1>9. Quoted(sentences) \in Seq(S \cap long)
      /\ \A i \in DOMAIN taken : taken[i] \in long => Lists(Quoted(sentences), taken[i])
  BY <1>2, <1>8, AmongAre
<1>10. Quoted(sentences) \in Seq(long)
  <2>1. S \cap long \subseteq long  OBVIOUS
  <2> QED  BY <1>9, <2>1, SeqWider
<1>e. \A v, e : Lists(v, e) => v # <<>>
  <2>1. DOMAIN <<>> = {}  OBVIOUS
  <2> QED  BY <2>1 DEF Lists
<1>11. ASSUME NEW e \in S, e \in main, e \in rich, e \in long PROVE Quoted(sentences) # <<>>
  <2>1. Lists(subs, e)  BY <1>1, <1>4, <1>11
  <2>2. Lists(vals, e)  BY <1>5, <1>11, <2>1 DEF Lists
  <2>3. taken = vals  BY <1>3, <1>e, <2>2
  <2>4. PICK i \in DOMAIN taken : taken[i] = e  BY <2>2, <2>3 DEF Lists
  <2>5. Lists(Quoted(sentences), e)  BY <1>9, <1>11, <2>4
  <2> QED  BY <1>e, <2>5
<1>12. ASSUME NEW e \in S, e \in main, \A other \in S : other \in main => other \notin rich
       PROVE  Quoted(sentences) # <<>>
  <2>1. subs # <<>>  BY <1>1, <1>4, <1>12, <1>e
  <2>2. vals = <<>>
    <3>1. (S \cap main) \cap rich = {}  BY <1>12
    <3>2. vals \in Seq({})  BY <1>5, <3>1
    <3>3. PICK m \in Nat : DOMAIN vals = 1 .. m /\ (vals = <<>> <=> m = 0) /\ \A i \in 1 .. m : vals[i] \in {}
      BY <3>2, LenProperties, ElementOfSeq, EmptySeq
    <3>4. m # 0 => 1 \in 1 .. m  OBVIOUS
    <3> QED  BY <3>3, <3>4
  <2>3. PICK d \in S : d = subs[1] /\ d \in main /\ d \notin rich  BY <1>7, <1>12, <2>1
  <2>4. taken = <<d>>  BY <1>3, <2>1, <2>2, <2>3
  <2>5. d \in long
    <3>1. ~Boilerplate(d) /\ ~HighValue(d)  BY <2>3 DEF main, rich
    <3>2. ~(Cardinality(d) < ShortSentence)  BY <3>1 DEF Boilerplate
    <3>3. PICK m \in Nat : m = Cardinality(d)
      <4>1. d \subseteq Phrases /\ IsFiniteSet(Phrases)  BY <1>1, FactsAssumption
      <4> QED  BY <4>1, FS_Subset, FS_CardinalityType
    <3>4. Cardinality(d) >= ShortText  BY <3>2, <3>3 DEF ShortSentence, ShortText
    <3> QED  BY <3>4 DEF long
  <2>6. 1 \in DOMAIN taken /\ taken[1] = d  BY <2>4
  <2>7. Lists(Quoted(sentences), d)  BY <1>9, <2>5, <2>6
  <2> QED  BY <1>e, <2>7
<1>13. ASSUME Telling(sentences) PROVE Quoted(sentences) # <<>>
  <2>1. PICK e \in S : /\ ~Boilerplate(e) /\ Cardinality(e) >= ShortText
                       /\ HighValue(e) \/ \A other \in S : ~Boilerplate(other) => ~HighValue(other)
    BY <1>13 DEF Telling, S
  <2>2. e \in main /\ e \in long  BY <2>1 DEF main, long
  <2>3. CASE HighValue(e)
    <3>1. e \in rich  BY <2>3 DEF rich
    <3> QED  BY <1>11, <2>2, <3>1
  <2>4. CASE \A other \in S : ~Boilerplate(other) => ~HighValue(other)
    <3>1. \A other \in S : other \in main => other \notin rich  BY <2>4 DEF main, rich
    <3> QED  BY <1>12, <2>2, <3>1
  <2> QED  BY <2>1, <2>3, <2>4
<1>14. Quoted(sentences) \in Seq({words \in ToSet(sentences) : Cardinality(words) >= ShortText})
  BY <1>10 DEF long, S
<1> QED  BY <1>13, <1>14

\* What sentences give are facts, and a chunk that tells something gives one.
LEMMA FallbackAre ==
    ASSUME syllabus \in Syllabi
    PROVE  /\ FallbackFacts \in Seq(PlainFacts)
           /\ (\E i \in DOMAIN syllabus : Telling(syllabus[i].sentences)) => FallbackFacts # <<>>
<1> DEFINE of(i) == [j \in DOMAIN Quoted(syllabus[i].sentences) |->
                        FallbackFact(Quoted(syllabus[i].sentences)[j], syllabus[i].id)]
           all(m) == [i \in 1 .. m |-> of(i)]
<1>1. PICK n \in Nat : DOMAIN syllabus = 1 .. n  BY SyllabusIs
<1>2. ASSUME NEW w, NEW id, [text |-> w, id |-> id] \in Quotable, Cardinality(w) >= ShortText
      PROVE  FallbackFact(w, id) \in PlainFacts
  <2> DEFINE s == [text |-> w, id |-> id]
             value == ImportanceOf(w)
  <2>1. FallbackFact(w, id) = FromSentence(s, value, ImportanceValue[value], 1, KindOf(w), ScopeOf(w))
    BY DEF FallbackFact
  <2>2. value \in {"high", "medium", "low"}
    <3>1. CASE Says(w, Requirement)  BY <3>1 DEF ImportanceOf
    <3>2. CASE ~Says(w, Requirement)  BY <3>2 DEF ImportanceOf
    <3> QED  BY <3>1, <3>2
  <2>3. KindOf(w) \in FactKinds
    <3>1. CASE "extension" \in w  BY <3>1 DEF KindOf, FactKinds
    <3>2. CASE "extension" \notin w  BY <3>2 DEF KindOf, FactKinds
    <3> QED  BY <3>1, <3>2
  <2>4. ScopeOf(w) \in FactScopes  BY DEF ScopeOf, FactScopes
  <2>5. s \in Quotable /\ Cardinality(s.text) >= ShortText  BY <1>2
  <2>6. ImportanceValue[value] \in Int /\ 1 \in Int  BY <2>2 DEF ImportanceValue
  <2> HIDE DEF s, value
  <2>7. FromSentence(s, value, ImportanceValue[value], 1, KindOf(w), ScopeOf(w)) \in PlainFacts
    BY <2>2, <2>3, <2>4, <2>5, <2>6, SentenceFact
  <2> QED  BY <2>1, <2>7
<1>3. ASSUME NEW i \in 1 .. n PROVE /\ of(i) \in Seq(PlainFacts)
                                    /\ Telling(syllabus[i].sentences) => of(i) # <<>>
  <2> DEFINE own == syllabus[i].sentences
             S == {words \in ToSet(own) : Cardinality(words) >= ShortText}
             picked == Quoted(own)
             id == syllabus[i].id
  <2>1. own \in Seq((SUBSET Phrases) \ {{}})
        /\ \A j \in DOMAIN own : [text |-> own[j], id |-> id] \in Quotable
    BY <1>1, SentencesAre
  <2>2. \A w \in S : [text |-> w, id |-> id] \in Quotable /\ Cardinality(w) >= ShortText  BY <2>1 DEF ToSet
  <2>3. picked \in Seq(S) /\ (Telling(own) => picked # <<>>)  BY <2>1, QuotedAre
  <2>4. of(i) = [j \in DOMAIN picked |-> FallbackFact(picked[j], id)]  OBVIOUS
  <2> HIDE DEF picked, of, id, S, own
  <2>5. PICK k \in Nat : DOMAIN picked = 1 .. k /\ (picked = <<>> <=> k = 0) /\ \A j \in 1 .. k : picked[j] \in S
    BY <2>3, LenProperties, ElementOfSeq, EmptySeq
  <2>6. of(i) \in [1 .. k -> PlainFacts]  BY <1>2, <2>2, <2>4, <2>5
  <2>7. of(i) \in Seq(PlainFacts) /\ Len(of(i)) = k  BY <2>6, SequenceOf
  <2>8. Len(<<>>) = 0  OBVIOUS
  <2>9. Telling(own) => of(i) # <<>>  BY <2>3, <2>5, <2>7, <2>8
  <2> QED  BY <2>7, <2>9 DEF own
<1>4. FallbackFacts = FlattenSeq(all(n))  BY <1>1, Zenon DEF FallbackFacts
<1> HIDE DEF of
<1>5. all(n) \in [1 .. n -> Seq(PlainFacts)] /\ \A i \in 1 .. n : all(n)[i] = of(i)  BY <1>3
<1> HIDE DEF all
<1>6. all(n) \in Seq(Seq(PlainFacts))  BY <1>5, SequenceOf
<1>7. FallbackFacts \in Seq(PlainFacts)  BY <1>4, <1>6, FlattenType
<1>8. ASSUME NEW i \in DOMAIN syllabus, Telling(syllabus[i].sentences) PROVE FallbackFacts # <<>>
  <2>1. i \in 1 .. n /\ all(n)[i] # <<>>  BY <1>1, <1>3, <1>5, <1>8
  <2> QED  BY <1>4, <1>5, <2>1, FlattenSome
<1> QED  BY <1>7, <1>8

---------------------------------------------------------------------------
(* Facts that are merged.                                                  *)

\* A fact that took over another is backed still: with a quote it takes its chunks.
LEMMA AbsorbedIs ==
    ASSUME NEW f \in BackedFacts, NEW other \in BackedFacts
    PROVE  Absorbed(f, other) \in BackedFacts /\ Absorbed(f, other).statement = f.statement
<1> DEFINE g == Absorbed(f, other)
<1>1. f \in FactRecords /\ other \in FactRecords /\ Backed(f.quote, f.sources) /\ Backed(other.quote, other.sources)
  BY DEF BackedFacts
<1>2. g \in FactRecords
  BY <1>1 DEF FactRecords, Absorbed, Larger
<1>3. g.sources = f.sources \cup other.sources /\ g.statement = f.statement /\ g.quote \in {f.quote, other.quote}
  BY <1>1 DEF FactRecords, Absorbed
<1> HIDE DEF g
<1>4. Backed(g.quote, g.sources)  BY <1>1, <1>3 DEF Backed
<1>5. g \in BackedFacts  BY <1>2, <1>4 DEF BackedFacts
<1> QED  BY <1>3, <1>5 DEF g

\* Backed facts of which no two state the same.
DistinctFacts == {v \in Seq(BackedFacts) : \A i, j \in DOMAIN v : v[i].statement = v[j].statement => i = j}

LEMMA MergedIntoIs ==
    ASSUME NEW taken \in DistinctFacts, NEW f \in BackedFacts, NEW repeated \in SUBSET DOMAIN taken,
           \A k \in DOMAIN taken : taken[k].statement = f.statement => k \in repeated
    PROVE  MergedInto(taken, f, repeated) \in DistinctFacts /\ MergedInto(taken, f, repeated) # <<>>
<1> DEFINE v == MergedInto(taken, f, repeated)
<1>1. taken \in Seq(BackedFacts) /\ \A i, j \in DOMAIN taken : taken[i].statement = taken[j].statement => i = j
  BY DEF DistinctFacts
<1>2. PICK n \in Nat : DOMAIN taken = 1 .. n /\ Len(taken) = n /\ taken \in [1 .. n -> BackedFacts]
  BY <1>1, LenProperties, ElementOfSeq
<1>3. CASE repeated = {}
  <2>1. v = Append(taken, f)  BY <1>3 DEF MergedInto
  <2>2. Append(taken, f) \in Seq(BackedFacts) /\ DOMAIN Append(taken, f) = 1 .. n + 1
        /\ Append(taken, f)[n + 1] = f /\ \A i \in 1 .. n : Append(taken, f)[i] = taken[i]
    BY <1>1, <1>2, AppendProperties, LenProperties
  <2> HIDE DEF v
  <2>3. \A i \in 1 .. n + 1 : i \in 1 .. n \/ i = n + 1  BY <1>2
  <2>4. \A i \in 1 .. n : v[i].statement = taken[i].statement /\ taken[i].statement # f.statement
    BY <1>2, <1>3, <2>1, <2>2
  <2>5. v[n + 1].statement = f.statement  BY <2>1, <2>2
  <2>6. \A i, j \in 1 .. n + 1 : v[i].statement = v[j].statement => i = j
    BY <1>1, <1>2, <2>3, <2>4, <2>5
  <2>7. v \in Seq(BackedFacts) /\ DOMAIN v = 1 .. n + 1  BY <2>1, <2>2
  <2>8. v # <<>>
    <3>1. n + 1 \in DOMAIN v  BY <1>2, <2>7
    <3>2. DOMAIN <<>> = {}  OBVIOUS
    <3> QED  BY <3>1, <3>2
  <2>9. v \in DistinctFacts  BY <2>6, <2>7 DEF DistinctFacts
  <2> QED  BY <2>8, <2>9 DEF v
<1>4. CASE repeated # {}
  <2>1. Min(repeated) \in 1 .. n
    <3>1. repeated \in SUBSET (1 .. n)  BY <1>2
    <3> QED  BY <1>4, <3>1, SmallestIn
  <2>2. PICK m \in 1 .. n : m = Min(repeated)  BY <2>1
  <2>3. v = [taken EXCEPT ![m] = Absorbed(taken[m], f)]  BY <1>4, <2>2 DEF MergedInto
  <2>4. taken[m] \in BackedFacts  BY <1>2
  <2>5. PICK g \in BackedFacts : g = Absorbed(taken[m], f) /\ g.statement = taken[m].statement
    BY <2>4, AbsorbedIs
  <2> HIDE DEF v
  <2>6. v = [taken EXCEPT ![m] = g]  BY <2>3, <2>5
  <2>7. v \in [1 .. n -> BackedFacts]  BY <1>2, <2>6
  <2>8. v \in Seq(BackedFacts) /\ DOMAIN v = 1 .. n  BY <2>7, SequenceOf
  <2>9. \A i \in 1 .. n : v[i].statement = taken[i].statement  BY <1>2, <2>5, <2>6
  <2>10. v \in DistinctFacts  BY <1>1, <1>2, <2>8, <2>9 DEF DistinctFacts
  <2>11. v # <<>>
    <3>1. m \in DOMAIN v  BY <2>8
    <3>2. DOMAIN <<>> = {}  OBVIOUS
    <3> QED  BY <3>1, <3>2
  <2> QED  BY <2>10, <2>11 DEF v
<1> QED  BY <1>3, <1>4

---------------------------------------------------------------------------
(* Facts that are sorted.                                                  *)

\* The places of the facts, in an order of them.
LEMMA RankedIs ==
    ASSUME NEW n \in Nat, DOMAIN facts = 1 .. n, NEW R, LinesUp(R, 1 .. n)
    PROVE  Ranked(R) \in [1 .. n -> 1 .. n]
<1>1. IsFiniteSet(1 .. n) /\ Cardinality(1 .. n) = n
  <2>1. 1 \in Int /\ n \in Int  OBVIOUS
  <2>2. /\ IsFiniteSet(1 .. n)
        /\ Cardinality(1 .. n) = IF 1 > n THEN 0 ELSE n - 1 + 1
    BY <2>1, FS_Interval
  <2>3. (IF 1 > n THEN 0 ELSE n - 1 + 1) = n  OBVIOUS
  <2> QED  BY <2>2, <2>3
<1>2. \A k \in 1 .. n : PlaceIn(R, 1 .. n, k) \in 1 .. n  BY <1>1, PlaceExists
<1> DEFINE S == DOMAIN facts
<1>3. Ranked(R) = [k \in S |-> PlaceIn(R, S, k)]  BY DEF Ranked, PlaceIn
<1>4. S = 1 .. n  OBVIOUS
<1> HIDE DEF S
<1>5. Ranked(R) = [k \in 1 .. n |-> PlaceIn(R, 1 .. n, k)]  BY <1>3, <1>4
<1> QED  BY <1>2, <1>5

\* Larger keys first, and of equal ones the earlier.
ByKey(rank, n) ==
    {p \in (1 .. n) \X (1 .. n) : rank[p[1]] > rank[p[2]] \/ (rank[p[1]] = rank[p[2]] /\ p[1] < p[2])}

LEMMA RankedByKey ==
    ASSUME NEW n \in Nat, DOMAIN facts = 1 .. n, NEW rank \in [1 .. n -> Int]
    PROVE  Ranked(ByKey(rank, n)) \in [1 .. n -> 1 .. n]
<1> DEFINE R == ByKey(rank, n)
<1>1. \A x, y \in 1 .. n : <<x, y>> \in R <=> (rank[x] > rank[y] \/ (rank[x] = rank[y] /\ x < y))
  BY DEF ByKey
<1>2. \A x \in 1 .. n : rank[x] \in Int  OBVIOUS
<1> HIDE DEF R
<1>3. \A x \in 1 .. n : <<x, x>> \notin R  BY <1>1, <1>2
<1>4. ASSUME NEW x \in 1 .. n, NEW y \in 1 .. n PROVE x = y \/ <<x, y>> \in R \/ <<y, x>> \in R
  <2>1. PICK a \in Int, b \in Int : a = rank[x] /\ b = rank[y]  BY <1>2
  <2>2. a > b \/ b > a \/ (a = b /\ (x < y \/ y < x \/ x = y))  BY <2>1
  <2> QED  BY <1>1, <2>1, <2>2
<1>5. ASSUME NEW x \in 1 .. n, NEW y \in 1 .. n, NEW z \in 1 .. n, <<x, y>> \in R, <<y, z>> \in R
      PROVE  <<x, z>> \in R
  <2>1. PICK a \in Int, b \in Int, c \in Int : a = rank[x] /\ b = rank[y] /\ c = rank[z]  BY <1>2
  <2>2. (a > b \/ (a = b /\ x < y)) /\ (b > c \/ (b = c /\ y < z))  BY <1>1, <1>5, <2>1
  <2>3. a > c \/ (a = c /\ x < z)  BY <2>2
  <2> QED  BY <1>1, <2>1, <2>3
<1>6. LinesUp(R, 1 .. n)  BY <1>3, <1>4, <1>5 DEF LinesUp
<1>7. Ranked(R) \in [1 .. n -> 1 .. n]  BY <1>6, RankedIs
<1> QED  BY <1>7 DEF R

LEMMA LongestFirstIs ==
    ASSUME NEW n \in Nat, DOMAIN facts = 1 .. n, \A i \in 1 .. n : facts[i] \in BackedFacts
    PROVE  LongestFirst \in [1 .. n -> 1 .. n]
<1> DEFINE rank == [i \in 1 .. n |-> Cardinality(facts[i].statement)]
<1>1. ASSUME NEW i \in 1 .. n PROVE Cardinality(facts[i].statement) \in Int
  <2>1. facts[i].statement \in SUBSET Phrases /\ IsFiniteSet(Phrases)
    BY FactsAssumption DEF BackedFacts, FactRecords
  <2>2. Cardinality(facts[i].statement) \in Nat  BY <2>1, FS_Subset, FS_CardinalityType
  <2> QED  BY <2>2
<1>2. rank \in [1 .. n -> Int]  BY <1>1
<1>3. LongestFirst = Ranked(ByKey(rank, n))
  <2>1. Pairs = (1 .. n) \X (1 .. n)  BY DEF Pairs
  <2>2. \A p \in Pairs : /\ rank[p[1]] = Cardinality(facts[p[1]].statement)
                         /\ rank[p[2]] = Cardinality(facts[p[2]].statement)
    BY <2>1
  <2> HIDE DEF rank
  <2>3. {p \in Pairs : \/ Cardinality(facts[p[1]].statement) > Cardinality(facts[p[2]].statement)
                       \/ Cardinality(facts[p[1]].statement) = Cardinality(facts[p[2]].statement) /\ p[1] < p[2]}
        = ByKey(rank, n)
    BY <2>1, <2>2 DEF ByKey
  <2> QED  BY <2>3 DEF LongestFirst
<1> HIDE DEF rank
<1> QED  BY <1>2, <1>3, RankedByKey
\* Of two facts one outweighs the other, unless they weigh the same.
LEMMA OutweighsIs ==
    ASSUME NEW f, NEW other
    PROVE  Outweighs(f, other) <=>
              \/ Weighs(f)[1] > Weighs(other)[1]
              \/ Weighs(f)[1] = Weighs(other)[1] /\ Weighs(f)[2] > Weighs(other)[2]
              \/ Weighs(f)[1] = Weighs(other)[1] /\ Weighs(f)[2] = Weighs(other)[2] /\ Weighs(f)[3] > Weighs(other)[3]
<1>1. 1 .. 3 = {1, 2, 3} /\ 1 .. 1 - 1 = {} /\ 1 .. 2 - 1 = {1} /\ 1 .. 3 - 1 = {1, 2}  OBVIOUS
<1> QED  BY <1>1, Zenon DEF Outweighs

LEMMA WeighsAre ==
    ASSUME NEW f \in BackedFacts
    PROVE  Weighs(f)[1] \in Int /\ Weighs(f)[2] \in Int /\ Weighs(f)[3] \in Int
<1>1. f \in FactRecords  BY DEF BackedFacts
<1>2. f.importance \in {"high", "medium", "low"} /\ f.ask \in Int /\ f.statement \in SUBSET Phrases
  BY <1>1 DEF FactRecords
<1>3. ImportanceValue[f.importance] \in Int  BY <1>2 DEF ImportanceValue
<1>4. Cardinality(f.statement) \in Nat
  <2>1. IsFiniteSet(Phrases)  BY FactsAssumption
  <2> QED  BY <1>2, <2>1, FS_Subset, FS_CardinalityType
<1> QED  BY <1>2, <1>3, <1>4 DEF Weighs

\* Three numbers that decide one after the other, and then the place.
ComesBefore(a, b, c, i, d, e, f, j) ==
    \/ a > d \/ (a = d /\ b > e) \/ (a = d /\ b = e /\ c > f)
    \/ (a = d /\ b = e /\ c = f /\ i < j)

LEMMA WeightiestFirstIs ==
    ASSUME NEW n \in Nat, DOMAIN facts = 1 .. n, \A i \in 1 .. n : facts[i] \in BackedFacts
    PROVE  WeightiestFirst \in [1 .. n -> 1 .. n]
<1> DEFINE w(i) == Weighs(facts[i])
           R == {p \in Pairs : \/ Outweighs(facts[p[1]], facts[p[2]])
                               \/ ~Outweighs(facts[p[2]], facts[p[1]]) /\ p[1] < p[2]}
           Comes(i, j) == ComesBefore(w(i)[1], w(i)[2], w(i)[3], i, w(j)[1], w(j)[2], w(j)[3], j)
<1>1. \A i \in 1 .. n : i \in Int /\ w(i)[1] \in Int /\ w(i)[2] \in Int /\ w(i)[3] \in Int  BY WeighsAre
<1>2. ASSUME NEW i \in 1 .. n, NEW j \in 1 .. n PROVE <<i, j>> \in R <=> Comes(i, j)
  <2>1. Outweighs(facts[i], facts[j]) <=>
              \/ w(i)[1] > w(j)[1]
              \/ w(i)[1] = w(j)[1] /\ w(i)[2] > w(j)[2]
              \/ w(i)[1] = w(j)[1] /\ w(i)[2] = w(j)[2] /\ w(i)[3] > w(j)[3]
    BY OutweighsIs
  <2>2. Outweighs(facts[j], facts[i]) <=>
              \/ w(j)[1] > w(i)[1]
              \/ w(j)[1] = w(i)[1] /\ w(j)[2] > w(i)[2]
              \/ w(j)[1] = w(i)[1] /\ w(j)[2] = w(i)[2] /\ w(j)[3] > w(i)[3]
    BY OutweighsIs
  <2>3. <<i, j>> \in R <=> (Outweighs(facts[i], facts[j]) \/ (~Outweighs(facts[j], facts[i]) /\ i < j))
    BY DEF Pairs
  <2> HIDE DEF w, R
  <2>4. PICK a \in Int, b \in Int, c \in Int : a = w(i)[1] /\ b = w(i)[2] /\ c = w(i)[3]  BY <1>1
  <2>5. PICK d \in Int, e \in Int, f \in Int : d = w(j)[1] /\ e = w(j)[2] /\ f = w(j)[3]  BY <1>1
  <2> QED  BY <2>1, <2>2, <2>3, <2>4, <2>5 DEF ComesBefore
<1>3. WeightiestFirst = Ranked(R)  BY DEF WeightiestFirst
<1> HIDE DEF w, R
<1>4. LinesUp(R, 1 .. n)
  <2>1. \A i \in 1 .. n : ~Comes(i, i)  BY <1>1 DEF ComesBefore
  <2>2. ASSUME NEW i \in 1 .. n, NEW j \in 1 .. n PROVE i = j \/ Comes(i, j) \/ Comes(j, i)
    <3>1. PICK a \in Int, b \in Int, c \in Int : a = w(i)[1] /\ b = w(i)[2] /\ c = w(i)[3]  BY <1>1
    <3>2. PICK d \in Int, e \in Int, f \in Int : d = w(j)[1] /\ e = w(j)[2] /\ f = w(j)[3]  BY <1>1
    <3> QED  BY <3>1, <3>2 DEF ComesBefore
  <2>3. ASSUME NEW i \in 1 .. n, NEW j \in 1 .. n, NEW k \in 1 .. n, Comes(i, j), Comes(j, k) PROVE Comes(i, k)
    <3>1. PICK a \in Int, b \in Int, c \in Int : a = w(i)[1] /\ b = w(i)[2] /\ c = w(i)[3]  BY <1>1
    <3>2. PICK d \in Int, e \in Int, f \in Int : d = w(j)[1] /\ e = w(j)[2] /\ f = w(j)[3]  BY <1>1
    <3>3. PICK p \in Int, q \in Int, r \in Int : p = w(k)[1] /\ q = w(k)[2] /\ r = w(k)[3]  BY <1>1
    <3>4. ComesBefore(a, b, c, i, d, e, f, j) /\ ComesBefore(d, e, f, j, p, q, r, k)  BY <2>3, <3>1, <3>2, <3>3
    <3>5. ComesBefore(a, b, c, i, p, q, r, k)  BY <3>4 DEF ComesBefore
    <3> QED  BY <3>1, <3>3, <3>5
  <2> HIDE DEF Comes
  <2> QED  BY <1>2, <2>1, <2>2, <2>3 DEF LinesUp
<1> QED  BY <1>3, <1>4, RankedIs

LEMMA MergedIs ==
    ASSUME NEW n \in Nat, DOMAIN facts = 1 .. n, \A i \in 1 .. n : facts[i] \in BackedFacts
    PROVE  /\ Merged \in DistinctFacts
           /\ n # 0 /\ (\A i \in 1 .. n : StatementKey(facts[i].statement) # {}) => Merged # <<>>
<1> DEFINE T == DistinctFacts
<1>1. LongestFirst \in [1 .. n -> 1 .. n]  BY LongestFirstIs
<1>2. DOMAIN LongestFirst = 1 .. n /\ \A k \in 1 .. n : facts[LongestFirst[k]] \in BackedFacts  BY <1>1
<1>3. <<>> \in T  BY EmptySeq DEF DistinctFacts
<1>4. ASSUME NEW v \in T, NEW k \in 1 .. n
      PROVE  /\ MergedOne(v, facts[LongestFirst[k]]) \in T
             /\ StatementKey(facts[LongestFirst[k]].statement) # {} => MergedOne(v, facts[LongestFirst[k]]) # <<>>
  <2> DEFINE f == facts[LongestFirst[k]]
             repeated == {place \in DOMAIN v : Repeats(v[place], f)}
  <2>1. f \in BackedFacts  BY <1>2
  <2> HIDE DEF f
  <2>2. repeated \in SUBSET DOMAIN v  OBVIOUS
  <2>3. \A place \in DOMAIN v : v[place].statement = f.statement => place \in repeated  BY DEF Repeats
  <2> HIDE DEF repeated
  <2>4. MergedInto(v, f, repeated) \in DistinctFacts /\ MergedInto(v, f, repeated) # <<>>
    BY <2>1, <2>2, <2>3, MergedIntoIs
  <2>5. MergedOne(v, f) = IF StatementKey(f.statement) = {} THEN v ELSE MergedInto(v, f, repeated)
    BY DEF MergedOne, repeated
  <2>6. MergedOne(v, f) \in T /\ (StatementKey(f.statement) # {} => MergedOne(v, f) # <<>>)  BY <2>4, <2>5
  <2> QED  BY <2>6 DEF f
<1> HIDE DEF T
<1>5. MergedStays(T, n)  BY <1>4 DEF MergedStays
<1>6. PICK c \in [0 .. n -> T] :
         /\ \A k \in 1 .. n : c[k] = MergedOne(c[k - 1], facts[LongestFirst[k]])
         /\ Merged = c[n]
  BY <1>2, <1>3, <1>5, MergedChain
<1>7. ASSUME n # 0, \A i \in 1 .. n : StatementKey(facts[i].statement) # {} PROVE Merged # <<>>
  <2>1. n \in 1 .. n /\ n - 1 \in 0 .. n  BY <1>7
  <2>2. PICK v \in T : v = c[n - 1]  BY <2>1
  <2>3. StatementKey(facts[LongestFirst[n]].statement) # {}  BY <1>1, <1>7, <2>1
  <2> QED  BY <1>4, <1>6, <2>1, <2>2, <2>3
<1>8. Merged \in T  BY <1>6
<1> QED  BY <1>7, <1>8 DEF T

LEMMA SimilarIs ==
    ASSUME NEW n \in Nat, DOMAIN facts = 1 .. n, \A i \in 1 .. n : facts[i] \in BackedFacts
    PROVE  SemanticMerged \in DistinctFacts /\ (n # 0 => SemanticMerged # <<>>)
<1> DEFINE T == DistinctFacts
<1>1. WeightiestFirst \in [1 .. n -> 1 .. n]  BY WeightiestFirstIs
<1>2. DOMAIN WeightiestFirst = 1 .. n /\ \A k \in 1 .. n : facts[WeightiestFirst[k]] \in BackedFacts  BY <1>1
<1>3. <<>> \in T  BY EmptySeq DEF DistinctFacts
<1>4. ASSUME NEW v \in T, NEW k \in 1 .. n
      PROVE  SimilarOne(v, facts[WeightiestFirst[k]]) \in T /\ SimilarOne(v, facts[WeightiestFirst[k]]) # <<>>
  <2> DEFINE f == facts[WeightiestFirst[k]]
             repeated == {place \in DOMAIN v : Topic(v[place].statement) = Topic(f.statement)}
  <2>1. f \in BackedFacts  BY <1>2
  <2> HIDE DEF f
  <2>2. repeated \in SUBSET DOMAIN v  OBVIOUS
  <2>3. \A place \in DOMAIN v : v[place].statement = f.statement => place \in repeated  OBVIOUS
  <2> HIDE DEF repeated
  <2>4. MergedInto(v, f, repeated) \in DistinctFacts /\ MergedInto(v, f, repeated) # <<>>
    BY <2>1, <2>2, <2>3, MergedIntoIs
  <2> QED  BY <2>4 DEF f, repeated, SimilarOne
<1> HIDE DEF T
<1>5. SimilarStays(T, n)  BY <1>4 DEF SimilarStays
<1>6. PICK c \in [0 .. n -> T] :
         /\ \A k \in 1 .. n : c[k] = SimilarOne(c[k - 1], facts[WeightiestFirst[k]])
         /\ SemanticMerged = c[n]
  BY <1>2, <1>3, <1>5, SimilarChain
<1>7. ASSUME n # 0 PROVE SemanticMerged # <<>>
  <2>1. n \in 1 .. n /\ n - 1 \in 0 .. n  BY <1>7
  <2>2. PICK v \in T : v = c[n - 1]  BY <2>1
  <2> QED  BY <1>4, <1>6, <2>1, <2>2
<1>8. SemanticMerged \in T  BY <1>6
<1> QED  BY <1>7, <1>8 DEF T

\* A calibrated fact is backed as it was.
LEMMA CalibratedIs ==
    ASSUME NEW f \in BackedFacts
    PROVE  /\ [f EXCEPT !.importance = CalibratedImportance(f)] \in BackedFacts
           /\ Usefulness([f EXCEPT !.importance = CalibratedImportance(f)]) \in Int
<1> DEFINE g == [f EXCEPT !.importance = CalibratedImportance(f)]
<1>1. f \in FactRecords /\ Backed(f.quote, f.sources) /\ f.importance \in {"high", "medium", "low"}
  BY DEF BackedFacts, FactRecords
<1>2. CalibratedImportance(f) \in {"high", "medium", "low"}
  <2> DEFINE texts == TextsOf(f)
             justified == f.kind \in {"grading", "late_work", "attendance", "accommodation", "policy", "exam"}
                          \/ Consequence(texts)
             routine == f.kind = "tools" \/ (f.kind = "deadline" /\ f.scope = "assignment_specific")
             given == IF f.importance = "high" /\ (routine \/ ~justified)
                      THEN "medium" ELSE f.importance
             resource == f.scope = "resource" \/ f.kind = "resource"
  <2>1. given \in {"high", "medium", "low"}  BY <1>1
  <2>2. CalibratedImportance(f) = IF IsPolicy(texts) THEN "high"
                                  ELSE IF resource THEN IF Consequence(texts) THEN "medium" ELSE "low"
                                  ELSE given
    <3> HIDE DEF texts
    <3>1. CASE IsPolicy(texts)
      BY <3>1 DEF CalibratedImportance, texts
    <3>2. CASE ~IsPolicy(texts) /\ resource
      BY <3>2 DEF CalibratedImportance, texts
    <3>3. CASE ~IsPolicy(texts) /\ ~resource
      BY <3>3 DEF CalibratedImportance, texts
    <3> QED  BY <3>1, <3>2, <3>3
  <2> HIDE DEF texts, given, resource
  <2> QED  BY <2>1, <2>2
<1>3. g \in FactRecords /\ g.quote = f.quote /\ g.sources = f.sources
  BY <1>1, <1>2 DEF FactRecords
<1> HIDE DEF g
<1>4. g \in BackedFacts  BY <1>1, <1>3 DEF BackedFacts
<1>5. Usefulness(g) \in Int
  <2>1. ImportanceValue[g.importance] \in Int /\ g.ask \in Int /\ g.complexity \in Int
    BY <1>3 DEF FactRecords, ImportanceValue
  <2> DEFINE more == Adjustment(TextsOf(g))
             less == IF g.scope = "resource" THEN 1500 ELSE 0
             most == Smaller(10, 3 * (g.complexity - 1))
             sum == 55 * ImportanceValue[g.importance] + 35 * g.ask + 100 * most + more - less
  <2>2. more \in Int /\ less \in Int  BY DEF Adjustment
  <2>3. most \in Int
    <3>1. PICK c \in Int : c = g.complexity  BY <2>1
    <3> QED  BY <3>1 DEF Smaller
  <2>4. Usefulness(g) = Larger(0, Smaller(10000, sum))  BY DEF Usefulness
  <2> HIDE DEF more, less, most
  <2>5. sum \in Int
    <3>1. PICK a \in Int, b \in Int, c \in Int : a = ImportanceValue[g.importance] /\ b = g.ask /\ c = most
      BY <2>1, <2>3
    <3>2. 55 * a + 35 * b + 100 * c + more - less \in Int  BY <2>2
    <3> QED  BY <3>1, <3>2
  <2> HIDE DEF sum
  <2> QED  BY <2>4, <2>5 DEF Larger, Smaller
<1> QED  BY <1>4, <1>5 DEF g

LEMMA FinalizeIs ==
    ASSUME NEW n \in Nat, DOMAIN facts = 1 .. n, Len(facts) = n, \A i \in 1 .. n : facts[i] \in BackedFacts
    PROVE  [i \in 1 .. Smaller(MaxFacts, Len(facts)) |-> CalibratedFacts[MostUsefulFirst[i]]] \in Seq(BackedFacts)
<1> DEFINE rank == [i \in 1 .. n |-> Usefulness(CalibratedFacts[i])]
<1>1. \A i \in 1 .. n : CalibratedFacts[i] \in BackedFacts /\ Usefulness(CalibratedFacts[i]) \in Int
  BY CalibratedIs DEF CalibratedFacts
<1>2. rank \in [1 .. n -> Int]  BY <1>1
<1>3. MostUsefulFirst = Ranked(ByKey(rank, n))
  <2>1. Pairs = (1 .. n) \X (1 .. n)  BY DEF Pairs
  <2>2. \A p \in Pairs : /\ rank[p[1]] = Usefulness(CalibratedFacts[p[1]])
                         /\ rank[p[2]] = Usefulness(CalibratedFacts[p[2]])
    BY <2>1
  <2> HIDE DEF rank
  <2>3. {p \in Pairs : \/ Usefulness(CalibratedFacts[p[1]]) > Usefulness(CalibratedFacts[p[2]])
                       \/ Usefulness(CalibratedFacts[p[1]]) = Usefulness(CalibratedFacts[p[2]]) /\ p[1] < p[2]}
        = ByKey(rank, n)
    BY <2>1, <2>2 DEF ByKey
  <2> QED  BY <2>3 DEF MostUsefulFirst
<1> HIDE DEF rank
<1>4. MostUsefulFirst \in [1 .. n -> 1 .. n]  BY <1>2, <1>3, RankedByKey
<1> DEFINE m == Smaller(MaxFacts, Len(facts))
<1>5. m \in Nat /\ m <= n
  <2>1. PICK most \in Nat : most = MaxFacts  BY FactsAssumption
  <2> QED  BY <2>1 DEF Smaller
<1> HIDE DEF m
<1>6. \A i \in 1 .. m : CalibratedFacts[MostUsefulFirst[i]] \in BackedFacts  BY <1>1, <1>4, <1>5
<1> DEFINE out == [i \in 1 .. m |-> CalibratedFacts[MostUsefulFirst[i]]]
<1>7. out \in [1 .. m -> BackedFacts]  BY <1>6
<1>8. out \in Seq(BackedFacts)
  <2> HIDE DEF out
  <2> QED  BY <1>5, <1>7, SequenceOf
<1> QED  BY <1>8 DEF m

---------------------------------------------------------------------------
(* The inventory, step by step.                                            *)

InventoryTypes ==
    /\ syllabus \in Syllabi
    /\ stage \in {"extract", "merge", "semantic", "finalize", "done"}
    /\ batch \in Nat /\ report \in [Outcomes -> Nat]
    /\ stage \in {"extract", "merge"} => ~unkeyed

\* Until they are merged, facts say no more than their quotes.
FactsKept ==
    /\ facts \in Seq(BackedFacts)
    /\ stage \in {"extract", "merge"} => facts \in Seq(PlainFacts)

BatchesCounted == report.ok + report.empty + report.parse_failed + report.call_failed = batch - 1
SentencesGiveFacts ==
    stage \in {"merge", "semantic", "finalize"} /\ ~unkeyed /\ (\E i \in DOMAIN syllabus : Telling(syllabus[i].sentences))
       => facts # <<>>
PoliciesCovered ==
    stage = "merge" => \A i \in DOMAIN Sentences : Salvageable(Sentences[i].text) => Covered(facts, Sentences[i].text)
NoTwoAlike == stage \in {"semantic", "finalize"} => facts \in DistinctFacts

InventoryInv ==
    InventoryTypes /\ FactsKept /\ BatchesCounted /\ SentencesGiveFacts /\ PoliciesCovered /\ NoTwoAlike

LEMMA PlainAreBacked == Seq(PlainFacts) \subseteq Seq(BackedFacts)
<1>1. PlainFacts \subseteq BackedFacts  BY DEF PlainFacts
<1> HIDE DEF PlainFacts, BackedFacts
<1> QED  BY <1>1, SeqWider

\* The invariant is enough.
LEMMA InventoryIsSafe == InventoryInv => FactSafety
<1> SUFFICES ASSUME InventoryInv PROVE FactSafety  OBVIOUS
<1>1. BatchesCoverTheSyllabus  BY BatchesCover DEF InventoryInv, InventoryTypes
<1>2. FactsAreEvidenced
  <2>1. ASSUME NEW i \in DOMAIN facts
        PROVE  /\ facts[i].sources # {} /\ facts[i].sources \subseteq Ids
               /\ \E id \in facts[i].sources : facts[i].quote \subseteq TextOf(Chunk(id))
               /\ stage \in {"extract", "merge"} => SaysNoMore(facts[i])
    <3>1. facts[i] \in BackedFacts  BY LenProperties, ElementOfSeq DEF InventoryInv, FactsKept
    <3>2. ASSUME stage \in {"extract", "merge"} PROVE facts[i] \in PlainFacts
      BY <3>2, LenProperties, ElementOfSeq DEF InventoryInv, FactsKept
    <3> QED  BY <3>1, <3>2 DEF BackedFacts, PlainFacts, Backed
  <2> QED  BY <2>1 DEF FactsAreEvidenced, SaysNoMore
<1>3. NothingIsLostSilently
  BY DEF InventoryInv, BatchesCounted, SentencesGiveFacts, PoliciesCovered, NoTwoAlike, DistinctFacts,
         NothingIsLostSilently
<1> QED  BY <1>1, <1>2, <1>3 DEF FactSafety

LEMMA InventoryStarts == InventoryInit => InventoryInv
<1> SUFFICES ASSUME InventoryInit PROVE InventoryInv  OBVIOUS
<1>1. syllabus \in Syllabi /\ stage = "extract" /\ batch = 1 /\ report = [o \in Outcomes |-> 0] /\ facts = <<>>
      /\ unkeyed = FALSE
  BY DEF InventoryInit
<1>2. InventoryTypes  BY <1>1 DEF InventoryTypes
<1>3. FactsKept  BY <1>1, EmptySeq DEF FactsKept
<1>4. BatchesCounted
  <2>1. {"ok", "empty", "parse_failed", "call_failed"} = Outcomes  BY DEF Outcomes
  <2>2. report.ok = 0 /\ report.empty = 0 /\ report.parse_failed = 0 /\ report.call_failed = 0  BY <1>1, <2>1
  <2> QED  BY <1>1, <2>2 DEF BatchesCounted
<1>5. SentencesGiveFacts /\ PoliciesCovered /\ NoTwoAlike
  BY <1>1 DEF SentencesGiveFacts, PoliciesCovered, NoTwoAlike
<1> QED  BY <1>2, <1>3, <1>4, <1>5 DEF InventoryInv

\* While the syllabus is the same, so is what facts of it may be.
LEMMA BackedStay ==
    ASSUME syllabus' = syllabus
    PROVE  BackedFacts' = BackedFacts /\ PlainFacts' = PlainFacts /\ Sentences' = Sentences
           /\ DistinctFacts' = DistinctFacts
<1>1. BackedFacts' = BackedFacts  BY DEF BackedFacts, FactRecords, Backed, Ids, Chunk, ToSet, TextOf
<1>2. PlainFacts' = PlainFacts  BY <1>1 DEF PlainFacts, SaysNoMore
<1>3. Sentences' = Sentences  BY DEF Sentences
<1>4. DistinctFacts' = DistinctFacts  BY <1>1 DEF DistinctFacts
<1> QED  BY <1>1, <1>2, <1>3, <1>4

\* One more batch has one more outcome.
LEMMA OneMoreOutcome ==
    ASSUME InventoryInv, NEW o \in Outcomes, report' = [report EXCEPT ![o] = @ + 1], batch' = batch + 1
    PROVE  report' \in [Outcomes -> Nat] /\ batch' \in Nat /\ BatchesCounted'
<1>1. report \in [Outcomes -> Nat] /\ batch \in Nat
      /\ report.ok + report.empty + report.parse_failed + report.call_failed = batch - 1
  BY DEF InventoryInv, InventoryTypes, BatchesCounted
<1>2. report' \in [Outcomes -> Nat] /\ batch' \in Nat  BY <1>1
<1>3. PICK a \in Nat, b \in Nat, c \in Nat, d \in Nat :
         a = report.ok /\ b = report.empty /\ c = report.parse_failed /\ d = report.call_failed
  BY <1>1 DEF Outcomes
<1>4. /\ report'.ok = a + IF o = "ok" THEN 1 ELSE 0
      /\ report'.empty = b + IF o = "empty" THEN 1 ELSE 0
      /\ report'.parse_failed = c + IF o = "parse_failed" THEN 1 ELSE 0
      /\ report'.call_failed = d + IF o = "call_failed" THEN 1 ELSE 0
  BY <1>1, <1>3 DEF Outcomes
<1>5. report'.ok + report'.empty + report'.parse_failed + report'.call_failed = a + b + c + d + 1
  BY <1>4 DEF Outcomes
<1>6. BatchesCounted'  BY <1>1, <1>3, <1>5 DEF BatchesCounted
<1> QED  BY <1>2, <1>6

LEMMA ExtractKeepsFacts ==
    ASSUME InventoryInv, NEW said \in RawFacts, ExtractBatch(said)
    PROVE  InventoryInv'
<1> DEFINE good == UsableFacts(said)
<1>1. /\ stage = "extract" /\ syllabus' = syllabus /\ stage' = stage /\ batch' = batch + 1 /\ unkeyed' = unkeyed
      /\ facts' = facts \o good
      /\ report' = [report EXCEPT ![IF good = <<>> THEN "empty" ELSE "ok"] = @ + 1]
  BY DEF ExtractBatch
<1>2. syllabus \in Syllabi /\ facts \in Seq(PlainFacts)  BY <1>1 DEF InventoryInv, InventoryTypes, FactsKept
<1>3. good \in Seq(PlainFacts)  BY <1>2, UsableAre
<1> HIDE DEF good
<1>4. (IF good = <<>> THEN "empty" ELSE "ok") \in Outcomes  BY DEF Outcomes
<1>5. report' \in [Outcomes -> Nat] /\ batch' \in Nat /\ BatchesCounted'  BY <1>1, <1>4, OneMoreOutcome
<1>6. InventoryTypes'  BY <1>1, <1>2, <1>5 DEF InventoryInv, InventoryTypes
<1>7. facts' \in Seq(PlainFacts)
  <2> HIDE DEF PlainFacts
  <2> QED  BY <1>1, <1>2, <1>3, ConcatProperties
<1>8. FactsKept'
  <2>1. facts' \in Seq(PlainFacts') /\ facts' \in Seq(BackedFacts')  BY <1>1, <1>7, BackedStay, PlainAreBacked
  <2> QED  BY <2>1 DEF FactsKept
<1>9. (SentencesGiveFacts /\ PoliciesCovered /\ NoTwoAlike)'
  <2>1. stage' = "extract"  BY <1>1
  <2> QED  BY <2>1 DEF SentencesGiveFacts, PoliciesCovered, NoTwoAlike
<1> QED  BY <1>5, <1>6, <1>8, <1>9 DEF InventoryInv

LEMMA FailureKeepsFacts ==
    ASSUME InventoryInv, NEW why \in {"parse_failed", "call_failed"}, BatchFails(why)
    PROVE  InventoryInv'
<1>1. /\ stage = "extract" /\ syllabus' = syllabus /\ stage' = stage /\ batch' = batch + 1 /\ facts' = facts
      /\ unkeyed' = unkeyed
      /\ report' = [report EXCEPT ![why] = @ + 1]
  BY DEF BatchFails
<1>2. why \in Outcomes  BY DEF Outcomes
<1>3. report' \in [Outcomes -> Nat] /\ batch' \in Nat /\ BatchesCounted'  BY <1>1, <1>2, OneMoreOutcome
<1>4. InventoryTypes'  BY <1>1, <1>3 DEF InventoryInv, InventoryTypes
<1>5. FactsKept'
  <2>1. facts' \in Seq(PlainFacts') /\ facts' \in Seq(BackedFacts')
    BY <1>1, BackedStay DEF InventoryInv, FactsKept
  <2> QED  BY <2>1 DEF FactsKept
<1>6. (SentencesGiveFacts /\ PoliciesCovered /\ NoTwoAlike)'
  <2>1. stage' = "extract"  BY <1>1
  <2> QED  BY <2>1 DEF SentencesGiveFacts, PoliciesCovered, NoTwoAlike
<1> QED  BY <1>3, <1>4, <1>5, <1>6 DEF InventoryInv

\* A syllabus without chunks has nothing a fact could be backed by.
LEMMA NothingBacked ==
    ASSUME syllabus = <<>>, NEW v \in Seq(PlainFacts)
    PROVE  v \in DistinctFacts
<1>1. Ids = {}
  <2>1. ToSet(syllabus) = {}
    <3>1. DOMAIN <<>> = {}  OBVIOUS
    <3> QED  BY <3>1 DEF ToSet
  <2> QED  BY <2>1 DEF Ids
<1>2. \A f \in BackedFacts : FALSE  BY <1>1 DEF BackedFacts, Backed
<1>3. v \in Seq(BackedFacts)  BY PlainAreBacked
<1>4. \A i \in DOMAIN v : v[i] \in BackedFacts  BY <1>3, LenProperties, ElementOfSeq
<1> QED  BY <1>2, <1>3, <1>4 DEF DistinctFacts

LEMMA SalvageKeepsFacts ==
    ASSUME InventoryInv, Salvage
    PROVE  InventoryInv'
<1> DEFINE old == IF facts = <<>> THEN FallbackFacts ELSE facts
           new == old \o Salvaged(old)
<1>1. /\ stage = "extract" /\ syllabus' = syllabus /\ batch' = batch /\ report' = report /\ unkeyed' = unkeyed
      /\ facts' = new /\ stage' = IF syllabus = <<>> THEN "finalize" ELSE "merge"
  BY DEF Salvage
<1>2. syllabus \in Syllabi /\ facts \in Seq(PlainFacts)  BY <1>1 DEF InventoryInv, InventoryTypes, FactsKept
<1>3. old \in Seq(PlainFacts)  BY <1>2, FallbackAre
<1>4. (\E i \in DOMAIN syllabus : Telling(syllabus[i].sentences)) => old # <<>>  BY <1>2, FallbackAre
<1> HIDE DEF old
<1>5. /\ Salvaged(old) \in Seq(PlainFacts)
      /\ \A i \in DOMAIN Sentences : Salvageable(Sentences[i].text) => Covered(new, Sentences[i].text)
  BY <1>2, <1>3, SalvagedAre
<1>6. new \in Seq(PlainFacts) /\ (old # <<>> => new # <<>>)
  <2> HIDE DEF PlainFacts
  <2> QED  BY <1>3, <1>5, ConcatProperties, ConcatEqualIffEmpty
<1> HIDE DEF new
<1>7. InventoryTypes'  BY <1>1 DEF InventoryInv, InventoryTypes
<1>8. FactsKept'
  <2>1. facts' \in Seq(PlainFacts') /\ facts' \in Seq(BackedFacts')  BY <1>1, <1>6, BackedStay, PlainAreBacked
  <2> QED  BY <2>1 DEF FactsKept
<1>9. BatchesCounted'  BY <1>1 DEF InventoryInv, BatchesCounted
<1>10. SentencesGiveFacts'  BY <1>1, <1>4, <1>6 DEF SentencesGiveFacts
<1>11. PoliciesCovered'  BY <1>1, <1>5, BackedStay DEF PoliciesCovered
<1>12. NoTwoAlike'
  <2>1. stage' \in {"semantic", "finalize"} => new \in DistinctFacts  BY <1>1, <1>6, NothingBacked
  <2> QED  BY <1>1, <2>1, BackedStay DEF NoTwoAlike
<1> QED  BY <1>7, <1>8, <1>9, <1>10, <1>11, <1>12 DEF InventoryInv

\* What the merges work on.
LEMMA FactsInLine ==
    ASSUME InventoryInv
    PROVE  \E n \in Nat : /\ DOMAIN facts = 1 .. n /\ Len(facts) = n /\ \A i \in 1 .. n : facts[i] \in BackedFacts
                          /\ (facts # <<>> => n # 0)
<1>1. facts \in Seq(BackedFacts)  BY DEF InventoryInv, FactsKept
<1> HIDE DEF BackedFacts
<1>2. PICK n \in Nat : n = Len(facts) /\ DOMAIN facts = 1 .. n /\ \A i \in 1 .. n : facts[i] \in BackedFacts
  BY <1>1, LenProperties, ElementOfSeq
<1>3. facts # <<>> => n # 0  BY <1>1, <1>2, EmptySeq
<1> QED  BY <1>2, <1>3

\* A step that leaves only distinct facts, and some if there were some.
LEMMA MergingKeepsFacts ==
    ASSUME InventoryInv, facts' \in DistinctFacts, facts # <<>> /\ ~unkeyed' => facts' # <<>>,
           ~unkeyed' => ~unkeyed,
           syllabus' = syllabus, batch' = batch, report' = report,
           \/ stage = "merge" /\ stage' = "semantic"
           \/ stage = "semantic" /\ stage' = "finalize"
    PROVE  InventoryInv'
<1>1. InventoryTypes'  BY DEF InventoryInv, InventoryTypes
<1>2. FactsKept'
  <2>1. facts' \in Seq(BackedFacts')  BY BackedStay DEF DistinctFacts
  <2> QED  BY <2>1 DEF FactsKept
<1>3. BatchesCounted'  BY DEF InventoryInv, BatchesCounted
<1>4. SentencesGiveFacts'  BY DEF InventoryInv, SentencesGiveFacts
<1>5. PoliciesCovered'  BY DEF PoliciesCovered
<1>6. NoTwoAlike'  BY BackedStay DEF NoTwoAlike
<1> QED  BY <1>1, <1>2, <1>3, <1>4, <1>5, <1>6 DEF InventoryInv

LEMMA FinalizeKeepsFacts ==
    ASSUME InventoryInv, FinalizeInventory
    PROVE  InventoryInv'
<1>1. /\ stage' = "done" /\ syllabus' = syllabus /\ batch' = batch /\ report' = report
      /\ facts' = [i \in 1 .. Smaller(MaxFacts, Len(facts)) |-> CalibratedFacts[MostUsefulFirst[i]]]
  BY DEF FinalizeInventory
<1>2. facts' \in Seq(BackedFacts)  BY <1>1, FactsInLine, FinalizeIs
<1>3. InventoryTypes'  BY <1>1 DEF InventoryInv, InventoryTypes
<1>4. FactsKept'
  <2>1. facts' \in Seq(BackedFacts')  BY <1>1, <1>2, BackedStay
  <2> QED  BY <1>1, <2>1 DEF FactsKept
<1>5. BatchesCounted'  BY <1>1 DEF InventoryInv, BatchesCounted
<1>6. (SentencesGiveFacts /\ PoliciesCovered /\ NoTwoAlike)'
  BY <1>1 DEF SentencesGiveFacts, PoliciesCovered, NoTwoAlike
<1> QED  BY <1>3, <1>4, <1>5, <1>6 DEF InventoryInv

LEMMA InventoryGoesOn == InventoryInv /\ [InventoryNext]_inventoryVars => InventoryInv'
<1> SUFFICES ASSUME InventoryInv, [InventoryNext]_inventoryVars PROVE InventoryInv'  OBVIOUS
<1>1. CASE \E said \in RawFacts : ExtractBatch(said)  BY <1>1, ExtractKeepsFacts
<1>2. CASE \E why \in {"parse_failed", "call_failed"} : BatchFails(why)  BY <1>2, FailureKeepsFacts
<1>3. CASE Salvage  BY <1>3, SalvageKeepsFacts
<1>4. CASE Merge
  <2>1. /\ Merged \in DistinctFacts
        /\ facts # <<>> /\ ~(\E i \in DOMAIN facts : StatementKey(facts[i].statement) = {}) => Merged # <<>>
    <3>1. PICK n \in Nat : /\ DOMAIN facts = 1 .. n /\ (facts # <<>> => n # 0)
                           /\ \A i \in 1 .. n : facts[i] \in BackedFacts
      BY FactsInLine
    <3> QED  BY <3>1, MergedIs
  <2>2. /\ stage = "merge" /\ stage' = "semantic" /\ facts' = Merged
        /\ unkeyed' = (\E i \in DOMAIN facts : StatementKey(facts[i].statement) = {})
        /\ syllabus' = syllabus /\ batch' = batch /\ report' = report
    BY <1>4 DEF Merge
  <2>3. facts' \in DistinctFacts /\ (facts # <<>> /\ ~unkeyed' => facts' # <<>>)  BY <2>1, <2>2
  <2>4. ~unkeyed  BY <2>2 DEF InventoryInv, InventoryTypes
  <2> QED  BY <2>2, <2>3, <2>4, MergingKeepsFacts
<1>5. CASE \E embedded \in BOOLEAN : MergeSimilar(embedded)
  <2>1. SemanticMerged \in DistinctFacts /\ (facts # <<>> => SemanticMerged # <<>>)  BY FactsInLine, SimilarIs
  <2>2. /\ stage = "semantic" /\ stage' = "finalize" /\ facts' \in {SemanticMerged, facts}
        /\ unkeyed' = unkeyed /\ syllabus' = syllabus /\ batch' = batch /\ report' = report
    BY <1>5 DEF MergeSimilar
  <2>3. facts \in DistinctFacts  BY <2>2 DEF InventoryInv, NoTwoAlike
  <2>4. facts' \in DistinctFacts /\ (facts # <<>> => facts' # <<>>)  BY <2>1, <2>2, <2>3
  <2> QED  BY <2>2, <2>4, MergingKeepsFacts
<1>6. CASE FinalizeInventory  BY <1>6, FinalizeKeepsFacts
<1>7. CASE UNCHANGED inventoryVars
  <2>1. syllabus' = syllabus /\ stage' = stage /\ batch' = batch /\ report' = report /\ facts' = facts
        /\ unkeyed' = unkeyed
    BY <1>7 DEF inventoryVars
  <2>2. InventoryTypes' /\ BatchesCounted' /\ SentencesGiveFacts'
    BY <2>1 DEF InventoryInv, InventoryTypes, BatchesCounted, SentencesGiveFacts
  <2>3. FactsKept'
    <3>1. facts' \in Seq(BackedFacts')  BY <2>1, BackedStay DEF InventoryInv, FactsKept
    <3>2. stage' \in {"extract", "merge"} => facts' \in Seq(PlainFacts')
      BY <2>1, BackedStay DEF InventoryInv, FactsKept
    <3> QED  BY <3>1, <3>2 DEF FactsKept
  <2>4. PoliciesCovered'  BY <2>1, BackedStay DEF InventoryInv, PoliciesCovered
  <2>5. NoTwoAlike'  BY <2>1, BackedStay DEF InventoryInv, NoTwoAlike
  <2> QED  BY <2>2, <2>3, <2>4, <2>5 DEF InventoryInv
<1> QED  BY <1>1, <1>2, <1>3, <1>4, <1>5, <1>6, <1>7 DEF InventoryNext

\* FactSafety (SyllabusFacts): whatever the model answers and whichever batches fail,
\* the batches cover the syllabus, every fact has a quote that stands in a chunk it
\* names, a syllabus that tells something gives facts that have keys or drops one
\* that has none, and a policy that can be salvaged is covered, as the code means it.
THEOREM FactsAreSafe == InventorySpec => []FactSafety
<1>1. InventoryInit => InventoryInv  BY InventoryStarts
<1>2. InventoryInv /\ [InventoryNext]_inventoryVars => InventoryInv'  BY InventoryGoesOn
<1>3. InventoryInv => FactSafety  BY InventoryIsSafe
<1> QED  BY <1>1, <1>2, <1>3, PTL DEF InventorySpec

=============================================================================
