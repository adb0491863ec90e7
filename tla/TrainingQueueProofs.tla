------------------------ MODULE TrainingQueueProofs ------------------------
(* Proofs about one course's training runs: for any number of handlers,     *)
(* runs, claims and contents of the dataset; and about the course's files   *)
(* that they train on: for any uploads, reviewers, administrators, splits.  *)
EXTENDS TrainingQueue, CourseContent, ListLemmas, FiniteSetTheorems, TLAPS

---------------------------------------------------------------------------
(* The invariant.                                                          *)

\* Runs are numbered as they are queued, without gaps, and the request points
\* at one of them.
RowsInv ==
    /\ Queued = 1..Cardinality(Queued)
    /\ request.current # NoRun => request.current \in Queued

\* Only a queued run is claimed; the claims are counted.
ClaimsInv ==
    /\ \A r \in Runs : tries[r] # <<>> => r \in Queued
    /\ IsFiniteSet(Claims) /\ Cardinality(Claims) <= MaxClaims

\* What a handler is in the middle of concerns a run that exists, and a report one
\* of its claims.
Founded(t, queued, claims) ==
    /\ t.op \in Reports => t.run \in queued /\ t.attempt \in DOMAIN claims[t.run]
    /\ t.op \in {"retry", "point"} => t.run \in queued
    /\ t.op = "enqueue" => t.free = TRUE

TxInv == \A h \in Handlers : Founded(tx[h], Queued, tries)

OneActive == overtaken \/ \A r, s \in Active : r = s

QueueInv == TypeOK /\ RowsInv /\ ClaimsInv /\ TxInv /\ OneActive /\ VersionsAreResults

---------------------------------------------------------------------------
(* Counting.                                                               *)

\* The runs that are queued are finitely many, and the next has a number of its own.
LEMMA NextIsNew ==
    ASSUME RowsInv
    PROVE  /\ Cardinality(Queued) \in Nat /\ NextRun \notin Queued /\ NextRun # NoRun
           /\ Queued \cup {NextRun} = 1..NextRun /\ Cardinality(1..NextRun) = NextRun
<1> DEFINE n == Cardinality(Queued)
<1>1. Queued \subseteq 1..NumRuns /\ IsFiniteSet(1..NumRuns)
  BY BoundsAssumption, FS_Interval DEF Queued, Runs
<1>2. n \in Nat
  BY <1>1, FS_Subset, FS_CardinalityType
<1>3. Queued = 1..n /\ NextRun = 1 + n
  BY DEF RowsInv, NextRun
<1>4. 1 + n \notin 1..n /\ 1..n \cup {1 + n} = 1..1 + n /\ 1 + n # 0
  <2> HIDE DEF n
  <2> QED  BY <1>2
<1>5. Cardinality(1..1 + n) = 1 + n
  <2>1. 1 + n \in Int /\ ~(1 > 1 + n) /\ 1 + n - 1 + 1 = 1 + n
    <3> HIDE DEF n
    <3> QED  BY <1>2
  <2>2. Cardinality(1..1 + n) = IF 1 > 1 + n THEN 0 ELSE 1 + n - 1 + 1
    <3> HIDE DEF n
    <3> QED  BY <2>1, FS_Interval
  <2> QED  BY <2>1, <2>2
<1> HIDE DEF n
<1>6. NextRun \notin Queued /\ NextRun # NoRun
  BY <1>3, <1>4 DEF NoRun
<1>7. Queued \cup {NextRun} = 1..NextRun
  BY <1>3, <1>4
<1>8. Cardinality(1..NextRun) = NextRun
  BY <1>3, <1>5
<1> QED  BY <1>2, <1>6, <1>7, <1>8 DEF n

\* A run has no more claims than are counted.
LEMMA ClaimsBound ==
    ASSUME TypeOK, ClaimsInv, NEW r \in Runs
    PROVE  Len(tries[r]) \in Nat /\ DOMAIN tries[r] = 1..Len(tries[r]) /\ DOMAIN tries[r] \subseteq 1..MaxClaims
<1> DEFINE n == Len(tries[r])
           f == [i \in 1..n |-> <<r, i>>]
<1>1. n \in Nat /\ DOMAIN tries[r] = 1..n
  BY LenProperties DEF TypeOK
<1>2. \A i \in 1..n : <<r, i>> \in Claims
  BY <1>1 DEF Claims
<1>3. f \in Injection(1..n, Claims)
  <2> HIDE DEF n
  <2> QED  BY <1>2 DEF Injection, IsInjective
<1> HIDE DEF f
<1>4. Cardinality(1..n) <= Cardinality(Claims)
  <2> HIDE DEF n
  <2> QED  BY <1>3, FS_Injection DEF ClaimsInv
<1>5. Cardinality(1..n) = n
  <2> HIDE DEF n
  <2>1. n \in Int /\ (1 > n => n = 0) /\ n - 1 + 1 = n
    BY <1>1
  <2>2. Cardinality(1..n) = IF 1 > n THEN 0 ELSE n - 1 + 1
    BY <2>1, FS_Interval
  <2> QED  BY <2>1, <2>2
<1>6. Cardinality(Claims) \in Nat /\ Cardinality(Claims) <= MaxClaims
  BY FS_CardinalityType DEF ClaimsInv
<1>7. n <= MaxClaims
  <2> HIDE DEF n
  <2> QED  BY <1>1, <1>4, <1>5, <1>6, BoundsAssumption
<1>8. 1..n \subseteq 1..MaxClaims
  <2> HIDE DEF n
  <2> QED  BY <1>1, <1>7, BoundsAssumption
<1> QED  BY <1>1, <1>8

---------------------------------------------------------------------------
(* What every step keeps.                                                  *)

TerminalKept ==
    \A r \in Runs : runs[r].state \in Terminal /\ ~overtaken' => runs'[r].state = runs[r].state

RetiredKept ==
    \A r \in Runs : runs[r].state = "failed" /\ ~Contains(versions, r) /\ ~overtaken'
                        => ~Contains(versions', r)

Kept == QueueInv' /\ TerminalKept /\ RetiredKept

\* The history only grows.
Remembers == overtaken' \in BOOLEAN /\ (overtaken => overtaken')

Requests == [status : RequestStates, current : 0..NumRuns]
RequestKept == request' \in Requests /\ (request'.current # NoRun => request'.current \in Queued)

\* What a transaction's record holds.
LEMMA TxTyped ==
    ASSUME NEW t \in Transaction
    PROVE  /\ t.op = "patch" => t.status \in {"requested", "preparing"}
           /\ t.op \in {"enqueue", "retry"} => t.pin \in Digests
           /\ t.op \in {"point", "retry"} \cup Reports => t.run \in Runs
           /\ t.op \in Reports => t.seen \in Seen /\ t.attempt \in 1..MaxClaims
BY DEF Transaction, Idle, Reports

LEMMA RowsKept ==
    ASSUME RowsInv, Queued' = Queued, RequestKept
    PROVE  RowsInv'
BY DEF RowsInv, RequestKept

LEMMA ClaimsKept ==
    ASSUME ClaimsInv, Queued \subseteq Queued',
           \A r \in Runs : DOMAIN tries'[r] = DOMAIN tries[r] /\ (tries'[r] # <<>> => tries[r] # <<>>)
    PROVE  ClaimsInv'
<1>1. Claims' = Claims
  <2>1. Claims' = UNION {{r} \X DOMAIN tries'[r] : r \in Runs}
    BY DEF Claims
  <2>2. {{r} \X DOMAIN tries'[r] : r \in Runs} = {{r} \X DOMAIN tries[r] : r \in Runs}
    OBVIOUS
  <2> QED  BY <2>1, <2>2 DEF Claims
<1>2. \A r \in Runs : tries'[r] # <<>> => r \in Queued'
  BY DEF ClaimsInv
<1> QED  BY <1>1, <1>2 DEF ClaimsInv

\* A handler moves on: what it is now in the middle of is founded, and the others
\* are where they were.
LEMMA TxMoves ==
    ASSUME TypeOK, TxInv, NEW h \in Handlers, NEW t \in Transaction, tx' = [tx EXCEPT ![h] = t],
           Founded(t, Queued', tries'), Queued \subseteq Queued',
           \A r \in Runs : DOMAIN tries[r] \subseteq DOMAIN tries'[r]
    PROVE  tx' \in [Handlers -> Transaction] /\ TxInv'
<1>1. tx \in [Handlers -> Transaction]
  BY DEF TypeOK
<1>2. tx' \in [Handlers -> Transaction] /\ tx'[h] = t /\ \A g \in Handlers : g # h => tx'[g] = tx[g]
  BY <1>1
<1>3. ASSUME NEW g \in Handlers PROVE Founded(tx'[g], Queued', tries')
  <2>1. CASE g = h
    BY <1>2, <2>1
  <2>2. CASE g # h
    <3>1. Founded(tx[g], Queued, tries) /\ tx'[g] = tx[g]
      BY <1>2, <2>2 DEF TxInv
    <3>2. tx[g].op \in Reports => tx[g].run \in Runs
      BY <1>1, TxTyped
    <3> QED  BY <3>1, <3>2 DEF Founded
  <2> QED  BY <2>1, <2>2
<1> QED  BY <1>2, <1>3 DEF TxInv

\* The rows of the runs keep their states.
LEMMA StatesKept ==
    ASSUME TypeOK, OneActive, VersionsAreResults, Remembers, UNCHANGED versions,
           \A r \in Runs : runs'[r].state = runs[r].state
    PROVE  Queued' = Queued /\ OneActive' /\ VersionsAreResults' /\ TerminalKept /\ RetiredKept
<1>1. Queued' = Queued /\ Active' = Active
  BY DEF Queued, Active
<1>2. \A v \in DOMAIN versions : versions[v] \in Runs
  BY LenProperties, ElementOfSeq DEF TypeOK
<1>3. VersionsAreResults'
  BY <1>2 DEF VersionsAreResults, Remembers
<1> QED  BY <1>1, <1>3 DEF OneActive, Remembers, TerminalKept, RetiredKept

\* A handler's step that leaves the runs, the claims and the versions alone.
LEMMA HandlerMoves ==
    ASSUME QueueInv, Remembers, NEW h \in Handlers, NEW t \in Transaction,
           tx' = [tx EXCEPT ![h] = t], Founded(t, Queued, tries),
           UNCHANGED <<runs, versions, tries>>, disk' \in Digests, RequestKept
    PROVE  Kept
<1>1. Queued' = Queued /\ OneActive' /\ VersionsAreResults' /\ TerminalKept /\ RetiredKept
  BY StatesKept DEF QueueInv
<1>2. tx' \in [Handlers -> Transaction] /\ TxInv'
  BY <1>1, TxMoves DEF QueueInv
<1>3. RowsInv' /\ ClaimsInv'
  BY <1>1, RowsKept, ClaimsKept DEF QueueInv
<1>4. TypeOK'
  BY <1>2 DEF QueueInv, TypeOK, Remembers, RequestKept, Requests
<1> QED  BY <1>1, <1>2, <1>3, <1>4 DEF Kept, QueueInv

\* One queued run's row changes; unless the step is an overtaking one, a finished
\* run keeps its outcome.
LEMMA RunMoves ==
    ASSUME TypeOK, OneActive, Remembers, NEW r \in Runs, NEW new \in Run,
           runs' = [runs EXCEPT ![r] = new], new.state = "absent" <=> runs[r].state = "absent",
           ~overtaken' /\ runs[r].state \in Terminal => new.state = runs[r].state
    PROVE  /\ runs' \in [Runs -> Run] /\ runs'[r] = new
           /\ \A s \in Runs : s # r => runs'[s] = runs[s]
           /\ Queued' = Queued /\ OneActive' /\ TerminalKept
<1>1. /\ runs' \in [Runs -> Run] /\ runs'[r] = new
      /\ \A s \in Runs : s # r => runs'[s] = runs[s]
  BY DEF TypeOK
<1>2. Queued' = Queued
  BY <1>1 DEF Queued
<1>3. TerminalKept
  BY <1>1 DEF TerminalKept
<1>4. ~overtaken' => Active' \subseteq Active
  BY <1>1, <1>2, <1>3 DEF TerminalKept, Active
<1>5. OneActive'
  BY <1>4 DEF OneActive, Remembers
<1> QED  BY <1>1, <1>2, <1>3, <1>5

LEMMA ResultsKept ==
    ASSUME TypeOK, VersionsAreResults, Remembers, TerminalKept, UNCHANGED versions
    PROVE  VersionsAreResults' /\ RetiredKept
<1>1. \A v \in DOMAIN versions : versions[v] \in Runs
  BY LenProperties, ElementOfSeq DEF TypeOK
<1>2. ~overtaken' => \A v \in DOMAIN versions : runs'[versions[v]].state = "succeeded"
  BY <1>1 DEF VersionsAreResults, TerminalKept, Remembers, Terminal
<1> QED  BY <1>2 DEF VersionsAreResults, RetiredKept

\* A step that changes one run's row and nothing of its claims or the versions.
LEMMA RowMoves ==
    ASSUME QueueInv, Remembers, NEW r \in Runs, NEW new \in Run,
           runs' = [runs EXCEPT ![r] = new], new.state = "absent" <=> runs[r].state = "absent",
           ~overtaken' /\ runs[r].state \in Terminal => new.state = runs[r].state,
           UNCHANGED <<versions, disk, tries>>, RequestKept,
           UNCHANGED tx \/ \E h \in Handlers : End(h)
    PROVE  Kept
<1>1. TypeOK /\ OneActive /\ VersionsAreResults /\ RowsInv /\ ClaimsInv /\ TxInv
  BY DEF QueueInv
<1>2. runs' \in [Runs -> Run] /\ Queued' = Queued /\ OneActive' /\ TerminalKept
  BY <1>1, RunMoves
<1>3. VersionsAreResults' /\ RetiredKept
  BY <1>1, <1>2, ResultsKept
<1>4. tx' \in [Handlers -> Transaction] /\ TxInv'
  <2>1. CASE UNCHANGED tx
    BY <1>1, <1>2, <2>1 DEF TypeOK, TxInv
  <2>2. CASE \E h \in Handlers : End(h)
    <3>1. PICK h \in Handlers : tx' = [tx EXCEPT ![h] = Idle]
      BY <2>2 DEF End
    <3>2. Idle \in Transaction /\ Founded(Idle, Queued', tries')
      BY DEF Transaction, Idle, Founded, Reports
    <3> QED  BY <1>1, <1>2, <3>1, <3>2, TxMoves
  <2> QED  BY <2>1, <2>2
<1>5. RowsInv' /\ ClaimsInv'
  BY <1>1, <1>2, RowsKept, ClaimsKept
<1>6. TypeOK'
  BY <1>1, <1>2, <1>4 DEF TypeOK, Remembers, RequestKept, Requests
<1> QED  BY <1>2, <1>3, <1>4, <1>5, <1>6 DEF Kept, QueueInv

---------------------------------------------------------------------------
(* The cluster's steps.                                                    *)

TryStates == {"open", "cleared", "closed", "running"} \cup Terminal

\* What becomes of one claim changes neither which claims there are nor any row.
LEMMA TryMoves ==
    ASSUME QueueInv, Remembers, NEW r \in Runs, NEW a \in DOMAIN tries[r], NEW x \in TryStates,
           tries' = [tries EXCEPT ![r][a] = x], UNCHANGED <<runs, request, versions, disk>>,
           \/ UNCHANGED tx
           \/ \E h \in Handlers : \E t \in Transaction :
                tx' = [tx EXCEPT ![h] = t] /\ Founded(t, Queued, tries)
    PROVE  Kept
<1>1. TypeOK /\ OneActive /\ VersionsAreResults /\ RowsInv /\ ClaimsInv /\ TxInv
  BY DEF QueueInv
<1>2. Queued' = Queued /\ OneActive' /\ VersionsAreResults' /\ TerminalKept /\ RetiredKept
  BY <1>1, StatesKept
<1>3. /\ tries' \in [Runs -> Seq(TryStates)]
      /\ \A s \in Runs : DOMAIN tries'[s] = DOMAIN tries[s] /\ (tries'[s] # <<>> => tries[s] # <<>>)
  <2>1. tries \in [Runs -> Seq(TryStates)]
    BY <1>1 DEF TypeOK, TryStates
  <2>2. a \in 1..Len(tries[r]) /\ tries[r] \in Seq(TryStates)
    BY <2>1, LenProperties
  <2>3. [tries[r] EXCEPT ![a] = x] \in Seq(TryStates)
    BY <2>2, ExceptSeq
  <2>4. DOMAIN [tries[r] EXCEPT ![a] = x] = DOMAIN tries[r] /\ tries[r] # <<>>
    BY <2>2
  <2>5. tries'[r] = [tries[r] EXCEPT ![a] = x] /\ \A s \in Runs : s # r => tries'[s] = tries[s]
    BY <2>1
  <2>6. tries' = [s \in Runs |-> tries'[s]]
    BY <2>1
  <2> QED  BY <2>1, <2>3, <2>4, <2>5, <2>6
<1>4. RequestKept
  BY <1>1 DEF RequestKept, Requests, TypeOK, RowsInv
<1>5. RowsInv' /\ ClaimsInv'
  BY <1>1, <1>2, <1>3, <1>4, RowsKept, ClaimsKept
<1>6. tx' \in [Handlers -> Transaction] /\ TxInv'
  <2>1. CASE UNCHANGED tx
    <3>1. \A h \in Handlers : tx[h].op \in Reports => tx[h].run \in Runs
      BY <1>1, TxTyped DEF TypeOK
    <3> QED  BY <1>1, <1>2, <1>3, <2>1, <3>1 DEF TypeOK, TxInv, Founded
  <2>2. ASSUME NEW h \in Handlers, NEW t \in Transaction,
               tx' = [tx EXCEPT ![h] = t], Founded(t, Queued, tries)
        PROVE  tx' \in [Handlers -> Transaction] /\ TxInv'
    <3>1. Founded(t, Queued', tries')
      <4>1. t.op \in Reports => t.run \in Runs
        BY TxTyped
      <4> QED  BY <1>2, <1>3, <2>2, <4>1 DEF Founded
    <3> QED  BY <1>1, <1>2, <1>3, <2>2, <3>1, TxMoves
  <2> QED  BY <2>1, <2>2
<1>7. TypeOK'
  BY <1>1, <1>3, <1>6 DEF TypeOK, Remembers, TryStates
<1> QED  BY <1>2, <1>5, <1>6, <1>7 DEF Kept, QueueInv

LEMMA TriesKeep ==
    ASSUME QueueInv, UNCHANGED overtaken, NEW r \in Runs, NEW a \in DOMAIN tries[r],
           Fetch(r, a) \/ Launch(r, a) \/ JobEnds(r, a)
    PROVE  Kept
<1>1. Remembers
  BY DEF QueueInv, TypeOK, Remembers
<1>2. ASSUME NEW x \in TryStates, tries' = [tries EXCEPT ![r][a] = x],
             UNCHANGED <<runs, request, versions, disk, tx>>
      PROVE  Kept
  BY <1>1, <1>2, TryMoves
<1>3. CASE Fetch(r, a)
  BY <1>2, <1>3 DEF Fetch, TryStates
<1>4. CASE Launch(r, a)
  BY <1>2, <1>4 DEF Launch, TryStates
<1>5. CASE JobEnds(r, a)
  BY <1>2, <1>5 DEF JobEnds, TryStates
<1> QED  BY <1>3, <1>4, <1>5

LEMMA BeginReportKeeps ==
    ASSUME QueueInv, UNCHANGED overtaken, NEW r \in Runs, NEW a \in DOMAIN tries[r],
           NEW h \in Handlers, NEW op \in Reports, BeginReport(h, op, r, a)
    PROVE  Kept
<1> DEFINE seen == [state |-> runs[r].state, job |-> runs[r].job]
           t == [op |-> op, run |-> r, attempt |-> a, seen |-> seen]
           x == IF tries[r][a] \in {"open", "cleared"} THEN "closed" ELSE tries[r][a]
<1>1. TypeOK /\ ClaimsInv /\ Remembers
  BY DEF QueueInv, TypeOK, Remembers
<1>2. tries[r] # <<>> /\ r \in Queued /\ a \in 1..MaxClaims
  <2>1. DOMAIN tries[r] = 1..Len(tries[r]) /\ DOMAIN tries[r] \subseteq 1..MaxClaims
    BY <1>1, ClaimsBound
  <2>2. tries[r] # <<>>
    OBVIOUS
  <2> QED  BY <1>1, <2>1, <2>2 DEF ClaimsInv
<1>3. t \in Transaction
  <2>1. runs[r] \in Run
    BY <1>1 DEF TypeOK
  <2>2. seen \in Seen
    BY <2>1 DEF Run, Seen
  <2> HIDE DEF seen
  <2>3. t \in [op : Reports, run : Runs, seen : Seen, attempt : 1..MaxClaims]
    BY <1>2, <2>2
  <2> HIDE DEF t
  <2> QED  BY <2>3 DEF Transaction
<1>4. Founded(t, Queued, tries)
  BY <1>2 DEF Founded, Reports
<1>5. tx' = [tx EXCEPT ![h] = t]
  BY DEF BeginReport, Start
<1>6. tries' = [tries EXCEPT ![r][a] = x]
  BY DEF BeginReport
<1>7. x \in TryStates
  <2>1. tries[r] \in Seq(TryStates)
    BY <1>1 DEF TypeOK, TryStates
  <2>2. tries[r][a] \in TryStates
    BY <2>1, LenProperties, ElementOfSeq
  <2> QED  BY <2>2 DEF TryStates
<1>8. UNCHANGED <<runs, request, versions, disk>>
  BY DEF BeginReport
<1> HIDE DEF t, x
<1> QED  BY <1>1, <1>3, <1>4, <1>5, <1>6, <1>7, <1>8, TryMoves

LEMMA ClockKeeps ==
    ASSUME QueueInv, UNCHANGED overtaken, NEW r \in Runs, LeaseRunsOut(r) \/ GoesSilent(r)
    PROVE  Kept
<1>1. Remembers /\ RequestKept /\ runs \in [Runs -> Run] /\ runs[r] \in Run
  <2>1. UNCHANGED request
    BY DEF LeaseRunsOut, GoesSilent
  <2> QED  BY <2>1 DEF QueueInv, TypeOK, Remembers, RequestKept, Requests, RowsInv
<1>2. ASSUME NEW new \in Run, runs' = [runs EXCEPT ![r] = new], new.state = runs[r].state,
             UNCHANGED <<request, versions, disk, tries, tx>>
      PROVE  Kept
  BY <1>1, <1>2, RowMoves
<1>3. CASE LeaseRunsOut(r)
  <2> DEFINE new == [runs[r] EXCEPT !.lease = "expired"]
  <2>1. new \in Run /\ new.state = runs[r].state
    BY <1>1 DEF Run
  <2>2. runs' = [runs EXCEPT ![r] = new] /\ UNCHANGED <<request, versions, disk, tries, tx>>
    BY <1>3 DEF LeaseRunsOut
  <2> HIDE DEF new
  <2> QED  BY <1>2, <2>1, <2>2
<1>4. CASE GoesSilent(r)
  <2> DEFINE new == [runs[r] EXCEPT !.silent = TRUE]
  <2>1. new \in Run /\ new.state = runs[r].state
    BY <1>1 DEF Run
  <2>2. runs' = [runs EXCEPT ![r] = new] /\ UNCHANGED <<request, versions, disk, tries, tx>>
    BY <1>4 DEF GoesSilent
  <2> HIDE DEF new
  <2> QED  BY <1>2, <2>1, <2>2
<1> QED  BY <1>3, <1>4

\* A claim is one pair more to count, and a run's lease.
LEMMA ClaimKeeps ==
    ASSUME QueueInv, UNCHANGED overtaken, Claim
    PROVE  Kept
<1>1. /\ TypeOK /\ OneActive /\ VersionsAreResults /\ RowsInv /\ ClaimsInv /\ TxInv
      /\ Remembers /\ RequestKept
  BY DEF QueueInv, TypeOK, Remembers, RequestKept, Requests, RowsInv, Claim
<1>2. PICK r \in Runs :
        /\ Claimable(r)
        /\ runs' = [runs EXCEPT ![r].state = "claimed", ![r].lease = "held"]
        /\ tries' = [tries EXCEPT ![r] = Append(@, "open")]
  BY DEF Claim
<1> DEFINE new == [runs[r] EXCEPT !.state = "claimed", !.lease = "held"]
           n == Len(tries[r])
<1>3. /\ runs[r] \in Run /\ runs[r].state \in {"queued", "claimed"}
      /\ new \in Run /\ new.state = "claimed" /\ runs' = [runs EXCEPT ![r] = new]
  <2>1. runs \in [Runs -> Run] /\ runs[r] \in Run
    BY <1>1 DEF TypeOK
  <2>2. new \in Run /\ new.state = "claimed"
    BY <2>1 DEF Run, RunStates
  <2>3. runs' = [runs EXCEPT ![r] = new]
    BY <1>2, <2>1
  <2> QED  BY <1>2, <2>1, <2>2, <2>3 DEF Claimable
<1> HIDE DEF new
<1>4. runs' \in [Runs -> Run] /\ Queued' = Queued /\ OneActive' /\ TerminalKept
  BY <1>1, <1>3, RunMoves DEF Terminal
<1>5. UNCHANGED <<request, versions, disk, tx>>
  BY DEF Claim
<1>6. VersionsAreResults' /\ RetiredKept
  BY <1>1, <1>4, <1>5, ResultsKept
<1>7. r \in Queued
  BY <1>3 DEF Queued
<1>8. tries \in [Runs -> Seq(TryStates)] /\ tries[r] \in Seq(TryStates)
  BY <1>1 DEF TypeOK, TryStates
<1>9. /\ n \in Nat /\ DOMAIN tries[r] = 1..n
      /\ Append(tries[r], "open") \in Seq(TryStates) /\ Len(Append(tries[r], "open")) = n + 1
      /\ DOMAIN Append(tries[r], "open") = 1..n + 1
  <2>1. "open" \in TryStates
    BY DEF TryStates
  <2> QED  BY <1>8, <2>1, AppendProperties, LenProperties
<1>10. /\ tries'[r] = Append(tries[r], "open") /\ \A s \in Runs : s # r => tries'[s] = tries[s]
       /\ tries' \in [Runs -> Seq(TryStates)]
  BY <1>2, <1>8, <1>9
<1>11. 1..n + 1 = 1..n \cup {n + 1} /\ n + 1 \notin 1..n
  <2> HIDE DEF n
  <2> QED  BY <1>9
<1>12. Claims' = Claims \cup {<<r, n + 1>>} /\ <<r, n + 1>> \notin Claims
  <2>1. Claims' = UNION {{s} \X DOMAIN tries'[s] : s \in Runs}
    BY DEF Claims
  <2>2. \A s \in Runs : \A i : i \in DOMAIN tries'[s] <=> i \in DOMAIN tries[s] \/ (s = r /\ i = n + 1)
    <3> HIDE DEF n
    <3> QED  BY <1>9, <1>10, <1>11
  <2>3. r \in Runs /\ n + 1 \notin DOMAIN tries[r]
    <3> HIDE DEF n
    <3> QED  BY <1>9, <1>11
  <2> HIDE DEF n
  <2>4. <<r, n + 1>> \notin Claims
    BY <2>3 DEF Claims
  <2>5. <<r, n + 1>> \in Claims'
    BY <2>1, <2>2, <2>3
  <2>6. Claims \subseteq Claims' /\ Claims' \subseteq Claims \cup {<<r, n + 1>>}
    BY <2>1, <2>2 DEF Claims
  <2> QED  BY <2>4, <2>5, <2>6
<1>13. IsFiniteSet(Claims') /\ Cardinality(Claims') <= MaxClaims
  <2>1. IsFiniteSet(Claims) /\ Cardinality(Claims) \in Nat /\ Cardinality(Claims) < MaxClaims
    BY <1>1, FS_CardinalityType DEF ClaimsInv, Claim
  <2>2. IsFiniteSet(Claims') /\ Cardinality(Claims') = Cardinality(Claims) + 1
    BY <1>12, <2>1, FS_AddElement
  <2> QED  BY <2>1, <2>2, BoundsAssumption
<1>14. ClaimsInv'
  BY <1>1, <1>4, <1>7, <1>10, <1>13 DEF ClaimsInv
<1>15. TxInv'
  <2>1. \A h \in Handlers : tx[h].op \in Reports => tx[h].run \in Runs
    BY <1>1, TxTyped DEF TypeOK
  <2>2. \A s \in Runs : DOMAIN tries[s] \subseteq DOMAIN tries'[s]
    <3> HIDE DEF n
    <3> QED  BY <1>9, <1>10, <1>11
  <2> QED  BY <1>1, <1>4, <1>5, <2>1, <2>2 DEF TxInv, Founded
<1>16. TypeOK'
  BY <1>1, <1>4, <1>5, <1>10 DEF TypeOK, Remembers, TryStates
<1>17. RowsInv'
  BY <1>1, <1>4, RowsKept
<1> QED  BY <1>4, <1>6, <1>14, <1>15, <1>16, <1>17 DEF Kept, QueueInv

---------------------------------------------------------------------------
(* The handlers' steps.                                                    *)

\* A step that a handler begins, or gives up.
LEMMA BeginKeeps ==
    ASSUME QueueInv, UNCHANGED overtaken, NEW h \in Handlers,
           \/ BeginCreate(h) \/ BeginEnqueue(h) \/ BeginRetry(h)
           \/ \E op \in {"prepare", "rebuild"} : BeginRewrite(h, op)
           \/ PrepareFails(h) \/ Abort(h)
    PROVE  Kept
<1>1. TypeOK /\ RowsInv /\ Remembers
  BY DEF QueueInv, TypeOK, Remembers
<1>2. UNCHANGED <<runs, request, versions, disk, tries>> /\ disk \in Digests
  BY <1>1 DEF BeginCreate, BeginEnqueue, BeginRetry, BeginRewrite, PrepareFails, Abort, TypeOK
<1>3. RequestKept
  BY <1>1, <1>2 DEF RequestKept, Requests, TypeOK, RowsInv
<1>4. ASSUME NEW t \in Transaction, tx' = [tx EXCEPT ![h] = t], Founded(t, Queued, tries)
      PROVE  Kept
  BY <1>1, <1>2, <1>3, <1>4, HandlerMoves
<1>5. CASE BeginCreate(h)
  <2>1. [op |-> "create"] \in Transaction /\ Founded([op |-> "create"], Queued, tries)
    BY DEF Transaction, Founded, Reports
  <2> QED  BY <1>4, <1>5, <2>1 DEF BeginCreate, Start
<1>6. CASE BeginEnqueue(h)
  <2> DEFINE t == [op |-> "enqueue", pin |-> disk, free |-> Active = {}]
  <2>1. Active = {}
    BY <1>6 DEF BeginEnqueue
  <2>2. t = [op |-> "enqueue", pin |-> disk, free |-> TRUE]
    BY <2>1
  <2>3. tx' = [tx EXCEPT ![h] = t]
    BY <1>6 DEF BeginEnqueue, Start
  <2> HIDE DEF t
  <2>4. t \in [op : {"enqueue"}, pin : Digests, free : BOOLEAN]
    BY <1>2, <2>2
  <2>5. t \in Transaction
    BY <2>4 DEF Transaction
  <2>6. Founded(t, Queued, tries)
    BY <2>2 DEF Founded, Reports
  <2> QED  BY <1>4, <2>3, <2>5, <2>6
<1>7. CASE BeginRetry(h)
  <2> DEFINE t == [op |-> "retry", run |-> request.current, pin |-> disk]
  <2>1. request.current \in Queued /\ request.current \in Runs
    BY <1>1, <1>7 DEF BeginRetry, RowsInv, Queued
  <2>2. t \in Transaction
    BY <1>2, <2>1 DEF Transaction
  <2>3. Founded(t, Queued, tries)
    BY <2>1 DEF Founded, Reports
  <2>4. tx' = [tx EXCEPT ![h] = t]
    BY <1>7 DEF BeginRetry, Start
  <2> HIDE DEF t
  <2> QED  BY <1>4, <2>2, <2>3, <2>4
<1>8. ASSUME NEW op \in {"prepare", "rebuild"}, BeginRewrite(h, op) PROVE Kept
  <2>1. [op |-> op] \in Transaction
    BY DEF Transaction
  <2>2. Founded([op |-> op], Queued, tries)
    BY DEF Founded, Reports
  <2> QED  BY <1>4, <1>8, <2>1, <2>2 DEF BeginRewrite, Start
<1>9. CASE PrepareFails(h)
  <2>1. [op |-> "patch", status |-> "requested"] \in Transaction
    BY DEF Transaction
  <2>2. Founded([op |-> "patch", status |-> "requested"], Queued, tries)
    BY DEF Founded, Reports
  <2> QED  BY <1>4, <1>9, <2>1, <2>2 DEF PrepareFails
<1>10. CASE Abort(h)
  <2>1. Idle \in Transaction /\ Founded(Idle, Queued, tries)
    BY DEF Transaction, Idle, Founded, Reports
  <2> QED  BY <1>4, <1>10, <2>1 DEF Abort, End
<1> QED  BY <1>5, <1>6, <1>7, <1>8, <1>9, <1>10

\* The commits that write no run: of the request, of the files, and a 409.
LEMMA RequestCommitsKeep ==
    ASSUME QueueInv, Remembers, NEW h \in Handlers,
           CommitCreate(h) \/ Rewrite(h) \/ PatchRequest(h) \/ PointRequest(h) \/ Declined(h)
    PROVE  Kept
<1>1. TypeOK /\ RowsInv /\ request \in Requests /\ tx[h] \in Transaction /\ Founded(tx[h], Queued, tries)
  BY DEF QueueInv, TypeOK, Requests, TxInv
<1>2. Idle \in Transaction /\ Founded(Idle, Queued, tries)
  BY DEF Transaction, Idle, Founded, Reports
<1>3. UNCHANGED <<runs, versions, tries>> /\ disk' \in Digests
  BY <1>1 DEF CommitCreate, Rewrite, PatchRequest, PointRequest, Declined, TypeOK
<1>4. RequestKept
  <2>1. CASE CommitCreate(h)
    BY <2>1, BoundsAssumption DEF CommitCreate, RequestKept, Requests, RequestStates, NoRun
  <2>2. CASE UNCHANGED request
    BY <1>1, <2>2 DEF RequestKept, RowsInv
  <2>3. CASE PatchRequest(h)
    <3>1. tx[h].status \in RequestStates
      BY <1>1, <2>3, TxTyped DEF PatchRequest, RequestStates
    <3> QED  BY <1>1, <2>3, <3>1 DEF PatchRequest, RequestKept, RowsInv, Requests
  <2>4. CASE PointRequest(h)
    <3>1. tx[h].run \in Queued /\ tx[h].run \in 0..NumRuns
      BY <1>1, <2>4, BoundsAssumption DEF PointRequest, Founded, Queued, Runs
    <3> QED  BY <1>1, <2>4, <3>1 DEF PointRequest, RequestKept, RowsInv, Requests
  <2> QED  BY <2>1, <2>2, <2>3, <2>4 DEF Rewrite, Declined
<1>5. CASE CommitCreate(h) \/ PatchRequest(h) \/ PointRequest(h) \/ Declined(h)
  <2>1. tx' = [tx EXCEPT ![h] = Idle]
    BY <1>5 DEF CommitCreate, PatchRequest, PointRequest, Declined, End
  <2> QED  BY <1>2, <1>3, <1>4, <2>1, HandlerMoves
<1>6. CASE Rewrite(h)
  <2> DEFINE patch == [op |-> "patch", status |-> "preparing"]
             t == IF tx[h].op = "rebuild" THEN Idle ELSE patch
  <2>1. patch \in Transaction /\ Founded(patch, Queued, tries)
    BY DEF Transaction, Founded, Reports
  <2>2. t \in Transaction /\ Founded(t, Queued, tries)
    BY <1>2, <2>1
  <2>3. tx' = [tx EXCEPT ![h] = t]
    BY <1>6 DEF Rewrite
  <2> HIDE DEF t
  <2> QED  BY <1>3, <1>4, <2>2, <2>3, HandlerMoves
<1> QED  BY <1>5, <1>6

---------------------------------------------------------------------------
(* Committing a report.                                                    *)

Noted(h) == overtaken' = (overtaken \/ Overtakes(h))

LEMMA NotedRemembers ==
    ASSUME TypeOK, NEW h \in Handlers, Noted(h)
    PROVE  Remembers
BY DEF TypeOK, Noted, Remembers, Overtakes

\* Unless the commit is an overtaking one, the run is still as the report's handler
\* read it.
LEMMA ReportFacts ==
    ASSUME QueueInv, NEW h \in Handlers, tx[h].op \in Reports, Noted(h)
    PROVE  /\ tx[h].run \in Queued /\ tx[h].run \in Runs /\ runs[tx[h].run] \in Run
           /\ runs[tx[h].run].state # "absent"
           /\ tx[h].attempt \in 1..MaxClaims /\ tx[h].attempt \in 0..MaxClaims
           /\ ~overtaken' => tx[h].seen.state = runs[tx[h].run].state /\ tx[h].seen.job = runs[tx[h].run].job
<1>1. tx[h] \in Transaction /\ Founded(tx[h], Queued, tries) /\ runs \in [Runs -> Run]
  BY DEF QueueInv, TypeOK, TxInv
<1>2. tx[h].run \in Queued /\ tx[h].run \in Runs /\ tx[h].attempt \in 1..MaxClaims
  BY <1>1, TxTyped DEF Founded
<1>3. tx[h].attempt \in 0..MaxClaims
  BY <1>2, BoundsAssumption
<1>4. ~overtaken' => tx[h].seen = [state |-> runs[tx[h].run].state, job |-> runs[tx[h].run].job]
  BY DEF Noted, Overtakes
<1>5. ~overtaken' => tx[h].seen.state = runs[tx[h].run].state /\ tx[h].seen.job = runs[tx[h].run].job
  BY <1>4
<1> QED  BY <1>1, <1>2, <1>3, <1>5 DEF Queued

LEMMA Told ==
    ASSUME TypeOK, RowsInv, NEW r \in Queued, NEW status \in RequestStates, Tell(r, status)
    PROVE  RequestKept
<1>1. r \in 0..NumRuns
  BY BoundsAssumption DEF Queued, Runs
<1>2. request \in Requests
  BY DEF TypeOK, Requests
<1>3. CASE UNCHANGED request
  BY <1>2, <1>3 DEF RequestKept, RowsInv
<1>4. CASE request' = [status |-> status, current |-> r]
  BY <1>1, <1>4 DEF RequestKept, Requests
<1> QED  BY <1>3, <1>4 DEF Tell

LEMMA RequeueTyped ==
    ASSUME NEW x \in Run
    PROVE  /\ Requeue(x) \in Run /\ Requeue(x).state = "queued"
           /\ \A e \in BOOLEAN : /\ [Requeue(x) EXCEPT !.error = e] \in Run
                                /\ [Requeue(x) EXCEPT !.error = e].state = "queued"
           /\ Fail(x) \in Run /\ Fail(x).state = "failed"
BY DEF Requeue, Fail, Run, RunStates, Terminal

\* A report that is accepted: the run it was made about moves.
LEMMA ReportMoves ==
    ASSUME QueueInv, NEW h \in Handlers, Noted(h), tx[h].op \in Reports, End(h),
           NEW new \in Run, runs' = [runs EXCEPT ![tx[h].run] = new], new.state # "absent",
           ~overtaken' /\ tx[h].seen.state \in Terminal => new.state = tx[h].seen.state,
           UNCHANGED <<versions, disk, tries>>, RequestKept
    PROVE  Kept
BY NotedRemembers, ReportFacts, RowMoves DEF QueueInv

LEMMA ReleaseKeeps ==
    ASSUME QueueInv, NEW h \in Handlers, Noted(h), Release(h)
    PROVE  Kept
<1> DEFINE r == tx[h].run
<1>1. TypeOK /\ Remembers /\ RowsInv /\ tx[h].op \in Reports
  BY NotedRemembers DEF QueueInv, Release, Reports
<1>2. UNCHANGED <<request, versions, disk, tries>> /\ End(h)
  BY DEF Release
<1>3. RequestKept
  BY <1>1, <1>2 DEF RequestKept, Requests, TypeOK, RowsInv
<1>4. CASE tx[h].seen.state \in Terminal
  <2>1. UNCHANGED runs
    BY <1>4 DEF Release
  <2>2. Idle \in Transaction /\ Founded(Idle, Queued, tries)
    BY DEF Transaction, Idle, Founded, Reports
  <2>3. disk' \in Digests /\ tx' = [tx EXCEPT ![h] = Idle]
    BY <1>1, <1>2 DEF TypeOK, End
  <2> QED  BY <1>1, <1>2, <1>3, <2>1, <2>2, <2>3, HandlerMoves
<1>5. CASE tx[h].seen.state \notin Terminal
  <2>1. PICK error \in BOOLEAN :
          runs' = [runs EXCEPT ![r] = [Requeue(runs[r]) EXCEPT !.error = error \/ @]]
    BY <1>5 DEF Release
  <2>2. r \in Runs /\ runs[r] \in Run
    BY <1>1, ReportFacts
  <2> DEFINE e == error \/ Requeue(runs[r]).error
             new == [Requeue(runs[r]) EXCEPT !.error = e]
  <2>3. e \in BOOLEAN
    OBVIOUS
  <2>4. new \in Run /\ new.state = "queued"
    <3> HIDE DEF e
    <3> QED  BY <2>2, <2>3, RequeueTyped
  <2>5. runs' = [runs EXCEPT ![r] = new]
    BY <2>1
  <2> HIDE DEF new
  <2> QED  BY <1>1, <1>2, <1>3, <1>5, <2>4, <2>5, ReportMoves
<1> QED  BY <1>4, <1>5

\* The reports that end or restart an attempt without registering anything.
LEMMA ReportsKeep ==
    ASSUME QueueInv, NEW h \in Handlers, Noted(h),
           Submitted(h) \/ SubmissionFailed(h) \/ Refused(h) \/ TrainingFailed(h) \/ CompletedFailed(h)
    PROVE  Kept
<1> DEFINE r == tx[h].run
<1>1. tx[h].op \in Reports
  BY DEF Submitted, SubmissionFailed, Refused, TrainingFailed, CompletedFailed, Accepted, Reports
<1>2. End(h) /\ UNCHANGED <<versions, disk, tries>>
  BY DEF Submitted, SubmissionFailed, Refused, TrainingFailed, CompletedFailed, Accepted
<1>3. /\ r \in Queued /\ r \in Runs /\ runs[r] \in Run /\ tx[h].attempt \in 0..MaxClaims
      /\ TypeOK /\ RowsInv
  BY <1>1, ReportFacts DEF QueueInv
<1>4. RequestKept
  <2>1. request.status \in RequestStates /\ {"training", "failed"} \subseteq RequestStates
    BY <1>3 DEF TypeOK, RequestStates
  <2>2. \E status \in RequestStates : Tell(r, status)
    BY <2>1 DEF Submitted, SubmissionFailed, Refused, TrainingFailed, CompletedFailed
  <2> QED  BY <1>3, <2>2, Told
<1>5. ASSUME NEW new \in Run, runs' = [runs EXCEPT ![r] = new], new.state # "absent",
             ~overtaken' /\ tx[h].seen.state \in Terminal => new.state = tx[h].seen.state
      PROVE  Kept
  BY <1>1, <1>2, <1>4, <1>5, ReportMoves
<1>6. CASE Submitted(h)
  <2> DEFINE new == [runs[r] EXCEPT !.state = "submitted", !.job = tx[h].attempt,
                                    !.error = FALSE, !.lease = "none", !.silent = FALSE]
  <2>1. new \in Run /\ new.state = "submitted"
    BY <1>3 DEF Run, RunStates
  <2>2. runs' = [runs EXCEPT ![r] = new] /\ tx[h].seen.state \notin Terminal
    BY <1>3, <1>6 DEF Submitted, TypeOK
  <2> HIDE DEF new
  <2> QED  BY <1>5, <2>1, <2>2
<1>7. CASE SubmissionFailed(h)
  <2> DEFINE new == [Requeue(runs[r]) EXCEPT !.error = TRUE]
  <2>1. new \in Run /\ new.state = "queued"
    BY <1>3, RequeueTyped
  <2>2. runs' = [runs EXCEPT ![r] = new] /\ tx[h].seen.state \notin Terminal
    BY <1>7 DEF SubmissionFailed
  <2> HIDE DEF new
  <2> QED  BY <1>5, <2>1, <2>2
<1>8. CASE Refused(h) \/ TrainingFailed(h)
  <2>1. Fail(runs[r]) \in Run /\ Fail(runs[r]).state = "failed"
    BY <1>3, RequeueTyped
  <2>2. runs' = [runs EXCEPT ![r] = Fail(runs[r])] /\ tx[h].seen.state \notin Terminal
    BY <1>8 DEF Refused, TrainingFailed
  <2> QED  BY <1>5, <2>1, <2>2
<1>9. CASE CompletedFailed(h)
  <2> DEFINE done == WithJob(runs[r], tx[h].seen, tx[h].attempt)
             new == [done EXCEPT !.state = "failed", !.error = TRUE]
  <2>1. done \in Run
    BY <1>3 DEF WithJob, Run
  <2>2. new \in Run /\ new.state = "failed"
    <3> HIDE DEF done
    <3> QED  BY <2>1 DEF Run, RunStates, Terminal
  <2>3. runs' = [runs EXCEPT ![r] = new]
    BY <1>9 DEF CompletedFailed
  <2>4. tx[h].seen.state \in Terminal => tx[h].seen.state = "failed"
    BY <1>9 DEF CompletedFailed, MayComplete
  <2> HIDE DEF new
  <2> QED  BY <1>5, <2>2, <2>3, <2>4
<1> QED  BY <1>6, <1>7, <1>8, <1>9

\* A version is registered for the run that succeeded, unless it has one.
LEMMA RegisterKeeps ==
    ASSUME TypeOK, VersionsAreResults, NEW r \in Runs, Register(r)
    PROVE  /\ versions' \in Seq(Runs) /\ IsInjective(versions')
           /\ \A v \in DOMAIN versions' : versions'[v] = r \/ \E w \in DOMAIN versions : versions'[v] = versions[w]
           /\ \A s \in Runs : s # r /\ ~Contains(versions, s) => ~Contains(versions', s)
<1>1. versions \in Seq(Runs) /\ IsInjective(versions) /\ DOMAIN versions = 1..Len(versions)
  BY LenProperties DEF TypeOK, VersionsAreResults
<1>2. CASE Contains(versions, r)
  BY <1>1, <1>2 DEF Register
<1>3. CASE ~Contains(versions, r)
  <2>1. versions' = Append(versions, r) /\ r \notin Range(versions)
    BY <1>1, <1>3 DEF Register, Contains, Range
  <2>2. versions' \in Seq(Runs) /\ IsInjective(versions') /\ Range(versions') = Range(versions) \cup {r}
    BY <1>1, <2>1, AppendRange
  <2>3. \A v \in DOMAIN versions' : versions'[v] \in Range(versions')
    BY DEF Range
  <2>4. \A v \in DOMAIN versions' : versions'[v] = r \/ \E w \in DOMAIN versions : versions'[v] = versions[w]
    BY <2>2, <2>3 DEF Range
  <2>5. DOMAIN versions' = 1..Len(versions')
    BY <2>2, LenProperties
  <2>6. \A s \in Runs : s # r /\ ~Contains(versions, s) => ~Contains(versions', s)
    BY <1>1, <2>4, <2>5 DEF Contains
  <2> QED  BY <2>2, <2>4, <2>6
<1> QED  BY <1>2, <1>3

LEMMA CompletedSucceededKeeps ==
    ASSUME QueueInv, NEW h \in Handlers, Noted(h), CompletedSucceeded(h)
    PROVE  Kept
<1> DEFINE r == tx[h].run
           done == WithJob(runs[r], tx[h].seen, tx[h].attempt)
           new == [done EXCEPT !.state = "succeeded", !.error = FALSE]
<1>1. /\ TypeOK /\ OneActive /\ VersionsAreResults /\ RowsInv /\ ClaimsInv /\ TxInv
      /\ Remembers /\ tx[h].op \in Reports
  BY NotedRemembers DEF QueueInv, CompletedSucceeded, Accepted, Reports
<1>2. /\ r \in Queued /\ r \in Runs /\ runs[r] \in Run /\ tx[h].attempt \in 0..MaxClaims
      /\ runs[r].state # "absent" /\ (~overtaken' => tx[h].seen.state = runs[r].state)
  BY <1>1, ReportFacts
<1>3. new \in Run /\ new.state = "succeeded"
  <2>1. done \in Run
    BY <1>2 DEF WithJob, Run
  <2> HIDE DEF done
  <2> QED  BY <2>1 DEF Run, RunStates, Terminal
<1>4. runs' = [runs EXCEPT ![r] = new] /\ Register(r) /\ Tell(r, "ready")
  BY DEF CompletedSucceeded
<1>5. End(h) /\ UNCHANGED <<disk, tries>>
  BY DEF CompletedSucceeded, Accepted
<1>6. ~overtaken' /\ runs[r].state \in Terminal => runs[r].state = "succeeded"
  BY <1>2 DEF CompletedSucceeded, MayComplete
<1> HIDE DEF new
<1>7. /\ runs' \in [Runs -> Run] /\ runs'[r] = new /\ Queued' = Queued /\ OneActive' /\ TerminalKept
  BY <1>1, <1>2, <1>3, <1>4, <1>6, RunMoves
<1>8. /\ versions' \in Seq(Runs) /\ IsInjective(versions')
      /\ \A v \in DOMAIN versions' : versions'[v] = r \/ \E w \in DOMAIN versions : versions'[v] = versions[w]
      /\ \A s \in Runs : s # r /\ ~Contains(versions, s) => ~Contains(versions', s)
  BY <1>1, <1>2, <1>4, RegisterKeeps
<1>9. VersionsAreResults'
  <2>1. \A w \in DOMAIN versions : versions[w] \in Runs
    BY <1>1, LenProperties, ElementOfSeq DEF TypeOK
  <2>2. ~overtaken' => \A w \in DOMAIN versions : runs'[versions[w]].state = "succeeded"
    BY <1>1, <1>7, <2>1 DEF VersionsAreResults, TerminalKept, Remembers, Terminal
  <2>3. runs'[r].state = "succeeded"
    BY <1>3, <1>7
  <2> QED  BY <1>8, <2>2, <2>3 DEF VersionsAreResults
<1>10. RetiredKept
  <2>1. ~overtaken' => runs[r].state # "failed"
    BY <1>6 DEF Terminal
  <2> QED  BY <1>8, <2>1 DEF RetiredKept
<1>11. RequestKept
  BY <1>1, <1>2, <1>4, Told DEF RequestStates
<1>12. tx' \in [Handlers -> Transaction] /\ TxInv'
  <2>1. Idle \in Transaction /\ Founded(Idle, Queued', tries') /\ tx' = [tx EXCEPT ![h] = Idle]
    BY <1>5 DEF Transaction, Idle, Founded, Reports, End
  <2> QED  BY <1>1, <1>5, <1>7, <2>1, TxMoves
<1>13. RowsInv' /\ ClaimsInv'
  BY <1>1, <1>5, <1>7, <1>11, RowsKept, ClaimsKept
<1>14. TypeOK'
  BY <1>1, <1>5, <1>7, <1>8, <1>11, <1>12 DEF TypeOK, Remembers, RequestKept, Requests
<1> QED  BY <1>7, <1>9, <1>10, <1>12, <1>13, <1>14 DEF Kept, QueueInv

---------------------------------------------------------------------------
(* Queueing.                                                               *)

LEMMA NewRunTyped ==
    ASSUME NEW pin \in Digests
    PROVE  NewRun(pin) \in Run /\ NewRun(pin).state = "queued"
BY BoundsAssumption DEF NewRun, Run, RunStates, NoJob

\* The rows of the runs once one more is queued.
LEMMA RowsGrow ==
    ASSUME RowsInv, Queued' = Queued \cup {NextRun}
    PROVE  Queued' = 1..Cardinality(Queued') /\ Queued \subseteq Queued' /\ NextRun \in Queued'
<1>1. Queued' = 1..NextRun /\ Cardinality(1..NextRun) = NextRun
  BY NextIsNew
<1>2. Cardinality(Queued') = NextRun
  BY <1>1
<1> QED  BY <1>1, <1>2

LEMMA CommitEnqueueKeeps ==
    ASSUME QueueInv, NEW h \in Handlers, Noted(h), CommitEnqueue(h)
    PROVE  Kept
<1> DEFINE new == NewRun(tx[h].pin)
           t == [op |-> "point", run |-> NextRun]
<1>1. /\ TypeOK /\ OneActive /\ VersionsAreResults /\ RowsInv /\ ClaimsInv /\ TxInv /\ Remembers
      /\ runs \in [Runs -> Run] /\ tx[h] \in Transaction
  BY NotedRemembers DEF QueueInv, TypeOK
<1>2. /\ tx[h].op = "enqueue" /\ NextRun \in Runs /\ runs' = [runs EXCEPT ![NextRun] = new]
      /\ tx' = [tx EXCEPT ![h] = t] /\ UNCHANGED <<request, versions, disk, tries>>
  BY DEF CommitEnqueue
<1>3. new \in Run /\ new.state = "queued"
  BY <1>1, <1>2, TxTyped, NewRunTyped
<1> HIDE DEF new
<1>4. /\ runs' \in [Runs -> Run] /\ runs'[NextRun] = new
      /\ \A s \in Runs : s # NextRun => runs'[s] = runs[s]
      /\ runs[NextRun].state = "absent"
  BY <1>1, <1>2, <1>3, NextIsNew DEF Queued
<1>5. Queued' = Queued \cup {NextRun}
  BY <1>2, <1>3, <1>4 DEF Queued
<1>6. Queued' = 1..Cardinality(Queued') /\ Queued \subseteq Queued' /\ NextRun \in Queued'
  BY <1>1, <1>5, RowsGrow
<1>7. TerminalKept
  BY <1>4 DEF TerminalKept, Terminal
<1>8. OneActive'
  <2>1. ~overtaken' => Active = {}
    <3>1. tx[h].free = TRUE
      BY <1>1, <1>2 DEF TxInv, Founded
    <3> QED  BY <1>2, <3>1 DEF Noted, Overtakes
  <2>2. Active' \subseteq Active \cup {NextRun}
    <3>1. Queued \subseteq Runs
      BY DEF Queued
    <3>2. \A r \in Queued : r # NextRun => runs'[r] = runs[r]
      BY <1>4, <3>1
    <3> QED  BY <1>5, <3>2 DEF Active
  <2>3. ~overtaken' => \A r \in Active' : r = NextRun
    BY <2>1, <2>2
  <2>4. ~overtaken' => \A r, s \in Active' : r = s
    BY <2>3
  <2> QED  BY <2>4 DEF OneActive
<1>9. VersionsAreResults' /\ RetiredKept
  BY <1>1, <1>2, <1>7, ResultsKept
<1>10. tx' \in [Handlers -> Transaction] /\ TxInv'
  <2>1. t \in Transaction
    BY <1>2 DEF Transaction
  <2>2. Founded(t, Queued', tries')
    BY <1>6 DEF Founded, Reports
  <2> HIDE DEF t
  <2> QED  BY <1>1, <1>2, <1>6, <2>1, <2>2, TxMoves
<1>11. RowsInv' /\ ClaimsInv'
  BY <1>1, <1>2, <1>6, ClaimsKept DEF RowsInv
<1>12. TypeOK'
  BY <1>1, <1>2, <1>4, <1>10 DEF TypeOK, Remembers
<1> QED  BY <1>7, <1>8, <1>9, <1>10, <1>11, <1>12 DEF Kept, QueueInv

LEMMA CommitRetryKeeps ==
    ASSUME QueueInv, NEW h \in Handlers, Noted(h), CommitRetry(h)
    PROVE  Kept
<1> DEFINE old == tx[h].run
           new == NewRun(tx[h].pin)
<1>1. /\ TypeOK /\ OneActive /\ VersionsAreResults /\ RowsInv /\ ClaimsInv /\ TxInv /\ Remembers
      /\ runs \in [Runs -> Run] /\ tx[h] \in Transaction /\ tx[h].op = "retry"
      /\ UNCHANGED <<versions, disk, tries>> /\ tx' = [tx EXCEPT ![h] = Idle]
  BY NotedRemembers DEF QueueInv, TypeOK, CommitRetry, End
<1>2. Idle \in Transaction /\ \A queued, claims : Founded(Idle, queued, claims)
  BY DEF Transaction, Idle, Founded, Reports
<1>3. CASE UNCHANGED <<runs, request>>
  <2>1. RequestKept /\ disk' \in Digests
    BY <1>1, <1>3 DEF RequestKept, Requests, TypeOK, RowsInv
  <2> QED  BY <1>1, <1>2, <1>3, <2>1, HandlerMoves
<1>4. CASE /\ Active \subseteq {old} /\ NextRun \in Runs
           /\ runs' = [runs EXCEPT ![old] = Fail(@), ![NextRun] = new]
           /\ request' = [status |-> "preparing", current |-> NextRun]
  <2>1. old \in Queued /\ old \in Runs /\ old # NextRun /\ NextRun \in 0..NumRuns
    BY <1>1, <1>4, NextIsNew, BoundsAssumption DEF TxInv, Founded, Queued, Runs
  <2>2. /\ new \in Run /\ new.state = "queued"
        /\ Fail(runs[old]) \in Run /\ Fail(runs[old]).state = "failed"
    BY <1>1, <2>1, TxTyped, NewRunTyped, RequeueTyped
  <2> HIDE DEF new
  <2>3. /\ runs' \in [Runs -> Run] /\ runs'[NextRun] = new /\ runs'[old] = Fail(runs[old])
        /\ \A s \in Runs : s # NextRun /\ s # old => runs'[s] = runs[s]
    <3>1. \A s \in Runs : runs'[s] = IF s = NextRun THEN new ELSE IF s = old THEN Fail(runs[old]) ELSE runs[s]
      BY <1>1, <1>4, <2>1
    <3>2. runs' = [s \in Runs |-> runs'[s]]
      BY <1>1, <1>4
    <3>3. \A s \in Runs : runs'[s] \in Run
      BY <1>1, <2>2, <3>1
    <3> QED  BY <1>4, <2>1, <3>1, <3>2, <3>3
  <2>4. runs[NextRun].state = "absent" /\ runs[old].state # "absent"
    BY <1>1, <1>4, <2>1, NextIsNew DEF Queued
  <2>5. Queued' = Queued \cup {NextRun}
    BY <1>4, <2>1, <2>2, <2>3, <2>4 DEF Queued
  <2>6. Queued' = 1..Cardinality(Queued') /\ Queued \subseteq Queued' /\ NextRun \in Queued'
    BY <1>1, <2>5, RowsGrow
  <2>7. ~overtaken' /\ runs[old].state \in Terminal => runs[old].state = "failed"
    BY <1>1 DEF Noted, Overtakes, MayReplace, Terminal
  <2>8. TerminalKept
    BY <2>2, <2>3, <2>4, <2>7 DEF TerminalKept, Terminal
  <2>9. OneActive'
    <3>1. Active' \subseteq {NextRun}
      <4>1. Queued \subseteq Runs
        BY DEF Queued
      <4>2. \A r \in Queued : r # NextRun => runs'[r].state \in Terminal
        <5>1. \A r \in Queued : r # old => r \notin Active
          BY <1>4
        <5>2. runs'[old].state \in Terminal
          BY <2>2, <2>3 DEF Terminal
        <5> QED  BY <2>3, <4>1, <5>1, <5>2 DEF Active
      <4> QED  BY <2>5, <4>2 DEF Active
    <3>2. \A r, s \in Active' : r = s
      BY <3>1
    <3> QED  BY <3>2 DEF OneActive
  <2>10. VersionsAreResults' /\ RetiredKept
    BY <1>1, <2>8, ResultsKept
  <2>11. tx' \in [Handlers -> Transaction] /\ TxInv'
    BY <1>1, <1>2, <2>6, TxMoves
  <2>12. ClaimsInv'
    BY <1>1, <2>6, ClaimsKept
  <2>13. request' \in Requests /\ request'.current \in Queued'
    BY <1>4, <2>1, <2>6 DEF Requests, RequestStates
  <2>14. RowsInv'
    BY <2>6, <2>13 DEF RowsInv
  <2>15. TypeOK'
    BY <1>1, <2>3, <2>11, <2>13 DEF TypeOK, Remembers, Requests
  <2> QED  BY <2>8, <2>9, <2>10, <2>11, <2>12, <2>14, <2>15 DEF Kept, QueueInv
<1>5. CASE Active \subseteq {old}
  BY <1>4, <1>5 DEF CommitRetry
<1>6. CASE ~(Active \subseteq {old})
  BY <1>3, <1>6 DEF CommitRetry
<1> QED  BY <1>5, <1>6

---------------------------------------------------------------------------
(* The theorems.                                                           *)

LEMMA QueueInit == Init => QueueInv
<1> SUFFICES ASSUME Init PROVE QueueInv
  OBVIOUS
<1>1. /\ disk \in Digests
      /\ runs = [r \in Runs |-> [state |-> "absent", job |-> NoJob, lease |-> "none",
                                 error |-> FALSE, pin |-> disk, silent |-> FALSE]]
      /\ request = [status |-> "none", current |-> NoRun] /\ versions = <<>>
      /\ tries = [r \in Runs |-> <<>>] /\ tx = [h \in Handlers |-> Idle] /\ overtaken = FALSE
  BY DEF Init
<1>2. TypeOK
  <2>1. runs \in [Runs -> Run]
    BY <1>1, BoundsAssumption DEF Run, RunStates, NoJob
  <2>2. request \in [status : RequestStates, current : 0..NumRuns]
    BY <1>1, BoundsAssumption DEF RequestStates, NoRun
  <2>3. versions \in Seq(Runs) /\ tries \in [Runs -> Seq({"open", "cleared", "closed", "running"} \cup Terminal)]
    BY <1>1
  <2>4. tx \in [Handlers -> Transaction]
    BY <1>1 DEF Transaction
  <2> QED  BY <1>1, <2>1, <2>2, <2>3, <2>4 DEF TypeOK
<1>3. Queued = {}
  BY <1>1 DEF Queued
<1>4. RowsInv
  <2>1. Cardinality(Queued) = 0 /\ 1..0 = {}
    BY <1>3, FS_EmptySet
  <2> QED  BY <1>1, <1>3, <2>1 DEF RowsInv
<1>5. ClaimsInv
  <2>1. Claims = {}
    <3>1. \A r \in Runs : DOMAIN tries[r] = {}
      BY <1>1
    <3> QED  BY <3>1 DEF Claims
  <2> QED  BY <1>1, <2>1, FS_EmptySet, BoundsAssumption DEF ClaimsInv
<1>6. TxInv
  BY <1>1 DEF TxInv, Founded, Idle, Reports
<1>7. OneActive /\ VersionsAreResults
  <2>1. Active = {}
    BY <1>3 DEF Active
  <2>2. DOMAIN versions = {}
    BY <1>1
  <2> QED  BY <2>1, <2>2 DEF OneActive, VersionsAreResults, IsInjective
<1> QED  BY <1>2, <1>4, <1>5, <1>6, <1>7 DEF QueueInv

LEMMA CommitKeeps ==
    ASSUME QueueInv, NEW h \in Handlers, CommitNoted(h)
    PROVE  Kept
<1>1. Noted(h) /\ Commit(h) /\ Remembers
  BY NotedRemembers DEF CommitNoted, Noted, QueueInv
<1>2. CASE CommitCreate(h) \/ Rewrite(h) \/ PatchRequest(h) \/ PointRequest(h) \/ Declined(h)
  BY <1>1, <1>2, RequestCommitsKeep
<1>3. CASE CommitEnqueue(h)
  BY <1>1, <1>3, CommitEnqueueKeeps
<1>4. CASE CommitRetry(h)
  BY <1>1, <1>4, CommitRetryKeeps
<1>5. CASE Release(h)
  BY <1>1, <1>5, ReleaseKeeps
<1>6. CASE Submitted(h) \/ SubmissionFailed(h) \/ Refused(h) \/ TrainingFailed(h) \/ CompletedFailed(h)
  BY <1>1, <1>6, ReportsKeep
<1>7. CASE CompletedSucceeded(h)
  BY <1>1, <1>7, CompletedSucceededKeeps
<1> QED  BY <1>1, <1>2, <1>3, <1>4, <1>5, <1>6, <1>7 DEF Commit

LEMMA StepKeeps == QueueInv /\ Step /\ UNCHANGED overtaken => Kept
<1> SUFFICES ASSUME QueueInv, Step, UNCHANGED overtaken PROVE Kept
  OBVIOUS
<1>1. CASE Claim
  BY <1>1, ClaimKeeps
<1>2. ASSUME NEW r \in Runs, LeaseRunsOut(r) \/ GoesSilent(r) PROVE Kept
  BY <1>2, ClockKeeps
<1>3. ASSUME NEW r \in Runs, NEW a \in DOMAIN tries[r], Fetch(r, a) \/ Launch(r, a) \/ JobEnds(r, a) PROVE Kept
  BY <1>3, TriesKeep
<1>4. ASSUME NEW r \in Runs, NEW a \in DOMAIN tries[r], NEW h \in Handlers, NEW op \in Reports,
             BeginReport(h, op, r, a)
      PROVE  Kept
  BY <1>4, BeginReportKeeps
<1>5. ASSUME NEW h \in Handlers,
             \/ BeginCreate(h) \/ BeginEnqueue(h) \/ BeginRetry(h)
             \/ \E op \in {"prepare", "rebuild"} : BeginRewrite(h, op)
             \/ PrepareFails(h) \/ Abort(h)
      PROVE  Kept
  BY <1>5, BeginKeeps
<1> QED  BY <1>1, <1>2, <1>3, <1>4, <1>5 DEF Step

LEMMA QueueNext == QueueInv /\ [Next]_vars => Kept
<1> SUFFICES ASSUME QueueInv, [Next]_vars PROVE Kept
  OBVIOUS
<1>1. CASE UNCHANGED vars
  <2>1. Remembers /\ UNCHANGED <<runs, request, versions, disk, tries, tx, overtaken>>
    BY <1>1 DEF vars, QueueInv, TypeOK, Remembers
  <2>2. RequestKept
    BY <2>1 DEF QueueInv, TypeOK, RequestKept, Requests, RowsInv
  <2>3. Queued' = Queued /\ OneActive' /\ VersionsAreResults' /\ TerminalKept /\ RetiredKept
    BY <2>1, StatesKept DEF QueueInv
  <2>4. RowsInv' /\ ClaimsInv'
    BY <2>1, <2>2, <2>3, RowsKept, ClaimsKept DEF QueueInv
  <2>5. TypeOK' /\ TxInv'
    BY <2>1, <2>3 DEF QueueInv, TypeOK, TxInv
  <2> QED  BY <2>3, <2>4, <2>5 DEF Kept, QueueInv
<1>2. CASE Step /\ UNCHANGED overtaken
  BY <1>2, StepKeeps
<1>3. ASSUME NEW h \in Handlers, CommitNoted(h) PROVE Kept
  BY <1>3, CommitKeeps
<1> QED  BY <1>1, <1>2, <1>3 DEF Next

LEMMA QueueInvSafe == QueueInv => QueueSafety
<1> SUFFICES ASSUME QueueInv PROVE QueueSafety
  OBVIOUS
<1>1. ASSUME \A r, s \in Active : r = s PROVE Cardinality(Active) <= 1
  <2>1. CASE Active = {}
    BY <2>1, FS_EmptySet
  <2>2. CASE Active # {}
    <3>1. PICK r \in Active : Active = {r}
      BY <1>1, <2>2
    <3>2. Cardinality({r}) = 1
      BY FS_Singleton
    <3> QED  BY <3>1, <3>2
  <2> QED  BY <2>1, <2>2
<1> QED  BY <1>1 DEF QueueInv, OneActive, QueueSafety

\* Whatever the handlers interleave, and however often a report is delivered: a
\* version is registered once, for the run that produced it, and no two runs
\* of a course are outstanding, until a transaction commits on what others have
\* since changed.
THEOREM QueueIsSafe == Spec => []QueueSafety
<1>1. QueueInv /\ [Next]_vars => QueueInv'
  BY QueueNext DEF Kept
<1> QED  BY QueueInit, <1>1, QueueInvSafe, PTL DEF Spec

\* A finished run keeps its outcome, no late report reopens it, and a retired run's
\* late success registers nothing.
THEOREM EndsStayFinal == Spec => EndsAreFinal
<1>1. QueueInv /\ [Next]_vars => QueueInv'
  BY QueueNext DEF Kept
<1>2. QueueInv /\ [Next]_vars =>
        [\A r \in Runs : runs[r].state \in Terminal /\ ~overtaken'
                            => runs'[r].state = runs[r].state]_vars
  BY QueueNext DEF Kept, TerminalKept
<1>3. QueueInv /\ [Next]_vars =>
        [\A r \in Runs : runs[r].state = "failed" /\ ~Contains(versions, r) /\ ~overtaken'
                            => ~Contains(versions', r)]_vars
  BY QueueNext DEF Kept, RetiredKept
<1>4. QueueInv /\ [Next]_vars =>
        [\A r \in Runs : ~overtaken' =>
            /\ runs[r].state \in Terminal => runs'[r].state = runs[r].state
            /\ runs[r].state = "failed" /\ ~Contains(versions, r) => ~Contains(versions', r)]_vars
  BY <1>2, <1>3
<1> QED  BY QueueInit, <1>1, <1>4, PTL DEF Spec, EndsAreFinal

(***************************************************************************)
(* The course's files.                                                     *)
(***************************************************************************)

FileRecords == [split : Nat, text : Nat, export : Nat, indexes : SUBSET Nat]
Carrying    == {"retrieving", "wrote train", "wrote validation"}
PrepPlaces  == {"idle", "exporting", "splitting"} \cup Carrying
ExportRecords == [n : Nat, text : Nat, summary : Nat]

Train    == files["train"].split
Valid    == files["validation"].split
Manifest == files["manifest"].split
Alike(f, g) == f.export = g.export /\ f.indexes = g.indexes

PrepRecords == [at : PrepPlaces, text : Nat, export : Nat, indexes : SUBSET Nat]

FilesTyped ==
    /\ prep \in [Admins -> PrepRecords]
    /\ export \in ExportRecords
    /\ files \in [FileNames -> FileRecords]
    /\ Train <= MaxSplits
    /\ \A a, b \in Admins : Writing(a) /\ Writing(b) => a = b

\* What is on disk is of a split that has a number.
NumberedInv ==
    /\ \A f \in FileNames : files[f].split = 0 => files[f] = NoFile
    /\ \A a \in Admins : Writing(a) => Train # 0

\* A run has what it was queued with, and reads on only before and at its start.
RunInv ==
    /\ run.state \in {"none", "failed"} => run.pin = << >> /\ run.described = << >> /\ run.got = << >>
    /\ run.state \in {"queued", "claimed"} => Len(run.pin) = 4 /\ run.described = << >> /\ run.got = << >>
    /\ run.state \in {"fetching", "trained"} =>
         /\ Len(run.pin) = 4 /\ run.described = run.pin
         /\ \A i \in 1..Len(run.got) : run.got[i] = run.pin[i]
    /\ run.state = "fetching" => Len(run.got) < 4
    /\ run.state = "trained" => Len(run.got) = 4
    /\ reading # << >> => run.state \in {"none", "claimed"}

RunTyped ==
    /\ reading \in Seq(FileRecords) /\ Len(reading) <= 4
    /\ run \in [state : {"none", "queued", "claimed", "fetching", "trained", "failed"},
                pin : Seq(FileRecords), described : Seq(FileRecords), got : Seq(FileRecords)]
    /\ RunInv

\* The syllabus and its row.
SyllabusInv ==
    /\ syllabus \in [text : Bounded, index : Bounded]
    /\ row \in [status : {"missing", "indexed", "index_failed"}, names : Bounded]
    /\ upload \in [Uploads -> [at : {"no", "building", "over"}, replacing : BOOLEAN]]
    /\ rebuild \in Bounded
    /\ excuse \subseteq Excuses /\ faults \in 0..MaxFaults
    /\ StatusMatchesDisk

\* The example: what is approved was seen.
ReviewInv ==
    /\ seed \in [text : 1..MaxText, status : ReviewStates]
    /\ shown \in [Reviewers -> 1..MaxText]
    /\ approved \subseteq 1..MaxText
    /\ Excused({"approved unseen"}) \/ (seed.status = "approved" => seed.text \in approved)

\* The text that is carried from the export to the run is an approved one.
TextInv ==
    \/ Excused({"approved unseen"})
    \/ /\ export.text # 0 => export.text \in approved
       /\ \A a \in Admins : prep[a].at \in Carrying => prep[a].text \in approved
       /\ Train # 0 => files["train"].text \in approved
       /\ reading # << >> => reading[1].text \in approved
       /\ run.pin # << >> => run.pin[1].text \in approved

\* The three files are of one split, but for those a split is writing, and a
\* reader that began on one split reads on in this or a later one.
SplitInv ==
    \/ Excused({"split cut short"})
    \/ /\ LoopFree => Train = Valid /\ Valid = Manifest
       /\ \A a \in Admins : /\ prep[a].at = "wrote train" => Train = Valid + 1 /\ Valid = Manifest
                            /\ prep[a].at = "wrote validation" => Train = Valid /\ Valid = Manifest + 1
       /\ reading # << >> => 1 <= reading[1].split /\ reading[1].split <= Manifest
       /\ Len(reading) >= 2 => reading[1].split <= reading[2].split /\ reading[2].split <= Train
       /\ Len(reading) >= 3 => reading[1].split <= reading[3].split /\ reading[3].split <= Train
       /\ run.pin # << >> =>
            /\ 1 <= run.pin[1].split
            /\ run.pin[1].split <= run.pin[2].split /\ run.pin[2].split <= Train
            /\ run.pin[1].split <= run.pin[3].split /\ run.pin[3].split <= Train
       /\ run.state = "claimed" /\ reading # << >> =>
            run.pin[2].split <= reading[1].split /\ run.pin[3].split <= reading[1].split
       /\ run.state \in {"fetching", "trained"} =>
            run.pin[2].split = run.pin[1].split /\ run.pin[3].split = run.pin[1].split

\* The manifest of a split says of what its examples were made.
ManifestInv ==
    \/ Excused({"replaced during a split", "split cut short", "export cut short"})
    \/ /\ export.summary = export.n
       /\ \A a \in Admins : prep[a].at \in Carrying =>
            prep[a].export = export.n /\ prep[a].indexes = {syllabus.index}
       /\ LoopFree => Alike(files["train"], files["manifest"])
       /\ \A a \in Admins : Writing(a) => Alike(files["train"], prep[a])
       /\ reading # << >> /\ reading[1].split = Manifest => Alike(reading[1], files["manifest"])
       /\ Len(reading) >= 3 /\ reading[3].split = reading[1].split => Alike(reading[3], reading[1])
       /\ run.pin # << >> /\ run.pin[3].split = run.pin[1].split => Alike(run.pin[3], run.pin[1])

ContentInv ==
    /\ FilesTyped /\ NumberedInv /\ RunTyped /\ SyllabusInv /\ ReviewInv
    /\ TextInv /\ SplitInv /\ ManifestInv

LEMMA OrderIs ==
    /\ Len(Order) = 4 /\ Order[1] = "train" /\ Order[2] = "validation" /\ Order[3] = "manifest"
    /\ Order[4] = "summary"
BY DEF Order

LEMMA OnDiskIs ==
    ASSUME FilesTyped
    PROVE  /\ OnDisk(Order[1]) = files["train"] /\ OnDisk(Order[2]) = files["validation"]
           /\ OnDisk(Order[3]) = files["manifest"]
           /\ \A n \in 1..4 : OnDisk(Order[n]) \in FileRecords
<1>1. /\ OnDisk("train") = files["train"] /\ OnDisk("validation") = files["validation"]
      /\ OnDisk("manifest") = files["manifest"]
  BY DEF OnDisk
<1>2. files["train"] \in FileRecords /\ files["validation"] \in FileRecords
      /\ files["manifest"] \in FileRecords
  BY DEF FilesTyped, FileNames
<1>3. OnDisk("summary") \in FileRecords
  <2>1. OnDisk("summary") = [NoFile EXCEPT !.export = export.summary] /\ export.summary \in Nat
    BY DEF OnDisk, FilesTyped, ExportRecords
  <2> QED  BY <2>1 DEF NoFile, FileRecords
<1>4. \A n \in 1..4 : n = 1 \/ n = 2 \/ n = 3 \/ n = 4
  OBVIOUS
<1> QED  BY <1>1, <1>2, <1>3, <1>4, OrderIs

LEMMA GotIs ==
    Got("train") = run.got[1] /\ Got("validation") = run.got[2] /\ Got("manifest") = run.got[3]
<1>1. \A n \in 1..4 : n = 1 \/ n = 2 \/ n = 3 \/ n = 4
  OBVIOUS
<1>2. (CHOOSE n \in 1..Len(Order) : Order[n] = "train") = 1
  BY <1>1, OrderIs
<1>3. (CHOOSE n \in 1..Len(Order) : Order[n] = "validation") = 2
  BY <1>1, OrderIs
<1>4. (CHOOSE n \in 1..Len(Order) : Order[n] = "manifest") = 3
  BY <1>1, OrderIs
<1> QED  BY <1>2, <1>3, <1>4 DEF Got

LEMMA AppendAt ==
    ASSUME NEW S, NEW q \in Seq(S), NEW e \in S
    PROVE  /\ Append(q, e) \in Seq(S) /\ Len(Append(q, e)) = Len(q) + 1
           /\ \A i \in 1..Len(q) : Append(q, e)[i] = q[i]
           /\ Append(q, e)[Len(q) + 1] = e /\ Append(q, e) # << >>
OBVIOUS

\* What is excused once is excused for good.
LEMMA ExcusesStay ==
    ASSUME excuse \subseteq Excuses, [ContentNext]_contentVars
    PROVE  excuse \subseteq excuse' /\ excuse' \subseteq Excuses
<1>1. CASE UNCHANGED contentVars
  BY <1>1 DEF contentVars
<1>2. ASSUME NEW u \in Uploads, BeginUpload(u) \/ CommitUpload(u) \/ UploadFails(u)
      PROVE  excuse \subseteq excuse' /\ excuse' \subseteq Excuses
  BY <1>2 DEF BeginUpload, CommitUpload, UploadFails, Excuse, Excuses
<1>3. CASE BeginRebuild \/ FinishRebuild
  BY <1>3 DEF BeginRebuild, FinishRebuild, Excuses
<1>4. ASSUME NEW r \in Reviewers, LoadPage(r) \/ \E intent \in Intents : Review(r, intent)
      PROVE  excuse \subseteq excuse' /\ excuse' \subseteq Excuses
  BY <1>4 DEF LoadPage, Review, Excuse, Excuses
<1>5. ASSUME NEW a \in Admins,
             \/ BeginExport(a) \/ Export(a) \/ BeginSplit(a) \/ LoadRecords(a) \/ RetrieveMore(a)
             \/ PrepFails(a) \/ WriteTrain(a) \/ WriteValidation(a) \/ WriteManifest(a) \/ ExportFails(a)
             \/ SplitFails(a)
      PROVE  excuse \subseteq excuse' /\ excuse' \subseteq Excuses
  BY <1>5 DEF BeginExport, Export, BeginSplit, LoadRecords, RetrieveMore, PrepFails, WriteTrain,
              WriteValidation, WriteManifest, ExportFails, SplitFails, Excuse, Excuses
<1>6. CASE StartDescribe \/ DescribeNext \/ Enqueue \/ ClaimRun \/ AnswerWorker \/ Download \/ RunOver
  BY <1>6 DEF StartDescribe, DescribeNext, Enqueue, ClaimRun, AnswerWorker, Download, RunOver
<1>7. CASE Kill
  BY <1>7 DEF Kill, Excuses
<1> QED  BY <1>1, <1>2, <1>3, <1>4, <1>5, <1>6, <1>7 DEF ContentNext

LEMMA ExcusedStays ==
    ASSUME excuse \subseteq Excuses, [ContentNext]_contentVars, NEW whats, Excused(whats)
    PROVE  Excused(whats)'
BY ExcusesStay DEF Excused

---------------------------------------------------------------------------
(* The syllabus and its row.                                               *)

\* A syllabus that is being built has a number of its own.
LEMMA NewSyllabusTyped ==
    ASSUME SyllabusInv, NEW u \in Uploads, upload[u].at # "over"
    PROVE  NewSyllabus \in Bounded /\ NewSyllabus # 0
<1> DEFINE over == {x \in Uploads : upload[x].at = "over"}
<1>1. IsFiniteSet(Uploads)
  BY ContentAssumption
<1>2. over \subseteq Uploads \ {u}
  OBVIOUS
<1>3. IsFiniteSet(Uploads \ {u}) /\ Cardinality(Uploads \ {u}) = Cardinality(Uploads) - 1
  BY <1>1, FS_RemoveElement
<1>4. IsFiniteSet(over) /\ Cardinality(over) <= Cardinality(Uploads \ {u})
  BY <1>2, <1>3, FS_Subset
<1>5. Cardinality(over) \in Nat /\ Cardinality(Uploads) \in Nat
  BY <1>1, <1>4, FS_CardinalityType
<1>6. NewSyllabus = Cardinality(over) + 1
  BY DEF NewSyllabus
<1> HIDE DEF over
<1> QED  BY <1>3, <1>4, <1>5, <1>6 DEF Bounded

LEMMA SyllabusStays ==
    ASSUME SyllabusInv, [ContentNext]_contentVars
    PROVE  SyllabusInv'
<1> DEFINE cut == {"commit cut short"}
           unsaid == {"first uploads overlapped", "row not written", "commit cut short"}
           unnamed == {"row not written", "commit cut short"}
           apart == {"commit cut short", "rebuilt an old text"}
<1>t. /\ syllabus \in [text : Bounded, index : Bounded]
      /\ row \in [status : {"missing", "indexed", "index_failed"}, names : Bounded]
      /\ upload \in [Uploads -> [at : {"no", "building", "over"}, replacing : BOOLEAN]]
      /\ rebuild \in Bounded
      /\ excuse \subseteq Excuses /\ faults \in 0..MaxFaults
      /\ MaxFaults \in Nat
  BY ContentAssumption DEF SyllabusInv
<1>m. /\ (row.status = "indexed" => syllabus.index # 0) \/ Excused(cut)
      /\ (row.status = "indexed" <=> syllabus.index # 0) \/ Excused(unsaid)
      /\ row.names = syllabus.text \/ Excused(unnamed)
      /\ syllabus.index = syllabus.text \/ Excused(apart)
  BY DEF SyllabusInv, StatusMatchesDisk
<1>e. excuse \subseteq excuse' /\ excuse' \subseteq Excuses
  BY <1>t, ExcusesStay
<1> DEFINE Good ==
      /\ syllabus' \in [text : Bounded, index : Bounded]
      /\ row' \in [status : {"missing", "indexed", "index_failed"}, names : Bounded]
      /\ upload' \in [Uploads -> [at : {"no", "building", "over"}, replacing : BOOLEAN]]
      /\ rebuild' \in Bounded
      /\ faults' \in 0..MaxFaults
      /\ (row'.status = "indexed" => syllabus'.index # 0) \/ Excused(cut)'
      /\ (row'.status = "indexed" <=> syllabus'.index # 0) \/ Excused(unsaid)'
      /\ row'.names = syllabus'.text \/ Excused(unnamed)'
      /\ syllabus'.index = syllabus'.text \/ Excused(apart)'
<1>g. SUFFICES Good
  BY <1>e DEF SyllabusInv, StatusMatchesDisk
<1>0. CASE UNCHANGED <<syllabus, row, upload, rebuild>> /\ faults' \in 0..MaxFaults
  BY <1>0, <1>t, <1>m, <1>e DEF Excused
<1>f. Fault => faults' \in 0..MaxFaults
  BY <1>t DEF Fault
<1>c. "commit cut short" \in excuse' =>
        Excused(cut)' /\ Excused(unsaid)' /\ Excused(unnamed)' /\ Excused(apart)'
  BY DEF Excused
<1>u. "row not written" \in excuse' => Excused(unsaid)' /\ Excused(unnamed)'
  BY DEF Excused
<1>d. ASSUME NEW u \in Uploads, upload[u].at # "over"
      PROVE  \A s \in MidCommit : s \in [text : Bounded, index : Bounded]
  <2>1. NewSyllabus \in Bounded /\ 0 \in Bounded
    <3>1. Cardinality(Uploads) \in Nat
      BY ContentAssumption, FS_CardinalityType
    <3>2. 0 \in Bounded
      BY <3>1 DEF Bounded
    <3> QED  BY <1>d, <3>2, NewSyllabusTyped
  <2> DEFINE n == NewSyllabus
             B == Bounded
  <2>2. n \in B /\ 0 \in B /\ syllabus \in [text : B, index : B]
    BY <2>1, <1>t
  <2> HIDE DEF n, B
  <2>3. ASSUME NEW w \in [text : B, index : B], NEW x \in B
        PROVE  /\ [w EXCEPT !.text = x] \in [text : B, index : B]
               /\ [w EXCEPT !.index = x] \in [text : B, index : B]
    OBVIOUS
  <2>4. \A w \in Written : w \in [text : B, index : B]
    BY <2>2, <2>3 DEF Written, Committed, n
  <2>5. \A w \in Deleted : w \in [text : B, index : B]
    BY <2>2, <2>3, <2>4 DEF Deleted, NoSyllabus
  <2>6. \A w \in PutBack : w \in [text : B, index : B]
    BY <2>2, <2>3 DEF PutBack
  <2> QED  BY <2>4, <2>5, <2>6 DEF MidCommit, B
<1>1. ASSUME NEW u \in Uploads, BeginUpload(u) PROVE Good
  <2>1. upload' \in [Uploads -> [at : {"no", "building", "over"}, replacing : BOOLEAN]]
    <3>1. [at |-> "building", replacing |-> syllabus.index # 0]
             \in [at : {"no", "building", "over"}, replacing : BOOLEAN]
      OBVIOUS
    <3> QED  BY <1>1, <1>t, <3>1 DEF BeginUpload
  <2> QED  BY <1>1, <1>t, <1>m, <1>e, <2>1 DEF BeginUpload, Excused
<1>n. ASSUME NEW u \in Uploads, Ends(u)
      PROVE  upload' \in [Uploads -> [at : {"no", "building", "over"}, replacing : BOOLEAN]]
  BY <1>n, <1>t DEF Ends
<1>2. ASSUME NEW u \in Uploads, CommitUpload(u) PROVE Good
  <2>1. NewSyllabus \in Bounded /\ NewSyllabus # 0
    BY <1>2, NewSyllabusTyped DEF CommitUpload
  <2>2. syllabus' = [text |-> NewSyllabus, index |-> NewSyllabus] /\ Ends(u) /\ rebuild' = rebuild
    BY <1>2 DEF CommitUpload, Committed
  <2>3. CASE row' = [status |-> "indexed", names |-> NewSyllabus] /\ UNCHANGED faults
    BY <1>t, <1>n, <2>1, <2>2, <2>3
  <2>4. CASE Fault /\ UNCHANGED row /\ "row not written" \in excuse'
    <3> HIDE DEF cut, unsaid, unnamed, apart
    <3> QED  BY <1>t, <1>n, <1>f, <1>u, <2>1, <2>2, <2>4
  <2> QED  BY <1>2, <2>3, <2>4 DEF CommitUpload
<1>3. ASSUME NEW u \in Uploads, UploadFails(u) PROVE Good
  <2>1. /\ Ends(u) /\ rebuild' = rebuild /\ faults' \in 0..MaxFaults /\ upload[u].at # "over"
        /\ syllabus' = syllabus \/ syllabus' \in MidCommit
        /\ syllabus' # syllabus => "commit cut short" \in excuse'
    BY <1>3, <1>t, <1>f DEF UploadFails
  <2>2. row' = row \/ (~ upload[u].replacing /\ row' = [row EXCEPT !.status = "index_failed"])
    BY <1>3 DEF UploadFails, RecordsFailure
  <2>3. /\ row' \in [status : {"missing", "indexed", "index_failed"}, names : Bounded]
        /\ row'.names = row.names
        /\ row' = row \/ row'.status = "index_failed"
    BY <2>2, <1>t
  <2>4. syllabus' \in [text : Bounded, index : Bounded]
    BY <2>1, <1>t, <1>d
  <2>5. CASE syllabus' # syllabus
    <3> HIDE DEF cut, unsaid, unnamed, apart
    <3> QED  BY <1>t, <1>n, <1>c, <2>1, <2>3, <2>4, <2>5
  <2>6. CASE syllabus' = syllabus
    <3>1. row' # row => (syllabus.index # 0 => "first uploads overlapped" \in excuse')
      BY <1>3, <2>2 DEF UploadFails, FirstUploadsOverlap
    <3>2. row' # row => (syllabus.index # 0 => Excused(unsaid)')
      BY <3>1 DEF Excused
    <3> QED  BY <1>t, <1>m, <1>e, <1>n, <2>1, <2>3, <2>6, <3>2 DEF Excused
  <2> QED  BY <2>5, <2>6
<1>4. CASE BeginRebuild
  BY <1>4, <1>t, <1>m, <1>e DEF BeginRebuild, Excused
<1>5. CASE FinishRebuild
  <2>1. /\ rebuild # 0 /\ rebuild' = 0 /\ upload' = upload /\ faults' = faults
        /\ syllabus' = [syllabus EXCEPT !.index = rebuild]
        /\ row' = row \/ row' = [row EXCEPT !.status = "indexed"]
        /\ rebuild # syllabus.text => "rebuilt an old text" \in excuse'
        /\ row' = row /\ row.status # "indexed" => "row not written" \in excuse'
    BY <1>5 DEF FinishRebuild
  <2>2. /\ syllabus' \in [text : Bounded, index : Bounded]
        /\ syllabus'.index = rebuild /\ syllabus'.text = syllabus.text
    BY <2>1, <1>t
  <2>3. /\ row' \in [status : {"missing", "indexed", "index_failed"}, names : Bounded]
        /\ row'.names = row.names /\ (row'.status = row.status \/ row'.status = "indexed")
        /\ row'.status = "indexed" \/ (row' = row /\ row.status # "indexed")
    BY <2>1, <1>t
  <2>4. rebuild' \in Bounded
    <3>1. Cardinality(Uploads) \in Nat
      BY ContentAssumption, FS_CardinalityType
    <3>2. 0 \in Bounded
      BY <3>1 DEF Bounded
    <3> QED  BY <3>2, <2>1
  <2>5. row.names = syllabus.text \/ Excused(unnamed)'
    BY <1>m, <1>e DEF Excused
  <2>6. syllabus'.index = syllabus'.text \/ Excused(apart)'
    BY <2>1, <2>2 DEF Excused
  <2>7. row'.status = "indexed" \/ Excused(unsaid)'
    BY <2>1, <2>3 DEF Excused
  <2>8. row'.names = row.names
    BY <2>1, <1>t
  <2> QED  BY <1>t, <2>1, <2>2, <2>3, <2>4, <2>5, <2>6, <2>7, <2>8
<1>6. CASE Kill
  <2>1. /\ row' = row /\ rebuild' = rebuild /\ faults' \in 0..MaxFaults
    BY <1>6, <1>f DEF Kill
  <2>2. upload' \in [Uploads -> [at : {"no", "building", "over"}, replacing : BOOLEAN]]
    <3>1. \A u \in Uploads : [upload[u] EXCEPT !.at = "over"]
                                \in [at : {"no", "building", "over"}, replacing : BOOLEAN]
      BY <1>t
    <3> QED  BY <1>6, <1>t, <3>1 DEF Kill
  <2>3. CASE syllabus' = syllabus
    BY <1>t, <1>m, <1>e, <2>1, <2>2, <2>3 DEF Excused
  <2>4. CASE syllabus' # syllabus
    <3>1. PICK u \in Uploads : upload[u].at = "building"
      BY <1>6, <2>4 DEF Kill
    <3>2. NewSyllabus \in Bounded /\ NewSyllabus # 0
      BY <3>1, NewSyllabusTyped
    <3>3. syllabus' \in MidCommit
      BY <1>6, <2>4 DEF Kill
    <3>4. syllabus' \in [text : Bounded, index : Bounded]
      BY <3>1, <3>3, <1>d
    <3>5. CASE syllabus' = Committed
      <4>1. "row not written" \in excuse'
        BY <1>6, <2>4, <3>5 DEF Kill
      <4>2. syllabus'.index = NewSyllabus /\ syllabus'.text = NewSyllabus
        BY <3>5 DEF Committed
      <4> HIDE DEF cut, unsaid, unnamed, apart
      <4> QED  BY <1>t, <1>u, <2>1, <2>2, <3>2, <3>4, <4>1, <4>2
    <3>6. CASE syllabus' # Committed
      <4>1. "commit cut short" \in excuse'
        BY <1>6, <2>4, <3>6 DEF Kill
      <4> HIDE DEF cut, unsaid, unnamed, apart
      <4> QED  BY <1>t, <1>c, <2>1, <2>2, <3>4, <4>1
    <3> QED  BY <3>5, <3>6
  <2> QED  BY <2>3, <2>4
<1>7. ASSUME \/ \E r \in Reviewers : LoadPage(r) \/ \E intent \in Intents : Review(r, intent)
             \/ \E a \in Admins :
                 \/ BeginExport(a) \/ Export(a) \/ BeginSplit(a) \/ LoadRecords(a) \/ RetrieveMore(a)
                 \/ PrepFails(a) \/ WriteTrain(a) \/ WriteValidation(a) \/ WriteManifest(a) \/ ExportFails(a)
                 \/ SplitFails(a)
             \/ StartDescribe \/ DescribeNext \/ Enqueue \/ ClaimRun \/ AnswerWorker \/ Download
             \/ RunOver \/ UNCHANGED contentVars
      PROVE  Good
  <2>1. UNCHANGED <<syllabus, row, upload, rebuild>> /\ (faults' = faults \/ Fault)
    BY <1>7 DEF LoadPage, Review, BeginExport, Export, BeginSplit, LoadRecords, RetrieveMore,
                PrepFails, WriteTrain, WriteValidation, WriteManifest, ExportFails, SplitFails,
                StartDescribe, DescribeNext,
                Enqueue, ClaimRun, AnswerWorker, Download, RunOver, contentVars, syllabusVars
  <2> QED  BY <1>0, <1>t, <1>f, <2>1
<1> HIDE DEF Good
<1> QED  BY <1>1, <1>2, <1>3, <1>4, <1>5, <1>6, <1>7 DEF ContentNext

---------------------------------------------------------------------------
(* The example.                                                            *)

LEMMA ReviewStays ==
    ASSUME ReviewInv, excuse \subseteq Excuses, [ContentNext]_contentVars
    PROVE  ReviewInv' /\ approved \subseteq approved'
<1>t. /\ seed \in [text : 1..MaxText, status : ReviewStates]
      /\ shown \in [Reviewers -> 1..MaxText]
      /\ approved \subseteq 1..MaxText /\ MaxText \in Nat
      /\ Excused({"approved unseen"}) \/ (seed.status = "approved" => seed.text \in approved)
  BY ContentAssumption DEF ReviewInv
<1>e. excuse \subseteq excuse' /\ excuse' \subseteq Excuses
  BY ExcusesStay
<1>1. ASSUME NEW r \in Reviewers, LoadPage(r) PROVE ReviewInv' /\ approved \subseteq approved'
  BY <1>1, <1>t, <1>e DEF LoadPage, ReviewInv, Excused
<1>2. ASSUME NEW r \in Reviewers, NEW intent \in Intents, Review(r, intent)
      PROVE  ReviewInv' /\ approved \subseteq approved'
  <2> DEFINE seen == intent \in Edits \/ shown[r] = seed.text
  <2>1. seed' = Reviewed(intent) /\ (intent \in Edits => seed.text < MaxText)
        /\ shown' = [shown EXCEPT ![r] = seed'.text]
    BY <1>2 DEF Review
  <2>2. /\ seed'.text = IF intent \in Edits THEN seed.text + 1 ELSE seed.text
        /\ seed'.status = StatusAsked(intent)
        /\ seed' = [text |-> seed'.text, status |-> seed'.status]
    BY <2>1 DEF Reviewed
  <2>3. seed'.text \in 1..MaxText
    <3>1. seed.text \in 1..MaxText /\ MaxText \in Nat
      BY <1>t
    <3> QED  BY <2>1, <2>2, <3>1
  <2>4. StatusAsked(intent) \in {"approved", "rejected", "edited"}
        /\ (StatusAsked(intent) = "approved" => intent \in {"approve", "edit and approve"})
    BY DEF StatusAsked, Intents
  <2>5. seed' \in [text : 1..MaxText, status : ReviewStates]
    BY <2>2, <2>3, <2>4 DEF ReviewStates
  <2>6. shown' \in [Reviewers -> 1..MaxText]
    BY <2>1, <2>3, <1>t
  <2>7. /\ approved' = IF StatusAsked(intent) = "approved" /\ seen
                       THEN approved \cup {seed'.text} ELSE approved
        /\ Excuse("approved unseen", intent = "approve" /\ ~ seen)
    BY <1>2 DEF Review
  <2>8. approved' \subseteq 1..MaxText /\ approved \subseteq approved'
    BY <2>3, <2>7, <1>t
  <2>9. Excused({"approved unseen"})' \/ (seed'.status = "approved" => seed'.text \in approved')
    <3>1. ASSUME seed'.status = "approved", ~seen PROVE Excused({"approved unseen"})'
      <4>1. intent = "approve"
        BY <3>1, <2>2, <2>4 DEF Edits
      <4> QED  BY <4>1, <3>1, <2>7 DEF Excuse, Excused
    <3> QED  BY <3>1, <2>2, <2>7
  <2> QED  BY <2>5, <2>6, <2>8, <2>9 DEF ReviewInv
<1>3. ASSUME UNCHANGED <<seed, shown, approved>> PROVE ReviewInv' /\ approved \subseteq approved'
  BY <1>3, <1>t, <1>e DEF ReviewInv, Excused
<1>4. ASSUME \/ \E u \in Uploads : BeginUpload(u) \/ CommitUpload(u) \/ UploadFails(u)
             \/ BeginRebuild \/ FinishRebuild \/ Kill
             \/ \E a \in Admins :
                 \/ BeginExport(a) \/ Export(a) \/ BeginSplit(a) \/ LoadRecords(a) \/ RetrieveMore(a)
                 \/ PrepFails(a) \/ WriteTrain(a) \/ WriteValidation(a) \/ WriteManifest(a) \/ ExportFails(a)
                 \/ SplitFails(a)
             \/ StartDescribe \/ DescribeNext \/ Enqueue \/ ClaimRun \/ AnswerWorker \/ Download
             \/ RunOver \/ UNCHANGED contentVars
      PROVE  UNCHANGED <<seed, shown, approved>>
  BY <1>4 DEF BeginUpload, CommitUpload, UploadFails, BeginRebuild, FinishRebuild, Kill,
              BeginExport, Export, BeginSplit, LoadRecords, RetrieveMore,
              PrepFails, WriteTrain, WriteValidation, WriteManifest, ExportFails, SplitFails,
              StartDescribe, DescribeNext,
              Enqueue, ClaimRun, AnswerWorker, Download, RunOver, contentVars, reviewVars
<1> QED  BY <1>1, <1>2, <1>3, <1>4 DEF ContentNext

---------------------------------------------------------------------------
(* The preparations, the export and the files.                             *)

LEMMA NumbersTyped ==
    ASSUME SyllabusInv, ReviewInv
    PROVE  syllabus.index \in Nat /\ seed.text \in Nat /\ MaxSplits \in Nat
<1>1. Cardinality(Uploads) \in Nat
  BY ContentAssumption, FS_CardinalityType
<1>2. syllabus.index \in Bounded /\ seed.text \in 1..MaxText /\ MaxText \in Nat /\ MaxSplits \in Nat
  BY ContentAssumption DEF SyllabusInv, ReviewInv
<1> QED  BY <1>1, <1>2 DEF Bounded

LEMMA FilesStay ==
    ASSUME FilesTyped, SyllabusInv, ReviewInv, [ContentNext]_contentVars
    PROVE  FilesTyped'
<1>t. /\ prep \in [Admins -> PrepRecords]
      /\ export \in ExportRecords
      /\ files \in [FileNames -> FileRecords]
      /\ Train \in Nat /\ Train <= MaxSplits
      /\ \A a, b \in Admins : Writing(a) /\ Writing(b) => a = b
      /\ \A a \in Admins : prep[a] \in PrepRecords
  BY DEF FilesTyped, FileNames, FileRecords, Train
<1>n. syllabus.index \in Nat /\ seed.text \in Nat /\ MaxSplits \in Nat
  BY NumbersTyped
<1>1. ASSUME UNCHANGED <<prep, export, files>> PROVE FilesTyped'
  BY <1>1 DEF FilesTyped, Writing, Train
<1>2. ASSUME NEW a \in Admins, NEW r \in PrepRecords, prep' = [prep EXCEPT ![a] = r],
             r.at \notin {"wrote train", "wrote validation"}, export' \in ExportRecords,
             files' \in [FileNames -> FileRecords], Train' <= MaxSplits
      PROVE  FilesTyped'
  <2>1. prep' \in [Admins -> PrepRecords]
    BY <1>2, <1>t
  <2>2. \A b \in Admins : prep'[b] = IF b = a THEN r ELSE prep[b]
    BY <1>2, <1>t
  <2>3. \A b, c \in Admins : Writing(b)' /\ Writing(c)' => b = c
    BY <1>2, <1>t, <2>2 DEF Writing
  <2> QED  BY <1>2, <2>1, <2>3 DEF FilesTyped
<1>3. ASSUME NEW a \in Admins, NEW from, NEW to \in PrepPlaces, PrepStep(a, from, to)
      PROVE  /\ prep[a].at = from
             /\ [prep[a] EXCEPT !.at = to] \in PrepRecords /\ [prep[a] EXCEPT !.at = to].at = to
             /\ prep' = [prep EXCEPT ![a] = [prep[a] EXCEPT !.at = to]]
  BY <1>3, <1>t DEF PrepStep, PrepRecords
<1>s. UNCHANGED files => Train' = Train
  BY DEF Train
<1>k. ASSUME NEW a \in Admins, NEW from, NEW to \in {"idle", "exporting", "splitting"},
             PrepStep(a, from, to), export' \in ExportRecords, UNCHANGED files
      PROVE  FilesTyped'
  <2>1. to \in PrepPlaces /\ to \notin {"wrote train", "wrote validation"}
    BY DEF PrepPlaces
  <2> DEFINE r == [prep[a] EXCEPT !.at = to]
  <2>2. r \in PrepRecords /\ r.at = to /\ prep' = [prep EXCEPT ![a] = r]
    BY <1>k, <1>3, <2>1
  <2> HIDE DEF r
  <2> QED  BY <1>2, <1>k, <1>s, <1>t, <2>1, <2>2
<1>4. ASSUME NEW a \in Admins, BeginExport(a) \/ BeginSplit(a) PROVE FilesTyped'
  <2>1. export' = export /\ files' = files
    BY <1>4 DEF BeginExport, BeginSplit
  <2>2. PrepStep(a, "idle", "exporting") \/ PrepStep(a, "idle", "splitting")
    BY <1>4 DEF BeginExport, BeginSplit
  <2> QED  BY <1>k, <1>t, <2>1, <2>2
<1>x. ASSUME NEW text \in {ExportText, 0}, NEW summary \in {export.n + 1, export.summary},
             Exports(text, summary)
      PROVE  export' \in ExportRecords
  <2>1. text \in Nat
    BY <1>n DEF ExportText
  <2>2. export.n + 1 \in Nat /\ summary \in Nat
    BY <1>t DEF ExportRecords
  <2> QED  BY <1>x, <2>1, <2>2 DEF Exports, ExportRecords
<1>y. ASSUME ExportCutShort PROVE export' \in ExportRecords
  BY <1>x, <1>y DEF ExportCutShort
<1>5. ASSUME NEW a \in Admins, Export(a) \/ ExportFails(a) PROVE FilesTyped'
  <2>1. PrepStep(a, "exporting", "idle") /\ files' = files
    BY <1>5 DEF Export, ExportFails
  <2>2. export' \in ExportRecords
    BY <1>5, <1>x, <1>y DEF Export, ExportFails
  <2> QED  BY <1>k, <2>1, <2>2
<1>6. ASSUME NEW a \in Admins, LoadRecords(a) PROVE FilesTyped'
  <2> DEFINE r == [at |-> "retrieving", text |-> export.text, export |-> export.n,
                   indexes |-> {syllabus.index}]
  <2>1. r \in PrepRecords /\ r.at = "retrieving"
    BY <1>t, <1>n DEF PrepRecords, PrepPlaces, Carrying, ExportRecords
  <2>2. prep' = [prep EXCEPT ![a] = r] /\ UNCHANGED <<export, files>>
    BY <1>6 DEF LoadRecords
  <2> HIDE DEF r
  <2> QED  BY <1>2, <1>s, <1>t, <2>1, <2>2
<1>7. ASSUME NEW a \in Admins, RetrieveMore(a) PROVE FilesTyped'
  <2> DEFINE r == [prep[a] EXCEPT !.indexes = @ \cup {syllabus.index}]
  <2>1. prep[a].indexes \cup {syllabus.index} \in SUBSET Nat /\ prep[a].at = "retrieving"
    BY <1>7, <1>t, <1>n DEF PrepRecords, RetrieveMore
  <2>2. r \in PrepRecords /\ r.at = "retrieving"
    BY <1>t, <2>1 DEF PrepRecords
  <2>3. prep' = [prep EXCEPT ![a] = r] /\ UNCHANGED <<export, files>>
    BY <1>7, <1>t DEF RetrieveMore
  <2> HIDE DEF r
  <2> QED  BY <1>2, <1>s, <1>t, <2>2, <2>3
<1>i. IdlePrep \in PrepRecords /\ IdlePrep.at = "idle"
  BY DEF IdlePrep, PrepRecords, PrepPlaces
<1>8. ASSUME NEW a \in Admins, PrepFails(a) \/ SplitFails(a) PROVE FilesTyped'
  BY <1>8, <1>2, <1>i, <1>s, <1>t DEF PrepFails, SplitFails
<1>9. ASSUME NEW a \in Admins, WriteTrain(a) PROVE FilesTyped'
  <2>1. /\ LoopFree /\ Train < MaxSplits /\ PrepStep(a, "retrieving", "wrote train")
        /\ files' = [files EXCEPT !["train"] = Records(a, Train + 1)] /\ export' = export
        /\ "wrote train" \in PrepPlaces
    BY <1>9 DEF WriteTrain, LastSplit, Train, Writes, PrepPlaces, Carrying
  <2>2. Records(a, Train + 1) \in FileRecords /\ Records(a, Train + 1).split = Train + 1
    BY <1>t DEF Records, FileRecords, PrepRecords
  <2>3. files' \in [FileNames -> FileRecords] /\ Train' = Train + 1
    BY <2>1, <2>2, <1>t DEF FileNames, Train
  <2> DEFINE r == [prep[a] EXCEPT !.at = "wrote train"]
  <2>r. r \in PrepRecords /\ prep' = [prep EXCEPT ![a] = r]
    BY <2>1, <1>3
  <2> HIDE DEF r
  <2>4. prep' \in [Admins -> PrepRecords] /\ \A b \in Admins \ {a} : prep'[b] = prep[b]
    BY <2>r, <1>t
  <2>5. ASSUME NEW b \in Admins, b # a PROVE ~ Writing(b)'
    <3>1. prep'[b] = prep[b] /\ ~ Writing(b)
      BY <2>1, <2>4, <2>5 DEF LoopFree
    <3> QED  BY <3>1 DEF Writing
  <2>6. Train' <= MaxSplits
    <3>1. Train < MaxSplits /\ Train' = Train + 1 /\ Train \in Nat /\ MaxSplits \in Nat
      BY <2>1, <2>3, <1>t, <1>n
    <3> HIDE DEF Train
    <3> DEFINE t == Train
    <3>2. t < MaxSplits /\ Train' = t + 1 /\ t \in Nat /\ MaxSplits \in Nat
      BY <3>1
    <3> HIDE DEF t
    <3> QED  BY <3>2
  <2>7. \A b, c \in Admins : Writing(b)' /\ Writing(c)' => b = c
    BY <2>5
  <2> QED  BY <2>1, <2>3, <2>4, <2>6, <2>7, <1>t DEF FilesTyped
<1>10. ASSUME NEW a \in Admins, WriteValidation(a) PROVE FilesTyped'
  <2>1. /\ PrepStep(a, "wrote train", "wrote validation")
        /\ files' = [files EXCEPT !["validation"] = Records(a, Train)] /\ export' = export
        /\ "wrote validation" \in PrepPlaces
    BY <1>10 DEF WriteValidation, LastSplit, Train, Writes, PrepPlaces, Carrying
  <2>2. Records(a, Train) \in FileRecords
    BY <1>t DEF Records, FileRecords, PrepRecords
  <2>3. files' \in [FileNames -> FileRecords] /\ Train' = Train
    BY <2>1, <2>2, <1>t DEF FileNames, Train
  <2> DEFINE r == [prep[a] EXCEPT !.at = "wrote validation"]
  <2>r. r \in PrepRecords /\ prep' = [prep EXCEPT ![a] = r] /\ prep[a].at = "wrote train"
    BY <2>1, <1>3
  <2> HIDE DEF r
  <2>4. prep' \in [Admins -> PrepRecords] /\ (\A b \in Admins \ {a} : prep'[b] = prep[b])
        /\ prep[a].at = "wrote train"
    BY <2>r, <1>t
  <2>5. \A b \in Admins : Writing(b)' => Writing(b)
    BY <2>4 DEF Writing
  <2>6. \A b, c \in Admins : Writing(b)' /\ Writing(c)' => b = c
    BY <2>5, <1>t
  <2> QED  BY <2>1, <2>3, <2>4, <2>6, <1>t, <1>n DEF FilesTyped
<1>11. ASSUME NEW a \in Admins, WriteManifest(a) PROVE FilesTyped'
  <2> DEFINE m == [split |-> Train, text |-> prep[a].text, export |-> export.summary,
                   indexes |-> {syllabus.index}]
  <2>1. /\ prep' = [prep EXCEPT ![a] = IdlePrep] /\ export' = export
        /\ files' = [files EXCEPT !["manifest"] = m]
    BY <1>11 DEF WriteManifest, LastSplit, Train, Writes
  <2>2. m \in FileRecords
    BY <1>t, <1>n DEF FileRecords, PrepRecords, ExportRecords
  <2> HIDE DEF m
  <2>3. files' \in [FileNames -> FileRecords] /\ Train' = Train
    BY <2>1, <2>2, <1>t DEF FileNames, Train
  <2> QED  BY <1>2, <1>i, <1>t, <2>1, <2>3
<1>12. CASE Kill
  <2>1. export' \in ExportRecords
    BY <1>12, <1>t, <1>y DEF Kill
  <2> QED  BY <1>12, <1>t, <1>i, <2>1 DEF Kill, FilesTyped, Train, Writing
<1>13. ASSUME \/ \E u \in Uploads : BeginUpload(u) \/ CommitUpload(u) \/ UploadFails(u)
              \/ BeginRebuild \/ FinishRebuild
              \/ \E r \in Reviewers : LoadPage(r) \/ \E intent \in Intents : Review(r, intent)
              \/ StartDescribe \/ DescribeNext \/ Enqueue \/ ClaimRun \/ AnswerWorker \/ Download
              \/ RunOver \/ UNCHANGED contentVars
       PROVE  UNCHANGED <<prep, export, files>>
  BY <1>13 DEF BeginUpload, CommitUpload, UploadFails, BeginRebuild, FinishRebuild, LoadPage, Review,
               StartDescribe, DescribeNext, Enqueue, ClaimRun, AnswerWorker, Download, RunOver,
               contentVars, dataVars
<1> QED
  BY <1>1, <1>4, <1>5, <1>6, <1>7, <1>8, <1>9, <1>10, <1>11, <1>12, <1>13 DEF ContentNext

---------------------------------------------------------------------------
(* The run and its readers.                                                *)

LEMMA RunStays ==
    ASSUME RunTyped, FilesTyped, [ContentNext]_contentVars
    PROVE  RunTyped'
<1> DEFINE RunRecords ==
      [state : {"none", "queued", "claimed", "fetching", "trained", "failed"},
       pin : Seq(FileRecords), described : Seq(FileRecords), got : Seq(FileRecords)]
<1>q. reading \in Seq(FileRecords) /\ Len(reading) \in 0..4
  <2>1. reading \in Seq(FileRecords) /\ Len(reading) <= 4
    BY DEF RunTyped
  <2> DEFINE n == Len(reading)
  <2>2. n \in Nat /\ n <= 4
    BY <2>1
  <2> HIDE DEF n
  <2>3. n \in 0..4
    BY <2>2
  <2> QED  BY <2>1, <2>3 DEF n
<1>t. run \in RunRecords /\ RunInv
  BY DEF RunTyped
<1>o. \A n \in 1..4 : OnDisk(Order[n]) \in FileRecords
  BY OnDiskIs DEF FilesTyped
<1>e. << >> \in Seq(FileRecords) /\ Len(<< >>) = 0
  OBVIOUS
<1> DEFINE Fits(r, q) ==
      /\ q \in Seq(FileRecords) /\ Len(q) <= 4 /\ r \in RunRecords
      /\ r.state \in {"none", "failed"} => r.pin = << >> /\ r.described = << >> /\ r.got = << >>
      /\ r.state \in {"queued", "claimed"} => Len(r.pin) = 4 /\ r.described = << >> /\ r.got = << >>
      /\ r.state \in {"fetching", "trained"} =>
           Len(r.pin) = 4 /\ r.described = r.pin /\ \A i \in 1..Len(r.got) : r.got[i] = r.pin[i]
      /\ r.state = "fetching" => Len(r.got) < 4
      /\ r.state = "trained" => Len(r.got) = 4
      /\ q # << >> => r.state \in {"none", "claimed"}
<1>g. Fits(run', reading') => RunTyped'
  BY DEF RunTyped, RunInv
<1>f. Fits(run, reading)
  BY DEF RunTyped, RunInv
<1>1. CASE UNCHANGED <<run, reading>>
  BY <1>1, <1>g, <1>f
<1>2. CASE StartDescribe
  <2>1. reading' = <<OnDisk("train")>> /\ run' = run /\ run.state \in {"none", "claimed"}
    BY <1>2 DEF StartDescribe
  <2>2. OnDisk("train") \in FileRecords
    BY <1>o, OrderIs
  <2>3. reading' \in Seq(FileRecords) /\ Len(reading') = 1
    BY <2>1, <2>2
  <2> QED  BY <2>1, <2>3, <1>f, <1>g
<1>3. CASE DescribeNext
  <2>1. /\ reading # << >> /\ Len(reading) # 4 /\ run' = run
        /\ reading' = Append(reading, OnDisk(Order[Len(reading) + 1]))
    BY <1>3, OrderIs DEF DescribeNext, Described
  <2>2. Len(reading) + 1 \in 1..4
    BY <2>1, <1>q
  <2>3. OnDisk(Order[Len(reading) + 1]) \in FileRecords
    BY <2>2, <1>o
  <2>4. reading' \in Seq(FileRecords) /\ Len(reading') <= 4
    BY <2>1, <2>2, <2>3, <1>q, AppendAt
  <2> QED  BY <2>1, <2>4, <1>f, <1>g
<1>4. CASE Enqueue
  <2>1. /\ run' = [NoTraining EXCEPT !.state = "queued", !.pin = reading] /\ reading' = << >>
        /\ Len(reading) = 4
    BY <1>4, OrderIs DEF Enqueue, Described
  <2>2. run' = [state |-> "queued", pin |-> reading, described |-> << >>, got |-> << >>]
    BY <2>1 DEF NoTraining
  <2>3. run' \in RunRecords
    BY <2>2, <1>q, <1>e
  <2>3a. run'.state = "queued" /\ run'.pin = reading /\ run'.described = << >> /\ run'.got = << >>
    <3> HIDE DEF RunRecords, Fits
    <3> QED  BY <2>2
  <2>4. /\ run'.state = "queued" /\ run'.pin = reading /\ run'.described = << >> /\ run'.got = << >>
        /\ Len(run'.pin) = 4
    BY <2>1, <2>3a, Zenon
  <2> HIDE DEF RunRecords
  <2> QED  BY <2>1, <2>3, <2>4, <1>e, <1>g
<1>5. CASE ClaimRun
  <2>1. run' = [run EXCEPT !.state = "claimed"] /\ reading' = reading /\ run.state = "queued"
    BY <1>5 DEF ClaimRun
  <2> QED  BY <2>1, <1>f, <1>t, <1>g
<1>n. [NoTraining EXCEPT !.state = "failed"] = [state |-> "failed", pin |-> << >>, described |-> << >>,
                                             got |-> << >>]
  BY DEF NoTraining
<1>6. CASE AnswerWorker
  <2>1. reading' = << >> /\ run.state = "claimed"
    BY <1>6 DEF AnswerWorker
  <2>2. CASE StillPinned
    <3>1. run' = [run EXCEPT !.state = "fetching", !.described = reading] /\ reading = run.pin
      BY <1>6, <2>2 DEF AnswerWorker, StillPinned
    <3>2. /\ run' \in RunRecords /\ run'.state = "fetching" /\ run'.described = run'.pin
          /\ run'.pin = run.pin /\ run'.got = run.got
      BY <3>1, <1>t
    <3> QED  BY <2>1, <3>2, <1>f, <1>e, <1>g
  <2>3. CASE ~StillPinned
    <3>1. run' = [NoTraining EXCEPT !.state = "failed"]
      BY <1>6, <2>3 DEF AnswerWorker
    <3>2. run' \in RunRecords
      BY <3>1, <1>n, <1>e
    <3> HIDE DEF RunRecords
    <3> QED  BY <2>1, <3>1, <3>2, <1>n, <1>e, <1>g
  <2> QED  BY <2>2, <2>3
<1>7. CASE Download
  <2> DEFINE n == Len(run.got) + 1
  <2>1. /\ run.state = "fetching" /\ reading' = reading /\ reading = << >>
        /\ run.got \in Seq(FileRecords) /\ run.pin \in Seq(FileRecords)
        /\ Len(run.pin) = 4 /\ run.described = run.pin /\ Len(run.got) < 4
        /\ \A i \in 1..Len(run.got) : run.got[i] = run.pin[i]
    BY <1>7, <1>t DEF Download, RunInv
  <2>2. n \in 1..4 /\ (n = Len(Order) <=> n = 4) /\ OnDisk(Order[n]) \in FileRecords
    <3>1. n \in 1..4
      BY <2>1
    <3> HIDE DEF n
    <3> QED  BY <3>1, <1>o, OrderIs
  <2>3. CASE OnDisk(Order[n]) = run.described[n]
    <3>1. run' = [run EXCEPT !.got = Append(run.got, OnDisk(Order[n])),
                             !.state = IF n = Len(Order) THEN "trained" ELSE run.state]
      BY <1>7, <2>3 DEF Download
    <3>2. /\ Append(run.got, OnDisk(Order[n])) \in Seq(FileRecords)
          /\ Len(Append(run.got, OnDisk(Order[n]))) = n
          /\ \A i \in 1..n : Append(run.got, OnDisk(Order[n]))[i] = run.pin[i]
      <4> DEFINE e == OnDisk(Order[n])
      <4>1. e \in FileRecords /\ e = run.pin[n] /\ n \in 1..4
        BY <2>1, <2>2, <2>3
      <4> HIDE DEF e
      <4>2. /\ Append(run.got, e) \in Seq(FileRecords) /\ Len(Append(run.got, e)) = n
            /\ \A i \in 1..Len(run.got) : Append(run.got, e)[i] = run.got[i]
            /\ Append(run.got, e)[n] = e
        BY <2>1, <4>1, AppendAt
      <4>3. \A i \in 1..n : i \in 1..Len(run.got) \/ i = n
        BY <2>1, <4>1
      <4>4. \A i \in 1..n : Append(run.got, e)[i] = run.pin[i]
        BY <2>1, <4>1, <4>2, <4>3
      <4> QED  BY <4>2, <4>4 DEF e
    <3>3. /\ run' \in RunRecords
          /\ run'.pin = run.pin /\ run'.described = run.described
          /\ run'.got = Append(run.got, OnDisk(Order[n]))
          /\ run'.state = IF n = 4 THEN "trained" ELSE "fetching"
      BY <3>1, <3>2, <2>1, <2>2, <1>t
    <3> HIDE DEF n
    <3> QED  BY <2>1, <2>2, <3>2, <3>3, <1>e, <1>g
  <2>4. CASE OnDisk(Order[n]) # run.described[n]
    <3>1. run' = [NoTraining EXCEPT !.state = "queued", !.pin = run.pin]
      BY <1>7, <2>4 DEF Download
    <3>2. run' = [state |-> "queued", pin |-> run.pin, described |-> << >>, got |-> << >>]
      BY <3>1 DEF NoTraining
    <3> QED  BY <2>1, <3>2, <1>e, <1>g
  <2> QED  BY <2>3, <2>4
<1>8. CASE RunOver
  <2>1. run' = NoTraining /\ reading' = reading /\ run.state \in {"trained", "failed"}
    BY <1>8 DEF RunOver
  <2>2. reading = << >>
    BY <2>1, <1>t DEF RunInv
  <2> QED  BY <2>1, <2>2, <1>e, <1>g DEF NoTraining
<1>9. CASE Kill
  <2>1. run' = run /\ reading' = << >>
    BY <1>9 DEF Kill
  <2> QED  BY <2>1, <1>f, <1>e, <1>g
<1>10. ASSUME \/ \E u \in Uploads : BeginUpload(u) \/ CommitUpload(u) \/ UploadFails(u)
              \/ BeginRebuild \/ FinishRebuild
              \/ \E r \in Reviewers : LoadPage(r) \/ \E intent \in Intents : Review(r, intent)
              \/ \E a \in Admins :
                  \/ BeginExport(a) \/ Export(a) \/ BeginSplit(a) \/ LoadRecords(a) \/ RetrieveMore(a)
                  \/ PrepFails(a) \/ WriteTrain(a) \/ WriteValidation(a) \/ WriteManifest(a) \/ ExportFails(a)
                  \/ SplitFails(a)
              \/ UNCHANGED contentVars
       PROVE  UNCHANGED <<run, reading>>
  BY <1>10 DEF BeginUpload, CommitUpload, UploadFails, BeginRebuild, FinishRebuild, LoadPage, Review,
               BeginExport, Export, BeginSplit, LoadRecords, RetrieveMore, PrepFails, WriteTrain,
               WriteValidation, WriteManifest, ExportFails, SplitFails, contentVars, dataVars
<1> QED
  BY <1>1, <1>2, <1>3, <1>4, <1>5, <1>6, <1>7, <1>8, <1>9, <1>10 DEF ContentNext

---------------------------------------------------------------------------
(* What each step of a preparation writes.                                 *)

LEMMA PrepSteps ==
    ASSUME FilesTyped, NEW a \in Admins
    PROVE  /\ BeginExport(a) \/ BeginSplit(a) \/ Export(a) \/ ExportFails(a) =>
                \E r \in PrepRecords : /\ prep' = [prep EXCEPT ![a] = r] /\ r.at \notin Carrying
                                       /\ UNCHANGED <<files, reading, run>>
           /\ PrepFails(a) \/ SplitFails(a) => /\ prep' = [prep EXCEPT ![a] = IdlePrep]
                              /\ UNCHANGED <<export, files, reading, run>>
           /\ LoadRecords(a) \/ RetrieveMore(a) =>
                \E r : /\ prep' = [prep EXCEPT ![a] = r] /\ r.at = "retrieving"
                       /\ UNCHANGED <<export, files, reading, run>>
           /\ LoadRecords(a) => export.text # 0 /\ prep'[a].text = export.text
           /\ RetrieveMore(a) => prep[a].at = "retrieving" /\ prep'[a].text = prep[a].text
           /\ WriteTrain(a) \/ WriteValidation(a) =>
                /\ prep[a].at \in Carrying
                /\ \E r : /\ prep' = [prep EXCEPT ![a] = r] /\ r.text = prep[a].text
                          /\ r.export = prep[a].export /\ r.indexes = prep[a].indexes
                          /\ r.at = IF WriteTrain(a) THEN "wrote train" ELSE "wrote validation"
                /\ UNCHANGED <<export, reading, run>>
           /\ WriteTrain(a) => /\ prep[a].at = "retrieving" /\ LoopFree
                               /\ files' = [files EXCEPT !["train"] = Records(a, Train + 1)]
           /\ WriteValidation(a) => /\ prep[a].at = "wrote train"
                                    /\ files' = [files EXCEPT !["validation"] = Records(a, Train)]
           /\ WriteManifest(a) =>
                /\ prep[a].at = "wrote validation" /\ prep' = [prep EXCEPT ![a] = IdlePrep]
                /\ files' = [files EXCEPT !["manifest"] =
                               [split |-> Train, text |-> prep[a].text, export |-> export.summary,
                                indexes |-> {syllabus.index}]]
                /\ UNCHANGED <<export, reading, run>>
<1>t. prep \in [Admins -> PrepRecords] /\ prep[a] \in PrepRecords
  BY DEF FilesTyped
<1>s. ASSUME NEW from, NEW to \in PrepPlaces, PrepStep(a, from, to)
      PROVE  /\ prep[a].at = from
             /\ \E r \in PrepRecords : /\ prep' = [prep EXCEPT ![a] = r] /\ r.at = to /\ r.text = prep[a].text
                                       /\ r.export = prep[a].export /\ r.indexes = prep[a].indexes
  <2> DEFINE r == [prep[a] EXCEPT !.at = to]
  <2>1. prep[a].at = from /\ prep' = [prep EXCEPT ![a] = r]
    BY <1>s, <1>t DEF PrepStep
  <2>2. /\ r \in PrepRecords /\ r.at = to /\ r.text = prep[a].text
        /\ r.export = prep[a].export /\ r.indexes = prep[a].indexes
    BY <1>t DEF PrepRecords
  <2> HIDE DEF r
  <2> QED  BY <2>1, <2>2
<1>1. BeginExport(a) \/ BeginSplit(a) \/ Export(a) \/ ExportFails(a) =>
        \E r \in PrepRecords : /\ prep' = [prep EXCEPT ![a] = r] /\ r.at \notin Carrying
                               /\ UNCHANGED <<files, reading, run>>
  <2>1. SUFFICES ASSUME BeginExport(a) \/ BeginSplit(a) \/ Export(a) \/ ExportFails(a)
                 PROVE  \E r \in PrepRecords : /\ prep' = [prep EXCEPT ![a] = r] /\ r.at \notin Carrying
                                               /\ UNCHANGED <<files, reading, run>>
    OBVIOUS
  <2>2. /\ UNCHANGED <<files, reading, run>>
        /\ \E to \in {"idle", "exporting", "splitting"}, from \in PrepPlaces : PrepStep(a, from, to)
    BY <2>1 DEF BeginExport, BeginSplit, Export, ExportFails, PrepPlaces
  <2>3. PICK to \in {"idle", "exporting", "splitting"}, from \in PrepPlaces : PrepStep(a, from, to)
    BY <2>2
  <2>4. to \in PrepPlaces /\ to \notin Carrying
    BY DEF PrepPlaces, Carrying
  <2>5. PICK r \in PrepRecords : prep' = [prep EXCEPT ![a] = r] /\ r.at = to
    BY <2>3, <2>4, <1>s
  <2> QED  BY <2>2, <2>4, <2>5
<1>2. PrepFails(a) \/ SplitFails(a) => /\ prep' = [prep EXCEPT ![a] = IdlePrep]
                      /\ UNCHANGED <<export, files, reading, run>>
  BY DEF PrepFails, SplitFails
<1>3. LoadRecords(a) => /\ \E r : /\ prep' = [prep EXCEPT ![a] = r] /\ r.at = "retrieving"
                                  /\ UNCHANGED <<export, files, reading, run>>
                        /\ export.text # 0 /\ prep'[a].text = export.text
  <2> DEFINE r == [at |-> "retrieving", text |-> export.text, export |-> export.n,
                   indexes |-> {syllabus.index}]
  <2>1. LoadRecords(a) => /\ prep' = [prep EXCEPT ![a] = r] /\ export.text # 0
                          /\ UNCHANGED <<export, files, reading, run>>
    BY DEF LoadRecords
  <2>2. r.at = "retrieving" /\ r.text = export.text
    OBVIOUS
  <2> HIDE DEF r
  <2>3. LoadRecords(a) => prep'[a] = r
    BY <2>1, <1>t
  <2> QED  BY <2>1, <2>2, <2>3
<1>4. RetrieveMore(a) => /\ \E r : /\ prep' = [prep EXCEPT ![a] = r] /\ r.at = "retrieving"
                                   /\ UNCHANGED <<export, files, reading, run>>
                         /\ prep[a].at = "retrieving" /\ prep'[a].text = prep[a].text
  <2> DEFINE r == [prep[a] EXCEPT !.indexes = @ \cup {syllabus.index}]
  <2>1. RetrieveMore(a) => /\ prep' = [prep EXCEPT ![a] = r] /\ prep[a].at = "retrieving"
                           /\ UNCHANGED <<export, files, reading, run>>
    BY <1>t DEF RetrieveMore
  <2>2. r.at = prep[a].at /\ r.text = prep[a].text
    BY <1>t DEF PrepRecords
  <2> HIDE DEF r
  <2>3. RetrieveMore(a) => prep'[a] = r
    BY <2>1, <1>t
  <2> QED  BY <2>1, <2>2, <2>3
<1>5. WriteTrain(a) =>
        /\ prep[a].at = "retrieving" /\ LoopFree /\ UNCHANGED <<export, reading, run>>
        /\ \E r : /\ prep' = [prep EXCEPT ![a] = r] /\ r.text = prep[a].text
                  /\ r.export = prep[a].export /\ r.indexes = prep[a].indexes
                  /\ r.at = "wrote train"
        /\ files' = [files EXCEPT !["train"] = Records(a, Train + 1)]
  <2>1. WriteTrain(a) =>
          /\ PrepStep(a, "retrieving", "wrote train") /\ LoopFree /\ UNCHANGED <<export, reading, run>>
          /\ files' = [files EXCEPT !["train"] = Records(a, Train + 1)]
    BY DEF WriteTrain, Writes, LastSplit, Train
  <2>2. "wrote train" \in PrepPlaces
    BY DEF PrepPlaces, Carrying
  <2> QED  BY <2>1, <2>2, <1>s
<1>6. WriteValidation(a) =>
        /\ prep[a].at = "wrote train" /\ UNCHANGED <<export, reading, run>>
        /\ \E r : /\ prep' = [prep EXCEPT ![a] = r] /\ r.text = prep[a].text
                  /\ r.export = prep[a].export /\ r.indexes = prep[a].indexes
                  /\ r.at = "wrote validation"
        /\ files' = [files EXCEPT !["validation"] = Records(a, Train)]
  <2>1. WriteValidation(a) =>
          /\ PrepStep(a, "wrote train", "wrote validation") /\ UNCHANGED <<export, reading, run>>
          /\ files' = [files EXCEPT !["validation"] = Records(a, Train)]
    BY DEF WriteValidation, Writes, LastSplit, Train
  <2>2. "wrote validation" \in PrepPlaces
    BY DEF PrepPlaces, Carrying
  <2> QED  BY <2>1, <2>2, <1>s
<1>7. WriteManifest(a) =>
        /\ prep[a].at = "wrote validation" /\ prep' = [prep EXCEPT ![a] = IdlePrep]
        /\ files' = [files EXCEPT !["manifest"] =
                       [split |-> Train, text |-> prep[a].text, export |-> export.summary,
                        indexes |-> {syllabus.index}]]
        /\ UNCHANGED <<export, reading, run>>
  BY DEF WriteManifest, Writes, LastSplit, Train
<1>8. /\ "retrieving" \in Carrying /\ "wrote train" \in Carrying
      /\ WriteTrain(a) => ~ WriteValidation(a)
  BY <1>5, <1>6 DEF Carrying
<1> QED  BY <1>1, <1>2, <1>3, <1>4, <1>5, <1>6, <1>7, <1>8

\* What each step of a run and of its readers does.
LEMMA RunSteps ==
    ASSUME FilesTyped, RunTyped
    PROVE  /\ StartDescribe =>
                /\ LoopFree /\ files["train"] # NoFile /\ run' = run /\ run.state \in {"none", "claimed"}
                /\ reading' # << >> /\ Len(reading') = 1 /\ reading'[1] = files["train"]
           /\ DescribeNext =>
                /\ run' = run /\ reading # << >> /\ reading' # << >> /\ Len(reading) \in 1..3
                /\ Len(reading') = Len(reading) + 1
                /\ \A i \in 1..Len(reading) : reading'[i] = reading[i]
                /\ reading'[Len(reading) + 1] = OnDisk(Order[Len(reading) + 1])
           /\ Enqueue =>
                /\ LoopFree /\ run.state = "none" /\ reading # << >> /\ Len(reading) = 4 /\ reading' = << >>
                /\ run'.state = "queued" /\ run'.pin = reading
           /\ ClaimRun => /\ run'.state = "claimed" /\ run'.pin = run.pin /\ run.state = "queued"
                          /\ reading = << >> /\ reading' = << >>
           /\ AnswerWorker =>
                /\ reading' = << >>
                /\ \/ run'.state = "failed" /\ run'.pin = << >>
                   \/ /\ run'.state = "fetching" /\ run'.pin = run.pin /\ run.state = "claimed"
                      /\ reading = run.pin /\ reading # << >> /\ Len(reading) = 4
           /\ Download => /\ run.state = "fetching" /\ run'.state \in {"fetching", "trained", "queued"}
                          /\ run'.pin = run.pin /\ reading = << >> /\ reading' = << >>
           /\ RunOver => /\ run'.state = "none" /\ run'.pin = << >> /\ reading = << >> /\ reading' = << >>
<1>t. /\ reading \in Seq(FileRecords) /\ Len(reading) <= 4 /\ RunInv
      /\ run \in [state : {"none", "queued", "claimed", "fetching", "trained", "failed"},
                  pin : Seq(FileRecords), described : Seq(FileRecords), got : Seq(FileRecords)]
  BY DEF RunTyped
<1>i. /\ reading # << >> => run.state \in {"none", "claimed"}
      /\ Len(<< >>) = 0
  BY <1>t DEF RunInv
<1>1. StartDescribe =>
        /\ LoopFree /\ files["train"] # NoFile /\ run' = run /\ run.state \in {"none", "claimed"}
        /\ reading' # << >> /\ Len(reading') = 1 /\ reading'[1] = files["train"]
  <2>1. StartDescribe =>
          /\ LoopFree /\ files["train"] # NoFile /\ run' = run /\ run.state \in {"none", "claimed"}
          /\ reading' = <<files["train"]>>
    BY DEF StartDescribe, FileNames, OnDisk
  <2>2. /\ <<files["train"]>> # << >> /\ Len(<<files["train"]>>) = 1
        /\ <<files["train"]>>[1] = files["train"]
    OBVIOUS
  <2> QED  BY <2>1, <2>2
<1>2. ASSUME DescribeNext
      PROVE  /\ run' = run /\ reading # << >> /\ reading' # << >> /\ Len(reading) \in 1..3
             /\ Len(reading') = Len(reading) + 1
             /\ \A i \in 1..Len(reading) : reading'[i] = reading[i]
             /\ reading'[Len(reading) + 1] = OnDisk(Order[Len(reading) + 1])
  <2>1. /\ reading # << >> /\ Len(reading) # 4 /\ run' = run
        /\ reading' = Append(reading, OnDisk(Order[Len(reading) + 1]))
    BY <1>2, OrderIs DEF DescribeNext, Described
  <2> DEFINE n == Len(reading)
  <2>2. n \in Nat /\ n <= 4 /\ n # 4 /\ n # 0
    BY <2>1, <1>t
  <2> HIDE DEF n
  <2>3. n \in 1..3 /\ n + 1 \in 1..4
    BY <2>2
  <2>4. OnDisk(Order[n + 1]) \in FileRecords
    BY <2>3, OnDiskIs
  <2>5. Len(reading) \in 1..3 /\ OnDisk(Order[Len(reading) + 1]) \in FileRecords
    BY <2>3, <2>4 DEF n
  <2> QED  BY <2>1, <2>5, <1>t, AppendAt
<1>3. ASSUME Enqueue
      PROVE  /\ LoopFree /\ run.state = "none" /\ reading # << >> /\ Len(reading) = 4 /\ reading' = << >>
             /\ run'.state = "queued" /\ run'.pin = reading
  <2>1. /\ LoopFree /\ run.state = "none" /\ Len(reading) = 4 /\ reading' = << >>
        /\ run' = [NoTraining EXCEPT !.state = "queued", !.pin = reading]
    BY <1>3, OrderIs DEF Enqueue, Described
  <2>2. reading # << >>
    BY <2>1, <1>i
  <2>3. run' = [state |-> "queued", pin |-> reading, described |-> << >>, got |-> << >>]
    BY <2>1 DEF NoTraining
  <2>4. run'.state = "queued" /\ run'.pin = reading
    BY <2>3
  <2> QED  BY <2>1, <2>2, <2>4
<1>4. ClaimRun => /\ run'.state = "claimed" /\ run'.pin = run.pin /\ run.state = "queued"
                  /\ reading = << >> /\ reading' = << >>
  BY <1>t, <1>i DEF ClaimRun
<1>5. ASSUME AnswerWorker
      PROVE  /\ reading' = << >>
             /\ \/ run'.state = "failed" /\ run'.pin = << >>
                \/ /\ run'.state = "fetching" /\ run'.pin = run.pin /\ run.state = "claimed"
                   /\ reading = run.pin /\ reading # << >> /\ Len(reading) = 4
  <2>1. reading' = << >> /\ run.state = "claimed" /\ Len(reading) = 4
    BY <1>5, OrderIs DEF AnswerWorker, Described
  <2>2. reading # << >>
    BY <2>1, <1>i
  <2>3. CASE StillPinned
    <3>1. run' = [run EXCEPT !.state = "fetching", !.described = reading] /\ reading = run.pin
      BY <1>5, <2>3 DEF AnswerWorker, StillPinned
    <3>2. run'.state = "fetching" /\ run'.pin = run.pin
      BY <3>1, <1>t
    <3> QED  BY <2>1, <2>2, <3>1, <3>2
  <2>4. CASE ~StillPinned
    <3>1. run' = [NoTraining EXCEPT !.state = "failed"]
      BY <1>5, <2>4 DEF AnswerWorker
    <3>2. run'.state = "failed" /\ run'.pin = << >>
      BY <3>1 DEF NoTraining
    <3> QED  BY <2>1, <3>2
  <2> QED  BY <2>3, <2>4
<1>6. ASSUME Download
      PROVE  /\ run.state = "fetching" /\ run'.state \in {"fetching", "trained", "queued"}
             /\ run'.pin = run.pin /\ reading = << >> /\ reading' = << >>
  <2> DEFINE n == Len(run.got) + 1
  <2>1. run.state = "fetching" /\ reading = << >> /\ reading' = << >>
    BY <1>6, <1>i DEF Download
  <2>2. CASE OnDisk(Order[n]) = run.described[n]
    <3>1. run' = [run EXCEPT !.got = Append(run.got, OnDisk(Order[n])),
                             !.state = IF n = Len(Order) THEN "trained" ELSE run.state]
      BY <1>6, <2>2 DEF Download
    <3> HIDE DEF n
    <3>2. run'.state \in {"fetching", "trained"} /\ run'.pin = run.pin
      BY <3>1, <2>1, <1>t
    <3> QED  BY <2>1, <3>2
  <2>3. CASE OnDisk(Order[n]) # run.described[n]
    <3>1. run' = [NoTraining EXCEPT !.state = "queued", !.pin = run.pin]
      BY <1>6, <2>3 DEF Download
    <3>2. run'.state = "queued" /\ run'.pin = run.pin
      BY <3>1 DEF NoTraining
    <3> QED  BY <2>1, <3>2
  <2> QED  BY <2>2, <2>3
<1>7. ASSUME RunOver
      PROVE  run'.state = "none" /\ run'.pin = << >> /\ reading = << >> /\ reading' = << >>
  <2>1. run' = NoTraining /\ reading' = reading /\ reading = << >>
    BY <1>7, <1>i DEF RunOver
  <2> QED  BY <2>1 DEF NoTraining
<1> QED  BY <1>1, <1>2, <1>3, <1>4, <1>5, <1>6, <1>7

\* The steps by what they touch.
LEMMA WhatStepsTouch ==
    ASSUME [ContentNext]_contentVars
    PROVE  \/ UNCHANGED dataVars /\ UNCHANGED syllabus
           \/ /\ UNCHANGED dataVars
              /\ FinishRebuild \/ \E u \in Uploads : CommitUpload(u) \/ UploadFails(u)
           \/ /\ \E a \in Admins :
                   \/ BeginExport(a) \/ Export(a) \/ BeginSplit(a) \/ LoadRecords(a) \/ RetrieveMore(a)
                   \/ PrepFails(a) \/ WriteTrain(a) \/ WriteValidation(a) \/ WriteManifest(a) \/ ExportFails(a)
                   \/ SplitFails(a)
              /\ UNCHANGED syllabus
           \/ /\ \/ StartDescribe \/ DescribeNext \/ Enqueue \/ ClaimRun \/ AnswerWorker \/ Download
                 \/ RunOver
              /\ UNCHANGED <<prep, export, files, syllabus>>
           \/ Kill
<1>1. ASSUME UNCHANGED contentVars PROVE UNCHANGED dataVars /\ UNCHANGED syllabus
  BY <1>1 DEF contentVars, dataVars, syllabusVars
<1>2. ASSUME NEW u \in Uploads, BeginUpload(u) \/ CommitUpload(u) \/ UploadFails(u)
      PROVE  UNCHANGED dataVars /\ (CommitUpload(u) \/ UploadFails(u) \/ UNCHANGED syllabus)
  BY <1>2 DEF BeginUpload, CommitUpload, UploadFails, dataVars
<1>3. ASSUME BeginRebuild \/ FinishRebuild
      PROVE  UNCHANGED dataVars /\ (FinishRebuild \/ UNCHANGED syllabus)
  BY <1>3 DEF BeginRebuild, FinishRebuild, dataVars
<1>4. ASSUME NEW r \in Reviewers, LoadPage(r) \/ \E intent \in Intents : Review(r, intent)
      PROVE  UNCHANGED dataVars /\ UNCHANGED syllabus
  BY <1>4 DEF LoadPage, Review, dataVars, syllabusVars
<1>5. ASSUME NEW a \in Admins,
             \/ BeginExport(a) \/ Export(a) \/ BeginSplit(a) \/ LoadRecords(a) \/ RetrieveMore(a)
             \/ PrepFails(a) \/ WriteTrain(a) \/ WriteValidation(a) \/ WriteManifest(a) \/ ExportFails(a)
             \/ SplitFails(a)
      PROVE  UNCHANGED syllabus
  BY <1>5 DEF BeginExport, Export, BeginSplit, LoadRecords, RetrieveMore, PrepFails, WriteTrain,
              WriteValidation, WriteManifest, ExportFails, SplitFails, syllabusVars
<1>6. ASSUME StartDescribe \/ DescribeNext \/ Enqueue \/ ClaimRun \/ AnswerWorker \/ Download \/ RunOver
      PROVE  UNCHANGED <<prep, export, files, syllabus>>
  BY <1>6 DEF StartDescribe, DescribeNext, Enqueue, ClaimRun, AnswerWorker, Download, RunOver, syllabusVars
<1> QED  BY <1>1, <1>2, <1>3, <1>4, <1>5, <1>6 DEF ContentNext

---------------------------------------------------------------------------
(* What is on disk is numbered.                                            *)

LEMMA NumberedStays ==
    ASSUME NumberedInv, FilesTyped, RunTyped, [ContentNext]_contentVars
    PROVE  NumberedInv'
<1>t. /\ prep \in [Admins -> PrepRecords] /\ Train \in Nat
      /\ files \in [FileNames -> FileRecords]
      /\ \A f \in FileNames : files[f].split = 0 => files[f] = NoFile
      /\ \A a \in Admins : Writing(a) => Train # 0
  BY DEF FilesTyped, NumberedInv, FileNames, FileRecords, Train
<1> DEFINE Good == /\ \A f \in FileNames : files'[f].split = 0 => files'[f] = NoFile
                   /\ \A a \in Admins : prep'[a].at \in {"wrote train", "wrote validation"} => Train' # 0
<1>g. SUFFICES Good
  BY DEF NumberedInv, Writing
<1>1. ASSUME UNCHANGED <<prep, files>> PROVE Good
  BY <1>1, <1>t DEF Writing, Train
<1>2. ASSUME NEW a \in Admins, NEW r, prep' = [prep EXCEPT ![a] = r], UNCHANGED files,
             r.at \notin {"wrote train", "wrote validation"}
      PROVE  Good
  <2>1. \A b \in Admins : prep'[b] = IF b = a THEN r ELSE prep[b]
    BY <1>2, <1>t
  <2> QED  BY <1>2, <1>t, <2>1 DEF Writing, Train
<1>i. IdlePrep.at = "idle"
  BY DEF IdlePrep
<1>3. ASSUME NEW a \in Admins,
             \/ BeginExport(a) \/ Export(a) \/ BeginSplit(a) \/ LoadRecords(a) \/ RetrieveMore(a)
             \/ PrepFails(a) \/ ExportFails(a) \/ SplitFails(a)
      PROVE  Good
  <2>1. \E r : prep' = [prep EXCEPT ![a] = r] /\ r.at \notin {"wrote train", "wrote validation"}
    BY <1>3, <1>i, PrepSteps DEF Carrying
  <2>2. UNCHANGED files
    BY <1>3, PrepSteps
  <2> QED  BY <2>1, <2>2, <1>2
<1>4. ASSUME NEW f \in FileNames, NEW m, files' = [files EXCEPT ![f] = m], m.split # 0
      PROVE  \A g \in FileNames : files'[g].split = 0 => files'[g] = NoFile
  BY <1>4, <1>t
<1>5. ASSUME NEW a \in Admins, WriteTrain(a) PROVE Good
  <2>1. files' = [files EXCEPT !["train"] = Records(a, Train + 1)]
    BY <1>5, PrepSteps
  <2>2. Records(a, Train + 1).split = Train + 1 /\ Train + 1 # 0
    BY <1>t DEF Records
  <2>3. Train' = Train + 1
    BY <2>1, <2>2, <1>t DEF Train, FileNames
  <2> QED  BY <2>1, <2>2, <2>3, <1>4 DEF FileNames
<1>6. ASSUME NEW a \in Admins, WriteValidation(a) PROVE Good
  <2>1. prep[a].at = "wrote train" /\ files' = [files EXCEPT !["validation"] = Records(a, Train)]
    BY <1>6, PrepSteps
  <2>2. Records(a, Train).split = Train /\ Train # 0
    BY <2>1, <1>t DEF Records, Writing
  <2>3. Train' = Train
    BY <2>1, <1>t DEF Train, FileNames
  <2> QED  BY <2>1, <2>2, <2>3, <1>4 DEF FileNames
<1>7. ASSUME NEW a \in Admins, WriteManifest(a) PROVE Good
  <2> DEFINE m == [split |-> Train, text |-> prep[a].text, export |-> export.summary,
                   indexes |-> {syllabus.index}]
  <2>1. prep[a].at = "wrote validation" /\ files' = [files EXCEPT !["manifest"] = m]
    BY <1>7, PrepSteps
  <2>2. m.split = Train /\ Train # 0
    BY <2>1, <1>t DEF Writing
  <2> HIDE DEF m
  <2>3. Train' = Train
    BY <2>1, <1>t DEF Train, FileNames
  <2> QED  BY <2>1, <2>2, <2>3, <1>4 DEF FileNames
<1>8. CASE Kill
  <2>1. files' = files /\ \A a \in Admins : prep'[a].at = "idle"
    BY <1>8, <1>i DEF Kill
  <2> QED  BY <2>1, <1>t DEF Train
<1> QED  BY <1>1, <1>3, <1>5, <1>6, <1>7, <1>8, WhatStepsTouch DEF dataVars

---------------------------------------------------------------------------
(* The text that trains.                                                   *)

LEMMA TextStays ==
    ASSUME ContentInv, [ContentNext]_contentVars
    PROVE  TextInv'
<1>t. /\ prep \in [Admins -> PrepRecords] /\ Train \in Nat /\ files \in [FileNames -> FileRecords]
      /\ FilesTyped /\ RunTyped /\ excuse \subseteq Excuses /\ approved \subseteq approved'
      /\ \A a \in Admins : Writing(a) => Train # 0
  BY ReviewStays DEF ContentInv, FilesTyped, NumberedInv, SyllabusInv, FileNames, FileRecords, Train
<1>1. CASE Excused({"approved unseen"})
  BY <1>1, <1>t, ExcusedStays DEF TextInv
<1>2. CASE ~ Excused({"approved unseen"})
  <2>i. /\ export.text # 0 => export.text \in approved
        /\ \A a \in Admins : prep[a].at \in Carrying => prep[a].text \in approved
        /\ Train # 0 => files["train"].text \in approved
        /\ reading # << >> => reading[1].text \in approved
        /\ run.pin # << >> => run.pin[1].text \in approved
        /\ seed.status = "approved" => seed.text \in approved
    BY <1>2 DEF ContentInv, TextInv, ReviewInv
  <2> DEFINE E == export'.text # 0 => export'.text \in approved'
             P == \A a \in Admins : prep'[a].at \in Carrying => prep'[a].text \in approved'
             F == Train' # 0 => files'["train"].text \in approved'
             R == reading' # << >> => reading'[1].text \in approved'
             Q == run'.pin # << >> => run'.pin[1].text \in approved'
  <2>g. SUFFICES E /\ P /\ F /\ R /\ Q
    BY DEF TextInv
  <2>e. UNCHANGED export => E
    BY <2>i, <1>t
  <2>p. UNCHANGED prep => P
    BY <2>i, <1>t
  <2>f. UNCHANGED files => F
    BY <2>i, <1>t DEF Train
  <2>q. UNCHANGED <<reading, run>> => R /\ Q
    BY <2>i, <1>t
  <2>r. ASSUME NEW a \in Admins, NEW r, prep' = [prep EXCEPT ![a] = r],
               r.at \in Carrying => r.text \in approved
        PROVE  P
    <3>1. \A b \in Admins : prep'[b] = IF b = a THEN r ELSE prep[b]
      BY <2>r, <1>t
    <3> QED  BY <2>r, <2>i, <1>t, <3>1
  <2>0. IdlePrep.at \notin Carrying
    BY DEF IdlePrep, Carrying
  <2>1. CASE UNCHANGED dataVars
    BY <2>1, <2>e, <2>p, <2>f, <2>q DEF dataVars
  <2>x. (\E text \in {ExportText, 0}, summary \in Nat : Exports(text, summary)) => E
    <3>1. ExportText = IF seed.status = "approved" THEN seed.text ELSE 0
      BY DEF ExportText, ApprovedForExport
    <3> QED  BY <3>1, <2>i, <1>t DEF Exports
  <2>y. export.summary \in Nat /\ export.n + 1 \in Nat
    BY <1>t DEF FilesTyped, ExportRecords
  <2>z. ExportCutShort => E
    BY <2>x, <2>y DEF ExportCutShort
  <2>2. ASSUME NEW a \in Admins, BeginExport(a) \/ Export(a) \/ ExportFails(a) \/ BeginSplit(a)
        PROVE  E /\ P /\ F /\ R /\ Q
    <3>0. PICK r \in PrepRecords : /\ prep' = [prep EXCEPT ![a] = r] /\ r.at \notin Carrying
                                   /\ UNCHANGED <<files, reading, run>>
      BY <2>2, PrepSteps, <1>t
    <3>1. P /\ UNCHANGED <<files, reading, run>>
      BY <3>0, <2>r
    <3>2. CASE UNCHANGED export
      BY <3>1, <3>2, <2>e, <2>f, <2>q
    <3>3. CASE Export(a)
      <4>1. E
        BY <3>3, <2>x, <2>y DEF Export
      <4> QED  BY <4>1, <3>1, <2>f, <2>q
    <3>4. CASE ExportFails(a)
      <4>1. E
        BY <3>4, <2>z DEF ExportFails
      <4> QED  BY <4>1, <3>1, <2>f, <2>q
    <3> QED  BY <2>2, <3>2, <3>3, <3>4 DEF BeginExport, BeginSplit
  <2>3. ASSUME NEW a \in Admins, LoadRecords(a) \/ RetrieveMore(a)
        PROVE  E /\ P /\ F /\ R /\ Q
    <3>1. PICK r : /\ prep' = [prep EXCEPT ![a] = r] /\ r.at = "retrieving"
                   /\ UNCHANGED <<export, files, reading, run>>
      BY <2>3, PrepSteps, <1>t
    <3>2. prep'[a] = r
      BY <3>1, <1>t
    <3>3. r.text \in approved
      <4>1. CASE LoadRecords(a)
        BY <4>1, <3>2, <2>i, PrepSteps, <1>t
      <4>2. CASE RetrieveMore(a)
        <5>1. prep[a].at \in Carrying /\ r.text = prep[a].text
          BY <4>2, <3>2, PrepSteps, <1>t DEF Carrying
        <5> QED  BY <5>1, <2>i
      <4> QED  BY <4>1, <4>2, <2>3
    <3> QED  BY <3>1, <3>3, <2>r, <2>e, <2>f, <2>q
  <2>4. ASSUME NEW a \in Admins, PrepFails(a) \/ SplitFails(a)
        PROVE  E /\ P /\ F /\ R /\ Q
    <3>1. prep' = [prep EXCEPT ![a] = IdlePrep] /\ UNCHANGED <<export, files, reading, run>>
      BY <2>4, PrepSteps, <1>t
    <3>2. P
      BY <3>1, <2>0, <2>r
    <3> QED  BY <3>1, <3>2, <2>e, <2>f, <2>q
  <2>5. ASSUME NEW a \in Admins, WriteTrain(a) \/ WriteValidation(a)
        PROVE  E /\ P /\ F /\ R /\ Q
    <3>1. PICK r : prep' = [prep EXCEPT ![a] = r] /\ r.text = prep[a].text
      BY <2>5, PrepSteps, <1>t
    <3>2. prep[a].text \in approved /\ UNCHANGED <<export, reading, run>>
      BY <2>5, <2>i, PrepSteps, <1>t
    <3>3. CASE WriteTrain(a)
      <4>1. files' = [files EXCEPT !["train"] = Records(a, Train + 1)]
        BY <3>3, PrepSteps, <1>t
      <4>2. Records(a, Train + 1).text = prep[a].text
        BY DEF Records
      <4>3. files'["train"].text = prep[a].text
        BY <4>1, <4>2, <1>t DEF FileNames
      <4> QED  BY <3>1, <3>2, <4>3, <2>r, <2>e, <2>q, <1>t
    <3>4. CASE WriteValidation(a)
      <4>1. prep[a].at = "wrote train" /\ files' = [files EXCEPT !["validation"] = Records(a, Train)]
        BY <3>4, PrepSteps, <1>t
      <4>2. files'["train"] = files["train"] /\ Train' = Train
        BY <4>1, <1>t DEF FileNames, Train
      <4> QED  BY <3>1, <3>2, <4>2, <2>i, <2>r, <2>e, <2>q, <1>t
    <3> QED  BY <2>5, <3>3, <3>4
  <2>6. ASSUME NEW a \in Admins, WriteManifest(a)
        PROVE  E /\ P /\ F /\ R /\ Q
    <3>1. /\ prep' = [prep EXCEPT ![a] = IdlePrep] /\ UNCHANGED <<export, reading, run>>
          /\ files' = [files EXCEPT !["manifest"] =
                       [split |-> Train, text |-> prep[a].text, export |-> export.summary,
                        indexes |-> {syllabus.index}]]
      BY <2>6, PrepSteps, <1>t
    <3>2. files'["train"] = files["train"] /\ Train' = Train
      BY <3>1, <1>t DEF FileNames, Train
    <3> QED  BY <3>1, <3>2, <2>0, <2>i, <2>r, <2>e, <2>q, <1>t
  <2>7. ASSUME StartDescribe \/ DescribeNext \/ Enqueue \/ ClaimRun \/ AnswerWorker \/ Download \/ RunOver,
               UNCHANGED <<prep, export, files>>
        PROVE  E /\ P /\ F /\ R /\ Q
    <3>1. E /\ P /\ F
      BY <2>7, <2>e, <2>p, <2>f
    <3>2. CASE StartDescribe
      <4>1. Train # 0
        BY <3>2, RunSteps, <1>t DEF ContentInv, NumberedInv, FileNames, Train
      <4> QED  BY <4>1, <3>1, <3>2, <2>i, RunSteps, <1>t
    <3>3. CASE DescribeNext
      <4>1. reading # << >> /\ Len(reading) \in 1..3 /\ reading'[1] = reading[1] /\ run' = run
        BY <3>3, RunSteps, <1>t
      <4> QED  BY <4>1, <3>1, <2>i, <1>t
    <3>4. CASE Enqueue \/ AnswerWorker
      <4>1. /\ reading' = << >>
            /\ run'.pin = << >> \/ run'.pin = run.pin \/ (run'.pin = reading /\ reading # << >>)
        BY <3>4, RunSteps, <1>t
      <4> QED  BY <4>1, <3>1, <2>i, <1>t
    <3>5. CASE ClaimRun \/ Download \/ RunOver
      <4>1. reading' = << >> /\ (run'.pin = << >> \/ run'.pin = run.pin)
        BY <3>5, RunSteps, <1>t
      <4> QED  BY <4>1, <3>1, <2>i, <1>t
    <3> QED  BY <2>7, <3>2, <3>3, <3>4, <3>5
  <2>8. CASE Kill
    <3>1. /\ UNCHANGED <<files, run>> /\ reading' = << >>
          /\ \A a \in Admins : prep'[a].at \notin Carrying
      BY <2>8, <2>0 DEF Kill
    <3>2. E
      BY <2>8, <2>e, <2>z DEF Kill
    <3> QED  BY <3>1, <3>2, <2>f, <2>i, <1>t
  <2> QED  BY <2>1, <2>2, <2>3, <2>4, <2>5, <2>6, <2>7, <2>8, WhatStepsTouch
<1> QED  BY <1>1, <1>2

---------------------------------------------------------------------------
(* The files of one split.                                                 *)

LEMMA AStepApart ==
    ASSUME NEW t \in Nat, NEW v \in Nat, NEW m \in Nat,
           (t = v /\ v = m) \/ (t = v + 1 /\ v = m) \/ (t = v /\ v = m + 1)
    PROVE  m <= v /\ v <= t
<1>1. CASE t = v /\ v = m
  BY <1>1
<1>2. CASE t = v + 1 /\ v = m
  BY <1>2
<1>3. CASE t = v /\ v = m + 1
  BY <1>3
<1> QED  BY <1>1, <1>2, <1>3

\* The splits on disk are never more than a step apart, and what was read is no
\* newer than what is there.
LEMMA SplitsInOrder ==
    ASSUME FilesTyped, SplitInv, ~ Excused({"split cut short"})
    PROVE  /\ Train \in Nat /\ Valid \in Nat /\ Manifest \in Nat
           /\ Manifest <= Valid /\ Valid <= Train
<1>1. Train \in Nat /\ Valid \in Nat /\ Manifest \in Nat
  BY DEF FilesTyped, FileNames, FileRecords, Train, Valid, Manifest
<1>2. CASE LoopFree
  <2>1. Train = Valid /\ Valid = Manifest
    BY <1>2 DEF SplitInv
  <2> QED  BY <1>1, AStepApart, <2>1
<1>3. CASE ~ LoopFree
  <2>1. (Train = Valid + 1 /\ Valid = Manifest) \/ (Train = Valid /\ Valid = Manifest + 1)
    BY <1>3 DEF LoopFree, Writing, SplitInv
  <2> QED  BY <1>1, AStepApart, <2>1
<1> QED  BY <1>2, <1>3

\* What was read is of a split that has a number.
LEMMA ReadTyped ==
    ASSUME RunTyped
    PROVE  /\ reading # << >> => reading[1].split \in Nat /\ Len(reading) \in 1..4
           /\ Len(reading) >= 2 => reading[2].split \in Nat
           /\ Len(reading) >= 3 => reading[3].split \in Nat
           /\ run.pin # << >> => /\ run.pin[1].split \in Nat /\ run.pin[2].split \in Nat
                                 /\ run.pin[3].split \in Nat
           /\ run.state \in {"queued", "claimed", "fetching", "trained"} => run.pin # << >>
<1>1. reading \in Seq(FileRecords) /\ Len(reading) <= 4 /\ run.pin \in Seq(FileRecords)
  BY DEF RunTyped
<1>2. run.pin # << >> => Len(run.pin) = 4
  BY DEF RunTyped, RunInv
<1>3. run.state \in {"queued", "claimed", "fetching", "trained"} => Len(run.pin) = 4
  BY DEF RunTyped, RunInv
<1>4. ASSUME NEW q \in Seq(FileRecords), NEW i \in 1..Len(q) PROVE q[i].split \in Nat
  <2>1. q[i] \in FileRecords
    OBVIOUS
  <2> QED  BY <2>1 DEF FileRecords
<1> DEFINE n == Len(reading)
<1>5. n \in Nat /\ n <= 4 /\ (reading # << >> => n # 0)
  BY <1>1
<1> HIDE DEF n
<1>6. /\ reading # << >> => 1 \in 1..n /\ n \in 1..4
      /\ n >= 2 => 2 \in 1..n
      /\ n >= 3 => 3 \in 1..n
  BY <1>5
<1>7. /\ reading # << >> => reading[1].split \in Nat /\ Len(reading) \in 1..4
      /\ Len(reading) >= 2 => reading[2].split \in Nat
      /\ Len(reading) >= 3 => reading[3].split \in Nat
  BY <1>1, <1>4, <1>6 DEF n
<1>8. run.pin # << >> => 1 \in 1..Len(run.pin) /\ 2 \in 1..Len(run.pin) /\ 3 \in 1..Len(run.pin)
  BY <1>2
<1>9. run.pin # << >> => /\ run.pin[1].split \in Nat /\ run.pin[2].split \in Nat
                         /\ run.pin[3].split \in Nat
  BY <1>1, <1>4, <1>8
<1>10. Len(run.pin) = 4 => run.pin # << >>
  OBVIOUS
<1> QED  BY <1>3, <1>7, <1>9, <1>10

\* What a step of a preparation does to the splits on disk.
LEMMA SplitsOnDisk ==
    ASSUME ContentInv, NEW a \in Admins
    PROVE  /\ (\/ BeginExport(a) \/ Export(a) \/ ExportFails(a) \/ BeginSplit(a) \/ LoadRecords(a)
               \/ RetrieveMore(a) \/ PrepFails(a)) =>
                /\ LoopFree /\ UNCHANGED <<files, reading, run>>
                /\ LoopFree' /\ Train' = Train /\ Valid' = Valid /\ Manifest' = Manifest
           /\ WriteTrain(a) => /\ LoopFree /\ prep'[a].at = "wrote train" /\ UNCHANGED <<reading, run>>
                               /\ Train' = Train + 1 /\ Valid' = Valid /\ Manifest' = Manifest
           /\ WriteValidation(a) => /\ prep[a].at = "wrote train" /\ prep'[a].at = "wrote validation"
                                    /\ UNCHANGED <<reading, run>>
                                    /\ Train' = Train /\ Valid' = Train /\ Manifest' = Manifest
           /\ WriteManifest(a) => /\ prep[a].at = "wrote validation" /\ LoopFree' /\ UNCHANGED <<reading, run>>
                                  /\ Train' = Train /\ Valid' = Valid /\ Manifest' = Train
           /\ WriteTrain(a) \/ WriteValidation(a) => \A b \in Admins : Writing(b)' => b = a
<1>t. /\ FilesTyped /\ prep \in [Admins -> PrepRecords] /\ files \in [FileNames -> FileRecords]
      /\ \A b, c \in Admins : Writing(b) /\ Writing(c) => b = c
  BY DEF ContentInv, FilesTyped
<1>0. IdlePrep.at = "idle"
  BY DEF IdlePrep
<1>r. ASSUME NEW r, prep' = [prep EXCEPT ![a] = r]
      PROVE  prep'[a] = r /\ \A b \in Admins \ {a} : (Writing(b)' <=> Writing(b))
  <2>1. prep'[a] = r /\ \A b \in Admins \ {a} : prep'[b] = prep[b]
    BY <1>r, <1>t
  <2>2. ASSUME NEW b \in Admins \ {a} PROVE Writing(b)' <=> Writing(b)
    <3>1. prep'[b] = prep[b]
      BY <2>1
    <3> QED  BY <3>1 DEF Writing
  <2> QED  BY <2>1, <2>2
<1>1. ASSUME \/ BeginExport(a) \/ Export(a) \/ ExportFails(a) \/ BeginSplit(a) \/ LoadRecords(a)
             \/ RetrieveMore(a) \/ PrepFails(a)
      PROVE  /\ LoopFree /\ UNCHANGED <<files, reading, run>>
             /\ LoopFree' /\ Train' = Train /\ Valid' = Valid /\ Manifest' = Manifest
  <2>1. LoopFree /\ UNCHANGED <<files, reading, run>>
    BY <1>1 DEF BeginExport, Export, ExportFails, BeginSplit, LoadRecords, RetrieveMore, PrepFails
  <2>2. PICK r : prep' = [prep EXCEPT ![a] = r] /\ r.at \notin {"wrote train", "wrote validation"}
    <3>1. CASE BeginExport(a) \/ Export(a) \/ ExportFails(a) \/ BeginSplit(a)
      <4>1. PICK r \in PrepRecords : prep' = [prep EXCEPT ![a] = r] /\ r.at \notin Carrying
        BY <3>1, <1>t, PrepSteps
      <4> QED  BY <4>1 DEF Carrying
    <3>2. CASE LoadRecords(a) \/ RetrieveMore(a)
      <4>1. PICK r : prep' = [prep EXCEPT ![a] = r] /\ r.at = "retrieving"
        BY <3>2, <1>t, PrepSteps
      <4> QED  BY <4>1
    <3>3. CASE PrepFails(a)
      BY <3>3, <1>t, <1>0, PrepSteps
    <3> QED  BY <1>1, <3>1, <3>2, <3>3
  <2>3. prep'[a] = r /\ \A b \in Admins \ {a} : (Writing(b)' <=> Writing(b))
    BY <2>2, <1>r
  <2>4. ~ Writing(a)'
    BY <2>2, <2>3 DEF Writing
  <2>5. LoopFree'
    BY <2>1, <2>3, <2>4 DEF LoopFree
  <2> QED  BY <2>1, <2>5 DEF Train, Valid, Manifest
<1>2. ASSUME WriteTrain(a)
      PROVE  /\ LoopFree /\ prep'[a].at = "wrote train" /\ UNCHANGED <<reading, run>>
             /\ Train' = Train + 1 /\ Valid' = Valid /\ Manifest' = Manifest
             /\ \A b \in Admins : Writing(b)' => b = a
  <2>1. /\ LoopFree /\ files' = [files EXCEPT !["train"] = Records(a, Train + 1)]
        /\ UNCHANGED <<reading, run>>
    BY <1>2, <1>t, PrepSteps
  <2>2. PICK r : prep' = [prep EXCEPT ![a] = r] /\ r.at = "wrote train"
    BY <1>2, <1>t, PrepSteps
  <2>3. Records(a, Train + 1).split = Train + 1
    BY DEF Records
  <2>4. Train' = Train + 1 /\ Valid' = Valid /\ Manifest' = Manifest
    BY <2>1, <2>3, <1>t DEF Train, Valid, Manifest, FileNames
  <2>5. prep'[a] = r /\ \A b \in Admins \ {a} : (Writing(b)' <=> Writing(b))
    BY <2>2, <1>r
  <2> QED  BY <2>1, <2>2, <2>4, <2>5 DEF LoopFree
<1>3. ASSUME WriteValidation(a)
      PROVE  /\ prep[a].at = "wrote train" /\ prep'[a].at = "wrote validation"
             /\ UNCHANGED <<reading, run>>
             /\ Train' = Train /\ Valid' = Train /\ Manifest' = Manifest
             /\ \A b \in Admins : Writing(b)' => b = a
  <2>1. /\ prep[a].at = "wrote train" /\ files' = [files EXCEPT !["validation"] = Records(a, Train)]
        /\ UNCHANGED <<reading, run>>
    BY <1>3, <1>t, PrepSteps
  <2>2. PICK r : prep' = [prep EXCEPT ![a] = r] /\ r.at = "wrote validation"
    <3>1. ~ WriteTrain(a)
      BY <2>1, <1>t, PrepSteps
    <3> QED  BY <3>1, <1>3, <1>t, PrepSteps
  <2>3. Records(a, Train).split = Train
    BY DEF Records
  <2>4. Train' = Train /\ Valid' = Train /\ Manifest' = Manifest
    BY <2>1, <2>3, <1>t DEF Train, Valid, Manifest, FileNames
  <2>5. prep'[a] = r /\ \A b \in Admins \ {a} : (Writing(b)' <=> Writing(b))
    BY <2>2, <1>r
  <2>6. Writing(a)
    BY <2>1 DEF Writing
  <2> QED  BY <2>1, <2>2, <2>4, <2>5, <2>6, <1>t
<1>4. ASSUME WriteManifest(a)
      PROVE  /\ prep[a].at = "wrote validation" /\ LoopFree' /\ UNCHANGED <<reading, run>>
             /\ Train' = Train /\ Valid' = Valid /\ Manifest' = Train
  <2> DEFINE m == [split |-> Train, text |-> prep[a].text, export |-> export.summary,
                   indexes |-> {syllabus.index}]
  <2>1. /\ prep[a].at = "wrote validation" /\ prep' = [prep EXCEPT ![a] = IdlePrep]
        /\ files' = [files EXCEPT !["manifest"] = m] /\ UNCHANGED <<reading, run>>
    BY <1>4, <1>t, PrepSteps
  <2>2. m.split = Train
    OBVIOUS
  <2> HIDE DEF m
  <2>3. Train' = Train /\ Valid' = Valid /\ Manifest' = Train
    BY <2>1, <2>2, <1>t DEF Train, Valid, Manifest, FileNames
  <2>4. prep'[a] = IdlePrep /\ \A b \in Admins \ {a} : (Writing(b)' <=> Writing(b))
    BY <2>1, <1>r
  <2>5. ~ Writing(a)' /\ Writing(a)
    BY <2>1, <2>4, <1>0 DEF Writing
  <2>6. LoopFree'
    BY <2>4, <2>5, <1>t DEF LoopFree
  <2> QED  BY <2>1, <2>3, <2>6
<1> QED  BY <1>1, <1>2, <1>3, <1>4

LEMMA SplitStays ==
    ASSUME ContentInv, [ContentNext]_contentVars
    PROVE  SplitInv'
<1>t. /\ FilesTyped /\ RunTyped /\ excuse \subseteq Excuses /\ prep \in [Admins -> PrepRecords]
      /\ files \in [FileNames -> FileRecords]
      /\ \A f \in FileNames : files[f].split = 0 => files[f] = NoFile
  BY DEF ContentInv, FilesTyped, NumberedInv, SyllabusInv
<1>1. CASE Excused({"split cut short"})
  BY <1>1, <1>t, ExcusedStays DEF SplitInv
<1>2. CASE ~ Excused({"split cut short"})
  <2>o. /\ Train \in Nat /\ Valid \in Nat /\ Manifest \in Nat
        /\ Manifest <= Valid /\ Valid <= Train
    BY <1>2, SplitsInOrder DEF ContentInv
  <2>v. PICK t \in Nat, v \in Nat, m \in Nat :
          Train = t /\ Valid = v /\ Manifest = m /\ m <= v /\ v <= t /\ m <= m /\ t <= t
    BY <2>o
  <2>d. /\ LoopFree => Train = Valid /\ Valid = Manifest
        /\ \A a \in Admins : /\ prep[a].at = "wrote train" => Train = Valid + 1 /\ Valid = Manifest
                             /\ prep[a].at = "wrote validation" => Train = Valid /\ Valid = Manifest + 1
    BY <1>2 DEF ContentInv, SplitInv
  <2>i. /\ reading # << >> => 1 <= reading[1].split /\ reading[1].split <= Manifest
        /\ Len(reading) >= 2 => reading[1].split <= reading[2].split /\ reading[2].split <= Train
        /\ Len(reading) >= 3 => reading[1].split <= reading[3].split /\ reading[3].split <= Train
    BY <1>2 DEF ContentInv, SplitInv
  <2>j. /\ run.pin # << >> =>
             /\ 1 <= run.pin[1].split
             /\ run.pin[1].split <= run.pin[2].split /\ run.pin[2].split <= Train
             /\ run.pin[1].split <= run.pin[3].split /\ run.pin[3].split <= Train
        /\ run.state = "claimed" /\ reading # << >> =>
             run.pin[2].split <= reading[1].split /\ run.pin[3].split <= reading[1].split
        /\ run.state \in {"fetching", "trained"} =>
             run.pin[2].split = run.pin[1].split /\ run.pin[3].split = run.pin[1].split
    BY <1>2 DEF ContentInv, SplitInv
  <2>n. /\ reading # << >> => reading[1].split \in Nat /\ Len(reading) \in 1..4
        /\ Len(reading) >= 2 => reading[2].split \in Nat
        /\ Len(reading) >= 3 => reading[3].split \in Nat
        /\ run.pin # << >> => /\ run.pin[1].split \in Nat /\ run.pin[2].split \in Nat
                              /\ run.pin[3].split \in Nat
        /\ run.state \in {"queued", "claimed", "fetching", "trained"} => run.pin # << >>
    BY <1>t, ReadTyped
  <2>k. Len(<< >>) = 0 /\ ~ (0 >= 2) /\ ~ (0 >= 3)
    OBVIOUS
  <2> DEFINE
        D == /\ LoopFree' => Train' = Valid' /\ Valid' = Manifest'
             /\ \A a \in Admins :
                  /\ prep'[a].at = "wrote train" => Train' = Valid' + 1 /\ Valid' = Manifest'
                  /\ prep'[a].at = "wrote validation" => Train' = Valid' /\ Valid' = Manifest' + 1
        R == /\ reading' # << >> => 1 <= reading'[1].split /\ reading'[1].split <= Manifest'
             /\ Len(reading') >= 2 =>
                  reading'[1].split <= reading'[2].split /\ reading'[2].split <= Train'
             /\ Len(reading') >= 3 =>
                  reading'[1].split <= reading'[3].split /\ reading'[3].split <= Train'
        Q == run'.pin # << >> =>
               /\ 1 <= run'.pin[1].split
               /\ run'.pin[1].split <= run'.pin[2].split /\ run'.pin[2].split <= Train'
               /\ run'.pin[1].split <= run'.pin[3].split /\ run'.pin[3].split <= Train'
        C == run'.state = "claimed" /\ reading' # << >> =>
               run'.pin[2].split <= reading'[1].split /\ run'.pin[3].split <= reading'[1].split
        G == run'.state \in {"fetching", "trained"} =>
               run'.pin[2].split = run'.pin[1].split /\ run'.pin[3].split = run'.pin[1].split
  <2>g. SUFFICES ASSUME ~ Excused({"split cut short"})' PROVE D /\ R /\ Q /\ C /\ G
    BY DEF SplitInv
  <2>u. UNCHANGED files => Train' = Train /\ Valid' = Valid /\ Manifest' = Manifest
    BY DEF Train, Valid, Manifest
  <2>p. UNCHANGED <<prep, files>> => D
    <3>1. SUFFICES ASSUME UNCHANGED <<prep, files>> PROVE D
      OBVIOUS
    <3>2. LoopFree' <=> LoopFree
      BY <3>1 DEF LoopFree, Writing
    <3> QED  BY <3>1, <3>2, <2>d, <2>u
  <2>l. ASSUME NEW s \in Nat, NEW n \in Nat, Manifest' = s, Train' = n, m <= s, t <= n,
               UNCHANGED <<reading, run>>
        PROVE  R /\ Q /\ C /\ G
    <3>1. R
      BY <2>l, <2>i, <2>n, <2>v
    <3>2. Q
      BY <2>l, <2>j, <2>n, <2>v
    <3> QED  BY <3>1, <3>2, <2>l, <2>j
  <2>1. CASE UNCHANGED dataVars
    BY <2>1, <2>p, <2>l, <2>u, <2>v DEF dataVars
  <2>0. ASSUME NEW a \in Admins, SplitFails(a)
        PROVE D /\ R /\ Q /\ C /\ G
    <3>1. Excused({"split cut short"})'
      BY <2>0 DEF SplitFails, Excuse, Excused
    <3> QED  BY <3>1, <2>g
  <2>2. ASSUME NEW a \in Admins,
               \/ BeginExport(a) \/ Export(a) \/ ExportFails(a) \/ BeginSplit(a) \/ LoadRecords(a)
               \/ RetrieveMore(a) \/ PrepFails(a)
        PROVE  D /\ R /\ Q /\ C /\ G
    <3>1. /\ LoopFree /\ UNCHANGED <<files, reading, run>>
          /\ LoopFree' /\ Train' = Train /\ Valid' = Valid /\ Manifest' = Manifest
      BY <2>2, SplitsOnDisk
    <3>2. D
      BY <3>1, <2>d DEF LoopFree, Writing
    <3> QED  BY <3>1, <3>2, <2>l, <2>v
  <2>3. ASSUME NEW a \in Admins, WriteTrain(a)
        PROVE  D /\ R /\ Q /\ C /\ G
    <3>1. /\ LoopFree /\ prep'[a].at = "wrote train" /\ UNCHANGED <<reading, run>>
          /\ Train' = Train + 1 /\ Valid' = Valid /\ Manifest' = Manifest
          /\ \A b \in Admins : Writing(b)' => b = a
      BY <2>3, SplitsOnDisk
    <3>2. D
      BY <3>1, <2>d DEF LoopFree, Writing
    <3>3. t + 1 \in Nat /\ t <= t + 1
      OBVIOUS
    <3> QED  BY <3>1, <3>2, <3>3, <2>l, <2>v
  <2>4. ASSUME NEW a \in Admins, WriteValidation(a)
        PROVE  D /\ R /\ Q /\ C /\ G
    <3>1. /\ prep[a].at = "wrote train" /\ prep'[a].at = "wrote validation"
          /\ UNCHANGED <<reading, run>>
          /\ Train' = Train /\ Valid' = Train /\ Manifest' = Manifest
          /\ \A b \in Admins : Writing(b)' => b = a
      BY <2>4, SplitsOnDisk
    <3>2. D
      BY <3>1, <2>d DEF LoopFree, Writing
    <3> QED  BY <3>1, <3>2, <2>l, <2>v
  <2>5. ASSUME NEW a \in Admins, WriteManifest(a)
        PROVE  D /\ R /\ Q /\ C /\ G
    <3>1. /\ prep[a].at = "wrote validation" /\ LoopFree' /\ UNCHANGED <<reading, run>>
          /\ Train' = Train /\ Valid' = Valid /\ Manifest' = Train
      BY <2>5, SplitsOnDisk
    <3>2. D
      BY <3>1, <2>d DEF LoopFree, Writing
    <3>3. m <= t
      BY <2>v
    <3> QED  BY <3>1, <3>2, <3>3, <2>l, <2>v
  <2>6. ASSUME StartDescribe \/ DescribeNext \/ Enqueue \/ ClaimRun \/ AnswerWorker \/ Download \/ RunOver,
               UNCHANGED <<prep, export, files>>
        PROVE  D /\ R /\ Q /\ C /\ G
    <3>1. D /\ Train' = Train /\ Manifest' = Manifest
      BY <2>6, <2>p, <2>u
    <3>2. CASE StartDescribe
      <4>1. /\ LoopFree /\ files["train"] # NoFile /\ run' = run
            /\ Len(reading') = 1 /\ reading'[1] = files["train"]
        BY <3>2, RunSteps, <1>t
      <4>2. reading'[1].split = Train /\ Train # 0 /\ Train = Manifest
        BY <4>1, <1>t, <2>d DEF Train, FileNames
      <4>3. R
        <5>1. m # 0 /\ reading'[1].split = m /\ Manifest' = m /\ Len(reading') = 1
          BY <4>1, <4>2, <3>1, <2>v
        <5>2. 1 <= m /\ m <= m /\ ~ (1 >= 2) /\ ~ (1 >= 3)
          BY <5>1
        <5> QED  BY <5>1, <5>2
      <4>4. C
        BY <4>1, <4>2, <2>j, <2>n
      <4> QED  BY <4>1, <4>3, <4>4, <3>1, <2>j
    <3>3. CASE DescribeNext
      <4>1. /\ run' = run /\ reading # << >> /\ Len(reading) \in 1..3
            /\ Len(reading') = Len(reading) + 1
            /\ \A i \in 1..Len(reading) : reading'[i] = reading[i]
            /\ reading'[Len(reading) + 1] = OnDisk(Order[Len(reading) + 1])
        BY <3>3, RunSteps, <1>t
      <4>2. /\ OnDisk(Order[2]).split = Valid /\ OnDisk(Order[3]).split = Manifest
        BY OnDiskIs, <1>t DEF Valid, Manifest
      <4>3. reading'[1] = reading[1]
        BY <4>1
      <4>4. reading[1].split \in Nat /\ 1 <= reading[1].split /\ reading[1].split <= Manifest
        BY <4>1, <2>i, <2>n
      <4>n. PICK r \in Nat : reading[1].split = r /\ reading'[1].split = r /\ 1 <= r /\ r <= m
        BY <4>3, <4>4, <2>v
      <4>r. Manifest' = m /\ Train' = t /\ reading' # << >>
        BY <3>1, <4>1, <2>v, RunSteps, <3>3, <1>t
      <4>c. C /\ Q /\ G
        BY <4>1, <4>3, <3>1, <2>j
      <4>5. CASE Len(reading) = 1
        <5>1. Len(reading') = 2 /\ reading'[2].split = v
          BY <4>1, <4>2, <4>5, <2>v
        <5>2. r <= v /\ v <= t /\ ~ (2 >= 3)
          BY <4>n, <2>v
        <5>3. R
          BY <5>1, <5>2, <4>n, <4>r
        <5> QED  BY <5>3, <4>c, <3>1
      <4>6. CASE Len(reading) = 2
        <5>1. Len(reading') = 3 /\ reading'[2] = reading[2] /\ reading'[3].split = Manifest
          BY <4>1, <4>2, <4>6
        <5>2. r <= reading'[2].split /\ reading'[2].split <= t
          <6>1. 2 >= 2
            OBVIOUS
          <6> QED  BY <5>1, <6>1, <4>6, <4>n, <2>i, <2>v
        <5>3. r <= m /\ m <= t
          BY <4>n, <2>v
        <5>4. R
          BY <5>1, <5>2, <5>3, <4>n, <4>r, <2>v
        <5> QED  BY <5>4, <4>c, <3>1
      <4>7. CASE Len(reading) = 3
        <5>1. Len(reading') = 4 /\ reading'[2] = reading[2] /\ reading'[3] = reading[3]
          BY <4>1, <4>7
        <5>2. r <= reading'[2].split /\ reading'[2].split <= t /\ r <= reading'[3].split /\ reading'[3].split <= t
          <6>1. 3 >= 2 /\ 3 >= 3
            OBVIOUS
          <6> QED  BY <5>1, <6>1, <4>7, <4>n, <2>i, <2>v
        <5>4. R
          BY <5>1, <5>2, <4>n, <4>r
        <5> QED  BY <5>4, <4>c, <3>1
      <4>8. Len(reading) = 1 \/ Len(reading) = 2 \/ Len(reading) = 3
        <5>1. \A x \in 1..3 : x = 1 \/ x = 2 \/ x = 3
          OBVIOUS
        <5> QED  BY <4>1, <5>1
      <4> QED  BY <4>5, <4>6, <4>7, <4>8
    <3>4. CASE Enqueue
      <4>1. /\ reading # << >> /\ Len(reading) = 4 /\ reading' = << >>
            /\ run'.state = "queued" /\ run'.pin = reading
        BY <3>4, RunSteps, <1>t
      <4>2. /\ reading[1].split \in Nat /\ 1 <= reading[1].split
            /\ reading[1].split <= reading[2].split /\ reading[2].split <= Train
            /\ reading[1].split <= reading[3].split /\ reading[3].split <= Train
        BY <4>1, <2>i, <2>n
      <4> QED  BY <4>1, <4>2, <3>1, <2>k
    <3>5. CASE AnswerWorker
      <4>1. /\ reading' = << >>
            /\ \/ run'.state = "failed" /\ run'.pin = << >>
               \/ /\ run'.state = "fetching" /\ run'.pin = run.pin /\ run.state = "claimed"
                  /\ reading = run.pin /\ reading # << >> /\ Len(reading) = 4
        BY <3>5, RunSteps, <1>t
      <4>2. CASE run'.state = "failed" /\ run'.pin = << >>
        BY <4>1, <4>2, <3>1, <2>k
      <4>3. CASE /\ run'.state = "fetching" /\ run'.pin = run.pin /\ run.state = "claimed"
                 /\ reading = run.pin /\ reading # << >> /\ Len(reading) = 4
        <5>1. run.pin[2].split <= run.pin[1].split /\ run.pin[3].split <= run.pin[1].split
          BY <4>3, <2>j
        <5>2. run.pin[2].split = run.pin[1].split /\ run.pin[3].split = run.pin[1].split
          BY <5>1, <4>3, <2>j, <2>n
        <5> QED  BY <5>2, <4>1, <4>3, <3>1, <2>j, <2>k
      <4> QED  BY <4>1, <4>2, <4>3
    <3>6. CASE ClaimRun \/ Download \/ RunOver
      <4>1. /\ reading' = << >>
            /\ \/ run'.pin = << >> /\ run'.state = "none"
               \/ /\ run'.pin = run.pin /\ run'.state \in {"claimed", "queued"}
               \/ /\ run'.pin = run.pin /\ run'.state \in {"fetching", "trained"} /\ run.state = "fetching"
        BY <3>6, RunSteps, <1>t
      <4>2. R /\ C
        BY <4>1, <2>k
      <4>3. Q
        BY <4>1, <3>1, <2>j
      <4> QED  BY <4>1, <4>2, <4>3, <3>1, <2>j
    <3> QED  BY <2>6, <3>2, <3>3, <3>4, <3>5, <3>6
  <2>7. CASE Kill
    <3>1. /\ UNCHANGED <<files, run>> /\ reading' = << >> /\ prep' = [a \in Admins |-> IdlePrep]
          /\ ~ LoopFree => "split cut short" \in excuse'
      BY <2>7 DEF Kill
    <3>2. CASE LoopFree
      <4>1. \A a \in Admins : prep'[a].at = "idle"
        BY <3>1 DEF IdlePrep
      <4>2. D
        BY <4>1, <3>1, <3>2, <2>d, <2>u
      <4>3. R /\ C
        BY <3>1, <2>k
      <4>4. Q /\ G
        BY <3>1, <2>u, <2>j
      <4> QED  BY <4>2, <4>3, <4>4
    <3>3. CASE ~ LoopFree
      <4>1. Excused({"split cut short"})'
        BY <3>1, <3>3 DEF Excused
      <4> QED  BY <4>1, <2>g
    <3> QED  BY <3>2, <3>3
  <2> QED  BY <2>0, <2>1, <2>2, <2>3, <2>4, <2>5, <2>6, <2>7, WhatStepsTouch
<1> QED  BY <1>1, <1>2

---------------------------------------------------------------------------
(* What the manifest says.                                                 *)

LEMMA ManifestStays ==
    ASSUME ContentInv, [ContentNext]_contentVars
    PROVE  ManifestInv'
<1> DEFINE whats == {"replaced during a split", "split cut short", "export cut short"}
<1>t. /\ FilesTyped /\ RunTyped /\ excuse \subseteq Excuses /\ prep \in [Admins -> PrepRecords]
      /\ files \in [FileNames -> FileRecords]
      /\ \A a, b \in Admins : Writing(a) /\ Writing(b) => a = b
  BY DEF ContentInv, FilesTyped, SyllabusInv
<1>1. CASE Excused(whats)
  <2>1. Excused(whats)'
    BY <1>1, <1>t, ExcusedStays
  <2> QED  BY <2>1 DEF ManifestInv
<1>2. CASE ~ Excused(whats)
  <2>s. ~ Excused({"split cut short"})
    BY <1>2 DEF Excused
  <2>m. /\ export.summary = export.n
        /\ \A a \in Admins : prep[a].at \in Carrying =>
             prep[a].export = export.n /\ prep[a].indexes = {syllabus.index}
        /\ LoopFree => Alike(files["train"], files["manifest"])
        /\ \A a \in Admins : Writing(a) => Alike(files["train"], prep[a])
        /\ reading # << >> /\ reading[1].split = Manifest => Alike(reading[1], files["manifest"])
        /\ Len(reading) >= 3 /\ reading[3].split = reading[1].split => Alike(reading[3], reading[1])
        /\ run.pin # << >> /\ run.pin[3].split = run.pin[1].split => Alike(run.pin[3], run.pin[1])
    BY <1>2 DEF ContentInv, ManifestInv
  <2>k. Len(<< >>) = 0 /\ ~ (0 >= 3) /\ ~ (1 >= 3) /\ ~ (2 >= 3) /\ 3 >= 3 /\ 4 >= 3
    OBVIOUS
  <2> DEFINE
        P == /\ export'.summary = export'.n
             /\ \A a \in Admins : prep'[a].at \in Carrying =>
                  prep'[a].export = export'.n /\ prep'[a].indexes = {syllabus'.index}
        F == LoopFree' => Alike(files'["train"], files'["manifest"])
        W == \A a \in Admins : Writing(a)' => Alike(files'["train"], prep'[a])
        R == /\ reading' # << >> /\ reading'[1].split = Manifest' => Alike(reading'[1], files'["manifest"])
             /\ Len(reading') >= 3 /\ reading'[3].split = reading'[1].split => Alike(reading'[3], reading'[1])
        Q == run'.pin # << >> /\ run'.pin[3].split = run'.pin[1].split => Alike(run'.pin[3], run'.pin[1])
  <2>g. SUFFICES ASSUME ~ Excused(whats)' PROVE P /\ F /\ W /\ R /\ Q
    BY DEF ManifestInv, Alike
  <2>x. /\ "replaced during a split" \notin excuse' /\ "split cut short" \notin excuse'
        /\ "export cut short" \notin excuse'
    BY <2>g DEF Excused
  <2>p. UNCHANGED <<prep, export, syllabus>> => P
    BY <2>m
  <2>f. UNCHANGED <<prep, files>> => F /\ W
    <3>1. SUFFICES ASSUME UNCHANGED <<prep, files>> PROVE F /\ W
      OBVIOUS
    <3>2. (LoopFree' <=> LoopFree) /\ \A a \in Admins : Writing(a)' <=> Writing(a)
      BY <3>1 DEF LoopFree, Writing
    <3> QED  BY <3>1, <3>2, <2>m
  <2>r. UNCHANGED <<files, reading, run>> => R /\ Q
    BY <2>m DEF Manifest
  <2>w. \A a \in Admins : Writing(a) <=> prep[a].at \in {"wrote train", "wrote validation"}
    BY DEF Writing
  <2>a. ASSUME ~ Splitting PROVE LoopFree /\ \A a \in Admins : prep[a].at \notin Carrying
    BY <2>a DEF Splitting, LoopFree, Writing, Carrying
  <2>i. IdlePrep.at \notin Carrying
    BY DEF IdlePrep, Carrying
  <2>1. CASE UNCHANGED dataVars /\ UNCHANGED syllabus
    BY <2>1, <2>p, <2>f, <2>r DEF dataVars
  <2>2. ASSUME UNCHANGED dataVars, FinishRebuild \/ \E u \in Uploads : CommitUpload(u) \/ UploadFails(u)
        PROVE  P /\ F /\ W /\ R /\ Q
    <3>1. F /\ W /\ R /\ Q /\ prep' = prep /\ export' = export
      BY <2>2, <2>f, <2>r DEF dataVars
    <3>2. CASE ~ Splitting
      <4>1. \A a \in Admins : prep[a].at \notin Carrying
        BY <3>2, <2>a
      <4> QED  BY <4>1, <3>1, <2>m
    <3>3. CASE Splitting
      <4>1. ~ FinishRebuild
        BY <3>3, <2>x DEF FinishRebuild
      <4>2. \A u \in Uploads : ~ CommitUpload(u)
        BY <3>3, <2>x DEF CommitUpload, Excuse
      <4>3. \A u \in Uploads : UploadFails(u) => syllabus' = syllabus
        BY <3>3, <2>x DEF UploadFails
      <4> QED  BY <4>1, <4>2, <4>3, <2>2, <2>p, <3>1
    <3> QED  BY <3>2, <3>3
  <2>c. ASSUME NEW a \in Admins, NEW r, prep' = [prep EXCEPT ![a] = r]
        PROVE  prep'[a] = r /\ \A b \in Admins \ {a} : prep'[b] = prep[b]
    BY <2>c, <1>t
  <2>0. ASSUME NEW a \in Admins, ExportFails(a) \/ SplitFails(a) PROVE FALSE
    BY <2>0, <2>x DEF ExportFails, SplitFails, Excuse
  <2>3. ASSUME NEW a \in Admins, BeginExport(a) \/ BeginSplit(a) \/ PrepFails(a) \/ Export(a),
               UNCHANGED syllabus
        PROVE  P /\ F /\ W /\ R /\ Q
    <3>1. LoopFree /\ LoopFree' /\ UNCHANGED <<files, reading, run>>
      BY <2>3, SplitsOnDisk
    <3>2. PICK r : prep' = [prep EXCEPT ![a] = r] /\ r.at \notin Carrying
      <4>1. CASE PrepFails(a)
        <5>1. prep' = [prep EXCEPT ![a] = IdlePrep]
          BY <4>1, <1>t, PrepSteps
        <5> QED  BY <5>1, <2>i
      <4>2. CASE BeginExport(a) \/ BeginSplit(a) \/ Export(a)
        <5>1. PICK r \in PrepRecords : prep' = [prep EXCEPT ![a] = r] /\ r.at \notin Carrying
          BY <4>2, <1>t, PrepSteps
        <5> QED  BY <5>1
      <4> QED  BY <4>1, <4>2, <2>3
    <3>3. prep'[a] = r /\ \A b \in Admins \ {a} : prep'[b] = prep[b]
      BY <3>2, <2>c
    <3>4. F /\ W /\ R /\ Q
      BY <3>1, <2>m, <2>r DEF LoopFree
    <3>5. CASE UNCHANGED export
      BY <3>2, <3>3, <3>4, <3>5, <2>m, <2>3
    <3>6. CASE Export(a)
      <4>1. ~ Splitting
        BY <3>6, <2>x DEF Export, Excuse
      <4>2. \A b \in Admins : prep[b].at \notin Carrying
        BY <4>1, <2>a
      <4>3. export'.summary = export'.n
        BY <3>6 DEF Export, Exports
      <4> QED  BY <4>2, <4>3, <3>2, <3>3, <3>4
    <3> QED  BY <2>3, <3>5, <3>6 DEF BeginExport, BeginSplit, PrepFails
  <2>4. ASSUME NEW a \in Admins, LoadRecords(a), UNCHANGED syllabus
        PROVE  P /\ F /\ W /\ R /\ Q
    <3> DEFINE r == [at |-> "retrieving", text |-> export.text, export |-> export.n,
                     indexes |-> {syllabus.index}]
    <3>1. prep' = [prep EXCEPT ![a] = r] /\ export' = export
      BY <2>4 DEF LoadRecords
    <3>2. r.export = export.n /\ r.indexes = {syllabus.index}
      OBVIOUS
    <3> HIDE DEF r
    <3>3. prep'[a] = r /\ \A b \in Admins \ {a} : prep'[b] = prep[b]
      BY <3>1, <2>c
    <3>4. LoopFree /\ LoopFree' /\ UNCHANGED <<files, reading, run>>
      BY <2>4, SplitsOnDisk
    <3>5. F /\ W /\ R /\ Q
      BY <3>4, <2>m, <2>r DEF LoopFree
    <3> QED  BY <3>1, <3>2, <3>3, <3>5, <2>m, <2>4
  <2>5. ASSUME NEW a \in Admins, RetrieveMore(a) PROVE FALSE
    <3>1. prep[a].at \in Carrying /\ syllabus.index \notin prep[a].indexes
      BY <2>5 DEF RetrieveMore, Carrying
    <3> QED  BY <3>1, <2>m
  <2>6. ASSUME NEW a \in Admins, WriteTrain(a) \/ WriteValidation(a), UNCHANGED syllabus
        PROVE  P /\ F /\ W /\ R /\ Q
    <3>1. PICK r : /\ prep' = [prep EXCEPT ![a] = r]
                   /\ r.export = prep[a].export /\ r.indexes = prep[a].indexes
                   /\ r.at = IF WriteTrain(a) THEN "wrote train" ELSE "wrote validation"
      BY <2>6, <1>t, PrepSteps
    <3>2. prep'[a] = r /\ \A b \in Admins \ {a} : prep'[b] = prep[b]
      BY <3>1, <2>c
    <3>3. prep[a].at \in Carrying /\ UNCHANGED <<export, reading, run>>
      BY <2>6, <1>t, PrepSteps
    <3>4. \A b \in Admins : Writing(b)' => b = a
      BY <2>6, SplitsOnDisk
    <3>5. ~ LoopFree'
      BY <3>1, <3>2 DEF LoopFree, Writing
    <3>6. P
      BY <3>1, <3>2, <3>3, <2>m, <2>6
    <3>7. /\ Alike(files'["train"], prep[a])
          /\ files'["manifest"] = files["manifest"]
      <4>1. CASE WriteTrain(a)
        <5>1. files' = [files EXCEPT !["train"] = Records(a, Train + 1)]
          BY <4>1, <1>t, PrepSteps
        <5>2. Alike(Records(a, Train + 1), prep[a])
          BY DEF Records, Alike
        <5> QED  BY <5>1, <5>2, <1>t DEF FileNames
      <4>2. CASE WriteValidation(a)
        <5>1. prep[a].at = "wrote train" /\ files' = [files EXCEPT !["validation"] = Records(a, Train)]
          BY <4>2, <1>t, PrepSteps
        <5>2. Alike(files["train"], prep[a])
          BY <5>1, <2>m, <2>w
        <5> QED  BY <5>1, <5>2, <1>t DEF FileNames
      <4> QED  BY <4>1, <4>2, <2>6
    <3>8. W
      BY <3>1, <3>2, <3>4, <3>7 DEF Alike
    <3>9. R /\ Q
      BY <3>3, <3>7, <2>m DEF Manifest
    <3> QED  BY <3>5, <3>6, <3>8, <3>9
  <2>7. ASSUME NEW a \in Admins, WriteManifest(a), UNCHANGED syllabus
        PROVE  P /\ F /\ W /\ R /\ Q
    <3> DEFINE m == [split |-> Train, text |-> prep[a].text, export |-> export.summary,
                     indexes |-> {syllabus.index}]
    <3>1. /\ prep[a].at = "wrote validation" /\ prep' = [prep EXCEPT ![a] = IdlePrep]
          /\ files' = [files EXCEPT !["manifest"] = m] /\ UNCHANGED <<export, reading, run>>
      BY <2>7, <1>t, PrepSteps
    <3>2. m.split = Train /\ m.export = export.n /\ m.indexes = {syllabus.index}
      BY <2>m
    <3> HIDE DEF m
    <3>3. files'["train"] = files["train"] /\ files'["manifest"] = m
      BY <3>1, <1>t DEF FileNames
    <3>4. prep'[a] = IdlePrep /\ \A b \in Admins \ {a} : prep'[b] = prep[b]
      BY <3>1, <2>c
    <3>5. LoopFree' /\ Manifest' = Train
      BY <2>7, SplitsOnDisk
    <3>6. P
      <4>1. ASSUME NEW b \in Admins, prep'[b].at \in Carrying
            PROVE  prep'[b].export = export'.n /\ prep'[b].indexes = {syllabus'.index}
        <5>1. b # a
          BY <4>1, <3>4, <2>i
        <5>2. prep'[b] = prep[b] /\ syllabus' = syllabus /\ export' = export
          BY <5>1, <3>1, <3>4, <2>7
        <5> QED  BY <5>2, <4>1, <2>m
      <4>2. export'.summary = export'.n
        BY <3>1, <2>m
      <4> QED  BY <4>1, <4>2
    <3>7. Alike(files["train"], m)
      BY <3>1, <3>2, <2>m, <2>w DEF Alike, Carrying
    <3>8. F /\ W
      BY <3>3, <3>5, <3>7 DEF LoopFree
    <3>9. reading # << >> => reading[1].split # Train
      <4>1. SUFFICES ASSUME reading # << >> PROVE reading[1].split # Train
        OBVIOUS
      <4>2. reading[1].split <= Manifest /\ Train = Manifest + 1
        BY <4>1, <3>1, <2>s, SplitsInOrder DEF ContentInv, SplitInv
      <4>3. PICK x \in Nat, y \in Nat : reading[1].split = x /\ Manifest = y
        BY <4>1, <2>s, <1>t, ReadTyped, SplitsInOrder DEF ContentInv
      <4>4. x <= y => x # y + 1
        OBVIOUS
      <4> QED  BY <4>2, <4>3, <4>4
    <3>10. R /\ Q
      BY <3>1, <3>5, <3>9, <2>m
    <3> QED  BY <3>6, <3>8, <3>10
  <2>8. ASSUME StartDescribe \/ DescribeNext \/ Enqueue \/ ClaimRun \/ AnswerWorker \/ Download \/ RunOver,
               UNCHANGED <<prep, export, files, syllabus>>
        PROVE  P /\ F /\ W /\ R /\ Q
    <3>1. P /\ F /\ W /\ Manifest' = Manifest
      BY <2>8, <2>p, <2>f DEF Manifest
    <3>2. CASE StartDescribe
      <4>1. /\ LoopFree /\ run' = run /\ Len(reading') = 1 /\ reading'[1] = files["train"]
        BY <3>2, RunSteps, <1>t
      <4>2. R
        BY <4>1, <2>8, <2>m, <2>k
      <4> QED  BY <4>1, <4>2, <3>1, <2>m
    <3>3. CASE DescribeNext
      <4>1. /\ run' = run /\ reading # << >> /\ Len(reading) \in 1..3
            /\ Len(reading') = Len(reading) + 1
            /\ \A i \in 1..Len(reading) : reading'[i] = reading[i]
            /\ reading'[Len(reading) + 1] = OnDisk(Order[Len(reading) + 1])
        BY <3>3, RunSteps, <1>t
      <4>2. OnDisk(Order[3]) = files["manifest"]
        BY OnDiskIs, <1>t
      <4>3. reading'[1] = reading[1]
        BY <4>1
      <4>4. reading' # << >> /\ reading'[1].split = Manifest' => Alike(reading'[1], files'["manifest"])
        BY <4>1, <4>3, <3>1, <2>8, <2>m
      <4>5. CASE Len(reading) = 1
        <5>1. Len(reading') = 2
          BY <4>1, <4>5
        <5> QED  BY <5>1, <4>1, <4>4, <3>1, <2>m, <2>k
      <4>6. CASE Len(reading) = 2
        <5>1. Len(reading') = 3 /\ reading'[3] = files["manifest"]
          BY <4>1, <4>2, <4>6
        <5>2. reading'[3].split = reading'[1].split => Alike(reading'[3], reading'[1])
          <6>1. reading'[3].split = Manifest
            BY <5>1 DEF Manifest
          <6> QED  BY <6>1, <5>1, <4>1, <4>3, <2>m DEF Alike
        <5> QED  BY <5>2, <4>1, <4>4, <3>1, <2>m
      <4>7. CASE Len(reading) = 3
        <5>1. reading'[3] = reading[3]
          BY <4>1, <4>7
        <5>2. reading'[3].split = reading'[1].split => Alike(reading'[3], reading'[1])
          BY <5>1, <4>3, <4>7, <2>m, <2>k
        <5> QED  BY <5>2, <4>1, <4>4, <3>1, <2>m
      <4>8. Len(reading) = 1 \/ Len(reading) = 2 \/ Len(reading) = 3
        <5>1. \A x \in 1..3 : x = 1 \/ x = 2 \/ x = 3
          OBVIOUS
        <5> QED  BY <4>1, <5>1
      <4> QED  BY <4>5, <4>6, <4>7, <4>8
    <3>4. CASE Enqueue
      <4>1. /\ reading # << >> /\ Len(reading) = 4 /\ reading' = << >> /\ run'.pin = reading
        BY <3>4, RunSteps, <1>t
      <4> QED  BY <4>1, <3>1, <2>m, <2>k
    <3>5. CASE AnswerWorker \/ ClaimRun \/ Download \/ RunOver
      <4>1. reading' = << >> /\ (run'.pin = << >> \/ run'.pin = run.pin)
        BY <3>5, RunSteps, <1>t
      <4> QED  BY <4>1, <3>1, <2>m, <2>k
    <3> QED  BY <2>8, <3>2, <3>3, <3>4, <3>5
  <2>9. CASE Kill
    <3>1. /\ UNCHANGED <<files, run>> /\ reading' = << >> /\ prep' = [a \in Admins |-> IdlePrep]
          /\ ~ LoopFree => "split cut short" \in excuse'
      BY <2>9 DEF Kill
    <3>2. LoopFree
      BY <3>1, <2>x
    <3>3. \A a \in Admins : prep'[a].at = "idle"
      BY <3>1 DEF IdlePrep
    <3>4. P
      <4>1. export' = export
        BY <2>9, <2>x DEF Kill
      <4> QED  BY <4>1, <3>3, <2>m DEF Carrying
    <3>5. F /\ W
      BY <3>1, <3>2, <3>3, <2>m DEF Writing
    <3>6. R /\ Q
      BY <3>1, <2>k, <2>m
    <3> QED  BY <3>4, <3>5, <3>6
  <2> QED  BY <2>0, <2>1, <2>2, <2>3, <2>4, <2>5, <2>6, <2>7, <2>8, <2>9, WhatStepsTouch
<1> QED  BY <1>1, <1>2

---------------------------------------------------------------------------
(* What follows.                                                           *)

LEMMA ContentStarts ==
    ASSUME ContentInit
    PROVE  ContentInv
<1>i. /\ syllabus = [text |-> 0, index |-> 0] /\ row = [status |-> "missing", names |-> 0]
      /\ upload = [u \in Uploads |-> [at |-> "no", replacing |-> FALSE]] /\ rebuild = 0
      /\ seed = [text |-> 1, status |-> "generated"]
      /\ shown = [r \in Reviewers |-> 1]
      /\ prep = [a \in Admins |-> IdlePrep] /\ export = NoExport
      /\ files = [f \in FileNames |-> NoFile] /\ reading = << >> /\ run = NoTraining
      /\ faults = 0 /\ approved = {} /\ excuse = {}
  BY DEF ContentInit
<1>n. /\ MaxText \in Nat \ {0} /\ MaxSplits \in Nat /\ MaxFaults \in Nat
      /\ Cardinality(Uploads) \in Nat
  BY ContentAssumption, FS_CardinalityType
<1>b. 0 \in Bounded /\ 1 \in 1..MaxText
  BY <1>n DEF Bounded
<1>p. IdlePrep \in PrepRecords /\ IdlePrep.at = "idle"
  BY DEF IdlePrep, PrepRecords, PrepPlaces
<1>f. /\ NoFile \in FileRecords /\ NoFile.split = 0
      /\ files["train"] = NoFile /\ files["validation"] = NoFile /\ files["manifest"] = NoFile
      /\ Train = 0 /\ Valid = 0 /\ Manifest = 0
  BY <1>i DEF NoFile, FileRecords, FileNames, Train, Valid, Manifest
<1>w. \A a \in Admins : ~ Writing(a) /\ prep[a].at = "idle"
  BY <1>i, <1>p DEF Writing
<1>1. FilesTyped
  BY <1>i, <1>n, <1>p, <1>f, <1>w DEF FilesTyped, NoExport, ExportRecords
<1>2. NumberedInv
  BY <1>i, <1>f, <1>w DEF NumberedInv
<1>r. /\ run.state = "none" /\ run.pin = << >> /\ run.described = << >> /\ run.got = << >>
      /\ run = [state |-> "none", pin |-> << >>, described |-> << >>, got |-> << >>]
  BY <1>i DEF NoTraining
<1>3. RunTyped
  <2>1. << >> \in Seq(FileRecords) /\ Len(<< >>) = 0 /\ 0 <= 4
    OBVIOUS
  <2>2. run \in [state : {"none", "queued", "claimed", "fetching", "trained", "failed"},
                 pin : Seq(FileRecords), described : Seq(FileRecords), got : Seq(FileRecords)]
    BY <1>r, <2>1
  <2>3. RunInv
    BY <1>i, <1>r DEF RunInv
  <2> QED  BY <1>i, <2>1, <2>2, <2>3 DEF RunTyped
<1>4. SyllabusInv
  <2>1. [at |-> "no", replacing |-> FALSE] \in [at : {"no", "building", "over"}, replacing : BOOLEAN]
    OBVIOUS
  <2>2. upload \in [Uploads -> [at : {"no", "building", "over"}, replacing : BOOLEAN]]
    BY <1>i, <2>1
  <2>3. StatusMatchesDisk
    BY <1>i DEF StatusMatchesDisk
  <2> QED  BY <1>i, <1>n, <1>b, <2>2, <2>3 DEF SyllabusInv
<1>5. ReviewInv
  BY <1>i, <1>b DEF ReviewInv, ReviewStates
<1>6. TextInv
  BY <1>i, <1>f, <1>r, <1>w DEF TextInv, NoExport, Carrying
<1>e. Len(reading) = 0 /\ ~ (0 >= 2) /\ ~ (0 >= 3)
  BY <1>i
<1>7. SplitInv
  BY <1>i, <1>e, <1>f, <1>r, <1>w DEF SplitInv
<1>8. ManifestInv
  BY <1>i, <1>e, <1>f, <1>r, <1>w DEF ManifestInv, Alike, Carrying, NoExport
<1> QED  BY <1>1, <1>2, <1>3, <1>4, <1>5, <1>6, <1>7, <1>8 DEF ContentInv

LEMMA ContentInvHolds == ContentSpec => []ContentInv
<1>1. ContentInit => ContentInv
  BY ContentStarts
<1>2. ContentInv /\ [ContentNext]_contentVars => ContentInv'
  <2>1. SUFFICES ASSUME ContentInv, [ContentNext]_contentVars PROVE ContentInv'
    OBVIOUS
  <2>2. /\ FilesTyped /\ NumberedInv /\ RunTyped /\ SyllabusInv /\ ReviewInv
        /\ excuse \subseteq Excuses
    BY <2>1 DEF ContentInv, SyllabusInv
  <2>3. FilesTyped' /\ NumberedInv' /\ RunTyped'
    BY <2>1, <2>2, FilesStay, NumberedStays, RunStays
  <2>4. SyllabusInv' /\ ReviewInv'
    BY <2>1, <2>2, SyllabusStays, ReviewStays
  <2>5. TextInv' /\ SplitInv' /\ ManifestInv'
    BY <2>1, TextStays, SplitStays, ManifestStays
  <2> QED  BY <2>3, <2>4, <2>5 DEF ContentInv
<1> QED  BY <1>1, <1>2, PTL DEF ContentSpec

\* A trained run downloaded the four files it was queued with.
LEMMA TrainedOnPin ==
    ASSUME ContentInv, Trained
    PROVE  /\ run.got = run.pin /\ run.pin # << >> /\ Len(run.pin) = 4
           /\ run.got[1] = run.pin[1] /\ run.got[2] = run.pin[2] /\ run.got[3] = run.pin[3]
<1>1. /\ run.state = "trained" /\ run.pin \in Seq(FileRecords) /\ run.got \in Seq(FileRecords)
      /\ Len(run.pin) = 4 /\ Len(run.got) = 4
      /\ \A i \in 1..Len(run.got) : run.got[i] = run.pin[i]
  BY DEF ContentInv, RunTyped, RunInv, Trained
<1>2. ASSUME NEW p \in Seq(FileRecords), NEW q \in Seq(FileRecords), Len(p) = 4, Len(q) = 4,
             \A i \in 1..Len(p) : p[i] = q[i]
      PROVE  p = q
  BY <1>2
<1>3. run.got = run.pin
  BY <1>1, <1>2
<1>4. run.pin # << >>
  BY <1>1
<1> QED  BY <1>1, <1>3, <1>4

\* The course row says what is on disk and the index is of the text beside it,
\* but for the failures excused by name; and the manifest a run trains with names
\* the export and the index its examples were made of, whoever exports, uploads,
\* reindexes or prepares meanwhile (upload_course_syllabus,
\* prepare_course_training_split, resolve_run_dataset, sync_run_dataset).
THEOREM ContentIsSafe == ContentSpec => []ContentSafety
<1>1. ASSUME ContentInv PROVE ContentSafety
  <2>1. ContentTypeOK
    BY <1>1 DEF ContentInv, ContentTypeOK, SyllabusInv, ReviewInv, RunTyped
  <2>2. StatusMatchesDisk
    BY <1>1 DEF ContentInv, SyllabusInv
  <2>3. ManifestIsTrue
    <3>1. CASE Excused({"replaced during a split", "split cut short", "export cut short"})
      BY <3>1 DEF ManifestIsTrue
    <3>2. CASE ~ Trained
      BY <3>2 DEF ManifestIsTrue
    <3>3. CASE ~ Excused({"replaced during a split", "split cut short", "export cut short"}) /\ Trained
      <4>1. ~ Excused({"split cut short"})
        BY <3>3 DEF Excused
      <4>2. /\ run.pin # << >> /\ run.got[1] = run.pin[1] /\ run.got[3] = run.pin[3]
        BY <1>1, <3>3, TrainedOnPin
      <4>3. run.pin[3].split = run.pin[1].split
        BY <1>1, <3>3, <4>1 DEF ContentInv, SplitInv, Trained
      <4>4. Alike(run.pin[3], run.pin[1])
        BY <1>1, <3>3, <4>2, <4>3 DEF ContentInv, ManifestInv
      <4> QED  BY <4>2, <4>4, GotIs DEF ManifestIsTrue, Alike
    <3> QED  BY <3>1, <3>2, <3>3
  <2> QED  BY <2>1, <2>2, <2>3 DEF ContentSafety
<1> QED  BY <1>1, ContentInvHolds, PTL

\* A run trains on the very files it was queued with, and the three files are of
\* one split unless the backend died writing one, however many preparations run
\* while it is described, queued, claimed and downloaded
\* (describe_dataset, pin_dataset_for_enqueue, resolve_run_dataset).
THEOREM OneSplit == ContentSpec => []TrainsOnOneSplit
<1>1. ASSUME ContentInv PROVE TrainsOnOneSplit
  <2>1. SUFFICES ASSUME Trained, ~ Excused({"split cut short"})
                 PROVE  \E n \in 1..MaxSplits : \A f \in FileNames : Got(f).split = n
    BY <1>1, TrainedOnPin DEF TrainsOnOneSplit
  <2>2. /\ run.pin # << >> /\ run.got[1] = run.pin[1] /\ run.got[2] = run.pin[2]
        /\ run.got[3] = run.pin[3]
    BY <1>1, <2>1, TrainedOnPin
  <2>3. /\ run.pin[2].split = run.pin[1].split /\ run.pin[3].split = run.pin[1].split
        /\ 1 <= run.pin[1].split /\ run.pin[1].split <= run.pin[2].split /\ run.pin[2].split <= Train
    BY <1>1, <2>1, <2>2 DEF ContentInv, SplitInv, Trained
  <2>4. PICK n \in Nat, t \in Nat : run.pin[1].split = n /\ Train = t /\ t <= MaxSplits
    BY <1>1, <2>1, <2>2, ReadTyped, SplitsInOrder DEF ContentInv, FilesTyped
  <2>5. MaxSplits \in Nat /\ 1 <= n /\ n <= t
    BY <2>3, <2>4, ContentAssumption
  <2>6. n \in 1..MaxSplits
    BY <2>4, <2>5
  <2>7. \A f \in FileNames : Got(f).split = n
    BY <2>2, <2>3, <2>4, GotIs DEF FileNames
  <2> QED  BY <2>6, <2>7
<1> QED  BY <1>1, ContentInvHolds, PTL

\* No text trains that nobody approved with that text in front of them, unless an
\* approval landed on an edit its page had not shown (apply_seed_review,
\* export_approved_course_seeds).
THEOREM ApprovedOnly == ContentSpec => []OnlyApprovedIsTrained
<1>1. ASSUME ContentInv PROVE OnlyApprovedIsTrained
  <2>1. SUFFICES ASSUME Trained, ~ Excused({"approved unseen"})
                 PROVE  Got("train").text \in approved
    BY DEF OnlyApprovedIsTrained
  <2>2. run.pin # << >> /\ run.got[1] = run.pin[1]
    BY <1>1, <2>1, TrainedOnPin
  <2> QED  BY <1>1, <2>1, <2>2, GotIs DEF ContentInv, TextInv
<1> QED  BY <1>1, ContentInvHolds, PTL

=============================================================================
