-------------------------- MODULE PublicationProofs --------------------------
(* Proofs about how a trained version comes to answer students: the registry *)
(* of a course's versions, the serving tree, the GPU session and the         *)
(* fine-tuned service, on the cluster and on the VM.  For any handlers,      *)
(* versions and redeliveries, courses, promotions, requests and cache size,  *)
(* and any shells of the operators.                                          *)
EXTENDS ModelRegistry, Serving, VmFallback, ListLemmas, FiniteSetTheorems, WellFoundedInduction, TLAPS

---------------------------------------------------------------------------
(* The registry.                                                           *)

\* The greatest of finitely many numbers is one of them.  (The set of those that
\* are greater than x, for the x for which it is smallest, is empty.)
LEMMA MaxIsOne ==
    ASSUME NEW S \in SUBSET Nat, IsFiniteSet(S), S # {}
    PROVE  Max(S) \in S /\ \A y \in S : Max(S) >= y
<1> DEFINE Above(x) == {y \in S : y > x}
           T == {Above(x) : x \in S}
<1>1. IsWellFoundedOn(StrictSubsetOrdering(S), FiniteSubsetsOf(S))
  BY FS_StrictSubsetOrderingWellFounded
<1>2. T \subseteq FiniteSubsetsOf(S) /\ T # {}
  <2>1. \A x \in S : Above(x) \subseteq S /\ IsFiniteSet(Above(x))
    BY FS_Subset
  <2> QED  BY <2>1 DEF FiniteSubsetsOf
<1> HIDE DEF T
<1>3. PICK U \in T : \A V \in T : ~(<<V, U>> \in StrictSubsetOrdering(S))
  BY <1>1, <1>2, WFMin
<1>4. PICK x \in S : U = Above(x)
  BY <1>3 DEF T
<1>5. Above(x) = {}
  <2> SUFFICES ASSUME NEW y \in S, y > x PROVE FALSE
    OBVIOUS
  <2>1. Above(y) \in T
    BY DEF T
  <2>2. Above(y) \subseteq Above(x) /\ y \in Above(x) /\ y \notin Above(y)
    <3>1. x \in Nat /\ y \in Nat /\ \A z \in S : z \in Nat
      OBVIOUS
    <3>2. \A z \in S : z > y => z > x
      BY <3>1
    <3>3. ~(y > y)
      BY <3>1
    <3>4. Above(y) \subseteq Above(x)
      BY <3>2
    <3>5. y \in Above(x) /\ y \notin Above(y)
      BY <3>3
    <3> QED  BY <3>4, <3>5
  <2>3. Above(y) \in SUBSET S /\ Above(x) \in SUBSET S /\ Above(y) # Above(x)
    BY <2>2
  <2> HIDE DEF Above
  <2>4. <<Above(y), Above(x)>> \in StrictSubsetOrdering(S)
    BY <2>2, <2>3 DEF StrictSubsetOrdering
  <2> QED  BY <1>3, <1>4, <2>1, <2>4
<1>6. \A y \in S : x >= y
  BY <1>5
<1>7. \E z \in S : \A y \in S : z >= y
  BY <1>4, <1>6
<1> QED  BY <1>7, Zenon DEF Max

\* No other one is as great as all of them.
LEMMA MaxIsTop ==
    ASSUME NEW S \in SUBSET Nat, NEW m \in S, \A y \in S : m >= y
    PROVE  Max(S) = m
<1>1. Max(S) \in S /\ \A y \in S : Max(S) >= y
  <2>1. \E z \in S : \A y \in S : z >= y
    OBVIOUS
  <2> QED  BY <2>1, Zenon DEF Max
<1>2. m \in Nat /\ Max(S) \in Nat /\ m >= Max(S) /\ Max(S) >= m
  BY <1>1
<1> QED  BY <1>2

---------------------------------------------------------------------------
(* The invariant.                                                          *)

\* What a publication was confirmed for, and what it saw online, has been servable,
\* and only what is registered ever was; and while no two write
\* at once, the transaction under way has seen every version that is online.
TxInv ==
    /\ \A h \in Handlers :
        tx[h].stage \in {"confirmed", "writing"} => tx[h].version \in everMapped
    /\ \A h \in Writing : tx[h].seen \subseteq everMapped
    /\ Online \subseteq everMapped /\ everMapped \subseteq Registered
    /\ ~overlapped =>
        /\ \A g, h \in Writing : g = h
        /\ Online \subseteq {latest}
        /\ \A h \in Writing : Online \subseteq tx[h].seen \cup {tx[h].version}

RegistryInv == TypeOK /\ TxInv

LEMMA RegistryInit == Init => RegistryInv
<1> SUFFICES ASSUME Init PROVE RegistryInv
  OBVIOUS
<1>1. /\ rows = [v \in Versions |-> "absent"] /\ current = None /\ owner = 1 /\ mapped = {} /\ everMapped = {}
      /\ spool = [v \in Versions |-> "empty"] /\ redeliveries = 0 /\ latest = None
      /\ tx = [h \in Handlers |-> Idle] /\ overlapped = FALSE
  BY DEF Init
<1>2. TypeOK
  <2>1. 1 \in 1..NumVersions + 1 /\ 0 \in 0..MaxRedeliveries
    BY RegistryAssumption
  <2> QED  BY <1>1, <2>1 DEF TypeOK, Publications, SpoolStates
<1>3. Online = {} /\ \A h \in Handlers : tx[h].stage = "idle"
  BY <1>1 DEF Online, Idle
<1> QED  BY <1>1, <1>2, <1>3 DEF RegistryInv, TxInv, Writing, Stage

\* What a handler is in the middle of.
LEMMA TxTyped ==
    ASSUME NEW t \in Publications
    PROVE  /\ t.stage \in {"idle", "asking", "confirmed", "writing"}
           /\ t.stage # "idle" => t.version \in Versions /\ t.by \in {"report", "admin"}
           /\ t.stage = "writing" => t.seen \subseteq Versions
BY DEF Publications, Idle

LEMMA ContinueMoves ==
    ASSUME TypeOK, NEW h \in Handlers, NEW t \in Publications, Continue(h, t)
    PROVE  /\ tx' \in [Handlers -> Publications]
           /\ tx'[h] = t /\ \A g \in Handlers : g # h => tx'[g] = tx[g]
BY DEF TypeOK, Continue

\* The transaction's two UPDATEs.
LEMMA Marked ==
    ASSUME TypeOK, NEW v \in Versions, NEW seen \in SUBSET Versions, MarkPublished(v, seen)
    PROVE  /\ rows' \in [Versions -> {"absent", "offline", "online"}]
           /\ Online' = {v} \cup (Online \ seen) /\ Online' # {}
           /\ Registered' = Registered \cup {v} \cup seen
<1>1. \A w \in Versions :
        rows'[w] = IF w = v THEN "online" ELSE IF w \in seen THEN "offline" ELSE rows[w]
  BY DEF MarkPublished
<1>2. rows' = [w \in Versions |-> rows'[w]]
  BY DEF MarkPublished
<1>3. rows' \in [Versions -> {"absent", "offline", "online"}]
  BY <1>1, <1>2 DEF TypeOK
<1>4. Online' = {v} \cup (Online \ seen)
  BY <1>1 DEF Online
<1>5. Registered' = Registered \cup {v} \cup seen
  BY <1>1 DEF Registered
<1> QED  BY <1>3, <1>4, <1>5

\* A step that writes no row of a version keeps who is online.
LEMMA UpsertMoves ==
    ASSUME TypeOK, NEW v \in Versions, Upsert(v)
    PROVE  /\ rows' \in [Versions -> {"absent", "offline", "online"}] /\ current' \in Versions \cup {None}
           /\ Online' = Online \ {v}
           /\ rows[v] = "absent" => Online' = Online
           /\ Registered' = Registered \cup {v}
BY DEF TypeOK, Upsert, Online, Registered

\* What a handler does before it commits, or instead of it.
LEMMA HandlerStepTypes ==
    ASSUME TypeOK, NEW h \in Handlers, NEW t \in Publications, Continue(h, t),
           UNCHANGED <<rows, current, owner, mapped, everMapped, redeliveries, latest>>,
           spool' \in [Versions -> SpoolStates], overlapped' \in BOOLEAN
    PROVE  TypeOK'
BY ContinueMoves DEF TypeOK

LEMMA Acknowledges ==
    ASSUME TypeOK, NEW h \in Handlers, NEW answers \in SUBSET SpoolStates, Acknowledge(h, answers)
    PROVE  spool' \in [Versions -> SpoolStates]
BY DEF TypeOK, Acknowledge

LEMMA OverlapType ==
    ASSUME TypeOK, Next
    PROVE  /\ overlapped' \in BOOLEAN /\ (~overlapped' => ~overlapped)
           /\ ~overlapped' => \A g, h \in Writing' : g = h
BY DEF TypeOK, Next

\* A handler that does not write leaves the rows as they are; what it reads is what
\* is online now.
LEMMA HandlerTxInv ==
    ASSUME RegistryInv, NEW h \in Handlers, NEW t \in Publications, Continue(h, t),
           UNCHANGED <<rows, everMapped, latest>>,
           t.stage \in {"confirmed", "writing"} => t.version \in everMapped,
           t.stage = "writing" => t.seen = Online \ {t.version},
           ~overlapped' => ~overlapped /\ \A g, k \in Writing' : g = k
    PROVE  TxInv'
<1>1. /\ tx'[h] = t /\ \A g \in Handlers : g # h => tx'[g] = tx[g]
  BY ContinueMoves DEF RegistryInv
<1>2. Online' = Online /\ Registered' = Registered
  BY DEF Online, Registered
<1>3. ASSUME ~overlapped', NEW g \in Writing' PROVE Online \subseteq tx'[g].seen \cup {tx'[g].version}
  <2>1. CASE g = h
    BY <1>1, <1>3, <2>1 DEF Writing, Stage
  <2>2. CASE g # h
    BY <1>1, <1>3, <2>2 DEF Writing, Stage, RegistryInv, TxInv
  <2> QED  BY <2>1, <2>2
<1>4. ASSUME NEW g \in Writing' PROVE tx'[g].seen \subseteq everMapped
  <2>1. CASE g = h
    BY <1>1, <1>4, <2>1 DEF Writing, Stage, RegistryInv, TxInv
  <2>2. CASE g # h
    BY <1>1, <1>4, <2>2 DEF Writing, Stage, RegistryInv, TxInv
  <2> QED  BY <2>1, <2>2
<1> QED  BY <1>1, <1>2, <1>3, <1>4 DEF RegistryInv, TxInv, Writing, Stage

LEMMA RegistryNext == RegistryInv /\ [Next]_vars => RegistryInv'
<1> SUFFICES ASSUME RegistryInv, [Next]_vars PROVE RegistryInv'
  OBVIOUS
<1>1. CASE UNCHANGED vars
  BY <1>1 DEF vars, RegistryInv, TypeOK, TxInv, Online, Registered, Writing, Stage
<1>2. ASSUME Next PROVE RegistryInv'
  <2> USE <1>2
  <2>1. TypeOK /\ TxInv
    BY DEF RegistryInv
  <2>2. /\ overlapped' \in BOOLEAN
        /\ ~overlapped' => ~overlapped /\ \A g, k \in Writing' : g = k
    BY <2>1, OverlapType
  <2>3. ASSUME NEW v \in Versions, Upsert(v), UNCHANGED <<owner, mapped, everMapped, spool, latest, tx>>,
               redeliveries' \in 0..MaxRedeliveries
        PROVE  RegistryInv'
    <3>1. /\ rows' \in [Versions -> {"absent", "offline", "online"}] /\ current' \in Versions \cup {None}
          /\ Online' = Online \ {v} /\ Registered' = Registered \cup {v}
      BY <2>1, <2>3, UpsertMoves
    <3>2. TypeOK'
      BY <2>1, <2>2, <2>3, <3>1 DEF TypeOK
    <3>3. TxInv'
      BY <2>1, <2>2, <2>3, <3>1 DEF TxInv, Writing, Stage
    <3> QED  BY <3>2, <3>3 DEF RegistryInv
  <2>4. CASE Register
    BY <2>1, <2>3, <2>4 DEF Register, TypeOK
  <2>5. CASE Redeliver
    <3>1. owner \in Versions /\ redeliveries' \in 0..MaxRedeliveries
      BY <2>1, <2>5, RegistryAssumption DEF Redeliver, Registered, TypeOK
    <3> QED  BY <2>3, <2>5, <3>1 DEF Redeliver
  <2>6. CASE QueueNextRun
    <3>1. owner' \in 1..NumVersions + 1
      BY <2>1, <2>6, RegistryAssumption DEF QueueNextRun, Registered, Versions, TypeOK
    <3>2. UNCHANGED <<rows, current, mapped, everMapped, spool, redeliveries, latest, tx>>
      BY <2>6 DEF QueueNextRun
    <3> QED  BY <2>1, <2>2, <3>1, <3>2 DEF RegistryInv, TypeOK, TxInv, Online, Registered, Writing, Stage
  <2>7. CASE Remap
    <3>1. PICK v \in Registered : mapped' \in {mapped \cup {v}, mapped \ {v}}
      BY <2>7 DEF Remap
    <3>2. mapped \subseteq everMapped /\ everMapped \subseteq Registered /\ Registered \subseteq Versions
      BY <2>1 DEF TypeOK, TxInv, Registered
    <3>3. /\ everMapped' = everMapped \cup mapped'
          /\ UNCHANGED <<rows, current, owner, spool, redeliveries, latest, tx>>
      BY <2>7 DEF Remap
    <3>4. /\ mapped' \subseteq everMapped' /\ everMapped \subseteq everMapped'
          /\ everMapped' \subseteq Registered /\ everMapped' \subseteq Versions
      BY <3>1, <3>2, <3>3
    <3>5. TypeOK'
      BY <2>1, <2>2, <3>3, <3>4 DEF TypeOK
    <3>6. TxInv'
      <4>1. Online' = Online /\ Registered' = Registered /\ Writing' = Writing
        BY <3>3 DEF Online, Registered, Writing, Stage
      <4> QED  BY <2>1, <2>2, <3>3, <3>4, <4>1 DEF TxInv
    <3> QED  BY <3>5, <3>6 DEF RegistryInv
  <2>8. ASSUME NEW v \in Versions, Promote(v) PROVE RegistryInv'
    <3>1. spool' \in [Versions -> SpoolStates]
          /\ UNCHANGED <<rows, current, owner, mapped, everMapped, redeliveries, latest, tx>>
      BY <2>1, <2>8 DEF Promote, TypeOK, SpoolStates
    <3> QED  BY <2>1, <2>2, <3>1 DEF RegistryInv, TypeOK, TxInv, Online, Registered, Writing, Stage
  <2>9. ASSUME NEW h \in Handlers, NEW by \in {"report", "admin"}, NEW v \in Versions, Ask(h, by, v)
        PROVE  RegistryInv'
    <3>1. [stage |-> "asking", by |-> by, version |-> v] \in Publications
      BY DEF Publications
    <3>2. TypeOK'
      BY <2>1, <2>2, <2>9, <3>1, HandlerStepTypes DEF Ask, TypeOK
    <3>3. TxInv'
      BY <2>2, <2>9, <3>1, HandlerTxInv DEF Ask
    <3> QED  BY <3>2, <3>3 DEF RegistryInv
  <2>10. ASSUME NEW h \in Handlers, Probe(h) PROVE RegistryInv'
    <3>1. PICK t \in Publications : t = [tx[h] EXCEPT !.stage = "confirmed"] /\ t.version = tx[h].version
                                    /\ t.stage = "confirmed"
      BY <2>1, <2>10 DEF Probe, Stage, TypeOK, Publications, Idle
    <3>2. TypeOK'
      BY <2>1, <2>2, <2>10, <3>1, HandlerStepTypes DEF Probe, TypeOK
    <3>3. t.version \in everMapped
      BY <2>1, <2>10, <3>1 DEF Probe, TypeOK
    <3>4. TxInv'
      BY <2>2, <2>10, <3>1, <3>3, HandlerTxInv DEF Probe
    <3> QED  BY <3>2, <3>4 DEF RegistryInv
  <2>11. ASSUME NEW h \in Handlers, BeginWrite(h) PROVE RegistryInv'
    <3>1. /\ tx[h].version \in Versions /\ tx[h].by \in {"report", "admin"} /\ tx[h].stage = "confirmed"
      BY <2>1, <2>11, TxTyped DEF BeginWrite, Stage, TypeOK
    <3>2. PICK t \in Publications :
            /\ t = [stage |-> "writing", by |-> tx[h].by, version |-> tx[h].version,
                    seen |-> Online \ {tx[h].version}]
            /\ t.seen = Online \ {t.version} /\ t.version = tx[h].version
      <4> DEFINE seen == Online \ {tx[h].version}
                 t == [stage |-> "writing", by |-> tx[h].by, version |-> tx[h].version, seen |-> seen]
      <4>1. seen \in SUBSET Versions
        BY DEF Online
      <4> HIDE DEF seen
      <4>2. t \in Publications /\ t.seen = seen /\ t.version = tx[h].version
        BY <3>1, <4>1 DEF Publications
      <4> QED  BY <4>2 DEF seen
    <3>3. TypeOK'
      BY <2>1, <2>2, <2>11, <3>2, HandlerStepTypes DEF BeginWrite, TypeOK
    <3>4. t.version \in everMapped
      BY <2>1, <3>1, <3>2 DEF TxInv
    <3>5. TxInv'
      BY <2>2, <2>11, <3>2, <3>4, HandlerTxInv DEF BeginWrite
    <3> QED  BY <3>3, <3>5 DEF RegistryInv
  <2>12. ASSUME NEW h \in Handlers, CommitWrite(h) PROVE RegistryInv'
    <3>1. PICK v \in Versions, seen \in SUBSET Versions : v = tx[h].version /\ seen = tx[h].seen
      BY <2>1, <2>12, TxTyped DEF CommitWrite, Stage, TypeOK
    <3>2. /\ Stage(h, "writing") /\ MarkPublished(v, seen) /\ latest' = v /\ Continue(h, Idle)
          /\ UNCHANGED <<current, owner, mapped, everMapped, redeliveries>>
          /\ Acknowledge(h, {"empty", "recorded"})
      BY <2>12, <3>1 DEF CommitWrite
    <3>3. /\ rows' \in [Versions -> {"absent", "offline", "online"}]
          /\ Online' = {v} \cup (Online \ seen) /\ Registered' = Registered \cup {v} \cup seen
      BY <2>1, <3>2, Marked
    <3>4. /\ tx' \in [Handlers -> Publications] /\ tx'[h] = Idle /\ Idle \in Publications
          /\ \A g \in Handlers : g # h => tx'[g] = tx[g]
      BY <2>1, <3>2, ContinueMoves DEF Publications
    <3>5. spool' \in [Versions -> SpoolStates]
      BY <2>1, <3>2, Acknowledges DEF SpoolStates
    <3>6. TypeOK'
      BY <2>1, <2>2, <3>1, <3>2, <3>3, <3>4, <3>5 DEF TypeOK
    <3>7. v \in everMapped
      BY <2>1, <3>1, <3>2 DEF TxInv, Stage
    <3>8. ASSUME ~overlapped' PROVE Online' \subseteq {v} /\ Writing' = {}
      <4>1. /\ Online \subseteq seen \cup {v} /\ \A g \in Writing : g = h
        BY <2>1, <2>2, <3>1, <3>2, <3>8 DEF TxInv, Writing
      <4>2. \A g \in Handlers : ~(tx'[g].stage = "writing")
        BY <3>4, <4>1 DEF Writing, Stage, Idle
      <4> QED  BY <3>3, <4>1, <4>2 DEF Writing, Stage
    <3>9. TxInv'
      <4>1. \A g \in Handlers : tx'[g].stage \in {"confirmed", "writing"} => tx'[g] = tx[g]
        BY <3>4 DEF Idle
      <4>2. \A g \in Writing' : g \in Writing /\ tx'[g] = tx[g]
        BY <4>1 DEF Writing, Stage
      <4>3. Online' \subseteq everMapped /\ everMapped \subseteq Registered'
        BY <2>1, <3>3, <3>7 DEF TxInv
      <4> QED  BY <2>1, <3>2, <3>8, <4>1, <4>2, <4>3 DEF TxInv
    <3> QED  BY <3>6, <3>9 DEF RegistryInv
  <2>13. ASSUME NEW h \in Handlers, Refuse(h) \/ GiveUp(h) PROVE RegistryInv'
    <3>1. /\ Continue(h, Idle)
          /\ UNCHANGED <<rows, current, owner, mapped, everMapped, redeliveries, latest>>
      BY <2>13 DEF Refuse, GiveUp
    <3>2. Idle \in Publications /\ Idle.stage = "idle"
      BY DEF Publications, Idle
    <3>3. spool' \in [Versions -> SpoolStates]
      <4>1. CASE GiveUp(h)
        BY <2>1, <4>1 DEF GiveUp, TypeOK
      <4>2. CASE Refuse(h)
        <5>1. tx[h].version \in Versions
          BY <2>1, <4>2, TxTyped DEF Refuse, Stage, TypeOK
        <5>2. {"empty", spool[tx[h].version]} \in SUBSET SpoolStates
          BY <2>1, <5>1 DEF TypeOK, SpoolStates
        <5> QED  BY <2>1, <4>2, <5>2, Acknowledges DEF Refuse
      <4> QED  BY <2>13, <4>1, <4>2
    <3>4. TypeOK'
      BY <2>1, <2>2, <3>1, <3>2, <3>3, HandlerStepTypes
    <3>5. TxInv'
      BY <2>2, <3>1, <3>2, HandlerTxInv
    <3> QED  BY <3>4, <3>5 DEF RegistryInv
  <2> QED  BY <2>4, <2>5, <2>6, <2>7, <2>8, <2>9, <2>10, <2>11, <2>12, <2>13 DEF Next, Step
<1> QED  BY <1>1, <1>2

LEMMA RegistryInvariant == Spec => []RegistryInv
BY RegistryInit, RegistryNext, PTL DEF Spec

---------------------------------------------------------------------------
(* The theorems.                                                           *)

\* Types; one version online and the one published last, while no two publications
\* overlapped; and none online that was never servable.
THEOREM RegistryIsSafe == Spec => []RegistrySafety
<1>1. RegistryInv => RegistrySafety
  <2> SUFFICES ASSUME RegistryInv PROVE RegistrySafety
    OBVIOUS
  <2>1. TypeOK /\ OnlineWasServable
    BY DEF RegistryInv, TxInv, OnlineWasServable
  <2>2. CASE overlapped
    BY <2>1, <2>2 DEF RegistrySafety, OneOnline, LatestOrNone
  <2>3. CASE ~overlapped
    <3>1. Online = {} \/ Online = {latest}
      BY <2>3 DEF RegistryInv, TxInv
    <3>2. Cardinality(Online) <= 1
      <4>1. Cardinality({}) = 0 /\ Cardinality({latest}) = 1
        BY FS_EmptySet, FS_Singleton
      <4> QED  BY <3>1, <4>1
    <3>3. Resolved \in {None, latest}
      <4>1. CASE Online = {}
        BY <4>1 DEF Resolved
      <4>2. CASE Online = {latest}
        <5>1. latest \in Nat
          BY <2>1 DEF TypeOK, Versions, None
        <5>2. Max({latest}) = latest
          BY <5>1 DEF Max
        <5> QED  BY <4>2, <5>2 DEF Resolved
      <4> QED  BY <3>1, <4>1, <4>2
    <3> QED  BY <2>1, <3>2, <3>3 DEF RegistrySafety, OneOnline, LatestOrNone
  <2> QED  BY <2>2, <2>3
<1> QED  BY <1>1, RegistryInvariant, PTL

\* Answers move to what was just published, or are taken away by a redelivery of
\* their own completion (mark_version_published, _register_version_in_transaction,
\* find_deployed_version).
THEOREM AnswersMove == Spec => AnswersMoveTogether
<1>1. RegistryInv /\ RegistryInv' /\ [Next]_vars => (Resolved' # Resolved => Publishes \/ Withdraws)
  <2> SUFFICES ASSUME RegistryInv, RegistryInv', [Next]_vars, Resolved' # Resolved
               PROVE  Publishes \/ Withdraws
    OBVIOUS
  <2>1. TypeOK /\ TypeOK' /\ TxInv /\ TxInv'
    BY DEF RegistryInv
  <2>2. Online' # Online
    BY DEF Resolved
  <2>3. /\ Online \in SUBSET Nat /\ Online' \in SUBSET Nat /\ None \notin Online' 
        /\ IsFiniteSet(Online) /\ IsFiniteSet(Online')
    <3>1. Online \in SUBSET Versions /\ Online' \in SUBSET Versions
      BY DEF Online
    <3>2. IsFiniteSet(Versions) /\ Versions \in SUBSET Nat /\ None \notin Versions
      BY FS_Interval, RegistryAssumption DEF Versions, None
    <3> QED  BY <3>1, <3>2, FS_Subset
  <2>4. ~overlapped' => Online' = {} \/ (Online' = {latest'} /\ Resolved' = latest')
    <3> SUFFICES ASSUME ~overlapped', Online' # {} PROVE Online' = {latest'} /\ Resolved' = latest'
      OBVIOUS
    <3>1. Online' = {latest'}
      BY <2>1 DEF TxInv
    <3>2. Resolved' = Max(Online')
      BY DEF Resolved
    <3>3. Max(Online') \in Online'
      BY <2>3, MaxIsOne
    <3> QED  BY <3>1, <3>2, <3>3
  <2>5. CASE Redeliver
    <3>1. owner \in Versions /\ Upsert(owner) /\ redeliveries' = redeliveries + 1
          /\ UNCHANGED <<owner, latest>>
      BY <2>5 DEF Redeliver, Registered
    <3>2. redeliveries' # redeliveries
      BY <2>1, <3>1 DEF TypeOK
    <3>3. Online' = Online \ {owner}
      BY <2>1, <3>1, UpsertMoves
    <3>4. owner \in Online /\ Resolved = Max(Online)
      BY <2>2, <3>3 DEF Resolved
    <3>5. Max(Online) \in Online /\ \A y \in Online : Max(Online) >= y
      BY <2>3, <3>4, MaxIsOne
    <3>6. Resolved = owner
      <4> SUFFICES ASSUME Max(Online) # owner PROVE FALSE
        BY <3>4
      <4>1. Max(Online) \in Online' /\ \A y \in Online' : Max(Online) >= y
        BY <3>3, <3>5
      <4>2. PICK m \in Online' : m = Max(Online)
        BY <4>1
      <4>3. Max(Online') = m
        BY <2>3, <4>1, <4>2, MaxIsTop
      <4>4. Resolved' = Max(Online')
        BY <4>1 DEF Resolved
      <4> QED  BY <3>4, <4>2, <4>3, <4>4
    <3>7. ~overlapped' => Resolved' = None
      <4> SUFFICES ASSUME ~overlapped', Online' # {} PROVE FALSE
        BY DEF Resolved
      <4>1. ~overlapped
        BY <2>5 DEF Next, RegistryInv, vars, Redeliver
      <4>2. Online = {latest}
        BY <2>1, <3>4, <4>1 DEF TxInv
      <4> QED  BY <3>3, <3>4, <4>2
    <3> QED  BY <3>2, <3>6, <3>7 DEF Withdraws
  <2>6. ASSUME NEW h \in Handlers, CommitWrite(h) PROVE Publishes
    <3>1. PICK v \in Versions, seen \in SUBSET Versions : v = tx[h].version /\ seen = tx[h].seen
      BY <2>1, <2>6, TxTyped DEF CommitWrite, Stage, TypeOK
    <3>2. MarkPublished(v, seen) /\ latest' = v /\ h \in Writing
      BY <2>6, <3>1 DEF CommitWrite, Writing
    <3>3. Online' # {}
      BY <2>1, <3>2, Marked
    <3>4. Resolved' # None
      <4>1. Max(Online') \in Online'
        BY <2>3, <3>3, MaxIsOne
      <4> QED  BY <2>3, <3>3, <4>1 DEF Resolved
    <3>5. tx'[h] = Idle
      BY <2>1, <2>6, ContinueMoves DEF CommitWrite, Publications
    <3>6. ~overlapped' => Resolved' = tx[h].version
      BY <2>4, <3>1, <3>2, <3>3
    <3> QED  BY <3>2, <3>4, <3>5, <3>6 DEF Publishes
  <2>7. ~(UNCHANGED rows)
    BY <2>2 DEF Online
  <2>8. ~Register
    <3> SUFFICES ASSUME Register PROVE FALSE
      OBVIOUS
    <3>1. owner \in Versions /\ rows[owner] = "absent" /\ Upsert(owner)
      BY DEF Register, Registered
    <3> QED  BY <2>1, <2>2, <3>1, UpsertMoves
  <2> QED  BY <2>5, <2>6, <2>7, <2>8
        DEF Next, Step, vars, QueueNextRun, Remap, Promote, Ask, Probe, BeginWrite, Refuse, GiveUp
<1> QED  BY <1>1, RegistryInvariant, PTL DEF Spec, AnswersMoveTogether

---------------------------------------------------------------------------
(* The tree.                                                               *)

\* A promotion that has put its copy in place finds it there until it is done.
TreeInv ==
    /\ TreeTypeOK /\ PointerIsLoadable
    /\ \A p \in Promotions :
        promotion[p].stage \in {"placed", "pointed"}
        => Loadable(promotion[p].course, promotion[p].version)

LEMMA TreeInitInv == TreeInit => TreeInv
<1> SUFFICES ASSUME TreeInit PROVE TreeInv
  OBVIOUS
<1>1. TreeTypeOK
  BY TreeAssumption DEF TreeInit, TreeTypeOK, NoPointer, NoVersion, Absent, TreeVersions
<1>2. PointerIsLoadable
  BY DEF TreeInit, PointerIsLoadable
<1>3. \A p \in Promotions : promotion[p].stage = "idle"
  BY DEF TreeInit, Waiting
<1> QED  BY <1>1, <1>2, <1>3 DEF TreeInv

\* What a promotion works on.
LEMMA PromotionTyped ==
    ASSUME TreeTypeOK, NEW p \in Promotions,
           promotion[p].stage \in {"staged", "placed", "pointed"}
    PROVE  promotion[p].course \in Courses /\ promotion[p].version \in TreeVersions
BY DEF TreeTypeOK, Waiting, Done

\* A promotion that advances leaves the others where they are.
LEMMA Advances ==
    ASSUME TreeTypeOK, NEW p \in Promotions, NEW next, Advance(p, next)
    PROVE  promotion'[p] = next /\ \A q \in Promotions : q # p => promotion'[q] = promotion[q]
BY DEF TreeTypeOK, Advance

LEMMA AdvanceTypes ==
    ASSUME TreeTypeOK, NEW p \in Promotions, NEW next, Advance(p, next),
           next \in {Waiting, Done}
              \cup [stage : {"staged", "placed", "pointed"}, course : Courses, version : TreeVersions]
    PROVE  promotion' \in [Promotions ->
            {Waiting, Done}
            \cup [stage : {"staged", "placed", "pointed"}, course : Courses, version : TreeVersions]]
BY DEF TreeTypeOK, Advance

LEMMA TreeStepInv == TreeInv /\ TreeStep => TreeInv'
<1> SUFFICES ASSUME TreeInv, TreeStep PROVE TreeInv'
  OBVIOUS
<1>1. TreeTypeOK /\ PointerIsLoadable
  BY DEF TreeInv
<1>2. ASSUME NEW p \in Promotions, NEW c \in Courses, NEW v \in TreeVersions, StageAdapter(p, c, v)
      PROVE  TreeInv'
  <2> DEFINE next == IF Loadable(c, v) THEN Done ELSE At("staged", c, v)
  <2>1. /\ next \in {Waiting, Done}
              \cup [stage : {"staged", "placed", "pointed"}, course : Courses, version : TreeVersions]
        /\ next.stage \in {"done", "staged"}
    BY DEF At, Done
  <2>2. Advance(p, next) /\ UNCHANGED <<tree, pointer, registry>>
    BY <1>2 DEF StageAdapter
  <2> HIDE DEF next
  <2>3. TreeTypeOK'
    BY <1>1, <2>1, <2>2, AdvanceTypes DEF TreeTypeOK
  <2>4. promotion'[p] = next /\ \A q \in Promotions : q # p => promotion'[q] = promotion[q]
    BY <1>1, <2>2, Advances
  <2> QED  BY <2>1, <2>2, <2>3, <2>4 DEF TreeInv, PointerIsLoadable, Loadable
<1>3. ASSUME NEW p \in Promotions, Place(p) PROVE TreeInv'
  <2>1. PICK c \in Courses, v \in TreeVersions : c = promotion[p].course /\ v = promotion[p].version
    BY <1>1, <1>3, PromotionTyped DEF Place, In
  <2>2. /\ tree' = IF Loadable(c, v) THEN tree ELSE [tree EXCEPT ![c][v] = p]
        /\ Advance(p, At("placed", c, v)) /\ UNCHANGED <<pointer, registry>>
    BY <1>3, <2>1 DEF Place
  <2>3. At("placed", c, v) \in
          [stage : {"staged", "placed", "pointed"}, course : Courses, version : TreeVersions]
    BY <2>1 DEF At
  <2>4. /\ tree' \in [Courses -> [TreeVersions -> Promotions \cup {Absent}]]
        /\ \A d \in Courses, w \in TreeVersions : Loadable(d, w) => Loadable(d, w)'
        /\ Loadable(c, v)'
    <3>1. tree \in [Courses -> [TreeVersions -> Promotions \cup {Absent}]] /\ p # Absent
      BY <1>1, TreeAssumption DEF TreeTypeOK
    <3>2. CASE Loadable(c, v)
      BY <2>2, <3>1, <3>2 DEF Loadable
    <3>3. CASE ~Loadable(c, v)
      <4> DEFINE versions == [tree[c] EXCEPT ![v] = p]
      <4>1. versions \in [TreeVersions -> Promotions \cup {Absent}] /\ versions[v] = p
        BY <2>1, <3>1
      <4>2. \A w \in TreeVersions : tree[c][w] # Absent => versions[w] # Absent
        BY <2>1, <3>1
      <4>3. tree' = [tree EXCEPT ![c] = versions]
        BY <2>2, <3>3
      <4> HIDE DEF versions
      <4> QED  BY <2>1, <3>1, <4>1, <4>2, <4>3 DEF Loadable
    <3> QED  BY <3>2, <3>3
  <2>5. TreeTypeOK'
    BY <1>1, <2>2, <2>3, <2>4, AdvanceTypes DEF TreeTypeOK
  <2>6. PointerIsLoadable'
    <3>1. \A d \in Courses : pointer[d] # NoPointer => pointer[d].version \in TreeVersions
      BY <1>1 DEF TreeTypeOK
    <3> QED  BY <1>1, <2>2, <2>4, <3>1 DEF PointerIsLoadable
  <2>7. ASSUME NEW q \in Promotions, promotion'[q].stage \in {"placed", "pointed"}
        PROVE  Loadable(promotion[q].course, promotion[q].version)'
    <3>1. CASE q = p
      <4>1. promotion'[q] = At("placed", c, v)
        BY <1>1, <2>2, <3>1, Advances
      <4> QED  BY <2>4, <4>1 DEF At, Loadable
    <3>2. CASE q # p
      <4>1. promotion'[q] = promotion[q]
        BY <1>1, <2>2, <3>2, Advances
      <4>2. promotion[q].course \in Courses /\ promotion[q].version \in TreeVersions
        BY <1>1, <2>7, <4>1, PromotionTyped
      <4> QED  BY <2>4, <2>7, <4>1, <4>2 DEF TreeInv, Loadable
    <3> QED  BY <3>1, <3>2
  <2> QED  BY <2>5, <2>6, <2>7 DEF TreeInv
<1>4. ASSUME NEW p \in Promotions, Point(p) PROVE TreeInv'
  <2> DEFINE c == promotion[p].course
             v == promotion[p].version
  <2>1. c \in Courses /\ v \in TreeVersions /\ Loadable(c, v)
    BY <1>1, <1>4, PromotionTyped DEF Point, In, TreeInv
  <2>2. /\ pointer' = [pointer EXCEPT ![c] = [version |-> v, source |-> p]]
        /\ Advance(p, At("pointed", c, v)) /\ UNCHANGED <<tree, registry>>
    BY <1>4 DEF Point
  <2> HIDE DEF c, v
  <2>3. At("pointed", c, v) \in
          [stage : {"staged", "placed", "pointed"}, course : Courses, version : TreeVersions]
    BY <2>1 DEF At
  <2>4. TreeTypeOK'
    BY <1>1, <2>1, <2>2, <2>3, AdvanceTypes DEF TreeTypeOK
  <2>5. PointerIsLoadable'
    BY <1>1, <2>1, <2>2 DEF PointerIsLoadable, TreeTypeOK, Loadable
  <2>6. promotion'[p] = At("pointed", c, v) /\ \A q \in Promotions : q # p => promotion'[q] = promotion[q]
    BY <1>1, <2>2, Advances
  <2> QED  BY <2>1, <2>2, <2>4, <2>5, <2>6 DEF TreeInv, Loadable, At
<1>5. ASSUME NEW p \in Promotions, Report(p) PROVE TreeInv'
  <2>1. promotion[p].course \in Courses /\ promotion[p].version \in TreeVersions
    BY <1>1, <1>5, PromotionTyped DEF Report, In
  <2>2. Advance(p, Done) /\ UNCHANGED <<tree, pointer>>
    BY <1>5 DEF Report
  <2>3. registry' \in [Courses -> TreeVersions \cup {NoVersion}]
    BY <1>1, <1>5, <2>1 DEF Report, TreeTypeOK
  <2>4. TreeTypeOK'
    BY <1>1, <2>2, <2>3, AdvanceTypes DEF TreeTypeOK
  <2>5. promotion'[p] = Done /\ \A q \in Promotions : q # p => promotion'[q] = promotion[q]
    BY <1>1, <2>2, Advances
  <2> QED  BY <2>2, <2>4, <2>5 DEF TreeInv, PointerIsLoadable, Loadable, Done
<1>6. ASSUME NEW p \in Promotions, Quit(p) PROVE TreeInv'
  <2>1. Advance(p, Done) /\ UNCHANGED <<tree, pointer, registry>>
    BY <1>6 DEF Quit
  <2>2. TreeTypeOK'
    BY <1>1, <2>1, AdvanceTypes DEF TreeTypeOK
  <2>3. promotion'[p] = Done /\ \A q \in Promotions : q # p => promotion'[q] = promotion[q]
    BY <1>1, <2>1, Advances
  <2> QED  BY <2>1, <2>2, <2>3 DEF TreeInv, PointerIsLoadable, Loadable, Done
<1>7. ASSUME NEW c \in Courses, NEW v \in TreeVersions, Activate(c, v) PROVE TreeInv'
  <2>1. registry' \in [Courses -> TreeVersions \cup {NoVersion}] /\ UNCHANGED <<tree, pointer, promotion>>
    BY <1>1, <1>7 DEF Activate, TreeTypeOK
  <2> QED  BY <2>1 DEF TreeInv, TreeTypeOK, PointerIsLoadable, Loadable
<1> QED  BY <1>2, <1>3, <1>4, <1>5, <1>6, <1>7 DEF TreeStep

---------------------------------------------------------------------------
(* The session.                                                            *)

\* Only a job that has loaded its model was seen healthy and recorded, and nobody
\* tells the backend of a job that fails.
Loaded == {"serving", "cancelled", "failed", "ended"}

SeenLoaded ==
    /\ start.stage \in {"healthy", "read", "stamped"} => job[start.job] \in Loaded
    /\ \A j \in Jobs : row[j] = "ready" => job[j] \in Loaded
    /\ \A j \in Jobs : job[j] = "failed" => j \in unheard

\* A job that ends with its wall clock has none left; and what a start script was
\* told of it, and recorded unaltered, is over no later.
NoLater(seconds, j) == job[j] \in {"serving", "ended"} => seconds <= clock[j]

Clocked ==
    /\ \A j \in Jobs : job[j] = "ended" => clock[j] = 0
    /\ \A j \in Jobs : row[j] = "ready" /\ j \notin guessed => NoLater(lasts[j], j)
    /\ start.stage \in {"read", "stamped"} /\ start.sure => NoLater(start.seconds, start.job)

\* A cancelled job is being reported, or its record says so, or it is unheard.
Stopping ==
    \A j \in Jobs : row[j] = "ready" /\ job[j] = "cancelled"
        => j \in unheard \/ (stop.stage = "cancelled" /\ stop.job = j)

SessionInv == SessionTypeOK /\ SeenLoaded /\ Clocked /\ Stopping

LEMMA SessionInitInv == SessionInit => SessionInv
BY DEF SessionInit, SessionInv, SessionTypeOK, SeenLoaded, Clocked, NoLater, Stopping, Free

LEMMA SessionIsServed == SessionInv => LiveSessionServes
<1> SUFFICES ASSUME SessionInv, NEW j \in Live \ Misreported
             PROVE  job[j] = "serving" \/ (stop.stage = "cancelled" /\ stop.job = j)
  BY DEF LiveSessionServes
<1>1. j \in Jobs /\ row[j] = "ready" /\ lasts[j] > 0 /\ j \notin unheard /\ j \notin guessed
  BY DEF Live, Misreported
<1>2. job[j] \in Loaded /\ job[j] # "failed"
  BY <1>1 DEF SessionInv, SeenLoaded
<1>3. job[j] # "ended"
  <2> SUFFICES ASSUME job[j] = "ended" PROVE FALSE
    OBVIOUS
  <2>1. lasts[j] \in Nat /\ clock[j] = 0 /\ lasts[j] <= clock[j]
    BY <1>1 DEF SessionInv, SessionTypeOK, Clocked, NoLater
  <2> QED  BY <1>1, <2>1
<1>4. job[j] = "cancelled" => stop.stage = "cancelled" /\ stop.job = j
  BY <1>1 DEF SessionInv, Stopping
<1> QED  BY <1>2, <1>3, <1>4 DEF Loaded

LEMMA LessIsLess ==
    /\ \A n \in Nat : Less(n) \in Nat
    /\ \A m, n \in Nat : m <= n => Less(m) <= Less(n)
    /\ Less(0) = 0
BY DEF Less

LEMMA StampTyped == ASSUME NEW seconds \in Nat PROVE Stamp(seconds) \in Nat
BY SessionAssumption DEF Stamp

LEMMA SessionStepInv == SessionInv /\ SessionStep => SessionInv'
<1> SUFFICES ASSUME SessionInv, SessionStep PROVE SessionInv'
  OBVIOUS
<1>1. /\ job \in [Jobs -> {"none", "pending", "loading", "serving", "cancelled", "failed", "ended"}]
      /\ clock \in [Jobs -> Nat]
      /\ row \in [Jobs -> {"none", "ready", "stopped"}]
      /\ lasts \in [Jobs -> Nat]
      /\ start \in {Free} \cup [stage : {"waiting", "healthy"}, job : Jobs, hours : Limits]
                   \cup [stage : {"read", "stamped"}, job : Jobs, seconds : Nat, sure : BOOLEAN]
      /\ stop \in {Free} \cup [stage : {"found", "cancelled"}, job : Jobs]
      /\ unheard \subseteq Jobs /\ guessed \subseteq Jobs
  BY DEF SessionInv, SessionTypeOK
<1>t. Limits \subseteq Nat
  BY SessionAssumption
<1>2. ASSUME NEW j \in Jobs, Loads(j) PROVE SessionInv'
  <2>1. /\ \/ job[j] = "pending" /\ job' = [job EXCEPT ![j] = "loading"]
           \/ job[j] = "loading" /\ job' = [job EXCEPT ![j] = "serving"]
        /\ UNCHANGED <<clock, row, lasts, unheard, guessed, start, stop>>
    BY <1>2 DEF Loads, Becomes, recordVars
  <2>2. SessionTypeOK'
    BY <1>1, <2>1 DEF SessionTypeOK
  <2>3. SeenLoaded'
    BY <1>1, <2>1 DEF SessionInv, SeenLoaded, Loaded, Free
  <2>4. Clocked'
    <3>1. job[j] \notin Loaded
      BY <2>1 DEF Loaded
    <3>2. row[j] # "ready" /\ (start.stage \in {"read", "stamped"} => start.job # j)
      BY <3>1 DEF SessionInv, SeenLoaded
    <3> QED  BY <1>1, <2>1, <3>2 DEF SessionInv, Clocked, NoLater, Free
  <2>5. Stopping'
    BY <1>1, <2>1 DEF SessionInv, Stopping
  <2> QED  BY <2>2, <2>3, <2>4, <2>5 DEF SessionInv
<1>3. ASSUME NEW j \in Jobs, Fails(j) PROVE SessionInv'
  <2>1. /\ job' = [job EXCEPT ![j] = "failed"] /\ unheard' = unheard \cup {j}
        /\ UNCHANGED <<clock, row, lasts, guessed, start, stop>>
    BY <1>3 DEF Fails, Becomes
  <2>2. SessionTypeOK'
    BY <1>1, <2>1 DEF SessionTypeOK
  <2>3. SeenLoaded'
    BY <1>1, <2>1 DEF SessionInv, SeenLoaded, Loaded, Free
  <2>4. Clocked'
    BY <1>1, <2>1 DEF SessionInv, Clocked, NoLater, Free
  <2>5. Stopping'
    BY <1>1, <2>1 DEF SessionInv, Stopping
  <2> QED  BY <2>2, <2>3, <2>4, <2>5 DEF SessionInv
<1>4. ASSUME NEW j \in Jobs, Ends(j) PROVE SessionInv'
  <2>1. /\ job' = [job EXCEPT ![j] = "ended"] /\ clock[j] = 0 /\ Allocated(j)
        /\ UNCHANGED <<clock, row, lasts, unheard, guessed, start, stop>>
    BY <1>4 DEF Ends, Becomes, recordVars
  <2>2. SessionTypeOK'
    BY <1>1, <2>1 DEF SessionTypeOK
  <2>3. SeenLoaded'
    BY <1>1, <2>1 DEF SessionInv, SeenLoaded, Loaded, Free
  <2>4. Clocked'
    <3>1. job[j] \in Loaded => job[j] = "serving"
      BY <2>1 DEF Loaded, Allocated
    <3>2. row[j] = "ready" => job[j] = "serving"
      BY <3>1 DEF SessionInv, SeenLoaded
    <3>3. start.stage \in {"read", "stamped"} /\ start.job = j => job[j] = "serving"
      BY <3>1 DEF SessionInv, SeenLoaded
    <3>4. job'[j] = "ended" /\ \A k \in Jobs : k # j => job'[k] = job[k]
      BY <1>1, <2>1
    <3> QED  BY <1>1, <2>1, <3>2, <3>3, <3>4 DEF SessionInv, Clocked, NoLater, Free
  <2>5. Stopping'
    BY <1>1, <2>1 DEF SessionInv, Stopping
  <2> QED  BY <2>2, <2>3, <2>4, <2>5 DEF SessionInv
<1>5. CASE Ticks
  <2>1. /\ \A j \in Jobs : Allocated(j) => clock[j] > 0
        /\ clock' = [j \in Jobs |-> IF Allocated(j) THEN Less(clock[j]) ELSE clock[j]]
        /\ lasts' = [j \in Jobs |-> Less(lasts[j])]
        /\ start' = IF start.stage = "read" THEN [start EXCEPT !.sure = FALSE]
                    ELSE IF start.stage = "stamped" THEN [start EXCEPT !.seconds = Less(@)]
                    ELSE start
        /\ UNCHANGED <<job, row, stop, unheard, guessed>>
    BY <1>5 DEF Ticks
  <2>2. clock' \in [Jobs -> Nat] /\ lasts' \in [Jobs -> Nat]
    BY <1>1, <2>1, LessIsLess
  <2>3. start' \in {Free} \cup [stage : {"waiting", "healthy"}, job : Jobs, hours : Limits]
                   \cup [stage : {"read", "stamped"}, job : Jobs, seconds : Nat, sure : BOOLEAN]
    BY <1>1, <2>1, LessIsLess DEF Free
  <2>4. start'.stage = start.stage /\ (start.stage # "idle" => start'.job = start.job)
    BY <1>1, <2>1 DEF Free
  <2>5. SessionTypeOK'
    BY <1>1, <2>1, <2>2, <2>3 DEF SessionTypeOK
  <2>6. SeenLoaded'
    BY <2>1, <2>4 DEF SessionInv, SeenLoaded
  <2>7. ASSUME NEW m \in Nat, NEW j \in Jobs, NoLater(m, j),
               job[j] = "ended" => clock[j] = 0
        PROVE  NoLater(Less(m), j)'
    <3> SUFFICES ASSUME job[j] \in {"serving", "ended"} PROVE Less(m) <= clock'[j]
      BY <2>1 DEF NoLater
    <3>1. m <= clock[j]
      BY <2>7 DEF NoLater
    <3>2. CASE job[j] = "serving"
      <4>1. clock'[j] = Less(clock[j])
        BY <2>1, <3>2 DEF Allocated
      <4> QED  BY <1>1, <3>1, <4>1, LessIsLess
    <3>3. CASE job[j] = "ended"
      <4>1. clock'[j] = 0 /\ m = 0
        BY <1>1, <2>1, <2>7, <3>1, <3>3 DEF Allocated
      <4> QED  BY <4>1, LessIsLess
    <3> QED  BY <3>2, <3>3
  <2>8. \A j \in Jobs : job[j] = "ended" => clock[j] = 0 /\ clock'[j] = 0
    BY <2>1 DEF SessionInv, Clocked, Allocated
  <2>9. \A j \in Jobs : row'[j] = "ready" /\ j \notin guessed' => NoLater(lasts[j], j)'
    <3> SUFFICES ASSUME NEW j \in Jobs, row[j] = "ready", j \notin guessed
                 PROVE  NoLater(lasts[j], j)'
      BY <2>1
    <3>1. NoLater(lasts[j], j) /\ lasts[j] \in Nat /\ lasts'[j] = Less(lasts[j])
      BY <1>1, <2>1 DEF SessionInv, Clocked
    <3>2. job'[j] \in {"serving", "ended"} => Less(lasts[j]) <= clock'[j]
      <4> DEFINE m == lasts[j]
      <4>1. PICK n \in Nat : n = m
        BY <3>1
      <4>2. NoLater(n, j)
        BY <3>1, <4>1
      <4>3. NoLater(Less(n), j)'
        BY <2>7, <2>8, <4>2
      <4> QED  BY <4>1, <4>3 DEF NoLater
    <3> QED  BY <3>1, <3>2 DEF NoLater
  <2>10. ASSUME start'.stage \in {"read", "stamped"}, start'.sure
         PROVE  job'[start'.job] \in {"serving", "ended"} => start'.seconds <= clock'[start'.job]
    <3>1. start.stage = "stamped" /\ start \in [stage : {"read", "stamped"}, job : Jobs, seconds : Nat, sure : BOOLEAN]
      BY <1>1, <2>1, <2>4, <2>10 DEF Free
    <3>2. start'.seconds = Less(start.seconds) /\ start'.job = start.job /\ start.sure
      BY <2>1, <2>10, <3>1
    <3>3. PICK n \in Nat : n = start.seconds
      BY <3>1
    <3>4. PICK j \in Jobs : j = start.job
      BY <3>1
    <3>5. NoLater(n, j)
      BY <3>1, <3>2, <3>3, <3>4 DEF SessionInv, Clocked
    <3>6. NoLater(Less(n), j)'
      BY <2>7, <2>8, <3>5
    <3> QED  BY <3>2, <3>3, <3>4, <3>6 DEF NoLater
  <2>11. Clocked'
    BY <2>1, <2>8, <2>9, <2>10 DEF Clocked, NoLater
  <2>12. Stopping'
    BY <2>1 DEF SessionInv, Stopping
  <2> QED  BY <2>5, <2>6, <2>11, <2>12 DEF SessionInv
<1>6. ASSUME NEW j \in Jobs, Starts(j) PROVE SessionInv'
  <2>1. PICK hours \in Limits :
        /\ \/ j \in Active /\ UNCHANGED <<job, clock>>
           \/ job[j] = "none" /\ job' = [job EXCEPT ![j] = "pending"] /\ clock' = [clock EXCEPT ![j] = hours]
        /\ start' \in {Free, [stage |-> "waiting", job |-> j, hours |-> hours]}
    BY <1>6 DEF Starts, Becomes, jobVars
  <2>2. UNCHANGED <<row, lasts, unheard, guessed, stop>> /\ start = Free
    BY <1>6 DEF Starts, recordVars
  <2>3. start'.stage \notin {"healthy", "read", "stamped"}
    BY <2>1 DEF Free
  <2>4. SessionTypeOK'
    BY <1>1, <1>t, <2>1, <2>2 DEF SessionTypeOK
  <2>5. SeenLoaded'
    BY <1>1, <2>1, <2>2, <2>3 DEF SessionInv, SeenLoaded, Loaded
  <2>6. Clocked'
    <3>1. \/ job' = job /\ clock' = clock
          \/ /\ job[j] = "none" /\ job'[j] = "pending"
             /\ \A k \in Jobs : k # j => job'[k] = job[k] /\ clock'[k] = clock[k]
      BY <1>1, <2>1
    <3> QED  BY <1>1, <2>2, <2>3, <3>1 DEF SessionInv, Clocked, NoLater
  <2>7. Stopping'
    BY <1>1, <2>1, <2>2 DEF SessionInv, Stopping
  <2> QED  BY <2>4, <2>5, <2>6, <2>7 DEF SessionInv
<1>7. ASSUME NEW j \in Jobs, Finds(j) PROVE SessionInv'
  <2>1. /\ stop = Free /\ stop' = [stage |-> "found", job |-> j]
        /\ UNCHANGED <<job, clock, row, lasts, unheard, guessed, start>>
    BY <1>7 DEF Finds, jobVars, recordVars
  <2>2. stop.stage = "idle"
    BY <2>1 DEF Free
  <2> QED  BY <1>1, <2>1, <2>2 DEF SessionInv, SessionTypeOK, SeenLoaded, Clocked, NoLater, Stopping
<1>8. CASE SeesHealth
  <2>1. /\ start.stage = "waiting" /\ job[start.job] \notin {"pending", "loading"}
        /\ start' = IF job[start.job] = "serving" THEN [start EXCEPT !.stage = "healthy"] ELSE Free
        /\ UNCHANGED <<job, clock, row, lasts, unheard, guessed, stop>>
    BY <1>8 DEF SeesHealth, jobVars, recordVars
  <2> QED  BY <1>1, <2>1 DEF SessionInv, SessionTypeOK, SeenLoaded, Loaded, Clocked, NoLater, Stopping, Free
<1>9. CASE StartAborts
  <2>1. start' = Free /\ UNCHANGED <<job, clock, row, lasts, unheard, guessed, stop>>
    BY <1>9 DEF StartAborts, jobVars, recordVars
  <2> QED  BY <1>1, <2>1 DEF SessionInv, SessionTypeOK, SeenLoaded, Clocked, NoLater, Stopping, Free
<1>10. CASE ReadsClock
  <2>1. /\ start.stage = "healthy" /\ UNCHANGED <<job, clock, row, lasts, unheard, guessed, stop>>
        /\ \/ start' = [stage |-> "read", job |-> start.job, seconds |-> start.hours, sure |-> FALSE]
           \/ start' = [stage |-> "read", job |-> start.job, seconds |-> clock[start.job], sure |-> TRUE]
    BY <1>10 DEF ReadsClock, jobVars, recordVars
  <2>2. start.job \in Jobs /\ start.hours \in Nat /\ clock[start.job] \in Nat
    <3>1. start \in [stage : {"waiting", "healthy"}, job : Jobs, hours : Limits]
      BY <1>1, <2>1 DEF Free
    <3> QED  BY <1>1, <1>t, <3>1
  <2>3. SessionTypeOK'
    <3>1. start' \in [stage : {"read", "stamped"}, job : Jobs, seconds : Nat, sure : BOOLEAN]
      <4>1. [stage |-> "read", job |-> start.job, seconds |-> start.hours, sure |-> FALSE]
                \in [stage : {"read", "stamped"}, job : Jobs, seconds : Nat, sure : BOOLEAN]
        BY <2>2
      <4>2. [stage |-> "read", job |-> start.job, seconds |-> clock[start.job], sure |-> TRUE]
                \in [stage : {"read", "stamped"}, job : Jobs, seconds : Nat, sure : BOOLEAN]
        BY <2>2
      <4> QED  BY <2>1, <4>1, <4>2, Zenon
    <3> QED  BY <1>1, <2>1, <3>1 DEF SessionTypeOK
  <2>4. SeenLoaded'
    BY <2>1 DEF SessionInv, SeenLoaded
  <2>5. Clocked'
    BY <1>1, <2>1, <2>2 DEF SessionInv, Clocked, NoLater
  <2>6. Stopping'
    BY <2>1 DEF SessionInv, Stopping
  <2> QED  BY <2>3, <2>4, <2>5, <2>6 DEF SessionInv
<1>11. CASE Stamps
  <2>1. /\ start.stage = "read" /\ UNCHANGED <<job, clock, row, lasts, unheard, guessed, stop>>
        /\ start' = [start EXCEPT !.stage = "stamped", !.seconds = Stamp(@),
                                  !.sure = @ /\ Stamp(start.seconds) = start.seconds]
    BY <1>11 DEF Stamps, jobVars, recordVars
  <2>2. start \in [stage : {"read", "stamped"}, job : Jobs, seconds : Nat, sure : BOOLEAN]
    BY <1>1, <2>1 DEF Free
  <2>3. /\ start' = [stage |-> "stamped", job |-> start.job, seconds |-> Stamp(start.seconds),
                     sure |-> start.sure /\ Stamp(start.seconds) = start.seconds]
        /\ Stamp(start.seconds) \in Nat
    BY <2>1, <2>2, StampTyped
  <2>4. SessionTypeOK'
    BY <1>1, <2>1, <2>2, <2>3 DEF SessionTypeOK
  <2>5. SeenLoaded'
    BY <2>1, <2>3 DEF SessionInv, SeenLoaded
  <2>6. Clocked'
    BY <2>1, <2>3 DEF SessionInv, Clocked, NoLater
  <2>7. Stopping'
    BY <2>1 DEF SessionInv, Stopping
  <2> QED  BY <2>4, <2>5, <2>6, <2>7 DEF SessionInv
<1>12. CASE Records
  <2>1. /\ start.stage = "stamped" /\ start' = Free /\ UNCHANGED <<job, clock, stop>>
        /\ \/ /\ row' = [row EXCEPT ![start.job] = "ready"]
              /\ lasts' = [lasts EXCEPT ![start.job] = start.seconds]
              /\ unheard' = IF job[start.job] = "cancelled" THEN unheard \cup {start.job}
                            ELSE unheard
              /\ guessed' = IF start.sure THEN guessed \ {start.job} ELSE guessed \cup {start.job}
           \/ UNCHANGED <<row, lasts, unheard, guessed>>
    BY <1>12 DEF Records, jobVars, recordVars
  <2>2. start \in [stage : {"read", "stamped"}, job : Jobs, seconds : Nat, sure : BOOLEAN]
    BY <1>1, <2>1 DEF Free
  <2>3. SessionTypeOK'
    BY <1>1, <2>1, <2>2 DEF SessionTypeOK
  <2>4. SeenLoaded'
    BY <1>1, <2>1, <2>2 DEF SessionInv, SeenLoaded, Free
  <2>5. Clocked'
    <3>1. start'.stage = "idle"
      BY <2>1 DEF Free
    <3>2. start.sure => NoLater(start.seconds, start.job)
      BY <2>1 DEF SessionInv, Clocked
    <3> QED  BY <1>1, <2>1, <2>2, <3>1, <3>2 DEF SessionInv, Clocked, NoLater
  <2>6. Stopping'
    BY <1>1, <2>1, <2>2 DEF SessionInv, Stopping
  <2> QED  BY <2>3, <2>4, <2>5, <2>6 DEF SessionInv
<1>13. CASE Cancels
  <2>1. /\ stop.stage = "found" /\ stop' = [stop EXCEPT !.stage = "cancelled"]
        /\ IF stop.job \in Active THEN job' = [job EXCEPT ![stop.job] = "cancelled"] ELSE job' = job
        /\ UNCHANGED <<clock, row, lasts, unheard, guessed, start>>
    BY <1>13 DEF Cancels, Becomes, recordVars
  <2>2. stop \in [stage : {"found", "cancelled"}, job : Jobs]
    BY <1>1, <2>1 DEF Free
  <2>3. SessionTypeOK'
    BY <1>1, <2>1, <2>2 DEF SessionTypeOK
  <2>4. SeenLoaded'
    BY <1>1, <2>1, <2>2 DEF SessionInv, SeenLoaded, Loaded, Free
  <2>5. Clocked'
    BY <1>1, <2>1, <2>2 DEF SessionInv, Clocked, NoLater, Free
  <2>6. Stopping'
    BY <1>1, <2>1, <2>2 DEF SessionInv, Stopping
  <2> QED  BY <2>3, <2>4, <2>5, <2>6 DEF SessionInv
<1>14. CASE StopReports
  <2>1. /\ stop.stage = "cancelled" /\ stop' = Free /\ UNCHANGED <<job, clock, lasts, guessed, start>>
        /\ \/ /\ row' = [row EXCEPT ![stop.job] = IF @ = "none" THEN @ ELSE "stopped"]
              /\ UNCHANGED unheard
           \/ UNCHANGED row /\ unheard' = unheard \cup {stop.job}
    BY <1>14 DEF StopReports, jobVars
  <2>2. stop \in [stage : {"found", "cancelled"}, job : Jobs]
    BY <1>1, <2>1 DEF Free
  <2>3. SessionTypeOK'
    BY <1>1, <2>1, <2>2 DEF SessionTypeOK
  <2>4. SeenLoaded'
    BY <1>1, <2>1, <2>2 DEF SessionInv, SeenLoaded
  <2>5. Clocked'
    BY <1>1, <2>1, <2>2 DEF SessionInv, Clocked, NoLater
  <2>6. Stopping'
    BY <1>1, <2>1, <2>2 DEF SessionInv, Stopping
  <2> QED  BY <2>3, <2>4, <2>5, <2>6 DEF SessionInv
<1> QED  BY <1>2, <1>3, <1>4, <1>5, <1>6, <1>7, <1>8, <1>9, <1>10, <1>11, <1>12, <1>13, <1>14 DEF SessionStep

---------------------------------------------------------------------------
(* The engine and the calls of it.                                         *)

RequestStates ==
    {Unasked} \cup [outcome : {"waiting"}, target : Targets]
    \cup [outcome : {"answered"}, target : Targets, by : Targets]
ThreadStates ==
    {Asleep} \cup [stage : {"refused"}]
    \cup [stage : {"received", "ensured", "selected"}, key : Targets]
    \cup [stage : {"replied"}, key : Targets, by : Targets]

\* Whoever decodes holds the lock, and its own adapter is switched on; what was
\* decoded and what was answered came from it.
Locked ==
    /\ lock # Nobody => Stands(lock, "selected")
    /\ \A r \in Requests : Stands(r, "selected") => lock = r /\ selected = thread[r].key
    /\ \A r \in Requests : Stands(r, "replied") => thread[r].by = thread[r].key

EngineInv ==
    /\ loaded \in Seq(Keys) /\ Len(loaded) <= MaxLoadedAdapters /\ IsInjective(loaded)
    /\ selected \in Targets
    /\ lock \in Requests \cup {Nobody}
    /\ request \in [Requests -> RequestStates]
    /\ thread \in [Requests -> ThreadStates]
    /\ asks \in 0..MaxAsks
    /\ Locked /\ AnswersWithOwnAdapter

\* ensure_adapter keeps every adapter once, and no more than the bound.
LEMMA CachedFits ==
    ASSUME loaded \in Seq(Keys), IsInjective(loaded), NEW key \in Keys
    PROVE  Cached(key) \in Seq(Keys) /\ Len(Cached(key)) <= MaxLoadedAdapters /\ IsInjective(Cached(key))
<1> DEFINE all == Append(RemoveFirst(loaded, key), key)
<1>1. all \in Seq(Keys) /\ IsInjective(all) /\ Len(all) \in Nat
  <2>1. /\ RemoveFirst(loaded, key) \in Seq(Keys) /\ IsInjective(RemoveFirst(loaded, key))
        /\ key \notin Range(RemoveFirst(loaded, key))
    BY RemoveFirstRange
  <2> HIDE DEF all
  <2>2. all \in Seq(Keys) /\ IsInjective(all)
    BY <2>1, AppendRange DEF all
  <2> QED  BY <2>2, LenProperties
<1>2. Cached(key) = SubSeq(all, IF Len(all) > MaxLoadedAdapters THEN Len(all) - MaxLoadedAdapters + 1 ELSE 1,
                           Len(all))
  BY DEF Cached
<1> HIDE DEF all
<1>3. CASE Len(all) > MaxLoadedAdapters
  BY <1>1, <1>2, <1>3, LastOnes, EngineAssumption
<1>4. CASE ~(Len(all) > MaxLoadedAdapters)
  <2>1. SubSeq(all, 1, Len(all)) = all
    BY <1>1, SubSeqFull
  <2>2. Cached(key) = all
    BY <1>2, <1>4, <2>1, Zenon
  <2>3. Len(all) <= MaxLoadedAdapters
    BY <1>1, <1>4, EngineAssumption
  <2> QED  BY <1>1, <2>2, <2>3
<1> QED  BY <1>3, <1>4

LEMMA HandlerMoves ==
    ASSUME thread \in [Requests -> ThreadStates], NEW r \in Requests, NEW t, Handler(r, t)
    PROVE  thread'[r] = t /\ \A q \in Requests : q # r => thread'[q] = thread[q]
BY DEF Handler

LEMMA HandlerTypes ==
    ASSUME thread \in [Requests -> ThreadStates], NEW r \in Requests, NEW t \in ThreadStates, Handler(r, t)
    PROVE  thread' \in [Requests -> ThreadStates]
BY DEF Handler

LEMMA OutcomeMoves ==
    ASSUME request \in [Requests -> RequestStates], NEW r \in Requests, NEW o \in RequestStates, Outcome(r, o)
    PROVE  /\ request' \in [Requests -> RequestStates]
           /\ request'[r] = o /\ \A q \in Requests : q # r => request'[q] = request[q]
BY DEF Outcome

LEMMA ThreadTyped ==
    ASSUME NEW t \in ThreadStates
    PROVE  /\ t.stage \in {"received", "ensured", "selected", "replied"} => t.key \in Targets
           /\ t.stage = "replied" => t.by \in Targets
BY DEF ThreadStates, Asleep

LEMMA CallStepInv ==
    ASSUME EngineInv, registry \in [Courses -> TreeVersions \cup {NoVersion}], NEW r \in Requests, CallStep(r)
    PROVE  EngineInv'
<1>1. /\ thread \in [Requests -> ThreadStates] /\ request \in [Requests -> RequestStates]
      /\ loaded \in Seq(Keys) /\ IsInjective(loaded) /\ lock \in Requests \cup {Nobody}
      /\ thread[r] \in ThreadStates /\ Locked /\ AnswersWithOwnAdapter
      /\ Asleep \in ThreadStates /\ Unasked \in RequestStates /\ Nobody \notin Requests
      /\ [stage |-> "refused"] \in ThreadStates
      /\ Asleep.stage = "idle" /\ Unasked.outcome = "idle"
  BY EngineAssumption DEF EngineInv, ThreadStates, RequestStates, Asleep, Unasked
<1>2. ASSUME NEW target \in Targets, AskModel(r, target) PROVE EngineInv'
  <2>1. [outcome |-> "waiting", target |-> target] \in RequestStates
    BY DEF RequestStates
  <2>2. [stage |-> "received", key |-> target] \in ThreadStates
    BY DEF ThreadStates
  <2>3. /\ request' \in [Requests -> RequestStates] /\ request'[r].outcome = "waiting"
        /\ \A q \in Requests : q # r => request'[q] = request[q]
    BY <1>1, <1>2, <2>1, OutcomeMoves DEF AskModel
  <2>4. /\ thread' \in [Requests -> ThreadStates] /\ thread'[r].stage = "received" /\ thread[r].stage = "idle"
        /\ \A q \in Requests : q # r => thread'[q] = thread[q]
    BY <1>1, <1>2, <2>2, HandlerMoves, HandlerTypes DEF AskModel
  <2>5. asks' \in 0..MaxAsks /\ UNCHANGED <<loaded, selected, lock>>
    BY <1>2, EngineAssumption DEF AskModel, EngineInv
  <2> QED  BY <1>1, <2>3, <2>4, <2>5 DEF EngineInv, Locked, Stands, AnswersWithOwnAdapter
<1>3. CASE TimesOut(r)
  <2>1. /\ request' \in [Requests -> RequestStates] /\ request'[r] = Unasked
        /\ \A q \in Requests : q # r => request'[q] = request[q]
    BY <1>1, <1>3, OutcomeMoves DEF TimesOut, Fail
  <2>2. UNCHANGED <<loaded, selected, lock, thread, asks>>
    BY <1>3 DEF TimesOut, engineVars
  <2> QED  BY <1>1, <2>1, <2>2 DEF EngineInv, Locked, Stands, AnswersWithOwnAdapter
<1>4. CASE Receives(r)
  <2>1. /\ thread' \in [Requests -> ThreadStates] /\ thread'[r] = Asleep
        /\ \A q \in Requests : q # r => thread'[q] = thread[q]
    BY <1>1, <1>4, HandlerMoves, HandlerTypes DEF Receives
  <2>2. UNCHANGED <<loaded, selected, lock, asks>> /\ thread[r].stage \in {"replied", "refused"}
    BY <1>4 DEF Receives
  <2>3. request' \in [Requests -> RequestStates] /\ AnswersWithOwnAdapter'
    <3>1. CASE request' = request
      BY <1>1, <3>1 DEF AnswersWithOwnAdapter
    <3>2. CASE Fail(r)
      BY <1>1, <3>2, OutcomeMoves DEF Fail, AnswersWithOwnAdapter
    <3>3. CASE /\ request[r].outcome = "waiting" /\ Stands(r, "replied") /\ thread[r].key = request[r].target
               /\ Outcome(r, [outcome |-> "answered", target |-> request[r].target, by |-> thread[r].by])
      <4>1. thread[r].by = request[r].target /\ request[r].target \in Targets
        BY <1>1, <3>3, ThreadTyped DEF Locked, Stands
      <4>2. [outcome |-> "answered", target |-> request[r].target, by |-> thread[r].by] \in RequestStates
        BY <4>1 DEF RequestStates
      <4> QED  BY <1>1, <3>3, <4>1, <4>2, OutcomeMoves DEF AnswersWithOwnAdapter
    <3> QED  BY <1>4, <3>1, <3>2, <3>3 DEF Receives
  <2> QED  BY <1>1, <2>1, <2>2, <2>3 DEF EngineInv, Locked, Stands
<1>5. CASE Ensure(r)
  <2>1. Stands(r, "received") /\ lock = Nobody /\ UNCHANGED <<selected, lock, request, asks>>
    BY <1>5 DEF Ensure, callVars
  <2>2. thread[r].key \in Targets /\ [stage |-> "ensured", key |-> thread[r].key] \in ThreadStates
    <3>1. thread[r].key \in Targets
      BY <1>1, <2>1, ThreadTyped DEF Stands
    <3> QED  BY <3>1 DEF ThreadStates
  <2>3. \/ Handler(r, [stage |-> "ensured", key |-> thread[r].key])
        \/ Handler(r, [stage |-> "refused"])
    BY <1>5 DEF Ensure
  <2>4. /\ thread' \in [Requests -> ThreadStates] /\ thread'[r].stage \in {"ensured", "refused"}
        /\ \A q \in Requests : q # r => thread'[q] = thread[q]
    BY <1>1, <2>2, <2>3, HandlerMoves, HandlerTypes
  <2>5. loaded' \in Seq(Keys) /\ Len(loaded') <= MaxLoadedAdapters /\ IsInjective(loaded')
    <3>1. CASE loaded' = loaded
      BY <3>1 DEF EngineInv
    <3>2. CASE thread[r].key # Base /\ loaded' = Cached(thread[r].key)
      <4>1. thread[r].key \in Keys
        BY <2>2, <3>2 DEF Targets
      <4> QED  BY <1>1, <3>2, <4>1, CachedFits
    <3> QED  BY <1>5, <3>1, <3>2 DEF Ensure
  <2> QED  BY <1>1, <2>1, <2>4, <2>5 DEF EngineInv, Locked, Stands, AnswersWithOwnAdapter
<1>6. CASE Select(r)
  <2>1. Stands(r, "ensured") /\ lock = Nobody /\ UNCHANGED <<loaded, request, asks>>
    BY <1>6 DEF Select, callVars
  <2>2. thread[r].key \in Targets /\ [stage |-> "selected", key |-> thread[r].key] \in ThreadStates
    <3>1. thread[r].key \in Targets
      BY <1>1, <2>1, ThreadTyped DEF Stands
    <3> QED  BY <3>1 DEF ThreadStates
  <2>3. \A q \in Requests : ~Stands(q, "selected")
    BY <1>1, <2>1 DEF Locked
  <2>4. CASE /\ selected' = thread[r].key /\ lock' = r
             /\ Handler(r, [stage |-> "selected", key |-> thread[r].key])
    <3>1. /\ thread' \in [Requests -> ThreadStates]
          /\ thread'[r] = [stage |-> "selected", key |-> thread[r].key]
          /\ \A q \in Requests : q # r => thread'[q] = thread[q]
      BY <1>1, <2>2, <2>4, HandlerMoves, HandlerTypes
    <3>2. Locked'
      BY <1>1, <2>3, <2>4, <3>1 DEF Locked, Stands
    <3> QED  BY <1>1, <2>1, <2>2, <2>4, <3>1, <3>2 DEF EngineInv, AnswersWithOwnAdapter
  <2>5. CASE Handler(r, [stage |-> "refused"]) /\ UNCHANGED <<selected, lock>>
    <3>1. /\ thread' \in [Requests -> ThreadStates] /\ thread'[r].stage = "refused"
          /\ \A q \in Requests : q # r => thread'[q] = thread[q]
      BY <1>1, <2>5, HandlerMoves, HandlerTypes
    <3> QED  BY <1>1, <2>1, <2>5, <3>1 DEF EngineInv, Locked, Stands, AnswersWithOwnAdapter
  <2> QED  BY <1>6, <2>4, <2>5 DEF Select
<1>7. CASE Decode(r)
  <2>1. Stands(r, "selected") /\ lock' = Nobody /\ UNCHANGED <<loaded, selected, request, asks>>
    BY <1>7 DEF Decode, callVars
  <2>2. lock = r /\ selected = thread[r].key /\ selected \in Targets
    BY <1>1, <2>1 DEF Locked, EngineInv
  <2>3. [stage |-> "replied", key |-> thread[r].key, by |-> selected] \in ThreadStates
    BY <2>2 DEF ThreadStates
  <2>4. \A q \in Requests : q # r => ~Stands(q, "selected")
    BY <1>1, <2>2 DEF Locked
  <2>5. /\ thread' \in [Requests -> ThreadStates] /\ thread'[r].stage \in {"replied", "refused"}
        /\ thread'[r].stage = "replied" => thread'[r].by = thread'[r].key
        /\ \A q \in Requests : q # r => thread'[q] = thread[q]
    BY <1>1, <1>7, <2>2, <2>3, HandlerMoves, HandlerTypes DEF Decode
  <2>6. Locked'
    BY <1>1, <2>1, <2>4, <2>5 DEF Locked, Stands
  <2> QED  BY <1>1, <2>1, <2>5, <2>6 DEF EngineInv, AnswersWithOwnAdapter
<1> QED  BY <1>2, <1>3, <1>4, <1>5, <1>6, <1>7 DEF CallStep

LEMMA GoesDownInv ==
    ASSUME EngineInv, GoesDown
    PROVE  EngineInv'
<1>1. /\ loaded' = <<>> /\ selected' = Base /\ lock' = Nobody /\ thread' = [r \in Requests |-> Asleep]
      /\ request' = [r \in Requests |-> IF request[r].outcome = "waiting" THEN Unasked ELSE request[r]]
      /\ UNCHANGED asks
  BY DEF GoesDown
<1>2. loaded' \in Seq(Keys) /\ Len(loaded') <= MaxLoadedAdapters /\ IsInjective(loaded')
  BY <1>1, EngineAssumption DEF IsInjective
<1>3. thread' \in [Requests -> ThreadStates] /\ \A r \in Requests : thread'[r].stage = "idle"
  BY <1>1 DEF ThreadStates, Asleep
<1>4. request' \in [Requests -> RequestStates]
  BY <1>1 DEF EngineInv, RequestStates, Unasked
<1>5. AnswersWithOwnAdapter'
  BY <1>1 DEF EngineInv, AnswersWithOwnAdapter, Unasked
<1>6. Locked'
  BY <1>1, <1>3 DEF Locked, Stands
<1> QED  BY <1>1, <1>2, <1>3, <1>4, <1>5, <1>6 DEF EngineInv, Targets

ServingInv == TreeInv /\ SessionInv /\ EngineInv

LEMMA ServingInitInv == ServingInit => ServingInv
<1> SUFFICES ASSUME ServingInit PROVE ServingInv
  OBVIOUS
<1>1. TreeInv /\ SessionInv
  BY TreeInitInv, SessionInitInv DEF ServingInit
<1>2. /\ loaded = <<>> /\ selected = Base /\ lock = Nobody /\ request = [r \in Requests |-> Unasked]
      /\ thread = [r \in Requests |-> Asleep] /\ asks = 0
  BY DEF ServingInit
<1>3. loaded \in Seq(Keys) /\ Len(loaded) <= MaxLoadedAdapters /\ IsInjective(loaded) /\ asks \in 0..MaxAsks
  BY <1>2, EngineAssumption DEF IsInjective
<1>4. thread \in [Requests -> ThreadStates] /\ request \in [Requests -> RequestStates]
  BY <1>2 DEF ThreadStates, RequestStates
<1>5. Locked /\ AnswersWithOwnAdapter
  BY <1>2 DEF Locked, AnswersWithOwnAdapter, Stands, Asleep, Unasked
<1> QED  BY <1>1, <1>2, <1>3, <1>4, <1>5 DEF ServingInv, EngineInv, Targets

LEMMA ServingNextInv == ServingInv /\ [ServingNext]_servingVars => ServingInv'
<1> SUFFICES ASSUME ServingInv, [ServingNext]_servingVars PROVE ServingInv'
  OBVIOUS
<1> USE DEF ServingInv
<1>1. UNCHANGED treeVars => TreeInv'
  BY DEF treeVars, TreeInv, TreeTypeOK, PointerIsLoadable, Loadable
<1>2. UNCHANGED sessionVars => SessionInv'
  BY DEF sessionVars, jobVars, recordVars, SessionInv, SessionTypeOK, SeenLoaded, Clocked, NoLater, Stopping
<1>3. UNCHANGED <<engineVars, callVars>> => EngineInv'
  BY DEF engineVars, callVars, EngineInv, Locked, Stands, AnswersWithOwnAdapter
<1>4. CASE TreeStep /\ UNCHANGED <<sessionVars, engineVars, callVars>>
  BY <1>2, <1>3, <1>4, TreeStepInv
<1>5. CASE SessionStep /\ UNCHANGED <<treeVars, engineVars, callVars>>
  BY <1>1, <1>3, <1>5, SessionStepInv
<1>6. CASE GoesDown
  BY <1>1, <1>6, SessionStepInv, GoesDownInv DEF GoesDown
<1>7. ASSUME NEW r \in Requests, CallStep(r) PROVE ServingInv'
  <2>1. UNCHANGED <<treeVars, sessionVars>>
    BY <1>7 DEF CallStep
  <2>2. registry \in [Courses -> TreeVersions \cup {NoVersion}]
    BY DEF TreeInv, TreeTypeOK
  <2> QED  BY <1>1, <1>2, <1>7, <2>1, <2>2, CallStepInv
<1>8. CASE UNCHANGED servingVars
  BY <1>1, <1>2, <1>3, <1>8 DEF servingVars
<1> QED  BY <1>4, <1>5, <1>6, <1>7, <1>8 DEF ServingNext

LEMMA ServingInvariant == ServingSpec => []ServingInv
BY ServingInitInv, ServingNextInv, PTL DEF ServingSpec

\* Types, the bound of the cache, the lock, the pointers of the tree and the
\* session's record hold for any courses, versions, promotions, jobs and requests.
THEOREM ServingIsSafe == ServingSpec => []ServingSafety
<1>1. ServingInv => ServingSafety
  BY SessionIsServed DEF ServingInv, ServingSafety, ServingTypeOK, TreeInv, SessionInv, EngineInv,
         Locked, RequestStates, ThreadStates
<1> QED  BY <1>1, ServingInvariant, PTL

\* Every answer was decoded with the adapter that was asked for, whatever other
\* requests load, select and evict meanwhile (ensure_adapter, generate).
THEOREM AnswersAreOwn == ServingSpec => []AnswersWithOwnAdapter
<1>1. ServingInv => AnswersWithOwnAdapter
  BY DEF ServingInv, EngineInv
<1> QED  BY <1>1, ServingInvariant, PTL

(***************************************************************************)
(* The operators' shells on the VM.                                        *)
(***************************************************************************)

Places == Over \cup {"mark", "stop", "restore", "start", "launch", "ready", "prove", "unmark",
                     "unit?", "probe", "ssh", "state", "wait", "backend", "recheck", "trap",
                     "close", "clean", "decide", "read", "truncate", "write", "plan", "create"}
Scripts == {"none", "tunnel", "untunnel", "restore", "start", "stop", "restart", "map", "install"}

ShellRecords ==
    [at : Places, cmd : Scripts, node : Nodes \cup {NoNode}, asked : BOOLEAN, stopped : BOOLEAN,
     opened : BOOLEAN, pairs : SUBSET Pairs, had : SUBSET Pairs, alone : BOOLEAN]

Runs(s) == shell[s].at \notin Over
Lone(s) == Runs(s) /\ shell[s].alone

\* What the shells hold, and the marker is one or none.
ShellsTyped ==
    /\ models \in SUBSET Pairs /\ mapFile \in SUBSET Pairs /\ loadedMap \in SUBSET Pairs
    /\ unit \in {"inactive", "active", "retrying", "failed"}
    /\ tunnel \in Nodes \cup {NoNode} /\ stateFile \in Nodes \cup {NoNode}
    /\ answering \in SUBSET Nodes
    /\ marker = {} \/ \E m \in SUBSET Pairs : marker = {m}
    /\ shell \in [Shells -> ShellRecords]
    /\ \A s \in Shells : shell[s].stopped => shell[s].cmd = "tunnel"

\* A script that runs alone knows what it found and what it did.
Brings(s) ==
    /\ \A t \in Shells \ {s} : ~Runs(t)
    /\ shell[s].at \in {"ready", "prove", "unmark"} => unit = "active"
    /\ shell[s].at = "unmark" => shell[s].pairs \subseteq Servable
    /\ shell[s].cmd = "tunnel" /\ shell[s].at \in {"unit?", "mark"} => shell[s].had = Owed
    /\ shell[s].stopped \/ (shell[s].cmd = "tunnel" /\ ShellAt(s, "stop"))
       => marker # {} /\ shell[s].had = UNION marker
    /\ shell[s].cmd = "untunnel" => shell[s].had = UNION marker
    /\ (shell[s].stopped \/ shell[s].cmd = "untunnel")
       /\ shell[s].at \in {"start", "launch", "ready", "prove", "unmark"}
       => shell[s].had \subseteq shell[s].pairs

\* Each script has its own course.
Restoring == {"restore", "start", "launch", "ready", "prove", "unmark"}
OnCourse(s) ==
    /\ shell[s].cmd = "untunnel" => shell[s].at \in Over \cup Restoring \cup {"close", "clean", "decide"}
    /\ shell[s].cmd = "tunnel" =>
         shell[s].at \in Over \cup Restoring \cup {"unit?", "mark", "stop", "probe", "ssh", "state", "wait",
                                               "backend", "recheck", "trap"}
    /\ shell[s].stopped => shell[s].at \notin {"unit?", "mark", "stop"}

FallbackInv ==
    /\ ShellsTyped
    /\ \A s \in Shells : OnCourse(s)
    /\ OneListener
    /\ unit = "active" => taken = {}
    /\ StopIsRecorded
    /\ \A s \in Shells : Lone(s) => Brings(s)

---------------------------------------------------------------------------

LEMMA ServableTyped ==
    ASSUME ShellsTyped
    PROVE  Servable \in SUBSET Pairs /\ Owed \in SUBSET Pairs /\ UNION marker \in SUBSET Pairs
<1>1. Servable \in SUBSET Pairs
  BY DEF ShellsTyped, Servable, Local
<1>2. UNION marker \in SUBSET Pairs
  BY DEF ShellsTyped
<1> QED  BY <1>1, <1>2 DEF Owed

LEMMA NewShellTyped ==
    NewShell \in ShellRecords /\ ~NewShell.stopped /\ NewShell.at = "idle" /\ NewShell.at \in Over
    /\ NewShell.cmd = "none"
BY DEF NewShell, ShellRecords, Places, Scripts, Over

\* A script is where it was, of the same kind, and stopped what it had stopped.
SameCourse(s) ==
    shell'[s].at = shell[s].at /\ shell'[s].cmd = shell[s].cmd /\ shell'[s].stopped = shell[s].stopped

\* What a script's own step leaves alone.
LEMMA OwnStep ==
    ASSUME ShellsTyped, NEW s \in Shells, ScriptStep(s) \/ Interrupt(s) \/ InterruptStop(s)
    PROVE  /\ Runs(s)
           /\ shell' \in [Shells -> ShellRecords]
           /\ \A t \in Shells \ {s} : shell'[t] = shell[t]
           /\ shell'[s].stopped => shell[s].cmd = "tunnel" /\ shell'[s].cmd = "tunnel"
           /\ shell'[s].at \in Over \/ (/\ shell'[s].alone = shell[s].alone
                                       /\ shell'[s].cmd = shell[s].cmd
                                       /\ shell'[s].had = shell[s].had)
<1> DEFINE Good == /\ Runs(s)
                   /\ shell' \in [Shells -> ShellRecords]
                   /\ \A t \in Shells \ {s} : shell'[t] = shell[t]
                   /\ shell'[s].stopped => shell[s].cmd = "tunnel" /\ shell'[s].cmd = "tunnel"
                   /\ shell'[s].at \in Over \/ (/\ shell'[s].alone = shell[s].alone
                                               /\ shell'[s].cmd = shell[s].cmd
                                               /\ shell'[s].had = shell[s].had)
<1>t. shell \in [Shells -> ShellRecords] /\ shell[s] \in ShellRecords
      /\ (shell[s].stopped => shell[s].cmd = "tunnel")
  BY DEF ShellsTyped
<1>1. ASSUME Runs(s), NEW p \in Places, Goes(s, p) PROVE Good
  BY <1>1, <1>t DEF Goes, ShellRecords
<1>2. ASSUME Runs(s), NEW p \in Over, Ended(s, p) PROVE Good
  <2>1. [NewShell EXCEPT !.at = p] \in ShellRecords /\ [NewShell EXCEPT !.at = p].at = p
        /\ ~[NewShell EXCEPT !.at = p].stopped
    BY <1>2 DEF NewShell, ShellRecords, Places, Scripts
  <2>2. shell'[s] = [NewShell EXCEPT !.at = p] /\ shell' \in [Shells -> ShellRecords]
        /\ \A t \in Shells \ {s} : shell'[t] = shell[t]
    BY <1>2, <1>t, <2>1 DEF Ended
  <2> QED  BY <1>2, <2>1, <2>2
<1>3. ASSUME Runs(s), GivesUp(s) PROVE Good
  <2>1. CASE Goes(s, "trap")  BY <2>1, <1>3, <1>1 DEF Places
  <2>2. CASE Ended(s, "failed")  BY <2>2, <1>3, <1>2 DEF Over
  <2> QED  BY <1>3, <2>1, <2>2 DEF GivesUp
<1>4. ASSUME Runs(s), NEW r \in ShellRecords, shell' = [shell EXCEPT ![s] = r],
             r.alone = shell[s].alone, r.cmd = shell[s].cmd, r.had = shell[s].had,
             r.stopped => r.cmd = "tunnel"
      PROVE  Good
  BY <1>4, <1>t
<1>g. SUFFICES Good
  OBVIOUS
<1> HIDE DEF Good
<1>u. UNION marker \in SUBSET Pairs /\ mapFile \in SUBSET Pairs
  BY ServableTyped DEF ShellsTyped
<1>5. CASE Mark(s)
  <2>1. Runs(s)  BY <1>5 DEF Mark, ShellAt, Runs, Over
  <2>2. Goes(s, "stop")  BY <1>5 DEF Mark
  <2> QED  BY <2>1, <2>2, <1>1 DEF Places
<1>6. CASE Stop(s)
  <2>1. Runs(s)  BY <1>6 DEF Stop, ShellAt, Runs, Over
  <2>2. CASE shell[s].cmd = "tunnel" /\ shell' = [shell EXCEPT ![s].at = "probe", ![s].stopped = TRUE]
    <3>1. shell' = [shell EXCEPT ![s] = [shell[s] EXCEPT !.at = "probe", !.stopped = TRUE]]
      BY <2>2, <1>t
    <3>2. [shell[s] EXCEPT !.at = "probe", !.stopped = TRUE] \in ShellRecords
          /\ [shell[s] EXCEPT !.at = "probe", !.stopped = TRUE].alone = shell[s].alone
          /\ [shell[s] EXCEPT !.at = "probe", !.stopped = TRUE].had = shell[s].had
          /\ [shell[s] EXCEPT !.at = "probe", !.stopped = TRUE].cmd = shell[s].cmd
      BY <1>t DEF ShellRecords, Places
    <3> QED  BY <1>4, <2>1, <2>2, <3>1, <3>2
  <2>3. CASE Goes(s, "start")  BY <2>3, <2>1, <1>1 DEF Places
  <2>4. CASE Ended(s, "ok")  BY <2>4, <2>1, <1>2 DEF Over
  <2>5. CASE GivesUp(s)  BY <2>5, <2>1, <1>3
  <2> QED  BY <1>6, <2>2, <2>3, <2>4, <2>5 DEF Stop
<1>7. CASE Restore(s)
  <2>1. Runs(s)  BY <1>7 DEF Restore, ShellAt, Runs, Over
  <2>2. CASE Ended(s, "failed")  BY <2>2, <2>1, <1>2 DEF Over
  <2>3. CASE shell' = [shell EXCEPT ![s].at = "start",
                                    ![s].pairs = IF UNION marker # {} THEN UNION marker ELSE mapFile]
    <3> DEFINE q == IF UNION marker # {} THEN UNION marker ELSE mapFile
    <3>1. shell' = [shell EXCEPT ![s] = [shell[s] EXCEPT !.at = "start", !.pairs = q]]
      BY <2>3, <1>t
    <3>q. q \in SUBSET Pairs  BY <1>u
    <3> HIDE DEF q
    <3>2. [shell[s] EXCEPT !.at = "start", !.pairs = q] \in ShellRecords
          /\ [shell[s] EXCEPT !.at = "start", !.pairs = q].alone = shell[s].alone
          /\ [shell[s] EXCEPT !.at = "start", !.pairs = q].had = shell[s].had
          /\ [shell[s] EXCEPT !.at = "start", !.pairs = q].cmd = shell[s].cmd
          /\ [shell[s] EXCEPT !.at = "start", !.pairs = q].stopped = shell[s].stopped
      BY <1>t, <3>q DEF ShellRecords, Places
    <3> QED  BY <1>4, <1>t, <2>1, <3>1, <3>2
  <2> QED  BY <1>7, <2>2, <2>3 DEF Restore
<1>8. CASE Start(s) \/ Launch(s) \/ AwaitReady(s) \/ Prove(s) \/ Unmark(s)
  <2>1. Runs(s)  BY <1>8 DEF Start, Launch, AwaitReady, Prove, Unmark, ShellAt, Runs, Over
  <2>2. \/ \E p \in Places : Goes(s, p)
        \/ \E p \in Over : Ended(s, p)
    BY <1>8 DEF Start, Launch, AwaitReady, Prove, Unmark, Places, Over
  <2> QED  BY <2>1, <2>2, <1>1, <1>2
<1>9. CASE CheckUnit(s) \/ ProbePort(s) \/ WriteState(s) \/ AwaitTunnel(s) \/ RestartBackend(s)
           \/ Recheck(s) \/ Trap(s)
  <2>1. Runs(s)
    BY <1>9 DEF CheckUnit, ProbePort, WriteState, AwaitTunnel, RestartBackend, Recheck, Trap,
                ShellAt, Runs, Over
  <2>2. \/ \E p \in Places : Goes(s, p)
        \/ \E p \in Over : Ended(s, p)
        \/ GivesUp(s)
    BY <1>9 DEF CheckUnit, ProbePort, WriteState, AwaitTunnel, RestartBackend, Recheck, Trap,
                Places, Over
  <2> QED  BY <2>1, <2>2, <1>1, <1>2, <1>3
<1>10. CASE Ssh(s)
  <2>1. Runs(s)  BY <1>10 DEF Ssh, ShellAt, Runs, Over
  <2>2. CASE GivesUp(s)  BY <2>1, <2>2, <1>3
  <2>3. CASE shell' = [shell EXCEPT ![s].at = "state", ![s].opened = TRUE]
    <3>1. shell' = [shell EXCEPT ![s] = [shell[s] EXCEPT !.at = "state", !.opened = TRUE]]
      BY <2>3, <1>t
    <3>2. [shell[s] EXCEPT !.at = "state", !.opened = TRUE] \in ShellRecords
          /\ [shell[s] EXCEPT !.at = "state", !.opened = TRUE].alone = shell[s].alone
          /\ [shell[s] EXCEPT !.at = "state", !.opened = TRUE].had = shell[s].had
          /\ [shell[s] EXCEPT !.at = "state", !.opened = TRUE].cmd = shell[s].cmd
          /\ [shell[s] EXCEPT !.at = "state", !.opened = TRUE].stopped = shell[s].stopped
      BY <1>t DEF ShellRecords, Places
    <3> QED  BY <1>4, <1>t, <2>1, <3>1, <3>2
  <2> QED  BY <1>10, <2>2, <2>3 DEF Ssh
<1>11. CASE Close(s) \/ Clean(s) \/ Decide(s) \/ TruncateMap(s) \/ WriteMap(s) \/ PlanInstall(s)
            \/ CreateModel(s)
  <2>1. Runs(s)
    BY <1>11 DEF Close, Clean, Decide, TruncateMap, WriteMap, PlanInstall, CreateModel,
                 ShellAt, Runs, Over
  <2>2. \/ \E p \in Places : Goes(s, p)
        \/ \E p \in Over : Ended(s, p)
    BY <1>11 DEF Close, Clean, Decide, TruncateMap, WriteMap, PlanInstall, CreateModel,
                 Places, Over
  <2> QED  BY <2>1, <2>2, <1>1, <1>2
<1>12. CASE ReadMap(s)
  <2>1. Runs(s)  BY <1>12 DEF ReadMap, ShellAt, Runs, Over
  <2>2. CASE Ended(s, "ok")  BY <2>1, <2>2, <1>2 DEF Over
  <2>3. CASE shell' = [shell EXCEPT ![s].at = "truncate", ![s].pairs = @ \cup mapFile]
    <3> DEFINE q == shell[s].pairs \cup mapFile
    <3>1. shell' = [shell EXCEPT ![s] = [shell[s] EXCEPT !.at = "truncate", !.pairs = q]]
      BY <2>3, <1>t
    <3>q. q \in SUBSET Pairs  BY <1>u, <1>t DEF ShellRecords
    <3> HIDE DEF q
    <3>2. [shell[s] EXCEPT !.at = "truncate", !.pairs = q] \in ShellRecords
          /\ [shell[s] EXCEPT !.at = "truncate", !.pairs = q].alone = shell[s].alone
          /\ [shell[s] EXCEPT !.at = "truncate", !.pairs = q].had = shell[s].had
          /\ [shell[s] EXCEPT !.at = "truncate", !.pairs = q].cmd = shell[s].cmd
          /\ [shell[s] EXCEPT !.at = "truncate", !.pairs = q].stopped = shell[s].stopped
      BY <1>t, <3>q DEF ShellRecords, Places
    <3> QED  BY <1>4, <1>t, <2>1, <3>1, <3>2
  <2> QED  BY <1>12, <2>2, <2>3 DEF ReadMap
<1>13. CASE Interrupt(s)
  <2>1. Runs(s)  BY <1>13 DEF Interrupt, Runs, Over
  <2> QED  BY <1>13, <2>1, <1>3 DEF Interrupt
<1>14. CASE InterruptStop(s)
  <2>1. Runs(s)  BY <1>14 DEF InterruptStop, ShellAt, Runs, Over
  <2> QED  BY <1>14, <2>1, <1>2 DEF InterruptStop, Over
<1> QED
  BY <1>5, <1>6, <1>7, <1>8, <1>9, <1>10, <1>11, <1>12, <1>13, <1>14 DEF ScriptStep

\* A script begins, and no other script runs alone any more.
LEMMA BeginStep ==
    ASSUME ShellsTyped, NEW s \in Shells, Commands(s)
    PROVE  /\ UNCHANGED <<service, remote, marker, taken>>
           /\ shell' \in [Shells -> ShellRecords]
           /\ \A t \in Shells : shell'[t].stopped => shell'[t].cmd = "tunnel"
           /\ \A t \in Shells \ {s} : /\ shell[t].at \in Over => shell'[t].at \in Over /\ shell'[t].cmd = "none"
                                      /\ shell'[t].at \notin Over => ~shell'[t].alone
                                      /\ shell[t].at \notin Over => SameCourse(t)
           /\ shell'[s].alone => \A t \in Shells \ {s} : shell[t].at \in Over
           /\ shell[s].at \in Over /\ ~shell'[s].stopped
           /\ shell'[s].at \notin {"mark", "launch", "ready", "prove", "unmark"}
           /\ shell'[s].cmd = "tunnel" => shell'[s].at = "unit?" /\ shell'[s].had = Owed
           /\ shell'[s].cmd = "untunnel" => shell'[s].at = "close" /\ shell'[s].had = UNION marker
<1> DEFINE Places0 == {"unit?", "close", "restore", "start", "stop", "read", "plan"}
<1>1. PICK cmd \in Scripts, place \in Places0, node \in Nodes \cup {NoNode}, asked \in BOOLEAN,
           pairs \in SUBSET Pairs :
           Begin(s, cmd, place, node, asked, pairs) /\ (cmd = "tunnel" => place = "unit?")
           /\ (cmd = "untunnel" => place = "close")
  <2>0. FALSE \in BOOLEAN /\ {} \in SUBSET Pairs /\ NoNode \in Nodes \cup {NoNode}
    OBVIOUS
  <2>1. CASE \E n \in Nodes, stopLocal \in BOOLEAN : Begin(s, "tunnel", "unit?", n, stopLocal, {})
    BY <2>1 DEF Scripts
  <2>2. CASE \E keep \in BOOLEAN : Begin(s, "untunnel", "close", NoNode, keep, {})
    BY <2>2 DEF Scripts
  <2>3. CASE Begin(s, "restore", "restore", NoNode, FALSE, {})
    <3>1. "restore" \in Scripts /\ "restore" \in Places0 /\ "restore" \notin {"tunnel", "untunnel"}
      BY DEF Scripts
    <3> QED  BY <2>3, <2>0, <3>1, Zenon
  <2>4. CASE Begin(s, "start", "start", NoNode, FALSE, {})
    <3>1. "start" \in Scripts /\ "start" \in Places0 /\ "start" \notin {"tunnel", "untunnel"}
      BY DEF Scripts
    <3> QED  BY <2>4, <2>0, <3>1, Zenon
  <2>5. CASE Begin(s, "stop", "stop", NoNode, FALSE, {})
    <3>1. "stop" \in Scripts /\ "stop" \in Places0 /\ "stop" \notin {"tunnel", "untunnel"}
      BY DEF Scripts
    <3> QED  BY <2>5, <2>0, <3>1, Zenon
  <2>6. CASE Begin(s, "restart", IF unit = "active" THEN "stop" ELSE "start", NoNode, FALSE, {})
    <3> DEFINE place == IF unit = "active" THEN "stop" ELSE "start"
    <3>1. "restart" \in Scripts /\ place \in Places0 /\ "restart" \notin {"tunnel", "untunnel"}
      BY DEF Scripts
    <3>2. Begin(s, "restart", place, NoNode, FALSE, {})
      BY <2>6
    <3> HIDE DEF place
    <3> QED  BY <3>2, <2>0, <3>1, Zenon
  <2>7. CASE \E p \in Pairs : Begin(s, "map", "read", NoNode, FALSE, {p})
    <3>1. PICK p \in Pairs : Begin(s, "map", "read", NoNode, FALSE, {p})
      BY <2>7
    <3>2. {p} \in SUBSET Pairs
      OBVIOUS
    <3> QED  BY <3>1, <3>2 DEF Scripts
  <2>8. CASE \E p \in Pairs, replace \in BOOLEAN : Begin(s, "install", "plan", NoNode, replace, {p})
    <3>1. PICK p \in Pairs, replace \in BOOLEAN : Begin(s, "install", "plan", NoNode, replace, {p})
      BY <2>8
    <3>2. {p} \in SUBSET Pairs
      OBVIOUS
    <3> QED  BY <3>1, <3>2 DEF Scripts
  <2> QED  BY <2>1, <2>2, <2>3, <2>4, <2>5, <2>6, <2>7, <2>8 DEF Commands
<1>2. Places0 \cap Over = {} /\ Places0 \subseteq Places
      /\ Places0 \cap {"mark", "launch", "ready", "prove", "unmark"} = {}
  BY DEF Over, Places
<1> HIDE DEF Places0
<1>3. Recalls(cmd) \in SUBSET Pairs
  BY ServableTyped DEF Recalls
<1>t. shell \in [Shells -> ShellRecords] /\ \A t \in Shells : shell[t].stopped => shell[t].cmd = "tunnel"
  BY DEF ShellsTyped
<1> DEFINE lone == \A u \in Shells \ {s} : shell[u].at \in Over
           had == Recalls(cmd)
           mine == [NewShell EXCEPT !.at = place, !.cmd = cmd, !.node = node, !.asked = asked,
                                    !.pairs = pairs, !.had = had, !.alone = lone]
<1>4. shell' = [t \in Shells |-> IF t = s THEN mine
                                 ELSE IF shell[t].at \in Over THEN NewShell
                                 ELSE [shell[t] EXCEPT !.alone = FALSE]]
  BY <1>1 DEF Begin
<1>5. /\ mine \in ShellRecords /\ mine.at = place /\ mine.cmd = cmd /\ mine.had = had
      /\ mine.alone = lone /\ ~mine.stopped
  <2>1. had \in SUBSET Pairs /\ lone \in BOOLEAN
    BY <1>3
  <2> HIDE DEF had, lone
  <2> QED  BY <2>1, <1>2 DEF NewShell, ShellRecords
<1> HIDE DEF mine
<1>6. \A t \in Shells : /\ [shell[t] EXCEPT !.alone = FALSE] \in ShellRecords
                        /\ ~[shell[t] EXCEPT !.alone = FALSE].alone
                        /\ [shell[t] EXCEPT !.alone = FALSE].at = shell[t].at
                        /\ [shell[t] EXCEPT !.alone = FALSE].stopped = shell[t].stopped
                        /\ [shell[t] EXCEPT !.alone = FALSE].cmd = shell[t].cmd
  BY <1>t DEF ShellRecords
<1>7. shell' \in [Shells -> ShellRecords]
  BY <1>4, <1>5, <1>6, NewShellTyped
<1>8. \A t \in Shells \ {s} : shell'[t] = IF shell[t].at \in Over THEN NewShell
                                          ELSE [shell[t] EXCEPT !.alone = FALSE]
  BY <1>4
<1>9. shell'[s] = mine
  BY <1>4
<1>10. \A t \in Shells \ {s} :
          /\ shell[t].at \in Over => shell'[t].at \in Over /\ shell'[t].cmd = "none"
          /\ shell'[t].at \notin Over => ~shell'[t].alone
          /\ shell'[t].stopped => shell'[t].cmd = "tunnel"
          /\ shell[t].at \notin Over => SameCourse(t)
  BY <1>8, <1>6, <1>t, NewShellTyped DEF SameCourse
<1>11. UNCHANGED <<service, remote, marker, taken>> /\ shell[s].at \in Over
  BY <1>1 DEF Begin
<1>12. /\ shell'[s].alone => \A t \in Shells \ {s} : shell[t].at \in Over
       /\ ~shell'[s].stopped
       /\ shell'[s].at = place /\ shell'[s].cmd = cmd
       /\ shell'[s].cmd = "tunnel" => shell'[s].had = Owed
       /\ shell'[s].cmd = "untunnel" => shell'[s].had = UNION marker
  BY <1>9, <1>5 DEF lone, had, Recalls
<1>13. \A t \in Shells : shell'[t].stopped => shell'[t].cmd = "tunnel"
  BY <1>10, <1>12
<1> QED  BY <1>7, <1>10, <1>11, <1>12, <1>13, <1>1, <1>2

\* What happens to the scripts leaves none of them alone.
LEMMA EventStep ==
    ASSUME ShellsTyped,
           \/ \E s \in Shells : Kill(s)
           \/ TunnelDrops \/ UnitCrashes \/ Retry \/ Reboot
           \/ \E n \in Nodes : SessionChanges(n)
           \/ \E has \in SUBSET Pairs : OllamaChanges(has)
    PROVE  /\ shell' \in [Shells -> ShellRecords]
           /\ \A t \in Shells : /\ shell'[t].stopped => shell'[t].cmd = "tunnel"
                                /\ shell'[t].at \notin Over => ~shell'[t].alone
                                /\ SameCourse(t) \/ (shell'[t].cmd = "none" /\ ~shell'[t].stopped
                                                    /\ shell'[t].at \in {"idle", "killed"})
<1>t. shell \in [Shells -> ShellRecords] /\ \A t \in Shells : shell[t].stopped => shell[t].cmd = "tunnel"
  BY DEF ShellsTyped
<1>1. \A t \in Shells : /\ [shell[t] EXCEPT !.alone = FALSE] \in ShellRecords
                        /\ ~[shell[t] EXCEPT !.alone = FALSE].alone
                        /\ [shell[t] EXCEPT !.alone = FALSE].at = shell[t].at
                        /\ [shell[t] EXCEPT !.alone = FALSE].stopped = shell[t].stopped
                        /\ [shell[t] EXCEPT !.alone = FALSE].cmd = shell[t].cmd
  BY <1>t DEF ShellRecords
<1>2. /\ Disturbed \in [Shells -> ShellRecords]
      /\ \A t \in Shells : /\ Disturbed[t].stopped => Disturbed[t].cmd = "tunnel"
                           /\ ~Disturbed[t].alone
                           /\ Disturbed[t].at = shell[t].at /\ Disturbed[t].cmd = shell[t].cmd
                           /\ Disturbed[t].stopped = shell[t].stopped
  BY <1>1, <1>t DEF Disturbed
<1>3. CASE shell' = Disturbed
  BY <1>2, <1>3 DEF SameCourse
<1>4. CASE \E s \in Shells : Kill(s)
  <2>1. PICK s \in Shells : shell' = [Disturbed EXCEPT ![s] = [NewShell EXCEPT !.at = "killed"]]
    BY <1>4 DEF Kill
  <2>2. /\ [NewShell EXCEPT !.at = "killed"] \in ShellRecords
        /\ [NewShell EXCEPT !.at = "killed"].at = "killed" /\ "killed" \in Over
        /\ ~[NewShell EXCEPT !.at = "killed"].stopped /\ [NewShell EXCEPT !.at = "killed"].cmd = "none"
    BY DEF NewShell, ShellRecords, Places, Scripts, Over
  <2> QED  BY <1>2, <2>1, <2>2 DEF SameCourse
<1>5. CASE Reboot
  BY <1>5, NewShellTyped DEF Reboot
<1> QED  BY <1>3, <1>4, <1>5 DEF TunnelDrops, UnitCrashes, Retry, SessionChanges, OllamaChanges

\* Every step is one of three kinds.
LEMMA StepKinds ==
    ASSUME FallbackNext
    PROVE  \/ \E s \in Shells : Commands(s)
           \/ \E s \in Shells : ScriptStep(s) \/ Interrupt(s) \/ InterruptStop(s)
           \/ \/ \E s \in Shells : Kill(s)
              \/ TunnelDrops \/ UnitCrashes \/ Retry \/ Reboot
              \/ \E n \in Nodes : SessionChanges(n)
              \/ \E has \in SUBSET Pairs : OllamaChanges(has)
BY DEF FallbackNext

LEMMA DataTyped ==
    ASSUME ShellsTyped, FallbackNext
    PROVE  /\ models' \in SUBSET Pairs /\ mapFile' \in SUBSET Pairs /\ loadedMap' \in SUBSET Pairs
           /\ unit' \in {"inactive", "active", "retrying", "failed"}
           /\ tunnel' \in Nodes \cup {NoNode} /\ stateFile' \in Nodes \cup {NoNode}
           /\ answering' \in SUBSET Nodes
           /\ marker' = marker \/ marker' = {} \/ marker' = {Servable}
<1> DEFINE Good == /\ models' \in SUBSET Pairs /\ mapFile' \in SUBSET Pairs /\ loadedMap' \in SUBSET Pairs
                   /\ unit' \in {"inactive", "active", "retrying", "failed"}
                   /\ tunnel' \in Nodes \cup {NoNode} /\ stateFile' \in Nodes \cup {NoNode}
                   /\ answering' \in SUBSET Nodes
                   /\ marker' = marker \/ marker' = {} \/ marker' = {Servable}
<1>g. SUFFICES Good
  OBVIOUS
<1>0. /\ models \in SUBSET Pairs /\ mapFile \in SUBSET Pairs /\ loadedMap \in SUBSET Pairs
      /\ unit \in {"inactive", "active", "retrying", "failed"}
      /\ tunnel \in Nodes \cup {NoNode} /\ stateFile \in Nodes \cup {NoNode}
      /\ answering \in SUBSET Nodes
      /\ \A s \in Shells : shell[s].pairs \in SUBSET Pairs /\ shell[s].node \in Nodes \cup {NoNode}
  BY DEF ShellsTyped, ShellRecords
<1>1. ASSUME NEW s \in Shells, Commands(s) PROVE Good
  BY <1>0, <1>1, BeginStep DEF service, remote
<1>2. ASSUME NEW s \in Shells, ScriptStep(s) \/ Interrupt(s) \/ InterruptStop(s) PROVE Good
  <2>1. CASE Mark(s) \/ Stop(s) \/ Unmark(s) \/ InterruptStop(s) \/ Interrupt(s)
    BY <1>0, <2>1 DEF Mark, Stop, Unmark, InterruptStop, Interrupt, UnitDown, WriteMarker, service,
                      remote
  <2>2. CASE Restore(s) \/ Start(s) \/ Launch(s) \/ AwaitReady(s) \/ Prove(s)
    BY <1>0, <2>2 DEF Restore, Start, Launch, AwaitReady, Prove, UnitUp, service, remote
  <2>3. CASE CheckUnit(s) \/ ProbePort(s) \/ Ssh(s) \/ WriteState(s) \/ AwaitTunnel(s)
             \/ RestartBackend(s) \/ Recheck(s) \/ Trap(s)
    BY <1>0, <2>3 DEF CheckUnit, ProbePort, Ssh, WriteState, AwaitTunnel, RestartBackend, Recheck,
                      Trap, service, remote
  <2>4. CASE Close(s) \/ Clean(s) \/ Decide(s) \/ ReadMap(s) \/ TruncateMap(s) \/ WriteMap(s)
             \/ PlanInstall(s)
    BY <1>0, <2>4 DEF Close, Clean, Decide, ReadMap, TruncateMap, WriteMap, PlanInstall, service,
                      remote
  <2>5. CASE CreateModel(s)
    <3>1. models' = models \cup shell[s].pairs \/ models' = models
      BY <2>5 DEF CreateModel
    <3>2. models' \in SUBSET Pairs
      BY <3>1, <1>0
    <3> QED  BY <1>0, <2>5, <3>2 DEF CreateModel, remote
  <2> QED  BY <1>2, <2>1, <2>2, <2>3, <2>4, <2>5 DEF ScriptStep
<1>3. ASSUME \/ \E s \in Shells : Kill(s)
             \/ TunnelDrops \/ UnitCrashes \/ Retry \/ Reboot
             \/ \E n \in Nodes : SessionChanges(n)
             \/ \E has \in SUBSET Pairs : OllamaChanges(has)
      PROVE  Good
  <2>1. CASE \E s \in Shells : Kill(s)
    BY <1>0, <2>1 DEF Kill, service, remote
  <2>2. CASE TunnelDrops \/ UnitCrashes \/ Retry \/ Reboot
    BY <1>0, <2>2 DEF TunnelDrops, UnitCrashes, Retry, Reboot, UnitUp, UnitDown, service, remote
  <2>3. CASE \E n \in Nodes : SessionChanges(n)
    BY <1>0, <2>3 DEF SessionChanges, service
  <2>4. CASE \E has \in SUBSET Pairs : OllamaChanges(has)
    BY <1>0, <2>4 DEF OllamaChanges, remote
  <2> QED  BY <1>3, <2>1, <2>2, <2>3, <2>4
<1> HIDE DEF Good
<1> QED  BY <1>1, <1>2, <1>3, StepKinds

LEMMA TypedStays ==
    ASSUME ShellsTyped, [FallbackNext]_fallbackVars
    PROVE  ShellsTyped'
<1>1. CASE UNCHANGED fallbackVars
  BY <1>1 DEF ShellsTyped, fallbackVars, service, remote
<1>2. CASE FallbackNext
  <2>1. /\ models' \in SUBSET Pairs /\ mapFile' \in SUBSET Pairs /\ loadedMap' \in SUBSET Pairs
        /\ unit' \in {"inactive", "active", "retrying", "failed"}
        /\ tunnel' \in Nodes \cup {NoNode} /\ stateFile' \in Nodes \cup {NoNode}
        /\ answering' \in SUBSET Nodes
        /\ marker' = marker \/ marker' = {} \/ marker' = {Servable}
    BY <1>2, DataTyped
  <2>2. marker' = {} \/ \E m \in SUBSET Pairs : marker' = {m}
    BY <2>1, ServableTyped DEF ShellsTyped
  <2>3. shell' \in [Shells -> ShellRecords]
        /\ \A t \in Shells : shell'[t].stopped => shell'[t].cmd = "tunnel"
    <3>1. CASE \E s \in Shells : Commands(s)
      BY <3>1, BeginStep
    <3>2. CASE \E s \in Shells : ScriptStep(s) \/ Interrupt(s) \/ InterruptStop(s)
      <4>1. PICK s \in Shells : ScriptStep(s) \/ Interrupt(s) \/ InterruptStop(s)
        BY <3>2
      <4>2. /\ shell' \in [Shells -> ShellRecords]
            /\ \A t \in Shells \ {s} : shell'[t] = shell[t]
            /\ shell'[s].stopped => shell'[s].cmd = "tunnel"
        BY <4>1, OwnStep
      <4> QED  BY <4>2 DEF ShellsTyped
    <3> QED  BY <1>2, <3>1, <3>2, StepKinds, EventStep
  <2> QED  BY <2>1, <2>2, <2>3 DEF ShellsTyped
<1> QED  BY <1>1, <1>2

\* The port: whoever takes it found it free.
LEMMA PortStays ==
    ASSUME ShellsTyped, OneListener, unit = "active" => taken = {}, [FallbackNext]_fallbackVars
    PROVE  OneListener' /\ (unit' = "active" => taken' = {})
<1> DEFINE Good == OneListener' /\ (unit' = "active" => taken' = {})
<1>g. SUFFICES Good
  OBVIOUS
<1>0. CASE UNCHANGED fallbackVars
  BY <1>0 DEF OneListener, fallbackVars, service, remote
<1>1. ASSUME NEW s \in Shells, Commands(s) PROVE Good
  BY <1>1, BeginStep DEF service, remote, OneListener
<1>2. ASSUME NEW s \in Shells, ScriptStep(s) \/ Interrupt(s) \/ InterruptStop(s) PROVE Good
  <2>1. CASE Mark(s) \/ Stop(s) \/ Unmark(s) \/ InterruptStop(s) \/ Interrupt(s)
    BY <2>1 DEF Mark, Stop, Unmark, InterruptStop, Interrupt, UnitDown, service, remote, OneListener
  <2>2. CASE Restore(s) \/ Start(s) \/ Launch(s) \/ AwaitReady(s) \/ Prove(s)
    BY <2>2 DEF Restore, Start, Launch, AwaitReady, Prove, UnitUp, service, remote, OneListener
  <2>3. CASE CheckUnit(s) \/ ProbePort(s) \/ Ssh(s) \/ WriteState(s) \/ AwaitTunnel(s)
             \/ RestartBackend(s) \/ Recheck(s) \/ Trap(s)
    BY <2>3 DEF CheckUnit, ProbePort, Ssh, Forwards, PortFree, WriteState, AwaitTunnel,
                RestartBackend, Recheck, Trap, service, remote, OneListener
  <2>4. CASE Close(s) \/ Clean(s) \/ Decide(s) \/ ReadMap(s) \/ TruncateMap(s) \/ WriteMap(s)
             \/ PlanInstall(s) \/ CreateModel(s)
    BY <2>4 DEF Close, Clean, Decide, ReadMap, TruncateMap, WriteMap, PlanInstall, CreateModel,
                service, remote, OneListener
  <2> QED  BY <1>2, <2>1, <2>2, <2>3, <2>4 DEF ScriptStep
<1>3. ASSUME \/ \E s \in Shells : Kill(s)
             \/ TunnelDrops \/ UnitCrashes \/ Retry \/ Reboot
             \/ \E n \in Nodes : SessionChanges(n)
             \/ \E has \in SUBSET Pairs : OllamaChanges(has)
      PROVE  Good
  BY <1>3 DEF Kill, TunnelDrops, UnitCrashes, Retry, Reboot, SessionChanges, OllamaChanges,
              UnitUp, UnitDown, service, remote, OneListener
<1> HIDE DEF Good
<1> QED  BY <1>0, <1>1, <1>2, <1>3, StepKinds

\* The record: a stop that counts comes after the mark, and with the service up
\* nothing is owed.
LEMMA RecordStays ==
    ASSUME FallbackInv, [FallbackNext]_fallbackVars
    PROVE  StopIsRecorded'
<1>g. SUFFICES StopIsRecorded'
  OBVIOUS
<1>i. /\ taken # {} => marker # {}
      /\ unit = "active" => taken = {}
      /\ \A s \in Shells : Lone(s) => Brings(s)
  BY DEF FallbackInv, StopIsRecorded
<1>0. CASE UNCHANGED fallbackVars
  BY <1>0, <1>i DEF StopIsRecorded, fallbackVars
<1>1. ASSUME NEW s \in Shells, Commands(s) PROVE StopIsRecorded'
  <2>1. ShellsTyped  BY DEF FallbackInv
  <2> QED  BY <1>1, <1>i, <2>1, BeginStep DEF StopIsRecorded
<1>2. ASSUME NEW s \in Shells, ScriptStep(s) \/ Interrupt(s) \/ InterruptStop(s)
      PROVE  StopIsRecorded'
  <2>m. Mark(s) => marker' # {}
    BY DEF Mark, WriteMarker
  <2>t. ASSUME Takes(s) # {}, ShellAt(s, "stop") PROVE marker # {}
    <3>1. Lone(s) /\ shell[s].cmd = "tunnel"
      BY <2>t DEF Takes, Lone, Runs, Over, ShellAt
    <3> QED  BY <3>1, <2>t, <1>i DEF Brings
  <2>1. CASE Stop(s) \/ InterruptStop(s)
    <3>1. marker' = marker /\ (taken' = taken \/ taken' = Takes(s)) /\ ShellAt(s, "stop")
      BY <2>1 DEF Stop, InterruptStop
    <3> QED  BY <3>1, <2>t, <1>i DEF StopIsRecorded
  <2>2. CASE Unmark(s)
    <3>1. CASE shell[s].alone
      <4>1. Lone(s) /\ shell[s].at = "unmark"
        BY <2>2, <3>1 DEF Unmark, ShellAt, Lone, Runs, Over
      <4>2. taken = {}
        BY <4>1, <1>i DEF Brings
      <4> QED  BY <2>2, <4>2 DEF Unmark, StopIsRecorded
    <3>2. CASE ~shell[s].alone
      BY <2>2, <3>2 DEF Unmark, StopIsRecorded
    <3> QED  BY <3>1, <3>2
  <2>3. CASE Mark(s)
    BY <2>3, <2>m DEF StopIsRecorded
  <2>4. CASE Interrupt(s) \/ Restore(s) \/ Start(s) \/ Launch(s) \/ AwaitReady(s) \/ Prove(s)
    BY <2>4, <1>i DEF Interrupt, Restore, Start, Launch, AwaitReady, Prove, UnitUp, StopIsRecorded
  <2>5. CASE CheckUnit(s) \/ ProbePort(s) \/ Ssh(s) \/ WriteState(s) \/ AwaitTunnel(s)
             \/ RestartBackend(s) \/ Recheck(s) \/ Trap(s)
    BY <2>5, <1>i DEF CheckUnit, ProbePort, Ssh, WriteState, AwaitTunnel,
                RestartBackend, Recheck, Trap, StopIsRecorded
  <2>6. CASE Close(s) \/ Clean(s) \/ Decide(s) \/ ReadMap(s) \/ TruncateMap(s) \/ WriteMap(s)
             \/ PlanInstall(s) \/ CreateModel(s)
    BY <2>6, <1>i DEF Close, Clean, Decide, ReadMap, TruncateMap, WriteMap, PlanInstall, CreateModel,
                StopIsRecorded
  <2> QED  BY <1>2, <2>1, <2>2, <2>3, <2>4, <2>5, <2>6 DEF ScriptStep
<1>3. ASSUME \/ \E s \in Shells : Kill(s)
             \/ TunnelDrops \/ UnitCrashes \/ Retry \/ Reboot
             \/ \E n \in Nodes : SessionChanges(n)
             \/ \E has \in SUBSET Pairs : OllamaChanges(has)
      PROVE  StopIsRecorded'
  BY <1>3, <1>i DEF Kill, TunnelDrops, UnitCrashes, Retry, Reboot, SessionChanges, OllamaChanges,
              UnitUp, UnitDown, StopIsRecorded
<1> QED  BY <1>0, <1>1, <1>2, <1>3, StepKinds

\* A script that runs alone keeps track of what it found and did.
LEMMA OwnStepBrings ==
    ASSUME FallbackInv, NEW s \in Shells, ScriptStep(s) \/ Interrupt(s) \/ InterruptStop(s), Lone(s)'
    PROVE  Brings(s)'
<1>t. /\ shell \in [Shells -> ShellRecords] /\ shell[s] \in ShellRecords
      /\ shell[s].stopped => shell[s].cmd = "tunnel"
  BY DEF FallbackInv, ShellsTyped
<1>1. /\ \A t \in Shells \ {s} : shell'[t] = shell[t]
      /\ shell[s].alone /\ Runs(s) /\ shell'[s].cmd = shell[s].cmd /\ shell'[s].had = shell[s].had
      /\ shell'[s].at \notin Over
  <2>1. ShellsTyped  BY DEF FallbackInv
  <2>2. shell'[s].at \notin Over /\ shell'[s].alone
    BY DEF Lone, Runs
  <2> QED  BY <2>1, <2>2, OwnStep
<1>2. Brings(s)
  BY <1>1 DEF FallbackInv, Lone
<1>3. \A t \in Shells \ {s} : ~Runs(t)'
  BY <1>1, <1>2 DEF Brings, Runs
<1> DEFINE Knows ==
      /\ shell'[s].at \in {"ready", "prove", "unmark"} => unit' = "active"
      /\ shell'[s].at = "unmark" => shell'[s].pairs \subseteq Servable'
      /\ shell'[s].cmd = "tunnel" /\ shell'[s].at \in {"unit?", "mark"} => shell'[s].had = Owed'
      /\ shell'[s].stopped \/ (shell'[s].cmd = "tunnel" /\ shell'[s].at = "stop")
         => marker' # {} /\ shell'[s].had = UNION marker'
      /\ shell'[s].cmd = "untunnel" => shell'[s].had = UNION marker'
      /\ (shell'[s].stopped \/ shell'[s].cmd = "untunnel")
         /\ shell'[s].at \in {"start", "launch", "ready", "prove", "unmark"}
         => shell'[s].had \subseteq shell'[s].pairs
<1>g. SUFFICES Knows
  BY <1>3 DEF Brings, ShellAt
<1>4. ASSUME NEW p, Goes(s, p)
      PROVE  /\ shell'[s].at = p /\ shell'[s].pairs = shell[s].pairs
             /\ shell'[s].stopped = shell[s].stopped
  BY <1>4, <1>t DEF Goes, ShellRecords
<1>5. ASSUME NEW p \in Over, Ended(s, p) PROVE FALSE
  BY <1>1, <1>5, <1>t DEF Ended, NewShell
<1>6. ASSUME GivesUp(s)
      PROVE  /\ shell'[s].at = "trap" /\ shell'[s].pairs = shell[s].pairs
             /\ shell'[s].stopped = shell[s].stopped
  <2>1. ~Ended(s, "failed")
    BY <1>5 DEF Over
  <2> QED  BY <1>6, <1>4, <2>1 DEF GivesUp
<1>7. ~Ended(s, "ok") /\ ~Ended(s, "failed")
  BY <1>5 DEF Over
<1>8. Owed = IF marker = {} THEN Servable ELSE UNION marker
  BY DEF Owed
<1>9. CASE Mark(s)
  <2>1. shell'[s].at = "stop" /\ shell'[s].stopped = shell[s].stopped /\ shell[s].at = "mark"
    BY <1>9, <1>4 DEF Mark, ShellAt
  <2>2. /\ marker' # {}
        /\ shell[s].cmd = "tunnel" => shell[s].had = UNION marker'
    <3>1. shell[s].cmd = "tunnel" => shell[s].had = Owed
      BY <2>1, <1>2 DEF Brings
    <3>2. marker' = IF marker = {} THEN {Servable} ELSE marker
      BY <1>9 DEF Mark, WriteMarker
    <3> QED  BY <3>1, <3>2, <1>8
  <2>3. shell[s].cmd # "untunnel"
    BY <2>1 DEF FallbackInv, OnCourse, Over, Restoring
  <2> QED  BY <2>1, <2>2, <2>3, <1>1, <1>t
<1>10. CASE Stop(s)
  <2>0. marker' = marker /\ shell[s].at = "stop"
    BY <1>10 DEF Stop, ShellAt
  <2>1. CASE shell[s].cmd = "tunnel" /\ shell' = [shell EXCEPT ![s].at = "probe", ![s].stopped = TRUE]
    <3>1. shell'[s].at = "probe"
      BY <2>1, <1>t DEF ShellRecords
    <3>2. marker # {} /\ shell[s].had = UNION marker
      BY <2>0, <2>1, <1>2 DEF Brings, ShellAt
    <3> QED  BY <3>1, <3>2, <2>0, <2>1, <1>1
  <2>2. CASE shell[s].cmd = "restart" /\ Goes(s, "start")
    <3>1. shell'[s].at = "start" /\ shell'[s].stopped = shell[s].stopped
      BY <2>2, <1>4
    <3> QED  BY <3>1, <2>2, <1>1, <1>t
  <2>3. CASE GivesUp(s)
    BY <2>3, <2>0, <1>1, <1>2, <1>6 DEF Brings
  <2> QED  BY <1>10, <2>1, <2>2, <2>3, <1>7 DEF Stop
<1>11. CASE Restore(s)
  <2>1. marker' = marker /\ shell' = [shell EXCEPT ![s].at = "start",
                                ![s].pairs = IF UNION marker # {} THEN UNION marker ELSE mapFile]
    BY <1>11, <1>7 DEF Restore
  <2>2. /\ shell'[s].at = "start" /\ shell'[s].stopped = shell[s].stopped
        /\ shell'[s].pairs = IF UNION marker # {} THEN UNION marker ELSE mapFile
    BY <2>1, <1>t DEF ShellRecords
  <2>3. UNION marker \subseteq shell'[s].pairs
    BY <2>2
  <2> QED  BY <2>1, <2>2, <2>3, <1>1, <1>2 DEF Brings
<1>12. CASE Start(s)
  <2>1. /\ marker' = marker /\ unit' = unit /\ shell[s].at = "start"
        /\ (Goes(s, "ready") /\ unit = "active") \/ Goes(s, "launch")
    BY <1>12, <1>7 DEF Start, ShellAt, service
  <2>2. /\ shell'[s].stopped = shell[s].stopped /\ shell'[s].pairs = shell[s].pairs
        /\ shell'[s].at = "launch" \/ (shell'[s].at = "ready" /\ unit' = "active")
    BY <2>1, <1>4
  <2> QED  BY <2>1, <2>2, <1>1, <1>2 DEF Brings
<1>13. CASE Launch(s)
  <2>1. /\ marker' = marker /\ unit' = "active" /\ shell[s].at = "launch" /\ Goes(s, "ready")
    BY <1>13, <1>7 DEF Launch, ShellAt, UnitUp
  <2>2. /\ shell'[s].stopped = shell[s].stopped /\ shell'[s].pairs = shell[s].pairs
        /\ shell'[s].at = "ready"
    BY <2>1, <1>4
  <2> QED  BY <2>1, <2>2, <1>1, <1>2 DEF Brings
<1>14. CASE AwaitReady(s)
  <2>1. /\ marker' = marker /\ unit' = unit /\ shell[s].at = "ready" /\ Goes(s, "prove")
    BY <1>14, <1>7 DEF AwaitReady, ShellAt, service
  <2>2. /\ shell'[s].stopped = shell[s].stopped /\ shell'[s].pairs = shell[s].pairs
        /\ shell'[s].at = "prove"
    BY <2>1, <1>4
  <2> QED  BY <2>1, <2>2, <1>1, <1>2 DEF Brings
<1>15. CASE Prove(s)
  <2>1. /\ marker' = marker /\ unit' = unit /\ shell[s].at = "prove" /\ Goes(s, "unmark")
        /\ shell[s].pairs \subseteq Servable
    BY <1>15, <1>7 DEF Prove, ShellAt, service
  <2>2. /\ shell'[s].stopped = shell[s].stopped /\ shell'[s].pairs = shell[s].pairs
        /\ shell'[s].at = "unmark"
    BY <2>1, <1>4
  <2>3. Servable' = Servable
    BY <1>15 DEF Prove, service, remote, Servable, Local
  <2> QED  BY <2>1, <2>2, <2>3, <1>1, <1>2 DEF Brings
<1>16. CASE Unmark(s)
  <2>1. Ended(s, "ok") \/ Ended(s, "failed")
    BY <1>16 DEF Unmark
  <2> QED  BY <2>1, <1>7
<1>17. CASE CheckUnit(s)
  <2>1. /\ marker' = marker /\ shell[s].at = "unit?"
        /\ Goes(s, "probe") \/ Goes(s, "mark") \/ GivesUp(s)
    BY <1>17 DEF CheckUnit, ShellAt
  <2>2. /\ shell'[s].stopped = shell[s].stopped
        /\ shell'[s].at \in {"probe", "mark", "trap"}
    BY <2>1, <1>4, <1>6
  <2>3. Owed' = Owed
    BY <1>17 DEF CheckUnit, service, remote, Owed, Servable, Local
  <2> QED  BY <2>1, <2>2, <2>3, <1>1, <1>2 DEF Brings
<1>18. CASE ProbePort(s) \/ Ssh(s) \/ WriteState(s) \/ AwaitTunnel(s) \/ RestartBackend(s)
            \/ Recheck(s) \/ Trap(s) \/ Interrupt(s)
  <2>1. marker' = marker
    BY <1>18 DEF ProbePort, Ssh, WriteState, AwaitTunnel, RestartBackend, Recheck, Trap, Interrupt
  <2>2. /\ shell'[s].stopped = shell[s].stopped
        /\ shell'[s].at \in {"ssh", "backend", "trap", "state", "wait", "recheck", "restore"}
    <3>1. CASE shell' = [shell EXCEPT ![s].at = "state", ![s].opened = TRUE]
      BY <3>1, <1>t DEF ShellRecords
    <3>2. CASE \/ GivesUp(s)
               \/ \E p \in {"ssh", "backend", "trap", "wait", "recheck", "restore"} : Goes(s, p)
      BY <3>2, <1>4, <1>6
    <3> QED
      BY <1>18, <3>1, <3>2, <1>7
         DEF ProbePort, Ssh, WriteState, AwaitTunnel, RestartBackend, Recheck, Trap, Interrupt
  <2> QED  BY <2>1, <2>2, <1>1, <1>2 DEF Brings
<1>19. CASE Close(s) \/ Clean(s) \/ Decide(s) \/ ReadMap(s) \/ TruncateMap(s) \/ WriteMap(s)
            \/ PlanInstall(s) \/ CreateModel(s) \/ InterruptStop(s)
  <2>1. marker' = marker
    BY <1>19 DEF Close, Clean, Decide, ReadMap, TruncateMap, WriteMap, PlanInstall, CreateModel,
                 InterruptStop
  <2>2. /\ shell'[s].stopped = shell[s].stopped
        /\ shell'[s].at \in {"clean", "decide", "restore", "truncate", "write", "create"}
    <3>1. CASE shell' = [shell EXCEPT ![s].at = "truncate", ![s].pairs = @ \cup mapFile]
      BY <3>1, <1>t DEF ShellRecords
    <3>2. CASE \E p \in {"clean", "decide", "restore", "write", "create"} : Goes(s, p)
      BY <3>2, <1>4
    <3> QED
      BY <1>19, <3>1, <3>2, <1>7
         DEF Close, Clean, Decide, ReadMap, TruncateMap, WriteMap, PlanInstall, CreateModel,
             InterruptStop
  <2> QED  BY <2>1, <2>2, <1>1, <1>2 DEF Brings
<1> HIDE DEF Knows
<1> QED
  BY <1>9, <1>10, <1>11, <1>12, <1>13, <1>14, <1>15, <1>16, <1>17, <1>18, <1>19 DEF ScriptStep

LEMMA AloneStays ==
    ASSUME FallbackInv, [FallbackNext]_fallbackVars, NEW s \in Shells, Lone(s)'
    PROVE  Brings(s)'
<1>i. ShellsTyped /\ \A t \in Shells : Lone(t) => Brings(t)
  BY DEF FallbackInv
<1>0. CASE UNCHANGED fallbackVars
  <2>1. Lone(s)
    BY <1>0 DEF Lone, Runs, fallbackVars
  <2>2. Brings(s)
    BY <2>1, <1>i
  <2> QED
    BY <1>0, <2>2 DEF Brings, Runs, ShellAt, Owed, Servable, Local, fallbackVars, service, remote
<1>1. ASSUME NEW t \in Shells, Commands(t) PROVE Brings(s)'
  <2>1. t = s
    <3>1. \A u \in Shells \ {t} : shell'[u].at \notin Over => ~shell'[u].alone
      BY <1>i, <1>1, BeginStep
    <3> QED  BY <3>1 DEF Lone, Runs
  <2>2. /\ \A u \in Shells \ {s} : ~Runs(u)'
        /\ ~shell'[s].stopped
        /\ shell'[s].at \notin {"mark", "launch", "ready", "prove", "unmark"}
        /\ shell'[s].cmd = "tunnel" => shell'[s].at = "unit?" /\ shell'[s].had = Owed
        /\ shell'[s].cmd = "untunnel" => shell'[s].at = "close" /\ shell'[s].had = UNION marker
        /\ UNCHANGED <<service, remote, marker, taken>>
    <3>1. shell'[s].alone  BY DEF Lone
    <3> QED  BY <1>i, <1>1, <2>1, <3>1, BeginStep DEF Runs
  <2>3. Owed' = Owed
    BY <2>2 DEF service, remote, Owed, Servable, Local
  <2> QED  BY <2>2, <2>3 DEF Brings, ShellAt
<1>2. ASSUME NEW t \in Shells, ScriptStep(t) \/ Interrupt(t) \/ InterruptStop(t) PROVE Brings(s)'
  <2>1. CASE t = s
    BY <1>2, <2>1, OwnStepBrings
  <2>2. CASE t # s
    <3>1. Runs(t) /\ shell'[s] = shell[s]
      BY <1>i, <1>2, <2>2, OwnStep
    <3>2. Lone(s)
      BY <3>1 DEF Lone, Runs
    <3> QED  BY <1>i, <2>2, <3>1, <3>2 DEF Brings
  <2> QED  BY <2>1, <2>2
<1>3. ASSUME \/ \E t \in Shells : Kill(t)
             \/ TunnelDrops \/ UnitCrashes \/ Retry \/ Reboot
             \/ \E n \in Nodes : SessionChanges(n)
             \/ \E has \in SUBSET Pairs : OllamaChanges(has)
      PROVE  FALSE
  BY <1>i, <1>3, EventStep DEF Lone, Runs
<1> QED  BY <1>0, <1>1, <1>2, <1>3, StepKinds

\* A script goes from each of its places to the next ones only.
LEMMA OwnStepCourse ==
    ASSUME ShellsTyped, NEW s \in Shells, OnCourse(s),
           ScriptStep(s) \/ Interrupt(s) \/ InterruptStop(s), shell'[s].at \notin Over
    PROVE  OnCourse(s)'
<1>t. /\ shell \in [Shells -> ShellRecords] /\ shell[s] \in ShellRecords
      /\ shell[s].stopped => shell[s].cmd = "tunnel"
  BY DEF ShellsTyped
<1>1. shell'[s].cmd = shell[s].cmd /\ shell[s].at \notin Over
  BY OwnStep DEF Runs
<1>4. ASSUME NEW p, Goes(s, p) PROVE shell'[s].at = p /\ shell'[s].stopped = shell[s].stopped
  BY <1>4, <1>t DEF Goes, ShellRecords
<1>5. ASSUME NEW p \in Over, Ended(s, p) PROVE FALSE
  BY <1>1, <1>5, <1>t DEF Ended, NewShell
<1>6. ASSUME GivesUp(s)
      PROVE  /\ shell'[s].at = "trap" /\ shell[s].stopped /\ shell'[s].stopped
  <2>1. ~Ended(s, "failed")
    BY <1>5 DEF Over
  <2> QED  BY <1>6, <1>4, <2>1 DEF GivesUp
<1>7. ~Ended(s, "ok") /\ ~Ended(s, "failed")
  BY <1>5 DEF Over
<1> DEFINE to(P) == shell'[s].at \in P /\ shell'[s].stopped = shell[s].stopped
<1>8. CASE Stop(s)
  <2>1. CASE shell[s].cmd = "tunnel" /\ shell' = [shell EXCEPT ![s].at = "probe", ![s].stopped = TRUE]
    <3>1. shell'[s].at = "probe"
      BY <2>1, <1>t DEF ShellRecords
    <3> QED  BY <3>1, <2>1, <1>1 DEF OnCourse
  <2>2. CASE shell[s].cmd = "restart" /\ Goes(s, "start")
    BY <2>2, <1>1, <1>4 DEF OnCourse
  <2>3. CASE GivesUp(s)
    BY <2>3, <1>1, <1>6, <1>t DEF OnCourse
  <2> QED  BY <1>8, <2>1, <2>2, <2>3, <1>7 DEF Stop
<1>9. CASE Restore(s)
  <2>1. shell' = [shell EXCEPT ![s].at = "start",
                                ![s].pairs = IF UNION marker # {} THEN UNION marker ELSE mapFile]
    BY <1>9, <1>7 DEF Restore
  <2>2. shell'[s].at = "start" /\ shell'[s].stopped = shell[s].stopped
    BY <2>1, <1>t DEF ShellRecords
  <2> QED  BY <2>2, <1>1 DEF OnCourse, Restoring
<1>10. CASE Start(s) \/ Launch(s) \/ AwaitReady(s) \/ Prove(s) \/ Unmark(s)
  <2>1. \E p \in {"launch", "ready", "prove", "unmark"} : Goes(s, p)
    BY <1>10, <1>7 DEF Start, Launch, AwaitReady, Prove, Unmark
  <2> QED  BY <2>1, <1>1, <1>4 DEF OnCourse, Restoring
<1>11. CASE CheckUnit(s)
  <2>1. /\ shell[s].at = "unit?" /\ ~shell[s].stopped
        /\ Goes(s, "probe") \/ Goes(s, "mark") \/ GivesUp(s)
    BY <1>11, <1>7, <1>1 DEF CheckUnit, ShellAt, OnCourse
  <2> QED  BY <2>1, <1>1, <1>4, <1>6 DEF OnCourse, Restoring, Over
<1>12. CASE Mark(s)
  <2>1. shell[s].at = "mark" /\ Goes(s, "stop")
    BY <1>12 DEF Mark, ShellAt
  <2> QED  BY <2>1, <1>1, <1>4 DEF OnCourse, Restoring, Over
<1>13. CASE Ssh(s)
  <2>1. shell[s].at = "ssh"
    BY <1>13 DEF Ssh, ShellAt
  <2>2. CASE shell' = [shell EXCEPT ![s].at = "state", ![s].opened = TRUE]
    <3>1. shell'[s].at = "state" /\ shell'[s].stopped = shell[s].stopped
      BY <2>2, <1>t DEF ShellRecords
    <3> QED  BY <2>1, <3>1, <1>1 DEF OnCourse, Restoring, Over
  <2>3. CASE GivesUp(s)
    BY <2>1, <2>3, <1>1, <1>6, <1>t DEF OnCourse
  <2> QED  BY <1>13, <2>2, <2>3 DEF Ssh
<1>14. CASE ProbePort(s) \/ WriteState(s) \/ AwaitTunnel(s) \/ RestartBackend(s) \/ Recheck(s) \/ Trap(s)
            \/ Interrupt(s)
  <2>1. /\ shell[s].at \in {"probe", "ssh", "state", "wait", "backend", "recheck", "trap"}
        /\ GivesUp(s) \/ \E p \in {"ssh", "wait", "backend", "recheck", "restore"} : Goes(s, p)
    BY <1>14, <1>7 DEF ProbePort, WriteState, AwaitTunnel, RestartBackend, Recheck, Trap, Interrupt,
                       ShellAt
  <2>2. shell[s].cmd # "untunnel"
    BY <2>1 DEF OnCourse, Restoring, Over
  <2>3. CASE GivesUp(s)
    BY <2>3, <1>1, <1>6, <1>t DEF OnCourse
  <2>4. CASE \E p \in {"ssh", "wait", "backend", "recheck", "restore"} : Goes(s, p)
    BY <2>4, <2>2, <1>1, <1>4 DEF OnCourse, Restoring
  <2> QED  BY <2>1, <2>3, <2>4
<1>15. CASE Close(s) \/ Clean(s) \/ Decide(s)
  <2>1. /\ shell[s].at \in {"close", "clean", "decide"}
        /\ \E p \in {"clean", "decide", "restore"} : Goes(s, p)
    BY <1>15, <1>7 DEF Close, Clean, Decide, ShellAt
  <2>2. shell[s].cmd # "tunnel"
    BY <2>1 DEF OnCourse, Restoring, Over
  <2> QED  BY <2>1, <2>2, <1>1, <1>4, <1>t DEF OnCourse, Restoring
<1>16. CASE ReadMap(s) \/ TruncateMap(s) \/ WriteMap(s) \/ PlanInstall(s) \/ CreateModel(s)
  <2>1. shell[s].at \in {"read", "truncate", "write", "plan", "create"}
    BY <1>16 DEF ReadMap, TruncateMap, WriteMap, PlanInstall, CreateModel, ShellAt
  <2>2. shell[s].cmd \notin {"tunnel", "untunnel"}
    BY <2>1 DEF OnCourse, Restoring, Over
  <2>3. shell'[s].stopped => shell[s].cmd = "tunnel"
    BY OwnStep
  <2> QED  BY <2>2, <2>3, <1>1 DEF OnCourse
<1>17. CASE InterruptStop(s)
  BY <1>17, <1>7 DEF InterruptStop
<1> QED
  BY <1>8, <1>9, <1>10, <1>11, <1>12, <1>13, <1>14, <1>15, <1>16, <1>17 DEF ScriptStep

LEMMA CourseStays ==
    ASSUME ShellsTyped, \A t \in Shells : OnCourse(t), [FallbackNext]_fallbackVars, NEW s \in Shells
    PROVE  OnCourse(s)'
<1>0. CASE UNCHANGED fallbackVars
  BY <1>0 DEF OnCourse, fallbackVars
<1>1. ASSUME NEW t \in Shells, Commands(t) PROVE OnCourse(s)'
  <2>1. CASE t = s
    <3>1. /\ ~shell'[s].stopped
          /\ shell'[s].cmd = "tunnel" => shell'[s].at = "unit?"
          /\ shell'[s].cmd = "untunnel" => shell'[s].at = "close"
      BY <1>1, <2>1, BeginStep
    <3> QED  BY <3>1 DEF OnCourse
  <2>2. CASE t # s
    <3>1. /\ shell[s].at \in Over => shell'[s].at \in Over /\ shell'[s].cmd = "none"
          /\ shell[s].at \notin Over => SameCourse(s)
          /\ shell'[s].stopped => shell'[s].cmd = "tunnel"
      BY <1>1, <2>2, BeginStep
    <3>2. CASE shell[s].at \in Over
      BY <3>1, <3>2 DEF OnCourse
    <3>3. CASE shell[s].at \notin Over
      BY <3>1, <3>3 DEF OnCourse, SameCourse
    <3> QED  BY <3>2, <3>3
  <2> QED  BY <2>1, <2>2
<1>2. ASSUME NEW t \in Shells, ScriptStep(t) \/ Interrupt(t) \/ InterruptStop(t) PROVE OnCourse(s)'
  <2>1. CASE t = s
    <3>1. CASE shell'[s].at \in Over
      BY <3>1 DEF OnCourse, Over
    <3>2. CASE shell'[s].at \notin Over
      BY <1>2, <2>1, <3>2, OwnStepCourse
    <3> QED  BY <3>1, <3>2
  <2>2. CASE t # s
    <3>1. shell'[s] = shell[s]
      BY <1>2, <2>2, OwnStep
    <3> QED  BY <3>1 DEF OnCourse
  <2> QED  BY <2>1, <2>2
<1>3. ASSUME \/ \E t \in Shells : Kill(t)
             \/ TunnelDrops \/ UnitCrashes \/ Retry \/ Reboot
             \/ \E n \in Nodes : SessionChanges(n)
             \/ \E has \in SUBSET Pairs : OllamaChanges(has)
      PROVE  OnCourse(s)'
  <2>1. SameCourse(s) \/ (shell'[s].cmd = "none" /\ ~shell'[s].stopped)
    BY <1>3, EventStep
  <2> QED  BY <2>1 DEF SameCourse, OnCourse
<1> QED  BY <1>0, <1>1, <1>2, <1>3, StepKinds

LEMMA FallbackInvHolds == FallbackSpec => []FallbackInv
<1>1. FallbackInit => FallbackInv
  <2> SUFFICES ASSUME FallbackInit PROVE FallbackInv
    OBVIOUS
  <2>1. ShellsTyped
    BY NewShellTyped DEF FallbackInit, ShellsTyped
  <2>2. \A s \in Shells : ~Lone(s)
    BY NewShellTyped DEF FallbackInit, Lone, Runs
  <2>3. \A s \in Shells : OnCourse(s)
    BY NewShellTyped DEF FallbackInit, OnCourse
  <2> QED
    BY <2>1, <2>2, <2>3, FallbackAssumption DEF FallbackInit, FallbackInv, OneListener, StopIsRecorded
<1>2. FallbackInv /\ [FallbackNext]_fallbackVars => FallbackInv'
  <2> SUFFICES ASSUME FallbackInv, [FallbackNext]_fallbackVars PROVE FallbackInv'
    OBVIOUS
  <2>1. ShellsTyped'
    BY TypedStays DEF FallbackInv
  <2>2. OneListener' /\ (unit = "active" => taken = {})'
    BY PortStays DEF FallbackInv
  <2>3. StopIsRecorded'
    BY RecordStays
  <2>4. \A s \in Shells : (Lone(s) => Brings(s))'
    BY AloneStays
  <2>5. \A s \in Shells : OnCourse(s)'
    BY CourseStays DEF FallbackInv
  <2> QED  BY <2>1, <2>2, <2>3, <2>4, <2>5 DEF FallbackInv
<1> QED  BY <1>1, <1>2, PTL DEF FallbackSpec

\* The VM's service and the tunnel never hold the port at once, and a service
\* stopped for the fallback is on record, whatever is killed beside or between
\* (aiswe_finetuned.sh, start_finetuned_tunnel.sh, stop_finetuned_tunnel.sh).
THEOREM FallbackIsSafe == FallbackSpec => []FallbackSafety
<1>1. FallbackInv => FallbackSafety
  <2> SUFFICES ASSUME FallbackInv PROVE FallbackSafety
    OBVIOUS
  <2>1. marker \in SUBSET SUBSET Pairs /\ (marker = {} \/ \E m : marker = {m})
    BY DEF FallbackInv, ShellsTyped
  <2>2. Cardinality(marker) <= 1
    <3>1. CASE marker = {}
      BY <3>1, FS_EmptySet
    <3>2. ASSUME NEW m, marker = {m} PROVE Cardinality(marker) <= 1
      <4>1. Cardinality({m}) = 1
        BY FS_Singleton
      <4> QED  BY <3>2, <4>1
    <3> QED  BY <2>1, <3>1, <3>2
  <2> QED  BY <2>1, <2>2 DEF FallbackInv, ShellsTyped, FallbackTypeOK, FallbackSafety
<1> QED  BY <1>1, FallbackInvHolds, PTL

---------------------------------------------------------------------------
(* How scripts return.                                                     *)

\* What FailedStartReturns and StopRecovers say of one script.
GivesBack(s) ==
    shell[s].stopped /\ shell'[s].at = "failed" /\ tunnel' = NoNode
    => /\ unit' = "active" \/ Refused(s)
       /\ \/ unit' = "active" /\ shell[s].had \subseteq Servable'
          \/ marker' # {} /\ shell[s].had \subseteq UNION marker'

Recovers(s) ==
    shell[s].cmd = "untunnel"
    => /\ \/ shell[s].had \subseteq UNION marker'
          \/ shell'[s].at = "ok" /\ unit' = "active" /\ shell[s].had \subseteq Servable'
       /\ ~shell[s].asked /\ tunnel' = NoNode /\ (Enabled \/ marker # {})
          => unit' = "active" \/ Refused(s)

LEMMA OwnStepReturns ==
    ASSUME FallbackInv, NEW s \in Shells, ScriptStep(s) \/ Interrupt(s) \/ InterruptStop(s),
           Returns(s)
    PROVE  GivesBack(s) /\ Recovers(s)
<1>t. /\ shell \in [Shells -> ShellRecords] /\ shell[s] \in ShellRecords
      /\ shell[s].stopped => shell[s].cmd = "tunnel"
  BY DEF FallbackInv, ShellsTyped
<1>1. Brings(s) /\ OnCourse(s)
  BY DEF FallbackInv, Returns, Lone, Runs
<1>o. shell'[s].at \in {"ok", "failed"}
  BY DEF Returns
<1>4. ASSUME NEW p, Goes(s, p) PROVE shell'[s].at = p
  BY <1>4, <1>t DEF Goes, ShellRecords
<1>5. ASSUME GivesUp(s) PROVE ~shell[s].stopped
  BY <1>5, <1>4, <1>o DEF GivesUp
<1>6. ASSUME Ended(s, "ok") PROVE shell'[s].at = "ok"
  BY <1>6, <1>t DEF Ended, NewShell
<1> DEFINE Good == GivesBack(s) /\ Recovers(s)
<1>g. SUFFICES Good
  OBVIOUS
<1>m. /\ shell[s].stopped => marker # {} /\ shell[s].had = UNION marker
      /\ shell[s].cmd = "untunnel" => shell[s].had = UNION marker
  BY <1>1 DEF Brings
<1>k. ASSUME marker' = marker, unit' = "active" \/ Refused(s) PROVE Good
  BY <1>k, <1>m DEF GivesBack, Recovers
<1>u. ASSUME shell[s].cmd # "untunnel", ~shell[s].stopped \/ shell'[s].at = "ok" PROVE Good
  BY <1>u DEF GivesBack, Recovers
<1>7. CASE Mark(s)
  BY <1>7, <1>4, <1>o DEF Mark
<1>8. CASE Stop(s) \/ InterruptStop(s) \/ Interrupt(s) \/ CheckUnit(s)
  <2>1. shell[s].at \in {"unit?", "stop", "probe", "ssh", "state", "wait", "backend", "recheck"}
    BY <1>8 DEF Stop, InterruptStop, Interrupt, CheckUnit, ShellAt
  <2>2. shell[s].cmd # "untunnel"
    BY <2>1, <1>1 DEF OnCourse, Over, Restoring
  <2>3. CASE shell[s].at \in {"unit?", "stop"}
    <3>1. ~shell[s].stopped
      BY <2>3, <1>1 DEF OnCourse
    <3> QED  BY <2>2, <3>1, <1>u
  <2>4. CASE shell[s].at \notin {"unit?", "stop"}
    <3>1. Interrupt(s)
      BY <1>8, <2>4 DEF Stop, InterruptStop, CheckUnit, ShellAt
    <3> QED  BY <3>1, <2>2, <1>5, <1>u DEF Interrupt
  <2> QED  BY <2>3, <2>4
<1>9. CASE Restore(s)
  <2>1. tunnel # NoNode
    <3>1. ~(shell' = [shell EXCEPT ![s].at = "start",
                                   ![s].pairs = IF UNION marker # {} THEN UNION marker ELSE mapFile])
      BY <1>o, <1>t DEF ShellRecords
    <3> QED  BY <1>9, <3>1 DEF Restore
  <2>2. tunnel' # NoNode /\ marker' = marker
    BY <1>9, <2>1 DEF Restore, remote
  <2> QED  BY <2>2, <1>m DEF GivesBack, Recovers
<1>10. CASE Start(s)
  <2>1. tunnel # NoNode
    BY <1>10, <1>4, <1>o DEF Start
  <2>2. tunnel' # NoNode /\ marker' = marker
    BY <1>10, <2>1 DEF Start, remote
  <2> QED  BY <2>2, <1>m DEF GivesBack, Recovers
<1>11. CASE Launch(s)
  <2>1. Refused(s) /\ marker' = marker
    BY <1>11 DEF Launch, Refused
  <2> QED  BY <2>1, <1>k
<1>12. CASE AwaitReady(s) \/ Prove(s)
  <2>1. unit = "active" /\ unit' = unit /\ marker' = marker
    BY <1>12, <1>1 DEF AwaitReady, Prove, ShellAt, Brings, service
  <2> QED  BY <2>1, <1>k
<1>13. CASE Unmark(s)
  <2>1. unit = "active" /\ unit' = unit /\ shell[s].at = "unmark"
    BY <1>13, <1>1 DEF Unmark, ShellAt, Brings, service
  <2>2. shell[s].stopped \/ shell[s].cmd = "untunnel" => shell[s].had \subseteq Servable
    BY <2>1, <1>1 DEF Brings
  <2>3. Servable' = Servable
    BY <1>13 DEF Unmark, service, remote, Servable, Local
  <2>4. shell[s].cmd = "untunnel" => shell'[s].at = "ok"
    BY <1>13, <1>6 DEF Unmark
  <2> QED  BY <2>1, <2>2, <2>3, <2>4 DEF GivesBack, Recovers
<1>14. CASE ProbePort(s) \/ Ssh(s) \/ WriteState(s) \/ AwaitTunnel(s) \/ RestartBackend(s) \/ Recheck(s)
  <2>1. shell[s].cmd # "untunnel"
    BY <1>14, <1>1
       DEF ProbePort, Ssh, WriteState, AwaitTunnel, RestartBackend, Recheck, ShellAt, OnCourse,
           Over, Restoring
  <2>2. GivesUp(s) \/ Ended(s, "ok")
    <3>1. ~(shell' = [shell EXCEPT ![s].at = "state", ![s].opened = TRUE])
      BY <1>o, <1>t DEF ShellRecords
    <3>2. \A p \in {"ssh", "wait", "backend", "recheck"} : ~Goes(s, p)
      BY <1>o, <1>4
    <3> QED
      BY <1>14, <3>1, <3>2 DEF ProbePort, Ssh, WriteState, AwaitTunnel, RestartBackend, Recheck
  <2> QED  BY <2>1, <2>2, <1>5, <1>6, <1>u
<1>15. CASE Trap(s)
  <2>1. shell[s].cmd # "untunnel"
    BY <1>15, <1>1 DEF Trap, ShellAt, OnCourse, Over, Restoring
  <2>2. ~Goes(s, "restore")
    BY <1>o, <1>4
  <2>3. tunnel # NoNode /\ UNCHANGED tunnel
    BY <1>15, <2>2 DEF Trap
  <2> QED  BY <2>1, <2>3 DEF GivesBack, Recovers
<1>16. CASE Close(s) \/ Clean(s)
  <2>1. ~Goes(s, "clean") /\ ~Goes(s, "decide")
    BY <1>o, <1>4
  <2>2. tunnel # NoNode /\ UNCHANGED tunnel /\ marker' = marker
    BY <1>16, <2>1 DEF Close, Clean
  <2> QED  BY <2>2, <1>m DEF GivesBack, Recovers
<1>17. CASE Decide(s)
  <2>1. ~Goes(s, "restore")
    BY <1>o, <1>4
  <2>2. Ended(s, "ok") /\ (shell[s].asked \/ ~OwesRestore) /\ unit' = unit /\ marker' = marker
    BY <1>17, <2>1 DEF Decide, service
  <2>3. shell'[s].at = "ok"
    BY <2>2, <1>6
  <2>4. ~shell[s].asked => marker = {} /\ (unit' = "active" \/ ~Enabled)
    BY <2>2, FallbackAssumption DEF OwesRestore
  <2>5. GivesBack(s)
    BY <2>3 DEF GivesBack
  <2> QED  BY <2>2, <2>4, <2>5, <1>m DEF Recovers
<1>18. CASE ReadMap(s) \/ TruncateMap(s) \/ WriteMap(s) \/ PlanInstall(s) \/ CreateModel(s)
  <2>1. shell[s].at \in {"read", "truncate", "write", "plan", "create"}
    BY <1>18 DEF ReadMap, TruncateMap, WriteMap, PlanInstall, CreateModel, ShellAt
  <2>2. shell[s].cmd \notin {"tunnel", "untunnel"}
    BY <2>1, <1>1 DEF OnCourse, Restoring, Over
  <2> QED  BY <2>2, <1>t, <1>u
<1> HIDE DEF Good
<1> QED
  BY <1>7, <1>8, <1>9, <1>10, <1>11, <1>12, <1>13, <1>14, <1>15, <1>16, <1>17, <1>18 DEF ScriptStep

\* Only a script's own step makes it return.
LEMMA ReturnsItself ==
    ASSUME FallbackInv, [FallbackNext]_fallbackVars, NEW s \in Shells, Returns(s)
    PROVE  ScriptStep(s) \/ Interrupt(s) \/ InterruptStop(s)
<1>i. ShellsTyped
  BY DEF FallbackInv
<1>r. shell[s].at \notin Over /\ shell'[s].at \in {"ok", "failed"} /\ shell'[s].at # shell[s].at
  BY DEF Returns, Over
<1>0. FallbackNext
  BY <1>r DEF fallbackVars
<1>1. ASSUME NEW t \in Shells, Commands(t) PROVE FALSE
  <2>1. t # s
    BY <1>i, <1>1, <1>r, BeginStep
  <2>2. shell'[s].at = shell[s].at
    BY <1>i, <1>1, <1>r, <2>1, BeginStep DEF SameCourse
  <2> QED  BY <1>r, <2>2
<1>2. ASSUME NEW t \in Shells, t # s, ScriptStep(t) \/ Interrupt(t) \/ InterruptStop(t) PROVE FALSE
  <2>1. shell'[s] = shell[s]
    BY <1>i, <1>2, OwnStep
  <2> QED  BY <1>r, <2>1
<1>3. ASSUME \/ \E t \in Shells : Kill(t)
             \/ TunnelDrops \/ UnitCrashes \/ Retry \/ Reboot
             \/ \E n \in Nodes : SessionChanges(n)
             \/ \E has \in SUBSET Pairs : OllamaChanges(has)
      PROVE  FALSE
  <2>1. shell'[s].at = shell[s].at \/ shell'[s].at \in {"idle", "killed"}
    BY <1>i, <1>3, EventStep DEF SameCourse
  <2> QED  BY <1>r, <2>1
<1> QED  BY <1>0, <1>1, <1>2, <1>3, StepKinds

\* After a failed start and after a stop alike the VM's service is up unless it
\* refuses to start, and what was served when it was marked is served again or is
\* still on record, when the script ran alone (restore_local_on_failure,
\* stop_finetuned_tunnel.sh).
THEOREM ServiceReturns == FallbackSpec => ServiceComesBack
<1>1. FallbackInv /\ [FallbackNext]_fallbackVars => [FailedStartReturns /\ StopRecovers]_fallbackVars
  <2> SUFFICES ASSUME FallbackInv, [FallbackNext]_fallbackVars
               PROVE  FailedStartReturns /\ StopRecovers
    OBVIOUS
  <2>1. ASSUME NEW s \in Shells, Returns(s) PROVE GivesBack(s) /\ Recovers(s)
    <3>1. ScriptStep(s) \/ Interrupt(s) \/ InterruptStop(s)
      BY <2>1, ReturnsItself
    <3> QED  BY <2>1, <3>1, OwnStepReturns
  <2>2. FailedStartReturns
    BY <2>1 DEF FailedStartReturns, GivesBack
  <2>3. StopRecovers
    BY <2>1 DEF StopRecovers, Recovers
  <2> QED  BY <2>2, <2>3
<1> QED  BY <1>1, FallbackInvHolds, PTL DEF FallbackSpec, ServiceComesBack

=============================================================================
