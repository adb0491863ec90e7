--------------------------- MODULE SlotAllocation --------------------------
(***************************************************************************)
(* How a starter run shares its question slots among the facts of a        *)
(* syllabus: every fact wants a number of slots, the best facts are given  *)
(* one each (breadth), then those that want more are given more (depth),   *)
(* under caps that keep one chunk, one kind of fact or one series from     *)
(* filling the dataset.                                                    *)
(*                                                                         *)
(* Scores are in units of 1/10000 and the attributes of a fact in percent. *)
(* A fact is known by its position in the order of factId.                 *)
(***************************************************************************)
EXTENDS Integers, FiniteSets

CONSTANTS
    FactIds,      \* the facts, numbered in the order of their identifiers
    Inventories,  \* the inventories considered: functions from FactIds to Facts
    Chunks, Series,
    MaxTarget     \* MAX_STARTER_TARGET_COUNT

Kinds == {"late_work", "attendance", "grading", "accommodation", "contact", "communication",
          "requirement", "policy", "office_hours", "exam", "submission", "team_project",
          "tools", "deadline", "resource", "other"}
Scopes == {"course_wide", "assignment_specific", "schedule", "resource", "other"}

Facts == [usefulness : 0 .. 100, importanceScore : 0 .. 100, ask : 0 .. 100,
          importance : {"high", "medium", "low"}, complexity : Nat \ {0},
          kind : Kinds, scope : Scopes,
          series : SUBSET Series,      \* at most one: _series_key
          chunk : SUBSET Chunks]       \* at most one: _primary_source_chunk

ASSUME AllocationAssumption ==
    /\ FactIds \subseteq Nat /\ IsFiniteSet(FactIds)
    /\ Inventories \subseteq [FactIds -> Facts]
    /\ MaxTarget \in Nat

VARIABLES
    target,       \* target_count
    fact,         \* the inventory
    candidates,   \* the facts to share slots among
    slots,        \* slotCount of each candidate
    kindCount, seriesCount, chunkCount,
    allocated,    \* allocated_total
    courseWide,   \* course_wide_allocated
    pass          \* the pass under way

allocationVars == <<target, fact, candidates, slots, kindCount, seriesCount, chunkCount, allocated,
                    courseWide, pass>>

Least(a, b) == IF a < b THEN a ELSE b
Most(a, b) == IF a < b THEN b ELSE a

MaxSlotsPerFact == 3

---------------------------------------------------------------------------
(* What a fact is worth and what it wants.                                 *)

ScopePrior(scope) ==
    CASE scope = "course_wide" -> 1200 [] scope = "assignment_specific" -> 0
      [] scope = "schedule" -> -500 [] scope = "resource" -> -1000 [] OTHER -> -200

KindPrior(kind) ==
    CASE kind = "late_work" -> 1000
      [] kind \in {"attendance", "grading", "accommodation"} -> 800
      [] kind \in {"contact", "communication"} -> 600
      [] kind \in {"requirement", "policy", "submission"} -> 500
      [] kind \in {"office_hours", "exam"} -> 400
      [] kind = "team_project" -> 200 [] kind = "deadline" -> -200
      [] kind = "resource" -> -800 [] OTHER -> 0

\* compute_ranking_score
Rank(f) ==
    LET sum == 35 * f.usefulness + 25 * f.importanceScore + 20 * f.ask
               + 250 * Least(4, f.complexity - 1) + ScopePrior(f.scope) + KindPrior(f.kind)
    IN  Most(0, Least(10000, sum))

MinEligibleRank == 3800

IsResource(f) == f.scope = "resource" \/ f.kind = "resource"
MultiSlotKinds == {"late_work", "attendance", "policy", "accommodation", "grading", "requirement"}

\* What the conditions and exceptions of a fact justify.
Justified(f) ==
    LET complex ==
            IF f.complexity >= 3 /\ f.usefulness >= 55 THEN Least(MaxSlotsPerFact, 1 + f.complexity \div 2)
            ELSE IF f.complexity >= 2 /\ (f.ask >= 65 \/ f.usefulness >= 65) THEN 2 ELSE 1
    IN  IF f.kind \in MultiSlotKinds /\ f.complexity >= 2
        THEN Most(complex, Least(MaxSlotsPerFact, f.complexity)) ELSE complex

\* compute_desired_slots
Desired(f) ==
    CASE \/ IsResource(f) /\ (f.usefulness < 50 \/ f.importance = "low" \/ f.ask < 40)
         \/ Rank(f) < MinEligibleRank -> 0
      [] OTHER -> IF \/ f.kind \in {"contact", "office_hours", "deadline"} /\ f.complexity <= 1
                     \/ IsResource(f)
                  THEN 1 ELSE Justified(f)

Wants(id) == Desired(fact[id])

---------------------------------------------------------------------------
(* compute_allocation_caps.                                                *)

RatioCap(percent) == IF target = 0 THEN 0 ELSE Most(1, (target * percent) \div 100)

PerSourceChunk == Most(MaxSlotsPerFact, RatioCap(12))
PerSeries == RatioCap(18)
KindCap(kind) == IF kind = "deadline" THEN Least(RatioCap(22), RatioCap(25)) ELSE RatioCap(22)
CourseWideReserve == RatioCap(30)

---------------------------------------------------------------------------
(* The two passes.                                                         *)

\* What is shared among whom is the caller's choice.
AllocationInit ==
    /\ target \in 0 .. MaxTarget /\ fact \in Inventories /\ candidates \in SUBSET FactIds
    /\ slots = [id \in FactIds |-> 0]
    /\ kindCount = [k \in Kinds |-> 0]
    /\ seriesCount = [s \in Series |-> 0]
    /\ chunkCount = [c \in Chunks |-> 0]
    /\ allocated = 0 /\ courseWide = 0
    /\ pass = "breadth"

\* _cap_blockers.  The caps on scopes are never reached: the breadth pass does
\* not enforce them and the depth pass returns before it looks at them.
Blocked(id) ==
    \/ \E c \in fact[id].chunk : chunkCount[c] >= PerSourceChunk
    \/ /\ slots[id] = 0
       /\ \/ kindCount[fact[id].kind] >= KindCap(fact[id].kind)
          \/ \E s \in fact[id].series : seriesCount[s] >= PerSeries

\* Mutant: a fact that has a slot is due in the breadth pass too.
DueAlways(id) == slots[id] < Wants(id)

\* Whose turn the pass makes it.
Due(id) == slots[id] < Wants(id) /\ (pass = "breadth" <=> slots[id] = 0)

Competes(id) == Due(id) /\ ~Blocked(id)

\* _effective_score, in hundredths of a score: less for each further slot, more
\* for a course-wide fact until the reserve is met.
Score(id) ==
    LET factor == CASE slots[id] = 0 -> 100 [] slots[id] = 1 -> 85 [] OTHER -> 70 IN
    Rank(fact[id]) * factor
      + IF courseWide < CourseWideReserve /\ fact[id].scope = "course_wide" /\ slots[id] = 0
        THEN 1000000 ELSE 0

Better(a, b) ==
    \/ Score(a) > Score(b)
    \/ Score(a) = Score(b) /\ Rank(fact[a]) > Rank(fact[b])
    \/ Score(a) = Score(b) /\ Rank(fact[a]) = Rank(fact[b]) /\ a < b

Count(counter, keys) == [k \in DOMAIN counter |-> counter[k] + IF k \in keys THEN 1 ELSE 0]

Room == allocated < target

\* One round of _fill_pass, and _commit_slot.
CommitSlot(id) ==
    /\ pass \in {"breadth", "depth"} /\ Room
    /\ Competes(id) /\ \A other \in candidates \ {id} : Competes(other) => Better(id, other)
    /\ slots' = [slots EXCEPT ![id] = @ + 1]
    /\ allocated' = allocated + 1
    /\ kindCount' = Count(kindCount, {fact[id].kind})
    /\ seriesCount' = Count(seriesCount, fact[id].series)
    /\ chunkCount' = Count(chunkCount, fact[id].chunk)
    /\ courseWide' = courseWide + IF fact[id].scope = "course_wide" THEN 1 ELSE 0
    /\ UNCHANGED <<target, fact, candidates, pass>>

\* The pass ends when the target is met or nobody competes.
PassEnds ==
    /\ pass \in {"breadth", "depth"}
    /\ ~Room \/ \A id \in candidates : ~Competes(id)
    /\ pass' = IF pass = "breadth" THEN "depth" ELSE "allocated"
    /\ UNCHANGED <<target, fact, candidates, slots, kindCount, seriesCount, chunkCount, allocated, courseWide>>

Allocate == PassEnds \/ \E id \in candidates : CommitSlot(id)

AllocationSpec == AllocationInit /\ [][Allocate]_allocationVars

---------------------------------------------------------------------------
(* Properties.                                                             *)

AllocationTypeOK ==
    /\ target \in 0 .. MaxTarget /\ fact \in Inventories /\ candidates \in SUBSET FactIds
    /\ slots \in [FactIds -> 0 .. MaxSlotsPerFact]
    /\ kindCount \in [Kinds -> Nat] /\ seriesCount \in [Series -> Nat] /\ chunkCount \in [Chunks -> Nat]
    /\ allocated \in Nat /\ courseWide \in Nat
    /\ pass \in {"breadth", "depth", "allocated"}

Admitted == {id \in FactIds : slots[id] > 0}

\* No fact is given more than it wants, nor all of them together more than the
\* target (allocate_slots).
NobodyOverfed == allocated <= target /\ \A id \in FactIds : slots[id] <= Wants(id)

\* One kind of fact, or one series, does not flood the dataset with many
\* distinct facts, although the depth pass adds slots without looking at these
\* caps (_cap_blockers).
NoKindFloods ==
    /\ \A k \in Kinds : Cardinality({id \in Admitted : fact[id].kind = k}) <= KindCap(k)
    /\ \A s \in Series : Cardinality({id \in Admitted : s \in fact[id].series}) <= PerSeries

\* Nobody is given a second slot while a fact that wants one, and that no cap
\* holds back, has none (allocate_slots: "additional slots only after breadth").
BreadthFirst ==
    (\E id \in FactIds : slots[id] >= 2)
        => \A id \in candidates : slots[id] = 0 => Wants(id) = 0 \/ Blocked(id)

=============================================================================
