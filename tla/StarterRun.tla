----------------------------- MODULE StarterRun ----------------------------
(***************************************************************************)
(* One starter run of a course: the slots are allocated, every allocated   *)
(* slot becomes an opportunity to ask the model for one question, unused   *)
(* slots and facts back them up, and candidates are drawn, checked and     *)
(* validated until the run has what it is short of, or its calls are       *)
(* spent.  A top-up counts what the course already holds.                  *)
(*                                                                         *)
(* What the model answers is chosen freely; a candidate has the question   *)
(* type that was asked for.                                                *)
(***************************************************************************)
EXTENDS SlotAllocation, Sequences, SequencesExt

CONSTANTS
    TargetCount,     \* target_count of the request
    Budget,          \* STARTER_MAX_TOTAL_OLLAMA_CALLS
    InventoryCalls,  \* the numbers of calls that building the inventory may take
    MaxStored        \* a bound: seeds the course may hold before a top-up

ASSUME RunAssumption ==
    /\ TargetCount \in Nat \ {0} /\ TargetCount <= MaxTarget /\ Budget \in Nat \ {0} /\ MaxStored \in Nat
    /\ InventoryCalls \subseteq Nat

VARIABLES
    topUp, stored, storedScenarios, covered,  \* what the run found in the course
    phase,           \* allocate, generate, save; ready, partial, failed, error
    todo,            \* opportunities
    next, attempt,   \* where the run is in them
    accepted, scenarios, failedFacts,
    calls, timeouts,
    saved,
    refused          \* history: an opportunity that was tried gave nothing at its first attempt

found == <<topUp, stored, storedScenarios, covered>>
progress == <<next, attempt, accepted, scenarios, failedFacts, calls, timeouts, refused>>
runVars == <<allocationVars, found, phase, todo, progress, saved>>

Attempts == 2    \* STARTER_FACT_GENERATION_ATTEMPTS

\* generate_starter_seeds_for_course up to the allocation: a top-up prefers the
\* facts that no stored seed is about.
RunInit ==
    /\ topUp \in BOOLEAN
    /\ covered \in IF topUp THEN SUBSET FactIds ELSE {{}}
    /\ stored \in IF topUp THEN Cardinality(covered) .. MaxStored ELSE {0}
    /\ storedScenarios \in {0, stored}
    /\ target = Most(0, TargetCount - stored)   \* missing_count, or all of it
    /\ candidates = IF FactIds \subseteq covered THEN FactIds ELSE FactIds \ covered
    /\ AllocationInit
    /\ phase = IF target = 0 THEN "ready" ELSE "allocate"
    /\ todo = <<>> /\ next = 1 /\ attempt = 1
    /\ accepted = 0 /\ scenarios = 0 /\ failedFacts = {}
    /\ calls \in InventoryCalls /\ timeouts = 0 /\ saved = 0 /\ refused = FALSE

---------------------------------------------------------------------------
(* The opportunities.                                                      *)

ByRank(a, b) == Rank(fact[a]) > Rank(fact[b]) \/ (Rank(fact[a]) = Rank(fact[b]) /\ a < b)

Opportunity(id, width) == [fact |-> id, width |-> width]
Repeated(opportunity, times) == [i \in 1 .. times |-> opportunity]

\* The elements of S, each once, in an order.
InOrder(S, Before(_, _)) ==
    CHOOSE order \in [1 .. Cardinality(S) -> S] :
        \A i, j \in 1 .. Cardinality(S) : i < j => Before(order[i], order[j])

Primary ==
    LET order == InOrder(Admitted, ByRank)
    IN  FlattenSeq([i \in DOMAIN order |-> Repeated(Opportunity(order[i], slots[order[i]]), slots[order[i]])])

\* starter_backfill_limit
BackfillLimit == Most(2 * target, 6)

\* _backfill_unused_slots: what the facts wanted and were not given, ...
Unused ==
    LET order == InOrder({id \in candidates : Wants(id) > slots[id]}, ByRank)
        all == FlattenSeq([i \in DOMAIN order |->
                              Repeated(Opportunity(order[i], 1), Wants(order[i]) - slots[order[i]])])
    IN  SubSeq(all, 1, Least(BackfillLimit, Len(all)))

\* ... then, on a top-up, the facts that already have a seed.
CoveredAgain ==
    LET order == InOrder(covered \ candidates, LAMBDA a, b : a < b)
    IN  [i \in 1 .. Least(Len(order), BackfillLimit - Len(Unused)) |-> Opportunity(order[i], 1)]

Plan ==
    /\ phase = "allocate" /\ pass = "allocated"
    /\ phase' = "generate"
    /\ todo' = Primary \o Unused \o CoveredAgain
    /\ UNCHANGED <<allocationVars, found, progress, saved>>

---------------------------------------------------------------------------
(* Balance: a share of the questions should be scenarios.                  *)

\* fact_supports_scenario_like_style, from suggest_question_styles
SupportsScenario(id, width) ==
    LET f == fact[id] IN
    \/ f.kind \in {"late_work", "attendance", "policy", "accommodation"} /\ (f.complexity >= 2 \/ width >= 2)
    \/ /\ f.kind \notin {"late_work", "attendance", "policy", "accommodation", "contact",
                         "office_hours", "deadline", "communication"}
       /\ width >= 2

Eligible(o) == SupportsScenario(o.fact, o.width)

\* achievable_ceiling, achievable_total_count
Ceiling == Least(target, allocated)
CeilingOfCourse == stored + Ceiling

\* compute_scenario_minimum
ScenarioMinimum(count) == Most(1, (30 * count + 99) \div 100)

EligibleFrom(i) == Cardinality({j \in i .. Len(todo) : Eligible(todo[j])})

\* should_prefer_scenario_or_clarification
PrefersScenario(o) ==
    LET owed == ScenarioMinimum(CeilingOfCourse) - (storedScenarios + scenarios)
        remaining == Ceiling - accepted
    IN  /\ Eligible(o) /\ remaining > 0 /\ owed > 0
        /\ owed >= Least(remaining, EligibleFrom(next))

---------------------------------------------------------------------------
(* The loop.                                                               *)

HasBudget == calls < Budget
RunIsOver == accepted >= target \/ ~HasBudget \/ next > Len(todo)
NextOpportunity == next' = next + 1 /\ attempt' = 1

\* Mutant: the validation is not held to the budget.
MayValidateAlways == TRUE

MayValidate == calls + 1 < Budget

Skip ==
    /\ phase = "generate" /\ ~RunIsOver
    /\ todo[next].fact \in failedFacts \/ fact[todo[next].fact].chunk = {}
    /\ NextOpportunity
    /\ UNCHANGED <<allocationVars, found, phase, todo, accepted, scenarios, failedFacts, calls, timeouts,
                   saved, refused>>

Tries ==
    /\ phase = "generate" /\ ~RunIsOver
    /\ todo[next].fact \notin failedFacts /\ fact[todo[next].fact].chunk # {}

\* The candidate passes every check and the validation.
Accept ==
    /\ Tries /\ MayValidate
    /\ accepted' = accepted + 1
    /\ scenarios' = scenarios + IF PrefersScenario(todo[next]) THEN 1 ELSE 0
    /\ calls' = calls + 2
    /\ NextOpportunity
    /\ UNCHANGED <<allocationVars, found, phase, todo, failedFacts, timeouts, saved, refused>>

\* Nothing usable came back: no candidate, one that fails a check (one call), or
\* one that the validation refuses or does not answer about (two).  A second
\* attempt is made while there is budget; then the fact is given up.
Reject(cost, late) ==
    /\ Tries
    /\ cost = 2 => MayValidate
    /\ calls' = calls + cost /\ timeouts' = timeouts + late
    /\ refused' = TRUE
    /\ IF attempt < Attempts /\ calls' < Budget
       THEN attempt' = attempt + 1 /\ UNCHANGED <<next, failedFacts>>
       ELSE NextOpportunity /\ failedFacts' = failedFacts \cup {todo[next].fact}
    /\ UNCHANGED <<allocationVars, found, phase, todo, accepted, scenarios, saved>>

\* The generation times out or is refused: the fact is given up at once.
HardFailure(late) ==
    /\ Tries
    /\ calls' = calls + 1 /\ timeouts' = timeouts + late
    /\ failedFacts' = failedFacts \cup {todo[next].fact}
    /\ refused' = TRUE
    /\ NextOpportunity
    /\ UNCHANGED <<allocationVars, found, phase, todo, accepted, scenarios, saved>>

\* Ollama is unavailable: the run is abandoned, with what it had accepted.
Unavailable ==
    /\ Tries
    /\ phase' = "error"
    /\ calls' = calls + 1
    /\ UNCHANGED <<allocationVars, found, todo, next, attempt, accepted, scenarios, failedFacts,
                   timeouts, saved, refused>>

---------------------------------------------------------------------------
(* The end of the run.                                                     *)

\* Mutant: what was accepted counts, saved or not.
StatusUnsaved(final, kept) == IF final >= TargetCount THEN "ready" ELSE "partial"

\* resolve_starter_run_status with save
Status(final, kept) ==
    IF final >= TargetCount /\ kept >= TargetCount THEN "ready"
    ELSE IF final > 0 \/ kept > 0 THEN "partial" ELSE "failed"

\* persist_accepted_seeds: a seed that the course has come to hold meanwhile, or
\* that cannot be written, is left out.
FinishRun ==
    /\ phase = "generate" /\ RunIsOver
    /\ saved' \in 0 .. accepted
    /\ phase' = IF accepted = 0 /\ timeouts > 0 /\ stored = 0 THEN "error"
                ELSE Status(stored + IF topUp THEN saved' ELSE accepted, stored + saved')
    /\ UNCHANGED <<allocationVars, found, todo, progress>>

\* resolve_limiting_factor
LimitingFactor ==
    CASE accepted >= target -> "none"
      [] accepted < target /\ timeouts > 0 /\ accepted = 0 -> "timeouts"
      [] accepted < target /\ ~(timeouts > 0 /\ accepted = 0) /\ ~HasBudget -> "call_budget"
      [] OTHER -> IF allocated >= target THEN "validation_rejections"
                  ELSE IF Cardinality(FactIds) * MaxSlotsPerFact < target THEN "fact_inventory"
                  ELSE "allocation_caps"

RunNext ==
    \/ phase = "allocate" /\ Allocate /\ UNCHANGED <<found, phase, todo, progress, saved>>
    \/ Plan \/ Skip \/ Accept \/ Unavailable \/ FinishRun
    \/ Reject(1, 0) \/ \E late \in {0, 1} : Reject(2, late) \/ HardFailure(late)

RunSpec == RunInit /\ [][RunNext]_runVars

Ended == phase \in {"ready", "partial", "failed", "error"}

---------------------------------------------------------------------------
(* Properties.                                                             *)

RunTypeOK ==
    /\ AllocationTypeOK
    /\ next \in 1 .. Len(todo) + 1 /\ attempt \in 1 .. Attempts
    /\ failedFacts \subseteq FactIds /\ accepted \in Nat /\ scenarios \in 0 .. accepted

\* A run never takes a course past the target it was asked for, whatever it
\* found there, and never spends more calls than the budget unless the inventory
\* alone did (generate_starter_seeds_for_course).
StaysWithinBounds ==
    /\ accepted > 0 => stored + accepted <= TargetCount
    /\ calls <= Budget \/ calls \in InventoryCalls

AllocationIsFair == RunTypeOK /\ NobodyOverfed /\ NoKindFloods /\ BreadthFirst

\* A run is called ready only when the course really holds what was asked for,
\* and a run whose calls were not spent, that is short of its target and that
\* asked for enough slots has tried every opportunity it had
\* (resolve_starter_run_status, resolve_limiting_factor).
StatusIsHonest ==
    /\ phase = "ready" => stored + saved >= TargetCount
    /\ Ended /\ phase # "error" /\ target > 0 /\ LimitingFactor = "validation_rejections"
        => next > Len(todo) /\ (refused \/ \E id \in FactIds : fact[id].chunk = {})

\* What a run promises the course and reports of itself.
RunKeepsItsWord == StaysWithinBounds /\ StatusIsHonest

\* When every candidate that is asked for is accepted, the course ends with the
\* scenarios it needs, or with as many as it was reported able to hold
\* (seed_generation.py scenario_achievable).
ScenarioAchievable ==
    Least(storedScenarios + Least(EligibleFrom(1), Ceiling), CeilingOfCourse)

ScenariosConverge ==
    Ended /\ phase # "error" /\ ~refused /\ ~topUp /\ accepted = target
        => storedScenarios + scenarios >= Least(ScenarioMinimum(CeilingOfCourse), ScenarioAchievable)

=============================================================================
