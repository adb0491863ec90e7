--------------------------- MODULE SyllabusFacts ---------------------------
(***************************************************************************)
(* How the fact inventory of a syllabus is built: its chunks are packed    *)
(* into batches, the model extracts facts from each, what it says is       *)
(* verified against the chunks, policies it missed are salvaged, and facts *)
(* that say the same are merged.  When no batch yields anything, facts are *)
(* taken from the sentences themselves.                                    *)
(*                                                                         *)
(* A text is the set of its phrases: one contains another when it has all  *)
(* its phrases, and the longer has more of them, a phrase for about a      *)
(* dozen characters.  Marks are in percent.                                *)
(***************************************************************************)
EXTENDS CandidateChecks, Sequences, SequencesExt

CONSTANTS
    Syllabi,      \* sequences of chunks: id, section, size and sentences
    RawFacts,     \* what the model may answer
    CharBudget, MaxFacts,
    Phrases,
    Foreign,      \* the phrases without a letter from a to z, of which a key keeps nothing
    Topic(_)      \* of a statement: facts of one topic have similar embeddings

\* What else the patterns tell apart: a link, a welcome, somebody to write to, and
\* a policy in other words than late and extension ("one per quarter").
Marks == {"link", "welcome", "contact", "one_per"}

\* Chunks have an id each, and no sentence is empty.
ASSUME FactsAssumption ==
    /\ CharBudget \in Nat \ {0} /\ MaxFacts \in Nat \ {0}
    /\ IsFiniteSet(Phrases) /\ Cues \cup Marks \cup Foreign \subseteq Phrases
    /\ \A s \in Syllabi :
        /\ s \in Seq(ToSet(s)) /\ \A i, j \in DOMAIN s : s[i].id = s[j].id => i = j
        /\ \A i \in DOMAIN s : s[i].sentences \in Seq((SUBSET Phrases) \ {{}})
    /\ \A answers \in RawFacts :
        /\ answers \in Seq(ToSet(answers))
        /\ \A raw \in ToSet(answers) : /\ raw.statement \subseteq Phrases /\ raw.quote \subseteq Phrases
                                      /\ {raw.importance, raw.ask, raw.complexity} \subseteq Int

VARIABLES
    syllabus,
    stage,       \* extract, salvage, merge, semantic, finalize, done
    batch,       \* the next batch
    report,      \* the number of batches with each outcome
    facts,
    dropped,     \* droppedCount
    fallback,    \* fallbackUsed
    unkeyed      \* history: the merge met a fact without a key

inventoryVars == <<syllabus, stage, batch, report, facts, dropped, fallback, unkeyed>>

Larger(a, b) == IF a < b THEN b ELSE a
Smaller(a, b) == IF a < b THEN a ELSE b
SumOf(sizes) == FoldLeft(+, 0, sizes)
TextOf(chunk) == UNION ToSet(chunk.sentences)

---------------------------------------------------------------------------
(* The batches.                                                            *)

\* build_section_groups: consecutive chunks of one section.
Grouped(groups, chunk) ==
    IF groups # <<>> /\ Last(groups)[1].section = chunk.section
    THEN Front(groups) \o <<Append(Last(groups), chunk)>> ELSE Append(groups, <<chunk>>)
Groups == FoldLeft(Grouped, <<>>, syllabus)

SizeOf(chunks) == SumOf([i \in DOMAIN chunks |-> chunks[i].size])

\* Whole pieces are put together while they fit.
Packed(packs, piece) ==
    IF packs # <<>> /\ SizeOf(Last(packs) \o piece) <= CharBudget
    THEN Front(packs) \o <<Last(packs) \o piece>> ELSE Append(packs, piece)

PackedAll(pieces) == FoldLeft(Packed, <<>>, pieces)

\* _split_group_to_budget
SplitToBudget(group) == PackedAll([i \in DOMAIN group |-> <<group[i]>>])

\* batch_section_groups
Batches == PackedAll(FlattenSeq([i \in DOMAIN Groups |-> SplitToBudget(Groups[i])]))

---------------------------------------------------------------------------
(* One sentence.                                                           *)

\* MIN_STATEMENT_CHARS and MIN_EVIDENCE_CHARS, and the lengths of _is_boilerplate.
ShortText == 2
ShortSentence == 3
ShortLink == 5

StatementKey(text) == text \ Foreign   \* _normalize_statement_key and _token_set

Consequence(text) == Says(text, {"must", "due", "penalty", "extension"})        \* _CONSEQUENCE_TERMS
HighValue(text) == Says(text, {"must", "due", "penalty", "extension", "contact"})
LowValue(text) == Says(text, {"optional", "welcome"})

\* _is_boilerplate
Boilerplate(text) ==
    \/ "link" \in text /\ Cardinality(text) < ShortLink
    \/ "welcome" \in text
    \/ Cardinality(text) < ShortSentence /\ ~HighValue(text)

\* _is_response_time_text: how soon somebody writes back, in hours or days.
ResponseTime(text) ==
    /\ "extension" \notin text
    /\ "promise" \in text \/ {"nudge", "within"} \subseteq text

IsPolicy(text) == Says(text, {"extension", "one_per"}) /\ ~ResponseTime(text)

---------------------------------------------------------------------------
(* One fact.                                                               *)

Chunk(id) == CHOOSE c \in ToSet(syllabus) : c.id = id
Ids == {c.id : c \in ToSet(syllabus)}
ImportanceValue == [high |-> 90, medium |-> 60, low |-> 30]

\* _coerce_importance, _coerce_unit_float and _coerce_complexity of a number; a
\* number above one is a percentage.
CoercedImportance(n) == IF n >= 75 THEN "high" ELSE IF n >= 45 THEN "medium" ELSE "low"
CoercedUnit(n) == Larger(0, Smaller(100, n))
CoercedComplexity(n) == Larger(1, Smaller(10, n))

\* verify_evidence_quote: the chunks named, or else the first one that has it.
VerifiedIn(quote, ids) ==
    LET within == {id \in ids \cap Ids : quote \subseteq TextOf(Chunk(id))}
        found == {i \in DOMAIN syllabus : quote \subseteq TextOf(syllabus[i])}
    IN  IF Cardinality(quote) < ShortText THEN {} ELSE IF within # {} THEN within
        ELSE IF found = {} THEN {} ELSE {syllabus[Min(found)].id}

\* normalize_fact
Verified(raw) == VerifiedIn(raw.quote, raw.ids)
Usable(raw) ==
    /\ Cardinality(raw.statement) >= ShortText
    /\ Verified(raw) # {} /\ Overstates(raw.statement, raw.quote) = "none"
NormalizedFact(raw) ==
    [statement |-> raw.statement, quote |-> raw.quote, sources |-> Verified(raw),
     importance |-> CoercedImportance(raw.importance), ask |-> CoercedUnit(raw.ask),
     complexity |-> CoercedComplexity(raw.complexity), kind |-> raw.kind, scope |-> raw.scope]

\* Of the answers to one batch, those that can be used.
UsableFacts(answers) ==
    FoldLeft(LAMBDA good, raw : IF Usable(raw) THEN Append(good, NormalizedFact(raw)) ELSE good, <<>>, answers)

TextsOf(f) == f.statement \cup f.quote

\* calibrate_importance
CalibratedImportance(f) ==
    LET text == TextsOf(f)
        justified == f.kind \in {"grading", "late_work", "attendance", "accommodation", "policy", "exam"}
                     \/ Consequence(text)
        routine == f.kind = "tools" \/ (f.kind = "deadline" /\ f.scope = "assignment_specific")
    IN  CASE IsPolicy(text) -> "high"
          [] ~IsPolicy(text) /\ (f.scope = "resource" \/ f.kind = "resource") ->
                 IF Consequence(text) THEN "medium" ELSE "low"
          [] OTHER -> IF f.importance = "high" /\ (routine \/ ~justified) THEN "medium" ELSE f.importance

\* compute_usefulness_score, in units of 1/10000
Adjustment(text) ==
    (IF HighValue(text) THEN 500 ELSE 0) - (IF LowValue(text) \/ "link" \in text THEN 500 ELSE 0)
Usefulness(f) ==
    LET sum == 55 * ImportanceValue[f.importance] + 35 * f.ask + 100 * Smaller(10, 3 * (f.complexity - 1))
               + Adjustment(TextsOf(f)) - (IF f.scope = "resource" THEN 1500 ELSE 0)
    IN  Larger(0, Smaller(10000, sum))

---------------------------------------------------------------------------
(* Facts that say the same.                                                *)

\* Mutant: the quote is taken over and its chunk is not.
AbsorbedQuote(f, other) ==
    [f EXCEPT !.quote = IF Cardinality(other.quote) > Cardinality(@) THEN other.quote ELSE @]

\* _absorb_fact
Absorbed(f, other) ==
    LET stronger == ImportanceValue[other.importance] > ImportanceValue[f.importance] IN
    [f EXCEPT !.sources = @ \cup other.sources,
              !.importance = IF stronger THEN other.importance ELSE @,
              !.kind = IF stronger THEN other.kind ELSE @,
              !.scope = IF stronger THEN other.scope ELSE @,
              !.ask = Larger(@, other.ask),
              !.complexity = Larger(@, other.complexity),
              !.quote = IF Cardinality(other.quote) > Cardinality(@) THEN other.quote ELSE @]

\* A fact goes into the first of those kept that it repeats, or is kept itself.
MergedInto(kept, f, repeated) ==
    IF repeated = {} THEN Append(kept, f) ELSE [kept EXCEPT ![Min(repeated)] = Absorbed(@, f)]

Pairs == (DOMAIN facts) \X (DOMAIN facts)

\* sorted: the places of the facts, those that come before fewer others later.
Ranked(earlier) ==
    [n \in DOMAIN facts |->
        CHOOSE i \in DOMAIN facts : Cardinality({other \in DOMAIN facts : <<other, i>> \in earlier}) = n - 1]

\* merge_facts
Repeats(f, other) ==
    \/ StatementKey(f.statement) = StatementKey(other.statement)
    \/ /\ f.sources \cap other.sources # {}
       /\ StatementKey(f.statement) \subseteq StatementKey(other.statement) \/ StatementKey(other.statement) \subseteq StatementKey(f.statement)
LongestFirst ==
    LET Length(i) == Cardinality(facts[i].statement)
    IN  Ranked({p \in Pairs : \/ Length(p[1]) > Length(p[2])
                              \/ Length(p[1]) = Length(p[2]) /\ p[1] < p[2]})
Merged ==   \* a fact without a key is dropped
    FoldLeft(LAMBDA kept, i :
                 IF StatementKey(facts[i].statement) = {} THEN kept
                 ELSE MergedInto(kept, facts[i], {k \in DOMAIN kept : Repeats(kept[k], facts[i])}),
             <<>>, LongestFirst)

\* semantic_merge_facts
Weighs(f) == <<ImportanceValue[f.importance], f.ask, Cardinality(f.statement)>>
Outweighs(f, other) ==
    \E i \in 1 .. 3 : Weighs(f)[i] > Weighs(other)[i] /\ \A j \in 1 .. i - 1 : Weighs(f)[j] = Weighs(other)[j]
WeightiestFirst ==
    Ranked({p \in Pairs : \/ Outweighs(facts[p[1]], facts[p[2]])
                          \/ ~Outweighs(facts[p[2]], facts[p[1]]) /\ p[1] < p[2]})
SemanticMerged ==
    LET About(f) == Topic(f.statement)
    IN  FoldLeft(LAMBDA kept, i : MergedInto(kept, facts[i], {k \in DOMAIN kept : About(kept[k]) = About(facts[i])}),
                 <<>>, WeightiestFirst)

---------------------------------------------------------------------------
(* Facts without a model.                                                  *)

Sentences == FlattenSeq([i \in DOMAIN syllabus |->
                 [j \in DOMAIN syllabus[i].sentences |->
                     [text |-> syllabus[i].sentences[j], id |-> syllabus[i].id]]])

\* _policy_already_covered: a fact contains it or is contained in it, or they share
\* more than half of their words.
OneInOther(old, text) == StatementKey(old) \subseteq StatementKey(text) \/ StatementKey(text) \subseteq StatementKey(old)
SharesMost(old, text) ==
    /\ "extension" \in text
    /\ 100 * Cardinality(StatementKey(old) \cap StatementKey(text)) >= 55 * Cardinality(StatementKey(old) \cup StatementKey(text))
Covered(pool, text) ==
    \E i \in DOMAIN pool : \E old \in {pool[i].statement, pool[i].quote} :
        OneInOther(old, text) \/ SharesMost(old, text)

FromSentence(s, importance, ask, complexity, kind, scope) ==
    [statement |-> s.text, quote |-> s.text, sources |-> VerifiedIn(s.text, {s.id}), importance |-> importance,
     ask |-> ask, complexity |-> complexity, kind |-> kind, scope |-> scope]

\* salvage_late_work_policy_facts
PolicyFact(s) ==
    FromSentence(s, "high", 90, 1 + Cardinality(s.text \cap {"condition", "exception", "limit", "one_per"}),
                 "late_work", "course_wide")
\* A sentence is always found in the chunk it is from.
Salvageable(text) ==
    /\ Cardinality(text) >= ShortText /\ IsPolicy(text) /\ ~Boilerplate(text)
    /\ Overstates(text, text) = "none"
Salvaged(pool) ==
    FoldLeft(LAMBDA found, s : IF Salvageable(s.text) /\ ~Covered(pool \o found, s.text)
                               THEN Append(found, PolicyFact(s)) ELSE found,
             <<>>, Sentences)

\* Of some sentences those that are wanted.
Among(sentences, wanted) ==
    FoldLeft(LAMBDA found, text : IF text \in wanted THEN Append(found, text) ELSE found, <<>>, sentences)

\* build_heuristic_fallback_inventory: of each chunk the valuable sentences, or
\* else its first substantive one; then what is too short is left out.
Substantive(sentences) == Among(sentences, {text \in ToSet(sentences) : ~Boilerplate(text)})
Valuable(sentences) == Among(Substantive(sentences), {text \in ToSet(sentences) : HighValue(text)})
Picks(sentences) ==
    IF Valuable(sentences) # <<>> THEN Valuable(sentences)
    ELSE IF Substantive(sentences) # <<>> THEN <<Substantive(sentences)[1]>> ELSE <<>>
Quoted(sentences) ==
    Among(Picks(sentences), {text \in ToSet(sentences) : Cardinality(text) >= ShortText})

\* _importance_heuristic, _classify_kind_heuristic and _classify_scope_heuristic
ImportanceOf(text) ==
    CASE Says(text, Requirement) -> "high"
      [] OTHER -> IF LowValue(text) /\ ~HighValue(text) THEN "low" ELSE "medium"
KindOf(text) ==
    CASE "extension" \in text -> "late_work"
      [] OTHER -> IF "penalty" \in text THEN "grading" ELSE IF "contact" \in text THEN "contact" ELSE "other"
ScopeOf(text) == IF LowValue(text) THEN "resource" ELSE IF HighValue(text) THEN "course_wide" ELSE "other"

FallbackFact(text, id) ==
    FromSentence([text |-> text, id |-> id], ImportanceOf(text), ImportanceValue[ImportanceOf(text)], 1,
                 KindOf(text), ScopeOf(text))
FallbackFacts ==
    FlattenSeq([i \in DOMAIN syllabus |->
        [j \in DOMAIN Quoted(syllabus[i].sentences) |->
            FallbackFact(Quoted(syllabus[i].sentences)[j], syllabus[i].id)]])

---------------------------------------------------------------------------
(* build_fact_inventory.                                                   *)

Outcomes == {"ok", "empty", "parse_failed", "call_failed"}

InventoryInit ==
    /\ syllabus \in Syllabi
    /\ stage = "extract" /\ batch = 1
    /\ report = [o \in Outcomes |-> 0] /\ facts = <<>> /\ dropped = 0 /\ fallback = FALSE
    /\ unkeyed = FALSE

\* _extract_facts_for_batch and record_batch_outcome
ExtractBatch(answers) ==
    /\ stage = "extract" /\ batch <= Len(Batches)
    /\ LET good == UsableFacts(answers) IN
       /\ facts' = facts \o good
       /\ dropped' = dropped + Len(answers) - Len(good)
       /\ report' = [report EXCEPT ![IF good = <<>> THEN "empty" ELSE "ok"] = @ + 1]
    /\ batch' = batch + 1
    /\ UNCHANGED <<syllabus, stage, fallback, unkeyed>>

BatchFails(why) ==
    /\ stage = "extract" /\ batch <= Len(Batches)
    /\ report' = [report EXCEPT ![why] = @ + 1] /\ batch' = batch + 1
    /\ UNCHANGED <<syllabus, stage, facts, dropped, fallback, unkeyed>>

Salvage ==
    /\ stage = "extract" /\ batch > Len(Batches)
    /\ LET pool == IF facts = <<>> THEN FallbackFacts ELSE facts IN facts' = pool \o Salvaged(pool)
    /\ fallback' = (facts = <<>> /\ syllabus # <<>>)
    /\ stage' = IF syllabus = <<>> THEN "finalize" ELSE "merge"
    /\ UNCHANGED <<syllabus, batch, report, dropped, unkeyed>>

Merge ==
    /\ stage = "merge" /\ stage' = "semantic" /\ facts' = Merged
    /\ unkeyed' = (\E i \in DOMAIN facts : StatementKey(facts[i].statement) = {})
    /\ UNCHANGED <<syllabus, batch, report, dropped, fallback>>

\* The facts stay as they are when there are no embeddings of them.
MergeSimilar(embedded) ==
    /\ stage = "semantic" /\ stage' = "finalize"
    /\ facts' = IF embedded THEN SemanticMerged ELSE facts
    /\ UNCHANGED <<syllabus, batch, report, dropped, fallback, unkeyed>>

\* _finalize_inventory: a fact's factId is its place.
CalibratedFacts == [i \in DOMAIN facts |-> [facts[i] EXCEPT !.importance = CalibratedImportance(facts[i])]]
MostUsefulFirst ==
    LET Score(i) == Usefulness(CalibratedFacts[i])
    IN  Ranked({p \in Pairs : \/ Score(p[1]) > Score(p[2])
                              \/ Score(p[1]) = Score(p[2]) /\ p[1] < p[2]})

FinalizeInventory ==
    /\ stage = "finalize" /\ stage' = "done"
    /\ facts' = [i \in 1 .. Smaller(MaxFacts, Len(facts)) |-> CalibratedFacts[MostUsefulFirst[i]]]
    /\ UNCHANGED <<syllabus, batch, report, dropped, fallback, unkeyed>>

InventoryNext ==
    \/ \E answers \in RawFacts : ExtractBatch(answers)
    \/ \E why \in {"parse_failed", "call_failed"} : BatchFails(why)
    \/ Salvage \/ Merge \/ FinalizeInventory
    \/ \E embedded \in BOOLEAN : MergeSimilar(embedded)

InventorySpec == InventoryInit /\ [][InventoryNext]_inventoryVars

---------------------------------------------------------------------------
(* Properties.                                                             *)

\* Every chunk is in one batch, in the order of the syllabus, and a batch is over
\* the budget only when it is one chunk (batch_section_groups).
BatchesCoverTheSyllabus ==
    /\ FlattenSeq(Batches) = syllabus
    /\ \A i \in DOMAIN Batches : SizeOf(Batches[i]) <= CharBudget \/ Len(Batches[i]) = 1

\* Through extraction, salvage and both merges, the quote of a fact stands in one
\* of the chunks it names, and until facts are merged no statement says more than
\* its quote, or is its quote (verify_evidence_quote, _absorb_fact, and the module's
\* docstring).
FactsAreEvidenced ==
    \A i \in DOMAIN facts :
        /\ facts[i].sources # {} /\ facts[i].sources \subseteq Ids
        /\ \E id \in facts[i].sources : facts[i].quote \subseteq TextOf(Chunk(id))
        /\ stage \in {"extract", "merge"} =>
              facts[i].statement = facts[i].quote \/ Overstates(facts[i].statement, facts[i].quote) = "none"

\* A chunk tells something: a sentence of value that is long enough, or a
\* substantive one where no other is of value.
Telling(sentences) ==
    \E text \in ToSet(sentences) :
        /\ ~Boilerplate(text) /\ Cardinality(text) >= ShortText
        /\ HighValue(text) \/ \A other \in ToSet(sentences) : ~Boilerplate(other) => ~HighValue(other)

\* Whichever batches fail, every batch is accounted for, a syllabus of which a chunk
\* tells something has facts (unless some were without a key), and a policy that
\* can be salvaged is a fact, or what the code takes for one: a fact that contains it,
\* is part of it or shares most of its words (build_fact_inventory).
NothingIsLostSilently ==
    /\ report.ok + report.empty + report.parse_failed + report.call_failed = batch - 1
    /\ stage \in {"merge", "semantic", "finalize"} /\ ~unkeyed
       /\ (\E i \in DOMAIN syllabus : Telling(syllabus[i].sentences)) => facts # <<>>
    /\ stage = "merge" => \A i \in DOMAIN Sentences :
                              Salvageable(Sentences[i].text) => Covered(facts, Sentences[i].text)
    /\ stage \in {"semantic", "finalize"} => \A i, j \in DOMAIN facts :
                              facts[i].statement = facts[j].statement => i = j

FactSafety == BatchesCoverTheSyllabus /\ FactsAreEvidenced /\ NothingIsLostSilently

=============================================================================
