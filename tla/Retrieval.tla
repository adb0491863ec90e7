----------------------------- MODULE Retrieval -----------------------------
(***************************************************************************)
(* Which parts of a syllabus a student's question is answered from: the    *)
(* chunks of the course's index are ranked by the question and by each of  *)
(* its facets, a few are chosen that cover the facets and repeat neither   *)
(* a section nor each other, weak ones are dropped and the rest is cut to  *)
(* what the prompt may hold.                                               *)
(*                                                                         *)
(* A text is the set of its content words; a chunk's section is its        *)
(* diversity key; near[q] gives the similarity of every chunk to query q,  *)
(* in hundredths, where query 0 is the question and query f its facet f.   *)
(***************************************************************************)
EXTENDS Integers, Sequences, FiniteSets, SequencesExt, FiniteSetsExt

CONSTANTS
    Asks,              \* the questions: words, parts, topK, the index's chunks, near
    PoolSize,          \* CANDIDATE_POOL_SIZE
    FacetPool,         \* FACET_CANDIDATE_POOL
    MaxFacets          \* MAX_FACETS

ASSUME RetrievalAssumption == {PoolSize, FacetPool, MaxFacets} \subseteq Nat \ {0}

\* The parts are of the question's words, chunks have texts, and similarities are known.
ASSUME AsksAssumption ==
    \A a \in Asks :
        /\ a.parts \in Seq(SUBSET a.words) /\ a.topK \in Nat \ {0}
        /\ Len(a.chunks) \in Nat /\ DOMAIN a.chunks = 1 .. Len(a.chunks)
        /\ \A id \in DOMAIN a.chunks : a.chunks[id].size \in Nat \ {0}
        /\ \A q \in 0 .. MaxFacets, id \in DOMAIN a.chunks : a.near[q][id] \in Int

VARIABLES
    ask,       \* the question, and the index as it was read for it
    round,     \* embed; cover, spread, fill; weigh; fit; answered or failed
    turn,      \* the facet, candidate or chunk this pass looks at next
    pool,      \* the ranked candidates: id, score, and the facets they are tagged with
    chosen,    \* the candidates selected so far, in that order
    kept,      \* those above the relevance floor
    context    \* what the prompt holds: id and size

retrievalVars == <<ask, round, turn, pool, chosen, kept, context>>

MultiTopK == 5          \* MULTI_FACET_TOP_K and MAX_FINAL_TOP_K
Largest == 900          \* MAX_CHUNK_CONTEXT_CHARS
Useful == 200           \* MIN_USEFUL_CHUNK_CHARS

---------------------------------------------------------------------------
(* The question.                                                           *)

\* The n-th of a set of places.
Nth(places, n) == CHOOSE p \in places : Cardinality({q \in places : q < p}) = n - 1

\* extract_question_facets: the distinct useful parts, unless there is only one.
FirstMentions ==
    {i \in DOMAIN ask.parts : ask.parts[i] # {} /\ \A j \in 1 .. i - 1 : ask.parts[j] # ask.parts[i]}
Facets ==
    LET several == Cardinality(FirstMentions) >= 2
    IN [n \in 1 .. IF several THEN Min({MaxFacets, Cardinality(FirstMentions)}) ELSE 0 |->
          ask.parts[Nth(FirstMentions, n)]]
FacetIds == DOMAIN Facets
MultiFacet == FacetIds # {}

\* resolve_final_top_k; the schema keeps what is asked for between 1 and 20.
FinalTopK == IF MultiFacet THEN MultiTopK ELSE Min({MultiTopK, ask.topK})
TotalLimit == IF MultiFacet THEN 4200 ELSE 3000
RelevanceFloor == IF MultiFacet THEN 55 ELSE 40

WordsOf(id) == ask.chunks[id].words
SectionOf(c) == ask.chunks[c.id].section

---------------------------------------------------------------------------
(* The candidates.                                                         *)

\* _score_chunks_against_embedding: a stable sort by similarity.
Nearer(query, i, j) ==
    \/ ask.near[query][i] > ask.near[query][j]
    \/ ask.near[query][i] = ask.near[query][j] /\ i < j

\* The pool of one query: one question has one ranking, cut by the selection.
Limit(query) ==
    IF query # 0 THEN FacetPool ELSE IF MultiFacet \/ FinalTopK < PoolSize THEN PoolSize ELSE FinalTopK
PoolOf(query) ==
    {id \in DOMAIN ask.chunks : Cardinality({o \in DOMAIN ask.chunks : Nearer(query, o, id)}) < Limit(query)}

\* The queries that find each chunk.
Finders == [id \in DOMAIN ask.chunks |-> {query \in {0} \cup FacetIds : id \in PoolOf(query)}]

\* chunk_matches_facet: half of the facet's words are in the chunk.
MatchesFacet(id, f) == 2 * Cardinality(Facets[f] \cap WordsOf(id)) >= Cardinality(Facets[f])

\* merge_scored_candidates: once each, with the best score of its pools; sorted
\* stably, which leaves equals in the order the pools brought them.
ScoreOf(by, id) == Max({ask.near[query][id] : query \in by[id]})
RanksBefore(by, o, id) ==
    \/ ScoreOf(by, o) > ScoreOf(by, id)
    \/ /\ ScoreOf(by, o) = ScoreOf(by, id)
       /\ \/ Min(by[o]) < Min(by[id])
          \/ Min(by[o]) = Min(by[id]) /\ Nearer(Min(by[id]), o, id)

\* A facet's pool tags its chunks; assign_missing_facet_matches tags the others.
Candidate(by, id) ==
    [id |-> id, score |-> ScoreOf(by, id), tags |-> {f \in FacetIds : f \in by[id] \/ MatchesFacet(id, f)}]
MergedPool(by) ==
    LET found == {id \in DOMAIN by : by[id] # {}}
    IN [n \in 1 .. Cardinality(found) |->
          Candidate(by, CHOOSE id \in found : Cardinality({o \in found : RanksBefore(by, o, id)}) = n - 1)]

\* token_jaccard of at least NEAR_DUPLICATE_JACCARD
Alike(c, d) ==
    LET left == WordsOf(c.id)
        right == WordsOf(d.id)
    IN left # {} /\ right # {}
       /\ 100 * Cardinality(left \cap right) >= 82 * Cardinality(left \cup right)

IsChosen(c) == \E d \in ToSet(chosen) : d.id = c.id
SaysAgain(c) == \E d \in ToSet(chosen) : Alike(c, d)
SectionTaken(c) == \E d \in ToSet(chosen) : SectionOf(d) = SectionOf(c)
CoveredFacets == UNION {c.tags : c \in ToSet(chosen)}

\* Mutant: the text of a candidate is not compared.
MayAddAnyText(c, distinct) == ~IsChosen(c) /\ (distinct => ~SectionTaken(c))

\* try_add
MayAdd(c, distinct) == ~IsChosen(c) /\ ~SaysAgain(c) /\ (distinct => ~SectionTaken(c))

---------------------------------------------------------------------------
(* The passes.                                                             *)

RetrievalInit ==
    /\ ask \in Asks
    /\ round = "embed" /\ turn = 1 /\ pool = <<>> /\ chosen = <<>> /\ kept = <<>> /\ context = <<>>

\* The course has no index, or no usable chunk in it.
NothingIndexed ==
    /\ round = "embed" /\ ask.chunks = <<>> /\ round' = "failed"
    /\ UNCHANGED <<ask, turn, pool, chosen, kept, context>>

\* get_embedding: the question's, or a facet's, cannot be had or is no vector.
EmbeddingFails ==
    /\ round = "embed" /\ ask.chunks # <<>> /\ round' = "failed"
    /\ UNCHANGED <<ask, turn, pool, chosen, kept, context>>

\* retrieve_course_syllabus_chunks, once everything is embedded.
RankCandidates ==
    /\ round = "embed" /\ ask.chunks # <<>>
    /\ pool' = MergedPool(Finders)
    /\ round' = IF MultiFacet THEN "cover" ELSE "spread"
    /\ UNCHANGED <<ask, turn, chosen, kept, context>>

HasRoom == Len(chosen) < FinalTopK
Looks(limit) == HasRoom /\ turn <= limit /\ turn' = turn + 1

\* Pass 1: the best addable candidate of each facet that has none yet.
CoverFacet ==
    LET fits == {n \in DOMAIN pool : turn \in pool[n].tags /\ MayAdd(pool[n], TRUE)} IN
    /\ round = "cover" /\ Looks(Len(Facets))
    /\ chosen' = IF turn \in CoveredFacets \/ fits = {} THEN chosen ELSE Append(chosen, pool[Min(fits)])
    /\ UNCHANGED <<ask, round, pool, kept, context>>

\* Pass 2 wants a new section, pass 3 does not.
TryCandidate ==
    /\ round \in {"spread", "fill"} /\ Looks(Len(pool))
    /\ chosen' = IF MayAdd(pool[turn], round = "spread") THEN Append(chosen, pool[turn]) ELSE chosen
    /\ UNCHANGED <<ask, round, pool, kept, context>>

EndPass ==
    /\ \/ round = "cover" /\ (~HasRoom \/ turn > Len(Facets)) /\ round' = "spread"
       \/ round = "spread" /\ (~HasRoom \/ turn > Len(pool)) /\ round' = "fill"
       \/ round = "fill" /\ (~HasRoom \/ turn > Len(pool)) /\ round' = "weigh"
    /\ turn' = 1
    /\ UNCHANGED <<ask, pool, chosen, kept, context>>

\* apply_relevance_floor; a best score below zero has only itself near it.
BestScore == Max({c.score : c \in ToSet(chosen)})
IsRelevant(c) ==
    \/ c.score = BestScore \/ 100 * c.score >= RelevanceFloor * BestScore
    \/ WordsOf(c.id) \cap (ask.words \cup UNION ToSet(Facets)) # {}
ApplyFloor ==
    /\ round = "weigh"
    /\ LET relevant == {n \in DOMAIN chosen : IsRelevant(chosen[n])}
       IN kept' = [n \in 1 .. Cardinality(relevant) |-> chosen[Nth(relevant, n)]]
    /\ round' = "fit"
    /\ UNCHANGED <<ask, turn, pool, chosen, context>>

\* truncate_chunk_text: a cut text keeps at least half of what it may.
Truncated(size, limit) == IF size <= limit THEN {size} ELSE {limit \div 2, limit}

\* apply_context_budget: a chunk of which too little would be left is the last.
Remaining == TotalLimit - FoldLeft(+, 0, [n \in DOMAIN context |-> context[n].size])
FitChunk ==
    LET size == ask.chunks[kept[turn].id].size IN
    /\ round = "fit" /\ turn <= Len(kept)
    /\ \E left \in Truncated(size, Min({Largest, Remaining})) :
          IF left < Useful /\ left < size
          THEN turn' = Len(kept) + 1 /\ UNCHANGED context
          ELSE turn' = turn + 1 /\ context' = Append(context, [id |-> kept[turn].id, size |-> left])
    /\ UNCHANGED <<ask, round, pool, chosen, kept>>

\* retrieve_and_prompt: without context there is no answer.
BuildPrompt ==
    /\ round = "fit" /\ turn > Len(kept)
    /\ round' = IF context = <<>> THEN "failed" ELSE "answered"
    /\ UNCHANGED <<ask, turn, pool, chosen, kept, context>>

RetrievalNext ==
    NothingIndexed \/ EmbeddingFails \/ RankCandidates \/ CoverFacet \/ TryCandidate \/ EndPass
        \/ ApplyFloor \/ FitChunk \/ BuildPrompt

RetrievalSpec == RetrievalInit /\ [][RetrievalNext]_retrievalVars

---------------------------------------------------------------------------
(* Properties.                                                             *)

Selected == round \in {"weigh", "fit", "answered"}

\* No two chunks of a prompt say nearly the same.
NoRepeats == \A i, j \in DOMAIN chosen : i # j => chosen[i].id # chosen[j].id /\ ~Alike(chosen[i], chosen[j])

\* A place stays empty only when whatever is left repeats a chosen chunk.
NoPlaceIsWasted == Selected /\ HasRoom => \A c \in ToSet(pool) : IsChosen(c) \/ SaysAgain(c)

\* A section comes twice only when no new one is left.
SectionsSpread ==
    Selected /\ (\E i, j \in DOMAIN chosen : i # j /\ SectionOf(chosen[i]) = SectionOf(chosen[j]))
        => \A c \in ToSet(pool) : SaysAgain(c) \/ SectionTaken(c)

\* A facet goes without a chunk only when every place went to another facet, or
\* its candidates repeat a chosen chunk or its section.
FacetsServed ==
    Selected => \A f \in FacetIds \ CoveredFacets :
        \/ ~HasRoom /\ \A c \in ToSet(chosen) : c.tags # {}
        \/ \A c \in ToSet(pool) : f \in c.tags => SaysAgain(c) \/ SectionTaken(c)

\* The prompt is bounded, in the order of the selection, and loses a relevant
\* chunk to the budget only at its end, with less room left than two useful
\* excerpts take, and only for an ordinary question.
ContextFits ==
    /\ Len(context) <= FinalTopK /\ Remaining >= 0
    /\ \A n \in DOMAIN context : context[n].id = kept[n].id /\ context[n].size <= Largest
    /\ round = "answered" => context # <<>>
    /\ round = "answered" /\ Len(context) < Len(kept) => ~MultiFacet /\ Remaining < 2 * Useful

\* What a question is answered from: distinct texts, as many sections and facets
\* as the candidates allow, within the prompt's budget and never nothing
\* (select_coverage_aware_chunks, select_diverse_course_chunks,
\* apply_relevance_floor, apply_context_budget).
RetrievalSafety == NoRepeats /\ NoPlaceIsWasted /\ SectionsSpread /\ FacetsServed /\ ContextFits

=============================================================================
