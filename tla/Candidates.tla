----------------------------- MODULE Candidates ----------------------------
(***************************************************************************)
(* What becomes of the questions the model proposes in a starter run: each *)
(* is compared with those the run knows, by its wording and by its         *)
(* embedding, checked and validated; what is accepted is saved in one      *)
(* transaction, which compares it with what the course holds by then.      *)
(*                                                                         *)
(* Two questions are alike (a similarity of SEMANTIC_QUESTION_DUPLICATE_   *)
(* THRESHOLD or more) when they are about one topic; the embedding of a    *)
(* question is its topic.                                                  *)
(***************************************************************************)
EXTENDS CandidateChecks, Sequences, SequencesExt

CONSTANTS
    Proposals,    \* the seeds a model may propose: key, topic, length and chunks
    NoKey,        \* the key of a question that normalizes to nothing
    FactChunks,   \* the chunks of the fact that is asked about
    MaxCourse, MaxAsked, MaxRuns   \* bounds: seeds of the course, questions of a run, runs

ASSUME CandidatesAssumption ==
    /\ {MaxCourse, MaxAsked, MaxRuns} \subseteq Nat
    /\ \A p \in Proposals : p = [key |-> p.key, topic |-> p.topic, fits |-> p.fits, chunks |-> p.chunks]

VARIABLES
    course,      \* the course's seeds, each with whether a run saved it
    asked,       \* accepted_questions: what was stored, on a top-up, and what was accepted
    base,        \* how many of them were stored
    seen,        \* seen_questions
    embeddings,  \* AcceptedEmbeddingCache.embeddings
    last,        \* last_candidate_embedding, if any
    candidate,
    step,        \* rest; draw, cache, embed, judge; save
    saving,      \* the transaction: the keys it has seen, what it has written, what is left
    unchecked,   \* history: the places of the questions that no embedding was compared for
    runs

candidateVars == <<course, asked, base, seen, embeddings, last, candidate, step, saving, unchecked, runs>>

NoTransaction == [keys |-> {}, written |-> <<>>, left |-> <<>>]
Key(question) == question.key
KeysOf(questions) == {Key(q) : q \in ToSet(questions)} \ {NoKey}

CandidateInit ==
    /\ course = <<>> /\ asked = <<>> /\ base = 0 /\ seen = {} /\ embeddings = <<>> /\ last = {}
    /\ candidate \in {CHOOSE p \in Proposals : TRUE} /\ step = "rest" /\ saving = NoTransaction
    /\ unchecked = {} /\ runs = 0

---------------------------------------------------------------------------
(* The candidate.                                                          *)

\* generate_starter_seeds_for_course; only a top-up reads what is stored
\* (summarize_existing_seed_examples).
BeginCandidates(topUp) ==
    /\ step = "rest" /\ runs < MaxRuns
    /\ LET stored == IF topUp THEN [i \in DOMAIN course |-> course[i].question] ELSE <<>> IN
       /\ asked' = stored /\ base' = Len(stored) /\ seen' = KeysOf(stored)
    /\ embeddings' = <<>> /\ last' = {} /\ unchecked' = {} /\ saving' = NoTransaction
    /\ step' = "draw" /\ runs' = runs + 1
    /\ UNCHANGED <<course, candidate>>

\* passes_programmatic_candidate_checks
WellFormed(p) == p.fits /\ p.chunks # {}

\* _normalize_fact_seed: the chunks are those of the fact, whatever the model says.
Normalized(p) == [p EXCEPT !.chunks = FactChunks]

\* A candidate whose form or whose key is refused leaves nothing behind; the
\* first question of a run has nothing to be compared with.
Draw(p) ==
    /\ step = "draw" /\ Len(asked) < MaxAsked
    /\ WellFormed(Normalized(p)) /\ Key(p) \notin seen \cup {NoKey}
    /\ candidate' = Normalized(p)
    /\ step' = IF asked = <<>> THEN "judge" ELSE "cache"
    /\ UNCHANGED <<course, asked, base, seen, embeddings, last, saving, unchecked, runs>>

\* Mutant: what was left of the candidate before is not forgotten.
ForgottenNot(lastOne) == lastOne

Forgotten(lastOne) == {}

Missing == SubSeq(asked, Len(embeddings) + 1, Len(asked))

\* _ensure_accepted_embeddings_cached: the call fails, or the answer is cut
\* short by an embedding that is none after n, or all of them are there.
CacheMissing(n, refused) ==
    /\ step = "cache"
    /\ last' = Forgotten(last)
    /\ \/ /\ KeysOf(asked) = {} /\ step' = "judge" /\ UNCHANGED embeddings
       \/ /\ KeysOf(asked) # {} /\ refused /\ Missing # <<>>
          /\ step' = "judge" /\ UNCHANGED embeddings
       \/ /\ KeysOf(asked) # {} /\ ~refused /\ n <= Len(Missing)
          /\ embeddings' = embeddings \o [i \in 1 .. n |-> Missing[i].topic]
          /\ step' = IF n = Len(Missing) THEN "embed" ELSE "judge"
    /\ UNCHANGED <<course, asked, base, seen, candidate, saving, unchecked, runs>>

\* find_semantic_duplicate_question: a failure counts as no duplicate.
EmbedCandidate(answered) ==
    /\ step = "embed"
    /\ last' = IF answered THEN {candidate.topic} ELSE Forgotten(last)
    /\ step' = IF answered /\ \E i \in DOMAIN embeddings : embeddings[i] = candidate.topic
               THEN "draw" ELSE "judge"
    /\ UNCHANGED <<course, asked, base, seen, embeddings, candidate, saving, unchecked, runs>>

\* prevalidate_candidate, _validate_candidate and validation_result_accepts.
Decline ==
    /\ step = "judge" /\ step' = "draw"
    /\ UNCHANGED <<course, asked, base, seen, embeddings, last, candidate, saving, unchecked, runs>>

Accepted ==
    /\ step = "judge" /\ step' = "draw"
    /\ seen' = seen \cup {Key(candidate)}
    /\ asked' = Append(asked, candidate)
    /\ embeddings' = embeddings \o SetToSeq(last)   \* remember_last_candidate
    /\ unchecked' = IF last = {} THEN unchecked \cup {Len(asked')} ELSE unchecked
    /\ last' = {}
    /\ UNCHANGED <<course, base, candidate, saving, runs>>

\* Ollama is unavailable: the run is given up, and saves nothing.
GivenUp ==
    /\ step \in {"draw", "judge"} /\ step' = "rest"
    /\ UNCHANGED <<course, asked, base, seen, embeddings, last, candidate, saving, unchecked, runs>>

---------------------------------------------------------------------------
(* The save: persist_accepted_seeds.                                       *)

StoredKeys == KeysOf([i \in DOMAIN course |-> course[i].question])

BeginSave ==
    /\ step = "draw" /\ step' = "save"
    /\ saving' = [keys |-> StoredKeys, written |-> <<>>, left |-> SubSeq(asked, base + 1, Len(asked))]
    /\ UNCHANGED <<course, asked, base, seen, embeddings, last, candidate, unchecked, runs>>

\* Each seed has a savepoint of its own.
SaveNext(works) ==
    /\ step = "save" /\ saving.left # <<>>
    /\ LET seed == Head(saving.left)
           writes == works /\ Key(seed) \notin saving.keys
       IN  saving' = [keys |-> IF writes THEN saving.keys \cup {Key(seed)} ELSE saving.keys,
                      written |-> IF writes THEN Append(saving.written, [question |-> seed, byRun |-> TRUE])
                                  ELSE saving.written,
                      left |-> Tail(saving.left)]
    /\ UNCHANGED <<course, asked, base, seen, embeddings, last, candidate, step, unchecked, runs>>

CommitSeeds(works) ==
    /\ step = "save" /\ saving.left = <<>>
    /\ course' = IF works THEN course \o saving.written ELSE course
    /\ step' = "rest" /\ saving' = NoTransaction
    /\ UNCHANGED <<asked, base, seen, embeddings, last, candidate, unchecked, runs>>

\* An administrator adds a seed, or removes one (create_seed, delete_seed).
ChangeCourse ==
    /\ \/ \E p \in Proposals : /\ Len(course) < MaxCourse
                               /\ course' = Append(course, [question |-> p, byRun |-> FALSE])
       \/ course # <<>> /\ course' = Tail(course)
    /\ UNCHANGED <<asked, base, seen, embeddings, last, candidate, step, saving, unchecked, runs>>

CandidateNext ==
    \/ \E topUp \in BOOLEAN : BeginCandidates(topUp)
    \/ \E p \in Proposals : Draw(p)
    \/ \E n \in 0 .. MaxAsked, refused \in BOOLEAN : CacheMissing(n, refused)
    \/ \E answered \in BOOLEAN : EmbedCandidate(answered)
    \/ Decline \/ Accepted \/ GivenUp \/ BeginSave
    \/ \E works \in BOOLEAN : SaveNext(works) \/ CommitSeeds(works)
    \/ ChangeCourse

CandidateSpec == CandidateInit /\ [][CandidateNext]_candidateVars

---------------------------------------------------------------------------
(* Properties.                                                             *)

\* The cache stays parallel to accepted_questions, whichever calls of the
\* embedding model fail (AcceptedEmbeddingCache), so that no two questions a run
\* accepts have one wording, nor one meaning unless the embeddings could not be
\* had; and no two seeds that runs have saved have one wording, on a top-up or
\* not, whatever was stored meanwhile (persist_accepted_seeds).
CandidateSafety ==
    /\ step \in {"rest", "draw", "cache", "embed", "judge", "save"} /\ Cardinality(last) <= 1
    /\ Len(embeddings) <= Len(asked)
    /\ \A i \in DOMAIN embeddings : embeddings[i] = asked[i].topic
    /\ \A j \in base + 1 .. Len(asked), i \in 1 .. Len(asked) :
        i < j => /\ Key(asked[i]) # Key(asked[j])
                 /\ asked[i].topic = asked[j].topic => j \in unchecked
    /\ \A i, j \in DOMAIN course :
        i < j /\ course[i].byRun /\ course[j].byRun => Key(course[i].question) # Key(course[j].question)
    /\ \A i \in DOMAIN course : course[i].byRun => course[i].question.chunks = FactChunks

=============================================================================
