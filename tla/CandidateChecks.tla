-------------------------- MODULE CandidateChecks --------------------------
(***************************************************************************)
(* What a candidate question and answer must pass before it becomes a      *)
(* seed: checks of its wording against the evidence, and a rubric that the *)
(* model fills in.                                                         *)
(*                                                                         *)
(* A text is the set of the cues the code's patterns find in it, "words"   *)
(* in every text there is; a rubric gives each component its marks in      *)
(* percent.                                                                *)
(***************************************************************************)
EXTENDS Integers, FiniteSets

CONSTANTS
    Statements, Quotes, Neighbours,   \* the texts of a fact and of the rest of its chunks
    Questions, Answers,               \* the texts of candidates
    Rubrics                           \* the components of the answers of the validation

Cues == {"words", "must", "due", "advisory", "permission", "absolute", "nudge", "promise", "denial", "optional",
         "condition", "kept", "limit", "exception", "extension", "plural", "within", "before",
         "asks_penalty", "penalty", "content", "short", "schedule", "advice"}

Components == {"grounded", "correct", "clear", "useful", "natural", "category", "notTrivial"}

ASSUME ChecksAssumption ==
    /\ \A text \in UNION {Statements, Quotes, Neighbours, Questions, Answers} :
           text \subseteq Cues /\ (text # {} => "words" \in text)
    /\ \A marks \in Rubrics : marks \in [Components -> 0 .. 100]

VARIABLE
    case   \* a fact and a candidate about it, or a rubric and what it is about

Says(text, cues) == text \cap cues # {}

Obligation == {"must"}                    \* _HARD_OBLIGATION_RE, _OBLIGATION_STATEMENT_TERMS
Requirement == {"must", "due", "penalty"}  \* _REQUIREMENT_EVIDENCE_TERMS
Soft == {"advisory", "permission", "optional"}

---------------------------------------------------------------------------
(* The wording.                                                            *)

\* statement_entailment_violation
Overstates(statement, evidence) ==
    CASE Says(statement, Obligation) /\ ~Says(evidence, Requirement) -> "obligation_not_in_evidence"
      [] Says(statement, {"optional"}) /\ ~Says(evidence, {"optional"})
         /\ (Says(statement, Obligation) => Says(evidence, Requirement)) -> "optional_not_in_evidence"
      [] OTHER -> IF ~Says(statement, {"promise"}) \/ Says(statement, {"denial"}) THEN "none"
                  ELSE IF Says(evidence, {"nudge"}) THEN "guarantee_from_conditional"
                  ELSE IF ~Says(evidence, {"promise"}) THEN "guarantee_not_in_evidence" ELSE "none"

Bundle(statement, quote, source) == statement \cup quote \cup source   \* _evidence_bundle

\* fact_qualifier_evidence
QualifierEvidence(statement, quote) == Bundle(statement, quote, {})

\* Mutant: the whole bundle decides what is an obligation.
ModalityEvidenceBundle(statement, quote, source) == Bundle(statement, quote, source)

\* modality_evidence_for_fact; without a quote or a statement, the bundle.
ModalityEvidence(statement, quote, source) ==
    IF quote # {} THEN quote ELSE IF statement # {} THEN statement ELSE source

\* detect_modal_escalation
Escalates(question, answer, evidence) ==
    /\ evidence # {} /\ Says(question \cup answer, Obligation) /\ ~Says(evidence, Obligation)
    /\ Says(evidence, Soft)

\* detect_response_time_guarantee
Guarantees(answer, evidence) ==
    /\ Says(answer, {"promise"}) /\ ~Says(answer, {"denial"})
    /\ \/ Says(evidence, {"nudge"})
       \/ Overstates(answer, evidence) \in {"guarantee_from_conditional", "guarantee_not_in_evidence"}

\* detect_dropped_condition: the answer repeats the rule and leaves out when it holds.
DropsCondition(question, answer, evidence) ==
    /\ Says(evidence, {"condition", "exception"})
    /\ ~Says(question \cup answer, {"kept", "condition", "exception"})
    /\ "content" \in answer \cap evidence

\* detect_missing_critical_qualifier: how many extensions, and for whom not.
MissesQualifier(answer, evidence) ==
    /\ "extension" \in evidence \cap answer
    /\ \/ "limit" \in evidence \ answer /\ Says(answer, {"plural"})
       \/ "exception" \in evidence \ answer

\* detect_time_window_preposition_mismatch
FlipsWindow(question, answer, evidence) == Says(evidence, {"within"}) /\ Says(question \cup answer, {"before"})

\* detect_question_beyond_evidence
AsksBeyond(question, evidence) == Says(question, {"asks_penalty"}) /\ ~Says(evidence, {"penalty"})

OwnReasons == {"escalation", "obligation", "condition", "qualifier", "window"}

\* prevalidate_candidate: the first reason to refuse.
Prevalidate(question, answer, statement, quote, source) ==
    LET bundle == Bundle(statement, quote, source)
        modality == ModalityEvidence(statement, quote, source)
        own == IF QualifierEvidence(statement, quote) = {} THEN bundle ELSE QualifierEvidence(statement, quote)
        violation == Overstates(answer, modality)
        reasons == <<
            [when |-> question = {} \/ answer = {}, why |-> "empty"],
            [when |-> Escalates(question, answer, modality), why |-> "escalation"],
            [when |-> "absolute" \in answer \ bundle, why |-> "absolute"],   \* detect_absolute_overclaim
            [when |-> Guarantees(answer, bundle), why |-> "guarantee"],
            [when |-> violation = "obligation_not_in_evidence", why |-> "obligation"],
            [when |-> violation \in {"guarantee_from_conditional", "guarantee_not_in_evidence"},
             why |-> "guarantee"],
            [when |-> Overstates(question, modality) = "obligation_not_in_evidence", why |-> "obligation"],
            [when |-> DropsCondition(question, answer, own), why |-> "condition"],
            [when |-> MissesQualifier(answer, own), why |-> "qualifier"],
            [when |-> FlipsWindow(question, answer, own), why |-> "window"],
            [when |-> AsksBeyond(question, bundle), why |-> "beyond"],
            [when |-> TRUE, why |-> "none"]>>
        first == CHOOSE i \in DOMAIN reasons :
                     reasons[i].when /\ \A j \in 1 .. i - 1 : ~reasons[j].when
    IN  reasons[first].why

---------------------------------------------------------------------------
(* The rubric.                                                             *)

\* compute_validation_score, in units of 1/10000: the components by their weights
RubricScore(marks) ==
    20 * (marks.grounded + marks.correct) + 15 * (marks.useful + marks.natural)
    + 10 * (marks.clear + marks.category + marks.notTrivial)

\* try_parse_validation_payload: the model's own total is dropped.
WellMarked(marks) == DOMAIN marks = Components /\ \A c \in Components : marks[c] \in 0 .. 100

MinMarks == [c \in Components |-> CASE c \in {"grounded", "correct"} -> 80
                                    [] c \in {"category", "notTrivial"} -> 70 [] OTHER -> 60]

\* validation_result_accepts
Accepts(marks, unsupported) ==
    /\ ~unsupported /\ RubricScore(marks) >= 8000
    /\ \A c \in Components : marks[c] >= MinMarks[c]

AtMost(marks, caps) == [c \in Components |-> IF c \in DOMAIN caps /\ caps[c] < marks[c] THEN caps[c] ELSE marks[c]]

\* calibrate_validation_result
Calibrated(marks, question, answer, type) ==
    LET perfect == [c \in Components |-> IF marks[c] = 100 THEN 94 ELSE marks[c]]
        direct == IF type = "direct" THEN AtMost(perfect, [natural |-> 92]) ELSE perfect
        shortQuestion == IF "short" \in question THEN AtMost(direct, [useful |-> 90, clear |-> 95]) ELSE direct
        shortAnswer == IF "short" \in answer THEN AtMost(shortQuestion, [useful |-> 88]) ELSE shortQuestion
        schedule == IF "schedule" \in question THEN AtMost(shortAnswer, [notTrivial |-> 78]) ELSE shortAnswer
    IN  IF "advice" \in answer THEN AtMost(schedule, [grounded |-> 78, correct |-> 78]) ELSE schedule

\* An answer that gives advice is claimed not to be supported.
Unsupported(claims, answer) == claims \/ "advice" \in answer

---------------------------------------------------------------------------
(* The cases.  The neighbouring sentences come last.                       *)

CheckInit ==
    \/ case \in [statement : Statements \ {{}}, quote : Quotes, question : Questions, answer : Answers,
                 neighbour : {{}}]
    \/ case \in [marks : Rubrics, type : {"direct", "scenario"}, question : SUBSET {"short", "schedule"},
                 answer : {{}, {"short"}, {"advice"}}]

CheckNext ==
    /\ "neighbour" \in DOMAIN case /\ case.neighbour = {}
    /\ \E n \in Neighbours : case' = [case EXCEPT !.neighbour = n]

CheckSpec == CheckInit /\ [][CheckNext]_case

---------------------------------------------------------------------------
(* Properties.                                                             *)

\* What makes an obligation or a condition is the fact's own evidence: the
\* sentences beside it in the chunk can neither excuse an answer that turns an
\* advice into a duty, nor invent a condition the fact does not have
\* (modality_evidence_for_fact and fact_qualifier_evidence, and what they say).
NeighboursDoNotDecide ==
    "neighbour" \in DOMAIN case =>
        LET alone == Prevalidate(case.question, case.answer, case.statement, case.quote, {})
            beside == Prevalidate(case.question, case.answer, case.statement, case.quote, case.neighbour)
        IN  /\ alone \in {"escalation", "obligation"} => beside # "none"
            /\ beside \in OwnReasons /\ alone \notin OwnReasons => alone \in {"absolute", "guarantee"}
            /\ beside = "none" /\ Says(case.question \cup case.answer, Obligation) /\ case.quote # {}
               => Says(case.quote, Requirement)

\* Calibration only lowers: it never accepts what the model's marks refuse, and of
\* a flawless rubric it refuses nothing but advice that no source supports
\* (calibrate_validation_result and its thresholds).
CalibrationOnlyLowers ==
    "marks" \in DOMAIN case =>
        LET calibrated == Calibrated(case.marks, case.question, case.answer, case.type)
            accepts == Accepts(calibrated, Unsupported(FALSE, case.answer))
        IN  /\ WellMarked(calibrated)
            /\ accepts => Accepts(case.marks, FALSE)
            /\ (\A c \in Components : case.marks[c] = 100) => (accepts <=> "advice" \notin case.answer)

ChecksAreFaithful == NeighboursDoNotDecide /\ CalibrationOnlyLowers

=============================================================================
