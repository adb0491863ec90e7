--------------------------- MODULE MCSeedPipeline --------------------------
(***************************************************************************)
(* What is made of a syllabus, for TLC: how it is cut into chunks, its     *)
(* facts, the allocation and the run over them, the candidates of a run    *)
(* and the checks they pass, the chunks a question is answered from, and   *)
(* the job that trains on the examples.  A behavior goes through one       *)
(* stage, and leaves the others at rest.                                   *)
(***************************************************************************)
EXTENDS MCStarterRun, Candidates, SyllabusFacts, SyllabusChunks, Conditions, TrainingJob

CONSTANTS k1, k2, k3, t1, t2, c3

Words(cues) == {"words"} \cup cues

\* Candidates and their checks.
Proposal(k, t) == [key |-> k, topic |-> t, fits |-> TRUE, chunks |-> {}]
TypicalProposals == {Proposal(k1, t1), Proposal(k2, t1), Proposal(k3, t2), [Proposal(NoKey, t2) EXCEPT !.fits = FALSE]}
TypicalEvidence == {Words(cues) : cues \in
    {{}, {"must"}, {"advisory"}, {"permission"}, {"due"}, {"condition", "content"}, {"extension", "limit", "exception"},
     {"within"}, {"nudge", "promise"}, {"promise"}, {"absolute"}, {"penalty"}}}
TypicalQuotes == TypicalEvidence \cup {{}}
TypicalNeighbours == {{}} \cup {Words(cues) : cues \in
    {{"must"}, {"condition", "content"}, {"absolute"}, {"nudge"}, {"penalty"}, {"extension", "limit"}}}
TypicalQuestions == {Words(cues) : cues \in {{}, {"must"}, {"asks_penalty"}, {"before"}, {"kept"}}}
TypicalAnswers == {Words(cues) : cues \in
    {{}, {"must"}, {"absolute", "content"}, {"promise"}, {"promise", "denial"}, {"content"}, {"extension", "plural"},
     {"extension", "limit"}, {"before"}, {"optional"}}}
TypicalRubrics == {marks \in [Components -> {59, 60, 69, 70, 79, 80, 100}] :
    \A c \in Components : marks[c] \in {MinMarks[c] - 1, MinMarks[c], 100}}

\* Syllabi and what a model may say of them.
FactPhrases == Cues \cup Marks \cup {"friday", "team", "alone", "han", "kana", "hangul"}
ForeignPhrases == {"han", "kana", "hangul"}
FactTopic(statement) ==
    IF "extension" \in statement THEN {"extension"} ELSE IF "friday" \in statement THEN {"friday"} ELSE statement
Piece(id, section, size, sentences) == [id |-> id, section |-> section, size |-> size, sentences |-> sentences]
Homework5pm == Words({"friday", "due", "must"})
LatePolicy == Words({"friday", "extension", "limit", "penalty"})
TeamPolicy == Words({"friday", "extension", "limit", "team"})
Mail == Words({"contact", "promise", "nudge"})
Plain == Words({"alone", "team"})
Welcome == Words({"welcome", "due"})
OncePer == Words({"one_per", "exception"})
OncePerReply == Words({"one_per", "promise"})
Rushed == Words({"extension", "promise", "nudge"})
Terse == {"due"}
TypicalSyllabi ==
    {<<>>,
     <<Piece(c1, "Work", 4, <<Homework5pm, LatePolicy>>), Piece(c2, "Work", 3, <<Mail, TeamPolicy>>),
       Piece(c3, "Rest", 2, <<Plain, Homework5pm>>)>>,
     <<Piece(c1, "Work", 9, <<LatePolicy, Plain>>), Piece(c2, "Rest", 1, <<Welcome, Words({})>>),
       Piece(c3, "Work", 5, <<OncePer, Words({"one_per"}), OncePerReply>>)>>,
     <<Piece(c1, "Work", 3, <<{"han", "kana", "hangul"}>>), Piece(c2, "Rest", 2, <<Terse, Plain>>),
       Piece(c3, "Rest", 2, <<Words({"link", "due"}), Rushed>>)>>,
     <<Piece(c1, "Work", 3, <<{"han", "kana", "hangul"}, {"han", "kana"}>>)>>, <<Piece(c1, "Work", 1, <<Welcome, Terse>>)>>}
Raw(statement, quote, ids) ==
    [statement |-> Words(statement), quote |-> Words(quote), ids |-> ids, importance |-> 80, ask |-> 50,
     complexity |-> 2, kind |-> "deadline", scope |-> "course_wide"]
TypicalRawFacts == SeqOf(
    {Raw({"friday"}, {"friday", "extension", "limit"}, {c2}),
     [Raw({"friday", "due"}, {"due", "friday"}, {c3}) EXCEPT !.importance = 50, !.scope = "assignment_specific"],
     [Raw({"contact", "promise"}, {"contact", "promise", "nudge"}, {c2}) EXCEPT !.kind = "contact"],
     [Raw({"extension"}, {"extension", "friday"}, {}) EXCEPT !.kind = "policy", !.importance = 40],
     Raw({"must", "alone"}, {"alone"}, {c1}),
     [Raw({}, {"team"}, {c3}) EXCEPT !.statement = {"han", "kana"}],
     [Raw({"friday"}, {"friday", "must"}, {c3}) EXCEPT !.ask = 250]}, 2)

\* Documents and texts.
Line(kind, level, name) == [kind |-> kind, level |-> level, name |-> name]
TypicalDocuments == SeqOf(
    {Line("contents", 1, "c"), Line("title", 1, "t"), Line("heading", 1, "h"), Line("heading", 2, "t"),
     Line("glued", 2, "g"), Line("short", 1, "s"), Line("sentence", 1, "x"), Line("navigation", 1, "n"),
     Line("glued_title", 1, "u")}, 4)
Phrase(length, ends, small) == [length |-> length, ends |-> ends, small |-> small]
TypicalTexts == {<<Phrase(10, {}, FALSE)>> \o phrases : phrases \in SeqOf(
    {Phrase(500, {"stop"}, FALSE), Phrase(300, {"para"}, TRUE), Phrase(400, {"stop", "para"}, FALSE),
     Phrase(60, {}, TRUE), Phrase(200, {"para"}, FALSE)}, 6)}

\* Indexes, and what students ask of them.
Excerpt(section, words, size) == [section |-> section, words |-> words, size |-> size]
TypicalIndexes == {
    <<>>,
    <<Excerpt("work", {"late", "week", "grade", "exam", "lab"}, 1500),
      Excerpt("work", {"late", "week", "grade", "exam", "lab", "mail"}, 1000), Excerpt("mail", {"mail"}, 150),
      Excerpt("mail", {"exam", "grade"}, 950), Excerpt("week", {"week"}, 1200),
      Excerpt("lab", {"lab", "mail"}, 2000), Excerpt("rest", {"grade"}, 700)>>,
    <<Excerpt("work", {"late"}, 300), Excerpt("work", {"late", "mail"}, 1000), Excerpt("exam", {"exam"}, 950)>>,
    <<Excerpt("work", {"late"}, 901), Excerpt("work", {"late", "mail"}, 1000), Excerpt("exam", {"exam"}, 950),
      Excerpt("week", {"week"}, 1200), Excerpt("week", {"exam", "week"}, 1200)>>}
OnePart == {<<{"late"}>>}
SeveralParts == {<<{"late"}, {"mail", "exam"}, {"late"}>>, <<{"late"}, {}, {"exam"}>>,
                 <<{"late"}, {"mail"}, {"exam"}, {"week", "lab"}, {"grade"}, {"lab"}, {"late", "mail"}>>}
TypicalRankings == {[id \in 1 .. 7 |-> 90 - 10 * id], [id \in 1 .. 7 |-> 5 * id],
                    [id \in 1 .. 7 |-> IF id % 2 = 0 THEN 60 ELSE -20]}
Fills == [by |-> "rag", mode |-> "rag", model |-> NoModel, ready |-> {}, online |-> {}, allowed |-> TRUE]
AsksOf(allParts, sizes, rankings) ==
    {[words |-> UNION ToSet(parts), parts |-> parts, topK |-> k, chunks |-> index,
      near |-> [q \in 0 .. 6 |-> r[(q % Len(r)) + 1]]] @@ Fills :
        parts \in allParts, k \in sizes, index \in TypicalIndexes, r \in rankings}
OneAsk == CHOOSE a \in AsksOf(OnePart, {4}, TupleOf(TypicalRankings, 1)) : Len(a.chunks) = 3
RouteAsks ==
    {[OneAsk EXCEPT !.by = by, !.mode = mode, !.model = model, !.ready = registry[1], !.online = registry[2],
                    !.parts = parts, !.allowed = allowed] : allowed \in BOOLEAN,
        by \in {"base", "fineTuned", "rag", "fineTunedRag", "test", "pair"}, mode \in {"rag", "fineTuned", "fineTunedRag"},
        model \in Models \cup {NoModel}, parts \in {<<>>, <<{"late"}>>},
        registry \in {<<{}, {}>>, <<{1}, {1, 2}>>, <<{1, 2}, {1, 2}>>, <<{1, 2}, {1}>>}}
TypicalAsks ==
    AsksOf(OnePart, {1, 4, 20}, TupleOf(TypicalRankings, 1)) \cup AsksOf(SeveralParts, {4}, TupleOf(TypicalRankings, 3))
        \cup {a \in RouteAsks : (a.by # "test" => a.mode = "rag") /\ (a.by = "pair" => a.model # NoModel)}

\* The files a course trains on, what is submitted, and what two releases accept.
BareExample == [format |-> "bare", fits |-> TRUE]
GroundedExample == [format |-> "grounded", fits |-> TRUE]
LongExample == [format |-> "grounded", fits |-> FALSE]
TypicalExports == {[train |-> t, validation |-> v] :
    t \in {<<>>, [n \in 1 .. 9 |-> IF n = 6 THEN GroundedExample ELSE BareExample],
           <<BareExample, GroundedExample, LongExample, BareExample, BareExample>>,
           <<LongExample>>, [n \in 1 .. 250 |-> BareExample]},
    v \in {<<>>, <<BareExample, BareExample, GroundedExample>>, <<LongExample>>}}
Pins == {"max_steps", "max_seq_length", "warmup_ratio", "dataset_text_field"}
Newer == {"max_steps", "max_length", "warmup_steps", "dataset_text_field", "completion_only_loss"}
Order(by, mode) ==
    [by |-> by, mode |-> mode, policy |-> "fail", time |-> 0, ceiling |-> 28800, cpu |-> FALSE, gpus |-> 1,
     tokenizer |-> TRUE, release |-> Pins]
TypicalOrders ==
    {Order(by, mode) : by \in {"queue", "hand"}, mode \in {"smoke", "full"}}
        \cup {[Order("queue", "full") EXCEPT !.ceiling = 3000], [Order("hand", "full") EXCEPT !.time = 600],
              [Order("queue", "full") EXCEPT !.release = Newer], [Order("hand", "smoke") EXCEPT !.tokenizer = FALSE],
              [Order("queue", "smoke") EXCEPT !.release = Newer \ {"max_length"}]}
        \cup {[Order("direct", mode) EXCEPT !.policy = policy, !.cpu = d[1], !.gpus = d[2]] :
                mode \in {"smoke", "full"}, policy \in {"fail", "drop"}, d \in {<<TRUE, 0>>, <<FALSE, 2>>, <<TRUE, 1>>}}

---------------------------------------------------------------------------
(* The stages, each from its own initial states.                           *)

VARIABLE part   \* the stage a behavior goes through

RunAtRest ==
    /\ topUp = FALSE /\ stored = 0 /\ storedScenarios = 0 /\ covered = {}
    /\ target = 0 /\ candidates = {} /\ fact = [id \in FactIds |-> LateWork] /\ AllocationInit
    /\ phase = "rest" /\ todo = <<>> /\ next = 1 /\ attempt = 1
    /\ accepted = 0 /\ scenarios = 0 /\ failedFacts = {}
    /\ calls = 0 /\ timeouts = 0 /\ saved = 0 /\ refused = FALSE
NoCase == case = [at |-> "rest"]
NoSyllabus ==
    /\ syllabus = <<>> /\ stage = "done" /\ batch = 1 /\ report = [o \in Outcomes |-> 0]
    /\ facts = <<>> /\ dropped = 0 /\ fallback = FALSE /\ unkeyed = FALSE
NoDocument ==
    /\ reading = "done" /\ lines = <<>> /\ line = 1 /\ title = {} /\ inContents = FALSE /\ seenBody = FALSE
    /\ path = General /\ paragraphs = <<>> /\ sections = <<>> /\ text = <<>> /\ rest = 1 /\ chunks = <<>>
NoAsk == [words |-> {}, parts |-> <<>>, topK |-> 1, chunks |-> <<>>, near |-> <<>>] @@ Fills
NoQuestion ==
    /\ ask = NoAsk /\ round = "failed" /\ turn = 1
    /\ pool = <<>> /\ chosen = <<>> /\ kept = <<>> /\ context = <<>>
    /\ stand = "done" /\ targets = <<>> /\ resolved = NoModel /\ answers = <<>>
    /\ ready = {} /\ online = {} /\ wasOnline = {}
NoJob ==
    /\ order = Order("hand", "full") /\ exports = NoFiles /\ walltime = [seconds |-> 0, clamped |-> "no"] /\ doing = "over"
    /\ data = NoFiles /\ picked = NoLines /\ config = {} /\ budget = 0 /\ steps = 0 /\ written = 0
    /\ claimed = FALSE /\ ending = Nothing /\ told = <<>> /\ mishaps = {}

courseVars == <<runVars, candidateVars, case, inventoryVars, chunkVars>>
allVars == <<part, courseVars, retrievalVars, routeVars, jobVars>>

PipelineInit ==
    \/ part = "document" /\ (SectionsInit \/ PiecesInit) /\ NoSyllabus /\ RunAtRest /\ CandidateInit /\ NoCase /\ NoQuestion /\ NoJob
    \/ part = "facts" /\ InventoryInit /\ NoDocument /\ RunAtRest /\ CandidateInit /\ NoCase /\ NoQuestion /\ NoJob
    \/ part = "run" /\ RunInit /\ NoDocument /\ NoSyllabus /\ CandidateInit /\ NoCase /\ NoQuestion /\ NoJob
    \/ part = "candidates" /\ CandidateInit /\ NoDocument /\ NoSyllabus /\ RunAtRest /\ NoCase /\ NoQuestion /\ NoJob
    \/ part = "checks" /\ CheckInit /\ NoDocument /\ NoSyllabus /\ RunAtRest /\ CandidateInit /\ NoQuestion /\ NoJob
    \/ part = "question" /\ ConditionsInit /\ NoDocument /\ NoSyllabus /\ RunAtRest /\ CandidateInit /\ NoCase /\ NoJob
    \/ part = "job" /\ JobInit /\ NoDocument /\ NoSyllabus /\ RunAtRest /\ CandidateInit /\ NoCase /\ NoQuestion

PipelineNext ==
    /\ UNCHANGED part
    /\ \/ part = "document" /\ ChunkNext /\ UNCHANGED <<runVars, candidateVars, case, inventoryVars, retrievalVars, routeVars, jobVars>>
       \/ part = "facts" /\ InventoryNext /\ UNCHANGED <<runVars, candidateVars, case, chunkVars, retrievalVars, routeVars, jobVars>>
       \/ part = "run" /\ RunNext /\ UNCHANGED <<candidateVars, case, inventoryVars, chunkVars, retrievalVars, routeVars, jobVars>>
       \/ part = "candidates" /\ CandidateNext /\ UNCHANGED <<runVars, case, inventoryVars, chunkVars, retrievalVars, routeVars, jobVars>>
       \/ part = "checks" /\ CheckNext /\ UNCHANGED <<runVars, candidateVars, inventoryVars, chunkVars, retrievalVars, routeVars, jobVars>>
       \/ part = "question" /\ ConditionsNext /\ UNCHANGED <<courseVars, jobVars>>
       \/ part = "job" /\ JobNext /\ UNCHANGED <<courseVars, retrievalVars, routeVars>>

PipelineSpec == PipelineInit /\ [][PipelineNext]_allVars
=============================================================================
