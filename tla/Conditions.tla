----------------------------- MODULE Conditions -----------------------------
(***************************************************************************)
(* The routes that answer a question.  The four a class compares: the base *)
(* model and the course's fine-tuned model, each with the bare question or *)
(* with the retrieved context.  And an administrator's two: a chosen       *)
(* version, and the base model beside a chosen version over one prompt.    *)
(* The course's versions go on being registered, activated and redelivered *)
(* while a question is answered; who decides what is read at which time.   *)
(***************************************************************************)
EXTENDS Retrieval

CONSTANTS
    Models,     \* the numbers of the course's versions
    Base,       \* the base model, as the target of a generation
    Course,     \* the course's own model, whichever version that is
    NoModel     \* no version

\* ask.by is the route, ask.mode the administrator's choice among them, ask.model
\* the version named in the body (which a classroom route has no field for, and
\* a pair must fill); ask.allowed says whether the course exists and the caller
\* may use it by this route.
ASSUME ConditionsAssumption ==
    /\ Models \subseteq Nat /\ IsFiniteSet(Models)
    /\ {Base, Course, NoModel} \cap Models = {} /\ Base # Course /\ NoModel \notin {Base, Course}
    /\ \A a \in Asks :
         /\ a.by \in {"base", "fineTuned", "rag", "fineTunedRag", "test", "pair"} /\ a.allowed \in BOOLEAN
         /\ a.ready \subseteq Models /\ a.online \subseteq Models
         /\ a.model \in IF a.by = "pair" THEN Models ELSE Models \cup {NoModel}

VARIABLES
    stand,       \* received, grounding, answering; done or refused
    targets,       \* the targets still to be asked
    resolved,   \* the version the next call names, once the registry was read
    answers,    \* what answered so far, in order
    ready,      \* the course's registered versions of status ready
    online,     \* those of deployment online
    wasOnline   \* history: those that were, since the question was retrieved for

routeVars == <<stand, targets, resolved, answers, ready, online, wasOnline>>
registryVars == <<ready, online, wasOnline>>

ConditionsInit ==
    /\ RetrievalInit
    /\ stand = "received" /\ targets = <<>> /\ resolved = NoModel /\ answers = <<>>
    /\ ready = ask.ready /\ online = ask.online /\ wasOnline = online

---------------------------------------------------------------------------
(* The routes.                                                             *)

Grounded ==
    \/ ask.by \in {"rag", "fineTunedRag", "pair"}
    \/ ask.by = "test" /\ ask.mode # "fineTuned"

Receives(route) == stand = "received" /\ ask.by = route /\ UNCHANGED <<retrievalVars, resolved, answers, registryVars>>
Goes(where, asked) == stand' = where /\ targets' = asked

\* A question of blanks is refused; so is, in a test, base weights with a version
\* or a version left out; and so is a caller without access to the course, or to
\* what only an administrator may ask, and a course that is none.
IsBlank == ask.parts = <<>>
Misasked == ask.by = "test" /\ (ask.mode = "rag") = (ask.model # NoModel)
MayAsk == ~IsBlank /\ ~Misasked /\ ask.allowed
RefuseAsked == ~MayAsk /\ Receives(ask.by) /\ Goes("refused", <<>>)

AskBase == MayAsk /\ Receives("base") /\ Goes("answering", <<Base>>)
AskFineTuned == MayAsk /\ Receives("fineTuned") /\ Goes("answering", <<Course>>)
AskRag == MayAsk /\ Receives("rag") /\ Goes("grounding", <<Base>>)
AskFineTunedRag == MayAsk /\ Receives("fineTunedRag") /\ Goes("grounding", <<Course>>)
AskTest ==
    /\ MayAsk /\ Receives("test")
    /\ Goes(IF Grounded THEN "grounding" ELSE "answering", <<IF ask.mode = "rag" THEN Base ELSE ask.model>>)
AskPair == MayAsk /\ Receives("pair") /\ Goes("grounding", <<Base, ask.model>>)

\* generate_grounded_answer: the prompt first, and no generation without one.
Ground ==
    /\ stand = "grounding" /\ UNCHANGED <<resolved, answers, registryVars>>
    /\ \/ RetrievalNext /\ UNCHANGED <<stand, targets>>
       \/ round = "answered" /\ stand' = "answering" /\ UNCHANGED <<targets, retrievalVars>>
       \/ round = "failed" /\ Goes("refused", <<>>) /\ UNCHANGED retrievalVars

---------------------------------------------------------------------------
(* Generation.                                                             *)

\* select_servable_version: the highest-numbered of those online and ready.
Servable == online \cap ready
CourseModel == IF Servable = {} THEN NoModel ELSE Max(Servable)

\* Mutant: a version that cannot answer is replaced by the course's.
NamedOrCourseModel(v) == IF v \in ready THEN v ELSE CourseModel

\* resolve_course_model_version: the version named, or a refusal.
NamedModel(v) == IF v \in ready THEN v ELSE NoModel

\* generate_from_prompt, up to the call: whose version it is, or a refusal.
Resolve ==
    LET target == Head(targets)
        version == IF target = Course THEN CourseModel ELSE NamedModel(target)
    IN
    /\ stand = "answering" /\ targets # <<>> /\ target # Base /\ resolved = NoModel
    /\ IF version = NoModel THEN Goes("refused", <<>>) /\ UNCHANGED resolved
       ELSE resolved' = version /\ UNCHANGED <<stand, targets>>
    /\ UNCHANGED <<retrievalVars, answers, registryVars>>

\* The call's answer: another version's is refused by the client.
Generate ==
    /\ stand = "answering" /\ targets # <<>> /\ (Head(targets) = Base \/ resolved # NoModel)
    /\ answers' = Append(answers, IF Head(targets) = Base THEN Base ELSE resolved)
    /\ targets' = Tail(targets) /\ resolved' = NoModel
    /\ stand' = IF targets' = <<>> THEN "done" ELSE stand
    /\ UNCHANGED <<retrievalVars, registryVars>>

\* No slot, a timeout or a bad answer; a pair loses its first answer with it.
GenerationFails ==
    /\ stand = "answering" /\ Goes("refused", <<>>)
    /\ UNCHANGED <<retrievalVars, resolved, answers, registryVars>>

---------------------------------------------------------------------------
(* The registry meanwhile; nothing reads it before the generation.         *)

RegistryMoves == stand = "answering" /\ UNCHANGED <<retrievalVars, stand, targets, resolved, answers>>

\* mark_version_published, after require_ready_version
Activated(v) ==
    /\ RegistryMoves /\ v \in ready
    /\ online' = {v} /\ wasOnline' = wasOnline \cup online' /\ UNCHANGED ready

\* upsert_model_version, with offline: a completion, or its redelivery
Registered(v) ==
    /\ RegistryMoves
    /\ ready' = ready \cup {v} /\ online' = online \ {v} /\ UNCHANGED wasOnline

ConditionsNext ==
    \/ RefuseAsked \/ AskBase \/ AskFineTuned \/ AskRag \/ AskFineTunedRag \/ AskTest \/ AskPair
    \/ Ground \/ Resolve \/ Generate \/ GenerationFails
    \/ \E v \in Models : Activated(v) \/ Registered(v)

ConditionsSpec == ConditionsInit /\ [][ConditionsNext]_<<retrievalVars, routeVars>>

---------------------------------------------------------------------------
(* Properties.                                                             *)

\* Only an administrator's version answers in place of the course's: a class is
\* answered by the base model or by a version that was activated for its course
\* while the question was answered, whatever the body says.
ClassGetsTheCourses ==
    ask.by \notin {"test", "pair"} => \A n \in DOMAIN answers : answers[n] \in {Base} \cup wasOnline

\* A test is answered by exactly the version it names, activated or not, or not
\* at all; a pair by both models.
TestGetsTheNamed ==
    stand = "done" =>
        /\ ask.by = "test" => answers = <<IF ask.mode = "rag" THEN Base ELSE ask.model>>
        /\ ask.by = "pair" => answers = <<Base, ask.model>>

\* No answer is given without the context its route promises, and what both
\* answers of a pair were shown is what was retrieved once.
GroundedOrNot == answers # <<>> => (Grounded <=> round = "answered") /\ (Grounded <=> context # <<>>)

\* What a question is answered from and by (generate_from_prompt,
\* resolve_current_course_model, resolve_course_model_version).
QuestionSafety == RetrievalSafety /\ ClassGetsTheCourses /\ TestGetsTheNamed /\ GroundedOrNot

=============================================================================
