SPECIFICATION PipelineSpec
CONSTANTS
    FactIds = {1, 2, 3}
    Inventories <- TypicalInventories
    Chunks = {c1, c2}
    Series = {s1}
    c1 = c1  c2 = c2  c3 = c3  s1 = s1
    MaxTarget = 3
    TargetCount = 3
    Budget = 7
    InventoryCalls = {0, 9}
    MaxStored = 1
    k1 = k1  k2 = k2  k3 = k3  t1 = t1  t2 = t2
    NoKey = NoKey
    Proposals <- TypicalProposals
    FactChunks = {c1}
    MaxCourse = 1
    MaxAsked = 3
    MaxRuns = 2
    Statements <- TypicalEvidence
    Quotes <- TypicalQuotes
    Neighbours <- TypicalNeighbours
    Questions <- TypicalQuestions
    Answers <- TypicalAnswers
    Rubrics <- TypicalRubrics
    Syllabi <- TypicalSyllabi
    RawFacts <- TypicalRawFacts
    CharBudget = 7
    MaxFacts = 3
    Phrases <- FactPhrases
    Foreign <- ForeignPhrases
    Topic <- FactTopic
    Documents <- TypicalDocuments
    Texts <- TypicalTexts
    Asks <- TypicalAsks
    PoolSize = 5
    FacetPool = 2
    MaxFacets = 6
    Models = {1, 2}
    Base = Base
    Course = Course
    NoModel = NoModel
    Orders <- TypicalOrders
    Exports <- TypicalExports
INVARIANTS AllocationIsFair RunKeepsItsWord ChunkSafety FactSafety CandidateSafety ChecksAreFaithful QuestionSafety JobKeepsItsWord
CHECK_DEADLOCK FALSE
