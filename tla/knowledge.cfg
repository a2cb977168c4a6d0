CONSTANTS
    None = None  e = e  w = w  A = A  B = B  w1 = w1  w2 = w2
    MaxFaults = 1
    Texts <- MCTexts
    Manuals <- MCManuals
    Guesses <- MCGuesses
    MaxChars = 3
    Lanes = {"text", "manual", "email", "image", "pnid", "table", "correction"}
    Tags = {"P-101", "PSV-204"}
    Instruments = {"PSV-204"}
    Scrawl = "pump"
    Names = {"seal"}
    Orders = {"WO-1"}
    People = {"Asha"}
    NoText = ""
    Batches = 2
    MaxDocuments = 2
    Equipment = {e, w}
    DocRefs = {w}
    Modes = {A, B}
    Provenances = {1, 2}
    MaxGroups = 2
    MaxWrites = 3
    Configurations <- ConnectorsJson
    Files = {1, 2}
    Home <- HomeOf
    Workers = {w1, w2}
    Limit = 1
    MaxMoment = 2
    Things <- MCThings
    Label <- MCLabel
    Edges <- MCEdges
    SeedLists <- MCSeedLists
    Types = {"CONNECTED_TO", "HAS_FAILURE", "FIXED_BY"}
    MaxHops = 3
    TopK = 3
    Alpha <- MCAlpha
    MinConfidence <- MCMinConfidence
    Threshold <- MCThreshold
    Askers = {w1}
    Questions <- MCQuestions
    Nodes = {"n", "m"}
    Docs = {"table", "orders", "letter", "manual", "fix"}
    Unsourced = Unsourced
    Invented = "made up"
    Standalone <- MCStandalone
    WordsOf <- MCWords
    TagsOf <- MCTagsOf
    Standards <- MCStandards
    Phrases <- MCPhrases
    LinksOf <- MCRelations
    OrdersOf <- MCWorkOrders
    Passages = {"p1", "p2"}
    PassageOf <- MCPassageOf
    NamesOf <- MCNamesOf
    Chains <- MCChains
    Overdue <- MCOverdue
    Counts <- MCCounts
    Fixes <- MCFixes
    NoAnswer = NoAnswer
    Nearest = 2
    NearestLocal = 1
    NearestPath = 1
    Named = 1
    NamedPath = 1
    MaxEvidence = 2
    MaxPathEvidence = 1
    MaxAsks = 2
SPECIFICATION Spec
CHECK_DEADLOCK FALSE
INVARIANTS CutSound LandsWhole RecordsTraced NothingPassedOver RetrievalSound
PROPERTY HumanKept
