SPECIFICATION Spec
CONSTANTS
    Screens = {"explore", "rerank", "chunk", "evals", "rag", "chat"}
    TableLists <- MCTableLists
    IndexesOf <- MCIndexesOf
    ChatIndexesOf <- MCChatIndexesOf
    Words = {"w"}
    MaxEvents <- MCEvents
    MaxCalls = 2
    MaxHits = 2
    RerankScores = {1, 2}
    Rerankers <- MCRerankers
    Docs = {"d"}
    Names = {"s1"}
    Trim <- MCTrim
    MaxItems = 2
    MaxParts = 1
    Tools = {"t1"}
    DefaultTools = {}
    Iterations = {0, 30}
    MaxIterations = 20
INVARIANTS
    LatestShown
    EvalsIntact
    DrawnHonest
PROPERTIES
    SpinnersEnd
CHECK_DEADLOCK FALSE
