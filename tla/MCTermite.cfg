SPECIFICATION Spec
CONSTANTS
    Pages = {"ner", "rerank", "embed", "rewrite", "chunk", "read", "transcribe", "kg", "models"}
    Texts = {"t"}
    ModelLists <- MCModelLists
    Extractors = {"m2"}
    MaxSteps <- MCSteps
    MaxRuns = 2
    Labels = {"l1", "l2"}
    DefaultLabels = {"l1"}
    TextLength = 3
    Scores = {1, 2}
    MaxDocs = 2
    SetNames = {"s1"}
    ChunkLists <- MCChunkLists
    ChunkedLength = 3
    MaxImages = 2
    Donuts = {"m1"}
    MaxSegments = 2
    Rebels = {"m2"}
    KGAnswers <- MCKGAnswers
    Registries <- MCRegistries
    Playgrounds <- MCPlaygrounds
INVARIANTS
    NothingLeftBehind
    SelectionsValid
    DrawnHonest
PROPERTIES
    LoadingEnds
CHECK_DEADLOCK FALSE
