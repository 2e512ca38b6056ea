SPECIFICATION Spec
CONSTANTS
    w1 = w1  w2 = w2  w3 = w3  p1 = p1  p2 = p2  p3 = p3
    None = None
    Workers = {w1, w2}
    Prompts = {p1}
    Texts <- MCTexts
    Hashes <- MCHashes
    HashOf <- MCHashOf
    Near <- MCNear
    MaxAttempts = 2
    PromptText <- OneText
    PromptPriority <- OnePriority
    ProcessOf <- OneSlotEach
    Mortal <- AllProcesses
    CrashAt <- Nowhere
    StallAt <- Nowhere
    BeatAt <- WholePipeline
    DbFailAt <- Nowhere
    AttemptCap = 3
INVARIANTS NoStranded
CHECK_DEADLOCK FALSE
