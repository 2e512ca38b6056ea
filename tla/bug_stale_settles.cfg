SPECIFICATION Spec
CONSTANTS
    w1 = w1  w2 = w2  w3 = w3  p1 = p1  p2 = p2  p3 = p3
    None = None
    Workers = {w1, w2}
    Prompts = {p1}
    Texts <- MCTexts
    Hashes <- MCHashes
    HashOf <- MCHashOf
    Near <- MCNear
    MaxAttempts = 2
    PromptText <- OneText
    PromptPriority <- OnePriority
    ProcessOf <- OneSlotEach
    Mortal <- AllProcesses
    CrashAt <- Nowhere
    StallAt <- WholePipeline
    BeatAt <- WholePipeline
    DbFailAt <- Nowhere
    AttemptCap = 3
PROPERTIES SettledByOwner
CHECK_DEADLOCK FALSE
