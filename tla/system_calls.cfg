SPECIFICATION SystemSpec
CONSTANTS
    w1 = w1  w2 = w2  w3 = w3  p1 = p1  p2 = p2  p3 = p3  a1 = a1  a2 = a2
    None = None
    Workers = {w1}
    Prompts = {p1}
    Texts <- MCTexts
    Hashes <- MCHashes
    HashOf <- MCHashOf
    Near <- MCNear
    MaxAttempts = 1
    PromptText <- OneText
    PromptPriority <- OnePriority
    ProcessOf <- OneSlotEach
    Mortal <- AllProcesses
    CrashAt <- Everywhere
    StallAt <- Nowhere
    BeatAt <- WholePipeline
    DbFailAt <- AnyDbCall
    AttemptCap = 1
    Calls = {a1, a2}
    Submissions <- TwoTexts
    NotifyFails = TRUE
    MaxDepth = 1
    ApiFailAt <- AnyApiCall
INVARIANTS SystemTypeOK AnswersItsText
SYMMETRY AlikeCalls
CHECK_DEADLOCK FALSE
