SPECIFICATION SystemSpec
CONSTANTS
    w1 = w1  w2 = w2  w3 = w3  p1 = p1  p2 = p2  p3 = p3  a1 = a1  a2 = a2
    None = None
    Workers = {w1, w2}
    Prompts = {p1}
    Texts <- MCTexts
    Hashes <- MCHashes
    HashOf <- MCHashOf
    Near <- MCNear
    MaxAttempts = 1
    PromptText <- OneText
    PromptPriority <- OnePriority
    ProcessOf <- OneSlotEach
    Mortal <- AllProcesses
    CrashAt <- Nowhere
    StallAt <- Nowhere
    BeatAt <- Nowhere
    DbFailAt <- Nowhere
    AttemptCap = 1
    Calls = {a1, a2}
    Submissions <- TwoTexts
    NotifyFails = FALSE
    MaxDepth = 1
    ApiFailAt <- Nowhere
INVARIANTS NoForeignAnswer
CHECK_DEADLOCK FALSE
