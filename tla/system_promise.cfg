SPECIFICATION FairSystemSpec
CONSTANTS
    w1 = w1  w2 = w2  w3 = w3  p1 = p1  p2 = p2  p3 = p3  a1 = a1  a2 = a2
    None = None
    Workers = {w1, w2}
    Prompts = {p1}
    Texts <- MCTexts
    Hashes <- MCHashes
    HashOf <- MCHashOf
    Near <- MCNear
    MaxAttempts = 2
    PromptText <- OneText
    PromptPriority <- OnePriority
    ProcessOf <- OneSlotEach
    Mortal <- AllProcesses
    CrashAt <- NotBetween
    StallAt <- Nowhere
    BeatAt <- BeatNotBetween
    DbFailAt <- DbNotBetween
    AttemptCap = 2
    Calls = {a1}
    Submissions <- OneDigest
    NotifyFails = TRUE
    MaxDepth = 1
    ApiFailAt <- ApiNotBetween
INVARIANTS NobodyStranded ReplyStands
PROPERTIES KeepsPromise EveryCallReplied
CHECK_DEADLOCK FALSE
