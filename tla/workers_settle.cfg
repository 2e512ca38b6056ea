SPECIFICATION FairSpec
CONSTANTS
    w1 = w1  w2 = w2  w3 = w3  p1 = p1  p2 = p2  p3 = p3
    None = None
    Workers = {w1, w2}
    Prompts = {p1, p2, p3}
    Texts <- MCTexts
    Hashes <- MCHashes
    HashOf <- MCHashOf
    Near <- MCNear
    MaxAttempts = 2
    PromptText <- TwoSpellings
    PromptPriority <- OneUrgent
    ProcessOf <- OneSlotEach
    Mortal <- AllButOne
    CrashAt <- NotMarkFailed
    StallAt <- Nowhere
    BeatAt <- BeatNotBetween
    DbFailAt <- Nowhere
    AttemptCap = 3
INVARIANTS DeadMeansExhausted LeaseHolder PaidOnce AnswerKept
PROPERTIES EverySettled
CHECK_DEADLOCK FALSE
