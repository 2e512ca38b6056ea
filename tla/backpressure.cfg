SPECIFICATION Spec
CONSTANTS
    p1 = p1  p2 = p2  p3 = p3  a1 = a1  a2 = a2
    None = None
    Prompts = {p1, p2, p3}
    Workers = {}
    Texts <- OneTextEach
    Hashes <- OneTextEach
    HashOf <- OwnHash
    Near = {}
    MaxAttempts = 1
    Calls = {a1, a2}
    Submissions <- OwnText
    MaxDepth = 1
    ApiFailAt = {}
    RequestWrites = {"failed"}
    JobWrites = {"queued", "processing", "dead"}
INVARIANTS TypeOK DepthBound
SYMMETRY Alike
VIEW Read
CHECK_DEADLOCK FALSE
