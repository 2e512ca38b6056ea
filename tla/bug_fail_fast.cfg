SPECIFICATION FairSpec
CONSTANTS
    s1 = s1  s2 = s2  s3 = s3
    Slots = {s1, s2}
PROPERTIES FailFast
CHECK_DEADLOCK FALSE
