SPECIFICATION Spec
CONSTANTS
    Keys = {a, b, c, d}
    MaxSize = 3
    MaxOps = 6
INVARIANT ListAndIndexAgree
PROPERTY ValidUntilEvicted
CHECK_DEADLOCK FALSE
