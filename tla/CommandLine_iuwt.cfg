\* Expected to violate IUWTWithoutNegative: -negative after -iuwt.
SPECIFICATION Spec
CONSTANTS
    Tokens = {"-iuwt", "-negative", "-no-negative", "ms"}
    MaxArgs = 3
    HaveIDG = TRUE
INVARIANTS
    IUWTWithoutNegative
