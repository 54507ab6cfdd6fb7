\* Expected to violate ValuesWithinArgv: an option whose value is missing
\* at the end of argv.
SPECIFICATION Spec
CONSTANTS
    Tokens = {"-name", "-size", "-weight", "ms", "7", "briggs"}
    MaxArgs = 3
    HaveIDG = TRUE
INVARIANTS
    ValuesWithinArgv
