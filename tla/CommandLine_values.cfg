\* Every argv of up to 4 tokens of the options that take 1, 2, 3 or a
\* variable number of values, and values that parse or do not.
SPECIFICATION Spec
CONSTANTS
    Tokens = {"-name", "-size", "-weight", "-niter", "-restore-list", "-beam-shape", "-apply-facet-solutions", "-no-negative", "-beam-fitting-size", "ms", "7", "briggs", "natural"}
    MaxArgs = 4
    HaveIDG = TRUE
INVARIANTS
    EveryArgumentOnce
