\* Every argv of up to 4 tokens of flags, -restore, -version, an unknown
\* option and a file name, in a build without IDG.
SPECIFICATION Spec
CONSTANTS
    Tokens = {"-reorder", "-no-reorder", "-iuwt", "-negative", "-dry-run", "-restore", "-version", "-bogus", "-quiet", "-use-idg", "-fit-beam", "-no-fit-beam", "-theoretic-beam", "-circular-beam", "-elliptical-beam", "ms"}
    MaxArgs = 4
    HaveIDG = FALSE
INVARIANTS
    TypeOK
    EveryArgumentOnce
