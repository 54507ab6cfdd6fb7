\* Every argv of up to 4 tokens of the options that force other settings,
\* with an enumerated value, a padding above and one below 1.0.
SPECIFICATION Spec
CONSTANTS
    Tokens = {"-continue", "-make-psf", "-save-source-list", "-multiscale-shape", "-padding", "-direct-ft", "-small-inversion", "-no-small-inversion", "-use-idg", "-join-channels", "-mf-weighting", "-no-mf-weighting", "gaussian", "7", "0"}
    MaxArgs = 4
    HaveIDG = TRUE
INVARIANTS
    EveryArgumentOnce
