\* Every input and output grid of sides 1..6, odd and even, up- and
\* downsampling and equal sizes.
CONSTANTS
    MaxSide = 6
    SizeBits = 16
SPECIFICATION Spec
INVARIANTS
    RemapWellFormed
    RemapLowFrequencies
    SingleFTInputCentred
