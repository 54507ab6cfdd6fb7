\* Expected to violate NyquistSameFrequency: a narrower output takes the
\* input's column _inputWidth/2 into its column _outputWidth/2.
CONSTANTS
    MaxSide = 6
    SizeBits = 16
SPECIFICATION Spec
INVARIANTS
    NyquistSameFrequency
