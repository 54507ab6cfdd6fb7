\* Expected to violate SingleFTCoversOutput: for an odd width the last
\* column of the output planes is never written.
CONSTANTS
    MaxSide = 6
    SizeBits = 16
SPECIFICATION Spec
INVARIANTS
    SingleFTCoversOutput
