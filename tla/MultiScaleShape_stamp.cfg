\* Images of sides 1..4, every position in them, scales 0 .. 6 pixels in
\* half-pixel steps, both shapes: kernels from 1x1 to larger than the image.
CONSTANTS
    MaxSide = 4
    MaxScale = 12
    ScaleDen = 2
SPECIFICATION Spec
INVARIANTS
    KernelSizeOdd
    ShapeComponentClipped
    KernelFullyWritten
