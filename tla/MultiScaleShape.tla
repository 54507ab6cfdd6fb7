-------------------------- MODULE MultiScaleShape --------------------------
(***************************************************************************)
(* The shape-function kernels of MultiScaleTransforms                      *)
(* (src/multiscale/multiscaletransforms.h): the side length n of the      *)
(* kernel MakeShapeFunction builds for a scale and a shape, and the pixels *)
(* AddShapeComponent adds a kernel sample to when it stamps a component    *)
(* into an image, clipped at the image's edges.                            *)
(*                                                                         *)
(* The kernel's sample values (Hann taper, quadratic, Gaussian, the        *)
(* normalisation) are real arithmetic and are left out: what is kept is    *)
(* the integer geometry, n and the index arithmetic.  A scale is a         *)
(* multiple of 1/ScaleDen pixels, so ceil() is exact.                      *)
(***************************************************************************)
EXTENDS Naturals, Integers

CONSTANTS
    MaxSide,      \* the largest image side checked
    MaxScale,     \* the largest scale checked, in units of 1/ScaleDen pixel
    ScaleDen      \* scales are multiples of 1/ScaleDen pixel

ASSUME ShapeConstantsAssumption ==
    /\ MaxSide \in Nat \ {0}
    /\ MaxScale \in Nat
    /\ ScaleDen \in Nat \ {0}

Shapes == {"TaperedQuadraticShape", "GaussianShape"}

MinOf(a, b) == IF a <= b THEN a ELSE b

(* ceil(p / q) for p >= 0, q > 0.                                          *)
CeilDiv(p, q) == (p + q - 1) \div q

-----------------------------------------------------------------------------
(* Mutant of TaperedQuadraticKernelSize: ceil written as floor + 1.        *)
TaperedQuadraticKernelSizeFloorPlusOne(k) == (k \div (2 * ScaleDen) + 1) * 2 + 1

(* taperedQuadraticKernelSize, lines 111-114: size_t(ceil(s*0.5)*2.0)+1,   *)
(* for the scale s = k / ScaleDen.                                         *)
TaperedQuadraticKernelSize(k) == CeilDiv(k, 2 * ScaleDen) * 2 + 1

(* Mutant of GaussianKernelSize: the clip to maxN is not made odd again.   *)
GaussianKernelSizeNoDecrement(k, maxN) ==
    LET n0 == CeilDiv(9 * k, 8 * ScaleDen) * 2 + 1
        n1 == IF n0 > maxN THEN maxN ELSE n0
        n2 == IF n1 < 1 THEN 1 ELSE n1
    IN  IF k = 0 THEN 1 ELSE n2

(* makeGaussianFunction, lines 125-142: sigma = s * 3/16, a box of 12      *)
(* sigma: n = int(ceil(sigma * 6)) * 2 + 1 = ceil(9 s / 8) * 2 + 1, clipped *)
(* to maxN and made odd again by a decrement, at least 1, and 1 when sigma *)
(* is zero.                                                                *)
GaussianKernelSize(k, maxN) ==
    LET n0 == CeilDiv(9 * k, 8 * ScaleDen) * 2 + 1
        n1 == IF n0 > maxN
              THEN IF maxN % 2 = 0 /\ maxN > 0 THEN maxN - 1 ELSE maxN
              ELSE n0
        n2 == IF n1 < 1 THEN 1 ELSE n1
    IN  IF k = 0 THEN 1 ELSE n2

(* MakeShapeFunction, lines 83-95: the side of the kernel it builds; any   *)
(* shape but the Gaussian falls to the tapered quadratic.                  *)
KernelSize(k, maxN, shape) ==
    IF shape = "GaussianShape"
    THEN GaussianKernelSize(k, maxN)
    ELSE TaperedQuadraticKernelSize(k)

(* KernelPeakValue, lines 46-52: the flat index of the sample it returns.  *)
KernelPeakIndex(n) == n \div 2 + (n \div 2) * n

(* The kernel samples MakeShapeFunction writes after output.resize(n * n): *)
(* makeGaussianFunction (lines 143-166) fills all n * n; the tapered       *)
(* quadratic (lines 168-192) fills all of them unless the scale is 0,      *)
(* when only output2d[0] is set.                                           *)
KernelSamplesWritten(k, maxN, shape) ==
    LET n == KernelSize(k, maxN, shape)
    IN  IF shape # "GaussianShape" /\ k = 0 THEN {0} ELSE 0..n * n - 1

-----------------------------------------------------------------------------
(* Mutant of ShapeComponentWrites: right and bottom one short, x + n/2.    *)
ShapeComponentWritesShort(width, height, k, x, y, shape) ==
    LET n == KernelSize(k, MinOf(width, height), shape)
        left == IF x > n \div 2 THEN x - n \div 2 ELSE 0
        top == IF y > n \div 2 THEN y - n \div 2 ELSE 0
        right == MinOf(x + n \div 2, width)
        bottom == MinOf(y + n \div 2, height)
    IN  [bounds |-> <<left, right, top, bottom>>,
         writes |-> {[pixel |-> <<xi, yi>>,
                      sample |-> (yi + n \div 2 - y) * n + left + n \div 2 - x
                                 + (xi - left)] :
                        yi \in top..bottom - 1, xi \in left..right - 1}]

(* AddShapeComponent, lines 54-81: the kernel, built with maxN =           *)
(* min(width, height), is added around (x, y).  left and top clamp at 0,   *)
(* right and bottom at the image's side.  Each write is the image pixel    *)
(* <<xi, yi>> and the flat index of the kernel sample added to it: the row *)
(* start (yi + n/2 - y) * n + left + n/2 - x, advanced once per column.    *)
ShapeComponentWrites(width, height, k, x, y, shape) ==
    LET n == KernelSize(k, MinOf(width, height), shape)
        left == IF x > n \div 2 THEN x - n \div 2 ELSE 0
        top == IF y > n \div 2 THEN y - n \div 2 ELSE 0
        right == MinOf(x + (n + 1) \div 2, width)
        bottom == MinOf(y + (n + 1) \div 2, height)
    IN  [bounds |-> <<left, right, top, bottom>>,
         writes |-> {[pixel |-> <<xi, yi>>,
                      sample |-> (yi + n \div 2 - y) * n + left + n \div 2 - x
                                 + (xi - left)] :
                        yi \in top..bottom - 1, xi \in left..right - 1}]

(* The reference: every image pixel under the n x n kernel centred on      *)
(* (x, y) gets the kernel sample at the same offset from the centre.       *)
ReferenceWrites(width, height, k, x, y, shape) ==
    LET n == KernelSize(k, MinOf(width, height), shape)
    IN  {[pixel |-> <<xi, yi>>,
          sample |-> (yi - y + n \div 2) * n + (xi - x + n \div 2)] :
            yi \in {v \in 0..height - 1 : v - y + n \div 2 \in 0..n - 1},
            xi \in {u \in 0..width - 1 : u - x + n \div 2 \in 0..n - 1}}

-----------------------------------------------------------------------------
(* One call of AddShapeComponent: an image, a scale, a position inside     *)
(* the image and a shape.                                                  *)
VARIABLES width, height, scale, x, y, shape

vars == <<width, height, scale, x, y, shape>>

TypeOK ==
    /\ width \in 1..MaxSide /\ height \in 1..MaxSide
    /\ scale \in 0..MaxScale
    /\ x \in 0..width - 1 /\ y \in 0..height - 1
    /\ shape \in Shapes

Init == TypeOK

(* The call has no effect on the arguments of the next one.                *)
AddComponent == UNCHANGED vars

Next == AddComponent

Spec == Init /\ [][Next]_vars

-----------------------------------------------------------------------------
(***************************************************************************)
(* Properties.                                                             *)
(***************************************************************************)

(* Every kernel MakeShapeFunction builds has an odd side of at least 1, so *)
(* it has a centre sample n/2 + (n/2)*n (KernelPeakValue) and the stamp of *)
(* AddShapeComponent is centred on the component; a Gaussian kernel also  *)
(* fits in the image (spec section 4.4).                                   *)
KernelSizeOdd ==
    LET n == KernelSize(scale, MinOf(width, height), shape)
    IN  /\ n % 2 = 1
        /\ shape = "GaussianShape" => n <= MinOf(width, height)

(* MakeShapeFunction leaves no sample of the n x n kernel uninitialised    *)
(* (UVector::resize does not initialise), so the stamp, the integrated    *)
(* value and the centre sample KernelPeakValue returns are all written.   *)
KernelFullyWritten ==
    LET n == KernelSize(scale, MinOf(width, height), shape)
        written == KernelSamplesWritten(scale, MinOf(width, height), shape)
    IN  /\ written = 0..n * n - 1
        /\ KernelPeakIndex(n) \in written

(* AddShapeComponent's loops end (left <= right, top <= bottom: they run   *)
(* with !=) and add exactly the kernel samples that lie over the image,    *)
(* each to the pixel at the same offset from (x, y), for kernels that      *)
(* overhang any edge, or several (spec section 8).                         *)
ShapeComponentClipped ==
    LET call == ShapeComponentWrites(width, height, scale, x, y, shape)
    IN  /\ call.bounds[1] <= call.bounds[2]
        /\ call.bounds[3] <= call.bounds[4]
        /\ call.writes = ReferenceWrites(width, height, scale, x, y, shape)

=============================================================================
