------------------------ MODULE MultiScaleShapeProofs ------------------------
(***************************************************************************)
(* Proofs, for every image side, scale, scale unit, position and shape,    *)
(* of the properties the stamp run checks on images of side up to 4.  The  *)
(* arguments of one AddShapeComponent call never change, so each property  *)
(* is a fact about every state TypeOK allows.                              *)
(***************************************************************************)
EXTENDS MultiScaleShape, TLAPS

USE ShapeConstantsAssumption

(* ceil(p / q) of a natural number by a positive one is a natural number,  *)
(* and it is 0 exactly for p = 0.                                          *)
LEMMA CeilDivNat ==
    ASSUME NEW p \in Nat, NEW q \in Nat \ {0}
    PROVE  /\ CeilDiv(p, q) \in Nat
           /\ p = 0 => CeilDiv(p, q) = 0
BY DEF CeilDiv

(* The side MakeShapeFunction gives a kernel is odd, at least 1, and for   *)
(* the Gaussian at most the maxN it was given.                             *)
LEMMA KernelSizeFacts ==
    ASSUME NEW k \in Nat, NEW maxN \in Nat \ {0}, NEW s \in Shapes
    PROVE  /\ KernelSize(k, maxN, s) \in Nat
           /\ KernelSize(k, maxN, s) % 2 = 1
           /\ s = "GaussianShape" => KernelSize(k, maxN, s) <= maxN
<1>1. CeilDiv(k, 2 * ScaleDen) \in Nat /\ CeilDiv(9 * k, 8 * ScaleDen) \in Nat
  BY CeilDivNat
<1>2. CASE s = "GaussianShape"
  <2> DEFINE n0 == CeilDiv(9 * k, 8 * ScaleDen) * 2 + 1
             n1 == IF n0 > maxN
                   THEN IF maxN % 2 = 0 /\ maxN > 0 THEN maxN - 1 ELSE maxN
                   ELSE n0
             n2 == IF n1 < 1 THEN 1 ELSE n1
  <2>1. n0 \in Nat /\ n0 % 2 = 1
    BY <1>1
  <2>2. n1 \in Nat /\ n1 % 2 = 1 /\ n1 <= maxN /\ n1 >= 1
    BY <2>1
  <2>3. KernelSize(k, maxN, s) = IF k = 0 THEN 1 ELSE n2
    BY <1>2 DEF KernelSize, GaussianKernelSize
  <2>4. QED
    BY <2>2, <2>3
<1>3. CASE s # "GaussianShape"
  <2>1. KernelSize(k, maxN, s) = CeilDiv(k, 2 * ScaleDen) * 2 + 1
    BY <1>3 DEF KernelSize, TaperedQuadraticKernelSize
  <2>2. QED
    BY <1>1, <1>3, <2>1
<1>4. QED
  BY <1>2, <1>3


(* The centre sample n/2 + (n/2) * n of an n x n kernel, n >= 1, is one of *)
(* its n * n samples.                                                      *)
LEMMA PeakInKernel ==
    ASSUME NEW n \in Nat \ {0}
    PROVE  KernelPeakIndex(n) \in 0..n * n - 1
<1>1. n \div 2 \in 0..n - 1
  OBVIOUS
<1>2. (n \div 2) * n <= (n - 1) * n
  BY <1>1
<1>3. QED
  BY <1>1, <1>2 DEF KernelPeakIndex

(* The arguments of a call always satisfy TypeOK.                          *)
LEMMA TypeInvariance == Spec => []TypeOK
<1>1. Init => TypeOK
  BY DEF Init
<1>2. TypeOK /\ [Next]_vars => TypeOK'
  BY DEF TypeOK, Next, AddComponent, vars
<1>3. QED
  BY <1>1, <1>2, PTL DEF Spec

(* The kernel side MakeShapeFunction computes for the arguments of a call. *)
LEMMA CallKernelSize ==
    ASSUME TypeOK
    PROVE  LET n == KernelSize(scale, MinOf(width, height), shape)
           IN  /\ n \in Nat \ {0} /\ n % 2 = 1
               /\ shape = "GaussianShape" => n <= MinOf(width, height)
<1>1. MinOf(width, height) \in Nat \ {0} /\ scale \in Nat /\ shape \in Shapes
  BY DEF TypeOK, MinOf
<1>2. /\ KernelSize(scale, MinOf(width, height), shape) \in Nat
      /\ KernelSize(scale, MinOf(width, height), shape) % 2 = 1
      /\ shape = "GaussianShape" =>
            KernelSize(scale, MinOf(width, height), shape) <= MinOf(width, height)
  BY <1>1, KernelSizeFacts, Zenon
<1>3. QED
  BY <1>2

(* Every kernel AddShapeComponent builds has an odd side, and a Gaussian   *)
(* kernel fits in the image, for every image, scale, position and shape.   *)
THEOREM KernelSizeOddTheorem == Spec => []KernelSizeOdd
<1>1. TypeOK => KernelSizeOdd
  BY CallKernelSize DEF KernelSizeOdd
<1>2. QED
  BY <1>1, TypeInvariance, PTL

(* MakeShapeFunction writes every sample of the kernel it resizes, and the *)
(* centre sample KernelPeakValue reads is one of them, for every scale,   *)
(* including a tapered quadratic of scale 0.                               *)
THEOREM KernelFullyWrittenTheorem == Spec => []KernelFullyWritten
<1>1. ASSUME TypeOK PROVE KernelFullyWritten
  <2> DEFINE n == KernelSize(scale, MinOf(width, height), shape)
  <2>1. n \in Nat \ {0}
    BY <1>1, CallKernelSize
  <2>2. CASE shape # "GaussianShape" /\ scale = 0
    <3>1. n = 1
      BY <2>2, CeilDivNat DEF KernelSize, TaperedQuadraticKernelSize
    <3>2. KernelSamplesWritten(scale, MinOf(width, height), shape) = {0}
      BY <2>2 DEF KernelSamplesWritten
    <3>3. QED
      BY <3>1, <3>2 DEF KernelFullyWritten, KernelPeakIndex
  <2>3. CASE ~(shape # "GaussianShape" /\ scale = 0)
    BY <2>1, <2>3, PeakInKernel DEF KernelFullyWritten, KernelSamplesWritten
  <2>4. QED
    BY <2>2, <2>3
<1>2. QED
  BY <1>1, TypeInvariance, PTL


(* AddShapeComponent's loops end and add exactly the kernel samples that   *)
(* lie over the image, each to the pixel at the same offset from (x, y),   *)
(* for every image, kernel size and position, overhanging or not.  The     *)
(* clamped ranges left..right-1 and top..bottom-1 are the kernel's columns *)
(* and rows inside the image because n - n/2 = (n+1)/2 for every n.        *)
THEOREM ShapeComponentClippedTheorem == Spec => []ShapeComponentClipped
<1>1. ASSUME TypeOK PROVE ShapeComponentClipped
  <2> DEFINE n == KernelSize(scale, MinOf(width, height), shape)
             m == n \div 2
             left == IF x > m THEN x - m ELSE 0
             top == IF y > m THEN y - m ELSE 0
             right == MinOf(x + (n + 1) \div 2, width)
             bottom == MinOf(y + (n + 1) \div 2, height)
             XR == {u \in 0..width - 1 : u - x + m \in 0..n - 1}
             YR == {v \in 0..height - 1 : v - y + m \in 0..n - 1}
  <2>0. /\ width \in Nat \ {0} /\ height \in Nat \ {0}
        /\ x \in 0..width - 1 /\ y \in 0..height - 1
    BY <1>1 DEF TypeOK
  <2>1. n \in Nat \ {0}
    BY <1>1, CallKernelSize
  <2>2. ShapeComponentWrites(width, height, scale, x, y, shape) =
          [bounds |-> <<left, right, top, bottom>>,
           writes |-> {[pixel |-> <<xi, yi>>,
                        sample |-> (yi + m - y) * n + left + m - x + (xi - left)] :
                          yi \in top..bottom - 1, xi \in left..right - 1}]
    BY DEF ShapeComponentWrites
  <2>3. ReferenceWrites(width, height, scale, x, y, shape) =
          {[pixel |-> <<xi, yi>>, sample |-> (yi - y + m) * n + (xi - x + m)] :
             yi \in YR, xi \in XR}
    BY DEF ReferenceWrites
  <2>4. n - m = (n + 1) \div 2
    BY <2>1
  <2>5. left..right - 1 = XR /\ left <= right
    BY <2>0, <2>1, <2>4 DEF MinOf
  <2>6. top..bottom - 1 = YR /\ top <= bottom
    BY <2>0, <2>1, <2>4 DEF MinOf
  <2>7. \A xi, yi \in Int :
          (yi + m - y) * n + left + m - x + (xi - left) = (yi - y + m) * n + (xi - x + m)
    BY <2>0, <2>1
  <2>8. {[pixel |-> <<xi, yi>>,
          sample |-> (yi + m - y) * n + left + m - x + (xi - left)] :
            yi \in top..bottom - 1, xi \in left..right - 1}
        = {[pixel |-> <<xi, yi>>, sample |-> (yi - y + m) * n + (xi - x + m)] :
             yi \in YR, xi \in XR}
    BY <2>5, <2>6, <2>7
  <2>9. QED
    BY <2>2, <2>3, <2>5, <2>6, <2>8 DEF ShapeComponentClipped
<1>2. QED
  BY <1>1, TypeInvariance, PTL

=============================================================================
