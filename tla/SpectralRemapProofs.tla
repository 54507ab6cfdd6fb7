------------------------- MODULE SpectralRemapProofs -------------------------
(***************************************************************************)
(* Proofs, for every pair of grid sizes and every size_t width that holds  *)
(* them, of the remap and centring properties the remap run checks on      *)
(* sides up to 6.  The grid sizes never change, so each property is a fact *)
(* about every state TypeOK allows.                                        *)
(***************************************************************************)
EXTENDS SpectralRemap, TLAPS

USE SideAssumption, SizeBitsAssumption

(* A value within one modulus of 0 is brought into [0, N) by adding N at   *)
(* most once.                                                              *)
LEMMA ModWrap ==
    ASSUME NEW N \in Nat \ {0}, NEW a \in Int, -N <= a, a < N
    PROVE  a % N = IF a >= 0 THEN a ELSE a + N
OBVIOUS

(* The modulus of size_t arithmetic in the model, named so that the       *)
(* provers treat it as a number: SizeT reduces modulo it, and it exceeds   *)
(* every value the remap computes before the wrap.                         *)
Modulus == 2^SizeBits

LEMMA ModulusFacts ==
    /\ Modulus \in Nat \ {0}
    /\ 4 * MaxSide + 4 < Modulus
    /\ \A n \in Int : SizeT(n) = n % Modulus
BY DEF Modulus, SizeT

(* Lines 80-86 of runSingle: for a row offset y of the common block of     *)
(* height minH <= H, the size_t arithmetic yields y - minMidY taken modulo *)
(* H, with no wrap at 2^SizeBits showing through.  OldY and NewY are the   *)
(* same computation with the input and the output height.                  *)
LEMMA RowWrap ==
    ASSUME NEW H \in 1..MaxSide, NEW minH \in 1..H, NEW y \in 0..minH - 1
    PROVE  LET m == minH \div 2
               r == IF y >= m THEN y - m ELSE y - m + H
           IN  /\ OldY(y, H, m) = r
               /\ NewY(y, H, m) = r
               /\ r \in 0..H - 1
<1> DEFINE m == minH \div 2
           N == Modulus
<1>1. N \in Nat \ {0} /\ 4 * MaxSide + 4 < N /\ \A n \in Int : SizeT(n) = n % N
  BY ModulusFacts
<1> HIDE DEF Modulus
<1>2. SizeT(y - m) = IF y >= m THEN y - m ELSE y - m + N
  <2>1. y - m \in Int /\ -N <= y - m /\ y - m < N
    BY <1>1
  <2>2. (y - m) % N = IF y - m >= 0 THEN y - m ELSE y - m + N
    BY <1>1, <2>1, ModWrap
  <2>3. QED
    BY <1>1, <2>1, <2>2
<1>3. CASE y >= m
  <2>1. y - m + H \in Int /\ 0 <= y - m + H /\ -N <= y - m + H /\ y - m + H < N
    BY <1>1, <1>3
  <2>2. (y - m + H) % N = y - m + H
    BY <1>1, <2>1, ModWrap
  <2>3. SizeT(SizeT(y - m) + H) = y - m + H
    BY <1>1, <1>2, <1>3, <2>1, <2>2
  <2>4. QED
    BY <1>3, <2>3 DEF OldY, NewY
<1>4. CASE y < m
  <2>1. SizeT(SizeT(y - m) + H) = ((y - m + H) + N) % N
    BY <1>1, <1>2, <1>4
  <2>2. ((y - m + H) + N) % N = y - m + H
    BY <1>1, <1>4
  <2>3. QED
    BY <1>4, <2>1, <2>2 DEF OldY, NewY
<1>5. QED
  BY <1>3, <1>4


(* The grid sizes always satisfy TypeOK.                                   *)
LEMMA TypeInvariance == Spec => []TypeOK
<1>1. Init => TypeOK
  BY DEF Init
<1>2. TypeOK /\ [Next]_vars => TypeOK'
  BY DEF TypeOK, Next, Resample, vars
<1>3. QED
  BY <1>1, <1>2, PTL DEF Spec

(* The row of the common block that row offset y stands for: the signed    *)
(* frequency y - minMidY, reduced modulo either height.                    *)
LEMMA RowFrequency ==
    ASSUME NEW H \in 1..MaxSide, NEW minH \in 1..H, NEW y \in 0..minH - 1
    PROVE  /\ OldY(y, H, minH \div 2) = (y - minH \div 2) % H
           /\ NewY(y, H, minH \div 2) = (y - minH \div 2) % H
<1>1. (y - minH \div 2) % H
        = IF y - minH \div 2 >= 0 THEN y - minH \div 2 ELSE y - minH \div 2 + H
  <2>1. H \in Nat \ {0} /\ y - minH \div 2 \in Int
        /\ -H <= y - minH \div 2 /\ y - minH \div 2 < H
    OBVIOUS
  <2>2. QED
    BY <2>1, ModWrap
<1>2. QED
  BY <1>1, RowWrap

(* The inner loop of runSingle copies each frequency of the common block   *)
(* to the output bin of the same frequency and nothing else, for every     *)
(* pair of grid sizes.                                                     *)
THEOREM RemapLowFrequenciesTheorem == Spec => []RemapLowFrequencies
<1>1. ASSUME TypeOK PROVE RemapLowFrequencies
  <2> DEFINE minW == MinOf(inW, outW)
             minH == MinOf(inH, outH)
             m == minH \div 2
             SI == inW \div 2 + 1
             SO == outW \div 2 + 1
             X == 0..(minW \div 2) - 1
             Cp(x, y) == [src |-> x + OldY(y, inH, m) * SI,
                          dst |-> x + NewY(y, outH, m) * SO]
             Rf(fx, fy) == [src |-> BinIndex(fx, fy, inW, inH),
                            dst |-> BinIndex(fx, fy, outW, outH)]
  <2>1. /\ inH \in 1..MaxSide /\ outH \in 1..MaxSide
        /\ minH \in 1..inH /\ minH \in 1..outH
    BY <1>1 DEF TypeOK, Sides, MinOf
  <2>2. LoopCopies(inW, inH, outW, outH) = {Cp(x, y) : y \in 0..minH - 1, x \in X}
    BY DEF LoopCopies
  <2>3. ReferenceLowCopies(inW, inH, outW, outH) = {Rf(fx, fy) : fx \in X, fy \in -m..minH - 1 - m}
    BY DEF ReferenceLowCopies
  <2>4. ASSUME NEW y \in 0..minH - 1, NEW x \in X
        PROVE  Cp(x, y) = Rf(x, y - m)
    <3>1. OldY(y, inH, m) = (y - m) % inH /\ NewY(y, outH, m) = (y - m) % outH
      BY <2>1, RowFrequency
    <3>2. QED
      BY <3>1 DEF BinIndex
  <2>5. \A y \in 0..minH - 1, x \in X : Cp(x, y) \in {Rf(fx, fy) : fx \in X, fy \in -m..minH - 1 - m}
    <3> SUFFICES ASSUME NEW y \in 0..minH - 1, NEW x \in X
                 PROVE  \E fx \in X, fy \in -m..minH - 1 - m : Cp(x, y) = Rf(fx, fy)
      OBVIOUS
    <3>1. y - m \in -m..minH - 1 - m
      BY <2>1
    <3>2. QED
      BY <2>4, <3>1
  <2>6. \A fx \in X, fy \in -m..minH - 1 - m : Rf(fx, fy) \in {Cp(x, y) : y \in 0..minH - 1, x \in X}
    <3> SUFFICES ASSUME NEW fx \in X, NEW fy \in -m..minH - 1 - m
                 PROVE  \E y \in 0..minH - 1, x \in X : Rf(fx, fy) = Cp(x, y)
      OBVIOUS
    <3>1. fy + m \in 0..minH - 1 /\ (fy + m) - m = fy
      BY <2>1
    <3>2. Cp(fx, fy + m) = Rf(fx, fy)
      BY <2>4, <3>1
    <3>3. QED
      BY <3>1, <3>2
  <2>7. {Cp(x, y) : y \in 0..minH - 1, x \in X}
          = {Rf(fx, fy) : fx \in X, fy \in -m..minH - 1 - m}
    <3>1. ASSUME NEW c \in {Cp(x, y) : y \in 0..minH - 1, x \in X}
          PROVE  c \in {Rf(fx, fy) : fx \in X, fy \in -m..minH - 1 - m}
      <4>1. PICK y \in 0..minH - 1, x \in X : c = Cp(x, y)
        OBVIOUS
      <4>2. QED
        BY <4>1, <2>5
    <3>2. ASSUME NEW c \in {Rf(fx, fy) : fx \in X, fy \in -m..minH - 1 - m}
          PROVE  c \in {Cp(x, y) : y \in 0..minH - 1, x \in X}
      <4>1. PICK fx \in X, fy \in -m..minH - 1 - m : c = Rf(fx, fy)
        OBVIOUS
      <4>2. QED
        BY <4>1, <2>6
    <3>3. QED
      BY <3>1, <3>2
  <2>8. QED
    BY <2>2, <2>3, <2>7 DEF RemapLowFrequencies
<1>2. QED
  BY <1>1, TypeInvariance, PTL


(* A column below the stride plus a row below the height times the stride  *)
(* is a flat index of the S x H half-spectrum.                             *)
LEMMA StrideBound ==
    ASSUME NEW S \in Nat \ {0}, NEW H \in Nat \ {0},
           NEW x \in 0..S - 1, NEW r \in 0..H - 1
    PROVE  x + r * S \in 0..S * H - 1
<1>1. r * S <= (H - 1) * S
  OBVIOUS
<1>2. QED
  BY <1>1

(* A flat index determines its column and its row.                        *)
LEMMA StrideUnique ==
    ASSUME NEW S \in Nat \ {0}, NEW x1 \in 0..S - 1, NEW x2 \in 0..S - 1,
           NEW r1 \in Nat, NEW r2 \in Nat, x1 + r1 * S = x2 + r2 * S
    PROVE  x1 = x2 /\ r1 = r2
OBVIOUS

(* Distinct rows of the common block go to distinct output rows: the rows *)
(* at and after minMidY land below minH - minMidY, the wrapped ones at or  *)
(* above H - minMidY.                                                      *)
LEMMA RowInjective ==
    ASSUME NEW H \in 1..MaxSide, NEW minH \in 1..H,
           NEW y1 \in 0..minH - 1, NEW y2 \in 0..minH - 1,
           NewY(y1, H, minH \div 2) = NewY(y2, H, minH \div 2)
    PROVE  y1 = y2
<1> DEFINE m == minH \div 2
<1>1. /\ NewY(y1, H, m) = IF y1 >= m THEN y1 - m ELSE y1 - m + H
      /\ NewY(y2, H, m) = IF y2 >= m THEN y2 - m ELSE y2 - m + H
  BY RowWrap
<1>2. QED
  BY <1>1

(* Every bin runSingle writes, from the loop or the Nyquist column, as a   *)
(* function of its output column xd and its row offset y: the input       *)
(* column is xd in the loop and _inputWidth/2 in the extra column.         *)
LEMMA CopyShape ==
    ASSUME TypeOK
    PROVE  LET minW == MinOf(inW, outW)
               minH == MinOf(inH, outH)
               m == minH \div 2
               SI == inW \div 2 + 1
               SO == outW \div 2 + 1
               XS(xd) == IF xd < minW \div 2 THEN xd ELSE inW \div 2
           IN  \A c \in RemapCopies(inW, inH, outW, outH) :
                 \E y \in 0..minH - 1, xd \in 0..SO - 1 :
                    /\ XS(xd) \in 0..SI - 1
                    /\ c = [src |-> XS(xd) + OldY(y, inH, m) * SI,
                            dst |-> xd + NewY(y, outH, m) * SO]
<1> DEFINE minW == MinOf(inW, outW)
           minH == MinOf(inH, outH)
           m == minH \div 2
           SI == inW \div 2 + 1
           SO == outW \div 2 + 1
           XS(xd) == IF xd < minW \div 2 THEN xd ELSE inW \div 2
<1>1. /\ inW \in 1..MaxSide /\ outW \in 1..MaxSide /\ minW \in 1..MaxSide
      /\ minW \div 2 <= inW \div 2 /\ minW \div 2 <= outW \div 2
  BY DEF TypeOK, Sides, MinOf
<1>2. ASSUME NEW c \in LoopCopies(inW, inH, outW, outH)
      PROVE  \E y \in 0..minH - 1, xd \in 0..SO - 1 :
                /\ XS(xd) \in 0..SI - 1
                /\ c = [src |-> XS(xd) + OldY(y, inH, m) * SI,
                        dst |-> xd + NewY(y, outH, m) * SO]
  <2>1. PICK y \in 0..minH - 1, x \in 0..(minW \div 2) - 1 :
          c = [src |-> x + OldY(y, inH, m) * SI, dst |-> x + NewY(y, outH, m) * SO]
    BY DEF LoopCopies
  <2>2. x \in 0..SO - 1 /\ XS(x) = x /\ x \in 0..SI - 1
    BY <1>1
  <2>3. QED
    BY <2>1, <2>2
<1>3. ASSUME NEW c \in NyquistCopies(inW, inH, outW, outH)
      PROVE  \E y \in 0..minH - 1, xd \in 0..SO - 1 :
                /\ XS(xd) \in 0..SI - 1
                /\ c = [src |-> XS(xd) + OldY(y, inH, m) * SI,
                        dst |-> xd + NewY(y, outH, m) * SO]
  <2>1. PICK y \in 0..minH - 1 :
          c = [src |-> inW \div 2 + OldY(y, inH, m) * SI,
               dst |-> outW \div 2 + NewY(y, outH, m) * SO]
    BY DEF NyquistCopies
  <2>2. outW \div 2 \in 0..SO - 1 /\ XS(outW \div 2) = inW \div 2 /\ inW \div 2 \in 0..SI - 1
    BY <1>1
  <2>3. QED
    BY <2>1, <2>2
<1>4. QED
  BY <1>2, <1>3 DEF RemapCopies


(* runSingle reads only bins of the input half-spectrum and writes only    *)
(* bins of the output half-spectrum, each at most once, for every pair of  *)
(* grid sizes: the size_t wrap below zero and the one conditional          *)
(* subtraction of lines 80-86 always land inside the grid.                 *)
THEOREM RemapWellFormedTheorem == Spec => []RemapWellFormed
<1>1. ASSUME TypeOK PROVE RemapWellFormed
  <2> DEFINE minW == MinOf(inW, outW)
             minH == MinOf(inH, outH)
             m == minH \div 2
             SI == inW \div 2 + 1
             SO == outW \div 2 + 1
             XS(xd) == IF xd < minW \div 2 THEN xd ELSE inW \div 2
             copies == RemapCopies(inW, inH, outW, outH)
  <2>1. \A c \in copies :
          \E y \in 0..minH - 1, xd \in 0..SO - 1 :
             /\ XS(xd) \in 0..SI - 1
             /\ c = [src |-> XS(xd) + OldY(y, inH, m) * SI,
                     dst |-> xd + NewY(y, outH, m) * SO]
    BY <1>1, CopyShape
  <2>2. /\ inH \in 1..MaxSide /\ outH \in 1..MaxSide
        /\ minH \in 1..inH /\ minH \in 1..outH
        /\ SI \in Nat \ {0} /\ SO \in Nat \ {0}
    BY <1>1 DEF TypeOK, Sides, MinOf
  <2>3. \A y \in 0..minH - 1 : OldY(y, inH, m) \in 0..inH - 1 /\ NewY(y, outH, m) \in 0..outH - 1
    BY <2>2, RowWrap
  <2>4. ASSUME NEW c \in copies
        PROVE  /\ c.src \in 0..(inW \div 2 + 1) * inH - 1
               /\ c.dst \in 0..(outW \div 2 + 1) * outH - 1
    <3>1. PICK y \in 0..minH - 1, xd \in 0..SO - 1 :
             /\ XS(xd) \in 0..SI - 1
             /\ c = [src |-> XS(xd) + OldY(y, inH, m) * SI,
                     dst |-> xd + NewY(y, outH, m) * SO]
      BY <2>1
    <3>2. XS(xd) + OldY(y, inH, m) * SI \in 0..SI * inH - 1
      BY <2>2, <2>3, <3>1, StrideBound
    <3>3. xd + NewY(y, outH, m) * SO \in 0..SO * outH - 1
      BY <2>2, <2>3, <3>1, StrideBound
    <3>4. QED
      BY <3>1, <3>2, <3>3
  <2>5. ASSUME NEW c \in copies, NEW d \in copies, c.dst = d.dst
        PROVE  c = d
    <3>1. PICK y1 \in 0..minH - 1, xd1 \in 0..SO - 1 :
             /\ XS(xd1) \in 0..SI - 1
             /\ c = [src |-> XS(xd1) + OldY(y1, inH, m) * SI,
                     dst |-> xd1 + NewY(y1, outH, m) * SO]
      BY <2>1
    <3>2. PICK y2 \in 0..minH - 1, xd2 \in 0..SO - 1 :
             /\ XS(xd2) \in 0..SI - 1
             /\ d = [src |-> XS(xd2) + OldY(y2, inH, m) * SI,
                     dst |-> xd2 + NewY(y2, outH, m) * SO]
      BY <2>1
    <3>3. xd1 + NewY(y1, outH, m) * SO = xd2 + NewY(y2, outH, m) * SO
      BY <2>5, <3>1, <3>2
    <3>4. NewY(y1, outH, m) \in Nat /\ NewY(y2, outH, m) \in Nat
      BY <2>3
    <3>5. xd1 = xd2 /\ NewY(y1, outH, m) = NewY(y2, outH, m)
      BY <2>2, <3>3, <3>4, StrideUnique
    <3>6. y1 = y2
      BY <2>2, <3>5, RowInjective
    <3>7. QED
      BY <3>1, <3>2, <3>5, <3>6
  <2>6. QED
    BY <2>4, <2>5 DEF RemapWellFormed
<1>2. QED
  BY <1>1, TypeInvariance, PTL


(* SingleFT's wrap of a coordinate shifted by half the side (yIn, lines    *)
(* 127-128, and xIn, lines 133-134), as SingleFTShift writes it: every     *)
(* coordinate of the input is reached, from one output coordinate.         *)
HalfShift(v, N) == IF v + N \div 2 >= N THEN v + N \div 2 - N ELSE v + N \div 2

LEMMA HalfShiftOnto ==
    ASSUME NEW N \in Nat \ {0}, NEW a \in 0..N - 1
    PROVE  /\ \E v \in 0..N - 1 : HalfShift(v, N) = a
           /\ \A v \in 0..N - 1 : HalfShift(v, N) \in 0..N - 1
<1>0. \A v \in 0..N - 1 : HalfShift(v, N) \in 0..N - 1
  BY DEF HalfShift
<1>1. CASE a >= N \div 2
  <2>1. a - N \div 2 \in 0..N - 1 /\ HalfShift(a - N \div 2, N) = a
    BY <1>1 DEF HalfShift
  <2>2. QED
    BY <1>0, <2>1
<1>2. CASE a < N \div 2
  <2>1. a + N - N \div 2 \in 0..N - 1 /\ HalfShift(a + N - N \div 2, N) = a
    BY <1>2 DEF HalfShift
  <2>2. QED
    BY <1>0, <2>1
<1>3. QED
  BY <1>1, <1>2

(* A flat index of a W x H image is a column plus a row times W.           *)
LEMMA FlatIndex ==
    ASSUME NEW W \in Nat \ {0}, NEW H \in Nat \ {0}, NEW s \in 0..W * H - 1
    PROVE  /\ s % W \in 0..W - 1 /\ s \div W \in 0..H - 1
           /\ s = (s % W) + (s \div W) * W
<1>1. s % W \in 0..W - 1 /\ s \div W \in Nat /\ s = (s % W) + (s \div W) * W
  OBVIOUS
<1>2. (s \div W) * W < W * H
  BY <1>1
<1>3. s \div W < H
  BY <1>2
<1>4. QED
  BY <1>1, <1>3

(* SingleFT's shift reads every input pixel exactly once, stays inside    *)
(* the input and puts the image centre (W/2, H/2) at the FFT origin        *)
(* data[0], for every side, odd or even.                                   *)
THEOREM SingleFTInputCentredTheorem == Spec => []SingleFTInputCentred
<1>1. ASSUME TypeOK PROVE SingleFTInputCentred
  <2> DEFINE W == inW
             H == inH
             Sh(x, y) == [dst |-> x + y * W, src |-> HalfShift(x, W) + HalfShift(y, H) * W]
             shift == SingleFTShift(W, H)
  <2>1. W \in Nat \ {0} /\ H \in Nat \ {0}
    BY <1>1 DEF TypeOK, Sides
  <2>2. shift = {Sh(x, y) : y \in 0..H - 1, x \in 0..W - 1}
    BY DEF SingleFTShift, HalfShift
  <2>3. ASSUME NEW c \in shift PROVE c.src \in 0..W * H - 1
    <3>1. PICK y \in 0..H - 1, x \in 0..W - 1 : c = Sh(x, y)
      BY <2>2
    <3>2. HalfShift(x, W) \in 0..W - 1 /\ HalfShift(y, H) \in 0..H - 1
      BY <2>1, HalfShiftOnto
    <3>3. HalfShift(x, W) + HalfShift(y, H) * W \in 0..W * H - 1
      BY <2>1, <3>2, StrideBound
    <3>4. QED
      BY <3>1, <3>3
  <2>4. ASSUME NEW s \in 0..W * H - 1 PROVE \E c \in shift : c.src = s
    <3>1. s % W \in 0..W - 1 /\ s \div W \in 0..H - 1 /\ s = (s % W) + (s \div W) * W
      BY <2>1, FlatIndex
    <3>2. PICK x \in 0..W - 1 : HalfShift(x, W) = s % W
      BY <2>1, <3>1, HalfShiftOnto
    <3>3. PICK y \in 0..H - 1 : HalfShift(y, H) = s \div W
      BY <2>1, <3>1, HalfShiftOnto
    <3>4. Sh(x, y) \in shift /\ Sh(x, y).src = s
      BY <2>2, <3>1, <3>2, <3>3
    <3>5. QED
      BY <3>4
  <2>5. {c.src : c \in shift} = 0..W * H - 1
    BY <2>3, <2>4
  <2>6. ASSUME NEW c \in shift, c.dst = 0 PROVE c.src = W \div 2 + (H \div 2) * W
    <3>1. PICK y \in 0..H - 1, x \in 0..W - 1 : c = Sh(x, y)
      BY <2>2
    <3>2. x = 0 /\ y = 0
      <4>1. x + y * W = 0
        BY <2>6, <3>1
      <4>2. y * W >= 0
        BY <2>1
      <4>3. x = 0 /\ y * W = 0
        BY <2>1, <3>1, <4>1, <4>2
      <4>4. QED
        BY <2>1, <4>3
    <3>3. HalfShift(0, W) = W \div 2 /\ HalfShift(0, H) = H \div 2
      BY <2>1 DEF HalfShift
    <3>4. QED
      BY <3>1, <3>2, <3>3
  <2>7. QED
    BY <2>5, <2>6 DEF SingleFTInputCentred
<1>2. QED
  BY <1>1, TypeInvariance, PTL

=============================================================================
