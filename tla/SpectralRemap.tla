--------------------------- MODULE SpectralRemap ---------------------------
(***************************************************************************)
(* The index arithmetic of the FFTResampler's transforms in                *)
(* src/fftresampler.cpp: the remap of runSingle (lines 57-106), which      *)
(* copies the bins of the input's half-spectrum into the output's, and the *)
(* centring of SingleFT (lines 119-177).  The bins' complex values are     *)
(* abstracted away: a copy is the pair of flat indices it reads and writes *)
(* (src into fftData, dst into newfftData), and the properties are about   *)
(* which bins go where.                                                    *)
(*                                                                         *)
(* Indices are size_t: they are computed modulo 2^SizeBits, which gives    *)
(* the same results as 64-bit size_t for every grid side below             *)
(* 2^(SizeBits-2) - 1.                                                     *)
(***************************************************************************)
EXTENDS Naturals, Integers

CONSTANTS
    MaxSide,   \* the largest grid side checked
    SizeBits   \* the width of size_t in the model

ASSUME SideAssumption == MaxSide \in Nat \ {0}
ASSUME SizeBitsAssumption ==
    /\ SizeBits \in Nat
    /\ 2^SizeBits \in Nat
    /\ 4 * MaxSide + 4 < 2^SizeBits

SizeT(n) == n % 2^SizeBits

MinOf(a, b) == IF a <= b THEN a ELSE b

(* The grids' sides a resampler may be built with.                        *)
Sides == 1..MaxSide

-----------------------------------------------------------------------------
(* Mutant of OldY: the wrapped row is not brought back below the height.   *)
OldYNoWrapBack(y, inH, minMidY) == SizeT(SizeT(y - minMidY) + inH)

(* runSingle, lines 80-86: the input and output rows that row offset y of  *)
(* the common block maps to.  y - minMidY wraps below zero; adding the     *)
(* height and one conditional subtraction bring it back into range.       *)
OldY(y, inH, minMidY) ==
    LET v == SizeT(SizeT(y - minMidY) + inH)
    IN  IF v >= inH THEN v - inH ELSE v

NewY(y, outH, minMidY) ==
    LET v == SizeT(SizeT(y - minMidY) + outH)
    IN  IF v >= outH THEN v - outH ELSE v

(* Mutant of LoopCopies: the inner loop also runs for x = minMidX.         *)
LoopCopiesInclusive(inW, inH, outW, outH) ==
    LET minW == MinOf(inW, outW)
        minH == MinOf(inH, outH)
        minMidY == minH \div 2
    IN  {[src |-> x + OldY(y, inH, minMidY) * (inW \div 2 + 1),
          dst |-> x + NewY(y, outH, minMidY) * (outW \div 2 + 1)] :
            y \in 0..minH - 1, x \in 0..(minW \div 2)}

(* The inner loop, lines 88-96: columns 0 .. minMidX - 1 of every row of   *)
(* the common block, with row strides oldMidX + 1 and newMidX + 1.         *)
LoopCopies(inW, inH, outW, outH) ==
    LET minW == MinOf(inW, outW)
        minH == MinOf(inH, outH)
        minMidY == minH \div 2
    IN  {[src |-> x + OldY(y, inH, minMidY) * (inW \div 2 + 1),
          dst |-> x + NewY(y, outH, minMidY) * (outW \div 2 + 1)] :
            y \in 0..minH - 1, x \in 0..(minW \div 2) - 1}

(* Lines 100-105: when the input is at least as wide as the output, one    *)
(* more bin per row: the input's column _inputWidth/2 goes to the output's *)
(* column _outputWidth/2.                                                  *)
NyquistCopies(inW, inH, outW, outH) ==
    LET minH == MinOf(inH, outH)
        minMidY == minH \div 2
    IN  IF inW >= outW
        THEN {[src |-> inW \div 2 + OldY(y, inH, minMidY) * (inW \div 2 + 1),
               dst |-> outW \div 2 + NewY(y, outH, minMidY) * (outW \div 2 + 1)] :
                 y \in 0..minH - 1}
        ELSE {}

(* Every bin runSingle writes into newfftData, with the bin it reads.      *)
RemapCopies(inW, inH, outW, outH) ==
    LoopCopies(inW, inH, outW, outH) \cup NyquistCopies(inW, inH, outW, outH)

-----------------------------------------------------------------------------
(* Mutant of SingleFTShift: the shifted row is not wrapped back.           *)
SingleFTShiftRowNoWrap(W, H) ==
    {[dst |-> x + y * W,
      src |-> (IF x + W \div 2 >= W THEN x + W \div 2 - W ELSE x + W \div 2)
              + (y + H \div 2) * W] : y \in 0..H - 1, x \in 0..W - 1}

(* SingleFT, lines 121-140: data[x + y * W] is read from input pixel       *)
(* (xIn, yIn), shifted by half the width and the height, each wrapped back *)
(* by one conditional subtraction.  A non-finite pixel is read as 0.       *)
SingleFTShift(W, H) ==
    {[dst |-> x + y * W,
      src |-> (IF x + W \div 2 >= W THEN x + W \div 2 - W ELSE x + W \div 2)
              + (IF y + H \div 2 >= H THEN y + H \div 2 - H ELSE y + H \div 2) * W] :
        y \in 0..H - 1, x \in 0..W - 1}

(* SingleFT, lines 153-176: the output pixels written from bin (x, oldY):  *)
(* the mirrored column midX - x of row y, and, for x # midX, the conjugate *)
(* at column midX + x of row H - y (row 0 for y = 0).                      *)
SingleFTTargets(W, H) ==
    LET midX == W \div 2
        YTo(y) == IF H - y = H THEN 0 ELSE H - y
    IN  {midX - x + y * W : y \in 0..H - 1, x \in 0..midX}
        \cup {midX + x + YTo(y) * W : y \in 0..H - 1, x \in 0..midX - 1}

-----------------------------------------------------------------------------
(***************************************************************************)
(* The reference: what the remap should compute.  A half-spectrum bin is   *)
(* a column fx in 0..W/2 and a row that stands for the signed frequency fy *)
(* with row = fy mod H.  Resampling keeps the frequencies both grids hold  *)
(* and moves each to the bin of the same frequency.                        *)
(***************************************************************************)

(* The bin index of column fx, signed row frequency fy in a W x H grid.    *)
BinIndex(fx, fy, W, H) == fx + (fy % H) * (W \div 2 + 1)

(* The column of a flat bin index.                                        *)
BinColumn(i, W) == i % (W \div 2 + 1)

(* The same-frequency copies of the block the loop covers: columns below   *)
(* minWidth/2 and row frequencies -minMidY .. minHeight - 1 - minMidY.     *)
ReferenceLowCopies(inW, inH, outW, outH) ==
    LET minW == MinOf(inW, outW)
        minH == MinOf(inH, outH)
        minMidY == minH \div 2
    IN  {[src |-> BinIndex(fx, fy, inW, inH), dst |-> BinIndex(fx, fy, outW, outH)] :
            fx \in 0..(minW \div 2) - 1, fy \in -minMidY..minH - 1 - minMidY}

-----------------------------------------------------------------------------
(* The grid sizes of one resampler instance, fixed by its constructor.     *)
VARIABLES inW, inH, outW, outH

vars == <<inW, inH, outW, outH>>

TypeOK == inW \in Sides /\ inH \in Sides /\ outW \in Sides /\ outH \in Sides

Init == TypeOK

(* Each resample runs the same remap; the sizes never change.              *)
Resample == UNCHANGED vars

Next == Resample

Spec == Init /\ [][Next]_vars

-----------------------------------------------------------------------------
(***************************************************************************)
(* Properties.                                                             *)
(***************************************************************************)

(* runSingle reads only bins of the input half-spectrum and writes only    *)
(* bins of the output half-spectrum, each at most once (spec section 3:    *)
(* the remap never reads or writes outside [0, width/2] x [0, height)).    *)
(* The row index goes through a size_t wrap below zero and a single        *)
(* conditional subtraction, for every pair of grid sizes.                  *)
RemapWellFormed ==
    LET copies == RemapCopies(inW, inH, outW, outH)
    IN  /\ \A c \in copies :
              /\ c.src \in 0..(inW \div 2 + 1) * inH - 1
              /\ c.dst \in 0..(outW \div 2 + 1) * outH - 1
        /\ \A c, d \in copies : c.dst = d.dst => c = d

(* The inner loop of the remap moves every frequency of the common block,  *)
(* columns below minWidth/2 and rows -minMidY .. minHeight-1-minMidY, to   *)
(* the output bin of the same frequency and nothing else (spec section     *)
(* 4.2, step 5).                                                           *)
RemapLowFrequencies ==
    LoopCopies(inW, inH, outW, outH) = ReferenceLowCopies(inW, inH, outW, outH)

(* The extra column copied when the input is at least as wide as the       *)
(* output carries the same horizontal frequency in both spectra: output    *)
(* column _outputWidth/2 is filled from input column _outputWidth/2.       *)
NyquistSameFrequency ==
    \A c \in NyquistCopies(inW, inH, outW, outH) :
        BinColumn(c.src, inW) = BinColumn(c.dst, outW)

(* SingleFT's shift reads every input pixel exactly once, stays inside    *)
(* the input, and puts the image centre (W/2, H/2) at the FFT origin       *)
(* data[0], for odd and even sides (spec section 6: the transform is of    *)
(* the centred image).                                                     *)
SingleFTInputCentred ==
    LET shift == SingleFTShift(inW, inH)
    IN  /\ {c.src : c \in shift} = 0..inW * inH - 1
        /\ \A c \in shift : c.dst = 0 => c.src = inW \div 2 + (inH \div 2) * inW

(* SingleFT writes every pixel of its realOutput and imaginaryOutput       *)
(* images (spec section 6: a centred transform into split planes).         *)
SingleFTCoversOutput ==
    SingleFTTargets(inW, inH) = 0..inW * inH - 1

=============================================================================
