-------------------------------- MODULE Fft --------------------------------
(***************************************************************************)
(* The radix-2 transform of the examples fpu_fft and fpu_fft1024           *)
(* (sw/examples/fpu_fft/fft_main.inc), in place, one action per iteration  *)
(* of its innermost loops, and the check that main makes of the result.    *)
(*                                                                         *)
(* The arithmetic is exact: the numbers are those of the integers modulo   *)
(* the prime Modulus, with an i for which i * i = -1, and Root stands for  *)
(* exp(-2 pi i / Points), so that a table of cosines and one of sines are  *)
(* the parts of its powers.  Rounding, and the flag that shows it, are     *)
(* left out: the binary32 words of the tables are Python's.                *)
(***************************************************************************)
EXTENDS Integers

CONSTANTS FftPoints, FftLog2,  \* FPU_FFT_POINTS, FPU_FFT_LOG2
          Modulus, Root, FftInputs

Indices == 0 .. FftPoints - 1
Numbers == 0 .. Modulus - 1
Complex == [re : Numbers, im : Numbers]

PowerOfTwo[n \in Nat] == IF n = 0 THEN 1 ELSE 2 * PowerOfTwo[n - 1]

ASSUME FftAssumption ==
  /\ FftLog2 \in Nat /\ FftPoints = PowerOfTwo[FftLog2] /\ Modulus \in Nat \ {0, 1}
  /\ Root \in Complex /\ FftInputs \subseteq [Indices -> Complex]

VARIABLES
  fftIn,     \* the input that the tables give
  fftRe, fftIm,  \* the arrays fft_re and fft_im
  fftPc,     \* "load", "reverse", "transform", "compare", or what is reported
  index,
  loop,      \* size, base and offset of the loops
  mismatches

fftVars == <<fftIn, fftRe, fftIm, fftPc, index, loop, mismatches>>

-----------------------------------------------------------------------------
(* Arithmetic, and the tables.                                             *)

Plus(a, b) == (a + b) % Modulus
Minus(a, b) == (a - b) % Modulus
Times(a, b) == (a * b) % Modulus

ComplexTimes(x, y) == [re |-> Minus(Times(x.re, y.re), Times(x.im, y.im)),
                       im |-> Plus(Times(x.re, y.im), Times(x.im, y.re))]

RootPower[k \in Nat] == IF k = 0 THEN [re |-> 1, im |-> 0]
                        ELSE ComplexTimes(RootPower[k - 1], Root)

\* Half a turn is -1.
ASSUME RootAssumption ==
  FftPoints > 1 => RootPower[FftPoints \div 2] = [re |-> Modulus - 1, im |-> 0]

InputRe == [k \in Indices |-> fftIn[k].re]
InputIm == [k \in Indices |-> fftIn[k].im]
TwiddleRe == [k \in Indices |-> RootPower[k].re]
TwiddleIm == [k \in Indices |-> RootPower[k].im]

\* The discrete Fourier transform, by its definition.
Dft(k) ==
  LET term(n) == ComplexTimes(fftIn[n], RootPower[(n * k) % FftPoints])
      sum[n \in 0 .. FftPoints] ==
        IF n = 0 THEN [re |-> 0, im |-> 0]
        ELSE [re |-> Plus(sum[n - 1].re, term(n - 1).re),
              im |-> Plus(sum[n - 1].im, term(n - 1).im)]
  IN sum[FftPoints]

ReferenceRe == [k \in Indices |-> Dft(k).re]
ReferenceIm == [k \in Indices |-> Dft(k).im]

-----------------------------------------------------------------------------
(* The transform.                                                          *)

ReverseBits(value) ==
  LET shifted[n \in 0 .. FftLog2] ==
        IF n = 0 THEN [reversed |-> 0, value |-> value]
        ELSE LET before == shifted[n - 1]
             IN [reversed |-> 2 * before.reversed + (before.value % 2),
                 value |-> before.value \div 2]
  IN shifted[FftLog2].reversed

FftLoad ==
  /\ fftPc = "load" /\ fftPc' = "reverse"
  /\ fftRe' = InputRe /\ fftIm' = InputIm
  /\ UNCHANGED <<fftIn, index, loop, mismatches>>

Swapped(a, j, k) == [a EXCEPT ![j] = a[k], ![k] = a[j]]

\* A wrong loop: every pair is swapped, and swapped back.
SwapsAll ==
  /\ fftPc = "reverse" /\ index < FftPoints
  /\ LET reversed == ReverseBits(index)
     IN fftRe' = Swapped(fftRe, index, reversed) /\ fftIm' = Swapped(fftIm, index, reversed)
  /\ index' = index + 1
  /\ UNCHANGED <<fftIn, fftPc, loop, mismatches>>

Swaps ==
  /\ fftPc = "reverse" /\ index < FftPoints
  /\ LET reversed == ReverseBits(index)
     IN IF reversed > index
        THEN fftRe' = Swapped(fftRe, index, reversed) /\ fftIm' = Swapped(fftIm, index, reversed)
        ELSE UNCHANGED <<fftRe, fftIm>>
  /\ index' = index + 1
  /\ UNCHANGED <<fftIn, fftPc, loop, mismatches>>

Transforms ==
  /\ fftPc = "reverse" /\ index = FftPoints
  /\ fftPc' = "transform" /\ loop' = [size |-> 2, base |-> 0, offset |-> 0]
  /\ UNCHANGED <<fftIn, fftRe, fftIm, index, mismatches>>

\* The loops over offset, base and size.
NextLoop ==
  LET half == loop.size \div 2
  IN CASE loop.offset + 1 < half -> [loop EXCEPT !.offset = @ + 1]
       [] loop.offset + 1 = half /\ loop.base + loop.size < FftPoints ->
            [loop EXCEPT !.offset = 0, !.base = @ + loop.size]
       [] OTHER -> [size |-> 2 * loop.size, base |-> 0, offset |-> 0]

Butterfly ==
  /\ fftPc = "transform" /\ loop.size <= FftPoints
  /\ LET even == loop.base + loop.offset
         odd == even + loop.size \div 2
         twiddle == loop.offset * (FftPoints \div loop.size)
         tempRe == Minus(Times(TwiddleRe[twiddle], fftRe[odd]),
                         Times(TwiddleIm[twiddle], fftIm[odd]))
         tempIm == Plus(Times(TwiddleRe[twiddle], fftIm[odd]),
                        Times(TwiddleIm[twiddle], fftRe[odd]))
     IN /\ fftRe' = [fftRe EXCEPT ![even] = Plus(@, tempRe),
                                  ![odd] = Minus(fftRe[even], tempRe)]
        /\ fftIm' = [fftIm EXCEPT ![even] = Plus(@, tempIm),
                                  ![odd] = Minus(fftIm[even], tempIm)]
  /\ loop' = NextLoop
  /\ UNCHANGED <<fftIn, fftPc, index, mismatches>>

Compares ==
  /\ fftPc = "transform" /\ loop.size > FftPoints
  /\ fftPc' = "compare" /\ index' = 0
  /\ UNCHANGED <<fftIn, fftRe, fftIm, loop, mismatches>>

CountsMismatch ==
  /\ fftPc = "compare" /\ index < FftPoints
  /\ mismatches' = mismatches + IF /\ fftRe[index] = ReferenceRe[index]
                                   /\ fftIm[index] = ReferenceIm[index]
                                THEN 0 ELSE 1
  /\ index' = index + 1
  /\ UNCHANGED <<fftIn, fftRe, fftIm, fftPc, loop>>

FftReport ==
  /\ fftPc = "compare" /\ index = FftPoints
  /\ fftPc' = IF mismatches # 0 THEN "fail" ELSE "pass"
  /\ UNCHANGED <<fftIn, fftRe, fftIm, index, loop, mismatches>>

FftInit ==
  /\ fftIn \in FftInputs
  /\ fftRe = [k \in Indices |-> 0] /\ fftIm = [k \in Indices |-> 0]
  /\ fftPc = "load" /\ index = 0
  /\ loop = [size |-> 0, base |-> 0, offset |-> 0] /\ mismatches = 0

FftNext == \/ FftLoad \/ Swaps \/ Transforms \/ Butterfly \/ Compares
           \/ CountsMismatch \/ FftReport

FftSpec == FftInit /\ [][FftNext]_fftVars /\ WF_fftVars(FftNext)

-----------------------------------------------------------------------------
(* Type invariant: numbers are reduced and every index is one of the       *)
(* arrays.                                                                 *)
FftTypeOK ==
  /\ fftRe \in [Indices -> Numbers] /\ fftIm \in [Indices -> Numbers]
  /\ index \in 0 .. FftPoints /\ loop.size \in 0 .. 2 * FftPoints
  /\ mismatches \in 0 .. FftPoints

(* What fft leaves in the arrays is the discrete Fourier transform of what *)
(* main put there: the permutation, the order of the butterflies, which    *)
(* overwrite their operands, and the stride in the table fit together.     *)
FftIsDft ==
  fftPc \in {"compare", "pass", "fail"} =>
    \A k \in Indices : [re |-> fftRe[k], im |-> fftIm[k]] = Dft(k)

(* No access of fft is outside its arrays and tables: neither the partner  *)
(* of an index, nor the two places of a butterfly, nor its factor.         *)
FftInBounds ==
  /\ fftPc = "reverse" /\ index < FftPoints => ReverseBits(index) \in Indices
  /\ fftPc = "transform" /\ loop.size <= FftPoints =>
       LET even == loop.base + loop.offset
       IN /\ even \in Indices /\ even + loop.size \div 2 \in Indices
          /\ loop.offset * (FftPoints \div loop.size) \in Indices
=============================================================================
