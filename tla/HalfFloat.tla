------------------------------- MODULE HalfFloat -------------------------------
(***************************************************************************)
(* half2float and float2half (test/fp16.cpp). A number is a pair of its    *)
(* sign bit and its other bits as an integer: below 2^31 for a float,      *)
(* below 2^15 for a half. Masks and shifts are remainders and quotients by *)
(* powers of two. Rounding is that of the build: halfway cases go away     *)
(* from zero (NPY_HALF_ROUND_TIES_TO_EVEN is not defined).                 *)
(***************************************************************************)
EXTENDS Integers

HalfInf == 31 * 2^10
FloatInf == 255 * 2^23

\* The shifts that bring the leading bit of a subnormal's significand to bit 10,
\* less the first.
Shifts(sig) == CHOOSE k \in 0 .. 9 : sig * 2^(k + 1) \in 2^10 .. 2^11 - 1

half2float(h) ==
  LET bits == h[2]
      sig == bits % 2^10
  IN <<h[1],
       CASE bits = 0 -> 0
         [] bits > 0 /\ bits < 2^10 ->
              (112 - Shifts(sig)) * 2^23 + ((sig * 2^(Shifts(sig) + 1)) % 2^10) * 2^13
         [] bits >= HalfInf -> FloatInf + sig * 2^13
         [] OTHER -> (bits + 112 * 2^10) * 2^13>>

\* Mutant of float2half: the bit below the last is cut off.
float2halfCut(f) ==
  LET exp == f[2] \div 2^23
      sig == f[2] % 2^23
  IN <<f[1],
       CASE exp = 255 /\ sig # 0 -> HalfInf + (IF sig < 2^13 THEN 1 ELSE sig \div 2^13)
         [] exp >= 143 /\ ~(exp = 255 /\ sig # 0) -> HalfInf
         [] exp < 102 -> 0
         [] exp \in 102 .. 112 -> (2^23 + sig) \div 2^(126 - exp)
         [] OTHER -> (exp - 112) * 2^10 + sig \div 2^13>>

\* A significand that rounds up to 2^10 carries into the exponent.
float2half(f) ==
  LET exp == f[2] \div 2^23
      sig == f[2] % 2^23
  IN <<f[1],
       CASE exp = 255 /\ sig # 0 -> HalfInf + (IF sig < 2^13 THEN 1 ELSE sig \div 2^13)
         [] exp >= 143 /\ ~(exp = 255 /\ sig # 0) -> HalfInf
         [] exp < 102 -> 0
         [] exp \in 102 .. 112 -> ((2^23 + sig) \div 2^(113 - exp) + 2^12) \div 2^13
         [] OTHER -> (exp - 112) * 2^10 + (sig + 2^12) \div 2^13>>

-----------------------------------------------------------------------------
(* What a conversion promises.                                               *)

IsNaN(f) == f[2] > FloatInf

\* The bits of the float halfway between the half h and the next one. Floats
\* between two neighbours have one exponent, except below the least half; the
\* neighbour of the greatest half is 2^16.
Halfway(h) ==
  LET lo == half2float(<<0, h>>)[2]
      hi == IF h = HalfInf - 1 THEN 143 * 2^23 ELSE half2float(<<0, h + 1>>)[2]
  IN IF h = 0 THEN 102 * 2^23 ELSE lo + (hi - lo) \div 2

\* h is the half nearest to the float f; a NaN stays one.
Nearest(f, h) ==
  /\ h[1] = f[1]
  /\ IF IsNaN(f) THEN h[2] > HalfInf
     ELSE /\ h[2] \in 0 .. HalfInf
          /\ h[2] > 0 => f[2] >= Halfway(h[2] - 1)
          /\ h[2] < HalfInf => f[2] < Halfway(h[2])

=============================================================================
