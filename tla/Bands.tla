------------------------------- MODULE Bands -------------------------------
(***************************************************************************)
(* The CEFR bands of hable_ya/learner/bands.py and the rolling mean that   *)
(* the leveling policy buckets.                                            *)
(*                                                                         *)
(* A band is its position in ALL_BANDS (A1 = 1 ... C1 = 5); 0 stands for   *)
(* the NULL / None band of a turn the model did not classify.  A window of *)
(* turns is a bag: how many turns carry each band.  The order of the turns *)
(* is immaterial, because fmean adds them with fsum, which rounds once.    *)
(*                                                                         *)
(* BAND_MIDPOINT and BAND_BUCKETS are decimal literals, and the mean is    *)
(* an IEEE double, so a comparison of the two is exact arithmetic only     *)
(* when the true mean is not itself the literal's decimal value.  At those *)
(* points the comparison is decided by rounding, which is modelled below   *)
(* exactly: errors are integers in units of 2^-56 / 5, the greatest common *)
(* measure of the literals and of their roundings.                         *)
(***************************************************************************)
EXTENDS Integers

A1 == 1
A2 == 2
B1 == 3
B2 == 4
C1 == 5

ALL_BANDS == A1 .. C1
NoBand == 0

(* A bag of turns: the number of turns that carry each band.               *)
Window == [ALL_BANDS -> Nat]

EmptyWindow == [b \in ALL_BANDS |-> 0]

Merge(v, w) == [b \in ALL_BANDS |-> v[b] + w[b]]

(* The sum over a window of a weight given per band.                       *)
Weighted(w, weight) ==
    w[1] * weight[1] + w[2] * weight[2] + w[3] * weight[3]
      + w[4] * weight[4] + w[5] * weight[5]

Turns(w) == w[1] + w[2] + w[3] + w[4] + w[5]

(* Mutant: the midpoints of B1 and B2 the wrong way round.                 *)
BAND_MIDPOINT_Swapped == [b \in ALL_BANDS |-> CASE b = B1 -> 7 [] b = B2 -> 5
                                              [] OTHER -> 2 * b - 1]

(* BAND_MIDPOINT in tenths, and the boundary above a band in tenths.       *)
BAND_MIDPOINT == [b \in ALL_BANDS |-> 2 * b - 1]
Boundary(b) == 2 * b

Total(w) == Weighted(w, BAND_MIDPOINT)

-----------------------------------------------------------------------------
(* The double nearest to m/10 is m/10 + LiteralError[m] units, and its     *)
(* last mantissa bit is 1 exactly for the m in OddLiterals.                *)
LiteralError == <<2, 4, -4, 8, 0, -8, -16, 16, 8>>
OddLiterals == {3, 6, 9}

(* 2^k modulo 10, for a positive k.                                        *)
PowerOfTwoMod10(k) == <<2, 4, 8, 6>>[((k - 1) % 4) + 1]

(* Doubles near s/10 + d units are 5 * 2^k units apart.                    *)
SpacingExponent(s, d) ==
    LET k == CHOOSE i \in 0 .. 8 * s : 5 * 2^i <= 8 * s /\ 8 * s < 5 * 2^(i + 1)
    IN  IF 8 * s = 5 * 2^k /\ d < 0 THEN k - 1 ELSE k

Spacing(s, d) == 5 * 2^SpacingExponent(s, d)

(* fsum of a window: the double nearest to the exact sum of the literals,  *)
(* ties to even, given as its distance in units from Total(w)/10.          *)
SumError(w) ==
    LET s == Total(w)
        d == Weighted(w, [b \in ALL_BANDS |-> LiteralError[BAND_MIDPOINT[b]]])
        k == SpacingExponent(s, d)
        u == Spacing(s, d)
        x == (s * PowerOfTwoMod10(55 - k)) % 10
        r == 2^k * (x % 5)
        f == (r + d) \div u
        above == 2 * ((r + d) % u)
        up == above > u \/ (above = u /\ ((x \div 5) + f) % 2 = 1)
    IN  (IF up THEN f + 1 ELSE f) * u - r

(* How the double fmean(w) compares with the literal m/10.                 *)
MeanAbove(w, m) ==
    IF Total(w) # m * Turns(w)
      THEN Total(w) > m * Turns(w)
      ELSE LET e == 2 * (SumError(w) - Turns(w) * LiteralError[m])
               half == Turns(w) * Spacing(m, 0)
           IN  e > half \/ (e = half /\ m \in OddLiterals)

MeanBelow(w, m) ==
    IF Total(w) # m * Turns(w)
      THEN Total(w) < m * Turns(w)
      ELSE LET e == 2 * (SumError(w) - Turns(w) * LiteralError[m])
               half == Turns(w) * Spacing(m, IF m = 5 THEN -1 ELSE 0)
           IN  e < -half \/ (e = -half /\ m \in OddLiterals)

(* bucket_band of the mean: the first band whose boundary is above it.     *)
bucket_band(w) ==
    LET under == {b \in A1 .. B2 : MeanBelow(w, Boundary(b))}
    IN  IF under = {} THEN C1 ELSE CHOOSE b \in under : \A c \in under : b <= c
=============================================================================
