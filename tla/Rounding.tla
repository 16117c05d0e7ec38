------------------------------ MODULE Rounding ------------------------------
(***************************************************************************)
(* The two ways the tasks round a size up to a power of two: by doubling   *)
(* (ceil_power_of_two, src_hough/ufo-priv.c) and by filling the bits below *)
(* the highest one (pow2round, src_hough/ufo-hessian-kernel-task.c).       *)
(* Numbers have Width bits.                                                *)
(***************************************************************************)
EXTENDS Integers

CONSTANT Width

ASSUME WidthAssumption == Width \in 1 .. 32

\* Bit[i] is 1 shifted to the left by i.
Bit[i \in 0 .. Width] == IF i = 0 THEN 1 ELSE 2 * Bit[i - 1]

\* ceil_power_of_two doubles res while it is below x.  Doubled[k] is res after at
\* most k turns.  The doubled value wraps, to 0 at the latest in turn Width, and
\* grows no more from there: then the loop does not end.
Diverges == -1

ceil_power_of_two(x) ==
    LET Doubled[k \in 0 .. Width] ==
            IF k = 0 THEN 1
            ELSE LET res == Doubled[k - 1]
                 IN  IF res >= x THEN res ELSE (2 * res) % Bit[Width]
        last == Doubled[Width]
    IN  IF last >= x THEN last ELSE Diverges

-----------------------------------------------------------------------------
(* A word as the set of its bits. *)

BitsOf(x) == {i \in 0 .. Width - 1 : (x \div Bit[i]) % 2 = 1}
Word(B)   ==
    LET Low[k \in 0 .. Width] ==      \* of the k lowest bits
            IF k = 0 THEN 0 ELSE Low[k - 1] + (IF k - 1 \in B THEN Bit[k - 1] ELSE 0)
    IN  Low[Width]

\* x |= x >> k.
OrShifted(B, k) == B \cup {i \in 0 .. Width - 1 : i + k \in B}

pow2round(x) ==
    LET below == BitsOf((x - 1) % Bit[Width])
        by2   == OrShifted(OrShifted(below, 1), 2)
        by16  == OrShifted(OrShifted(OrShifted(by2, 4), 8), 16)
    IN  (Word(by16) + 1) % Bit[Width]

-----------------------------------------------------------------------------
(* Reference. *)

IsPowerOfTwo(v) == \E k \in 0 .. Width - 1 : v = Bit[k]

\* The least power of two not below x.
LeastPowerOfTwo(x, v) == IsPowerOfTwo(v) /\ v >= x /\ (v = 1 \/ v \div 2 < x)

=============================================================================
