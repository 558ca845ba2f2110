----------------------------- MODULE Fractions -----------------------------
(***************************************************************************)
(* Non-negative fractions <<numerator, denominator>>, for what the code    *)
(* computes in floating point and turns back into integers.                *)
(***************************************************************************)
EXTENDS Integers

Whole(n) == <<n, 1>>
Floor(f) == f[1] \div f[2]
Ceil(n, d) == (n + d - 1) \div d

Round(f) ==  \* to the nearest, halves to the even one
  LET low == Floor(f)  rest == 2 * (f[1] - low * f[2])
  IN  IF rest > f[2] \/ (rest = f[2] /\ low % 2 = 1) THEN low + 1 ELSE low
=============================================================================
