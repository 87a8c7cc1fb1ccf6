------------------------------ MODULE Edwards ------------------------------
(***************************************************************************)
(* The curve -x^2 + y^2 = 1 + D x^2 y^2 over the integers modulo P, with   *)
(* its addition law, which has no exceptions when D is not a square: what  *)
(* the formulas of the code are about.  P is 2^255 - 19 there, D is        *)
(* -121665/121666.                                                         *)
(***************************************************************************)
EXTENDS Integers

CONSTANTS P, D

Residues == 0 .. P - 1
Inv == [v \in Residues |-> IF v = 0 THEN 0 ELSE CHOOSE w \in Residues : (v * w) % P = 1]

\* v to the power e, modulo P
Pow(v, e) == LET power[n \in 0 .. e] == IF n = 0 THEN 1 ELSE (power[n - 1] * v) % P
             IN  power[e]

Curve == {q \in Residues \X Residues :
            (q[2]^2 - q[1]^2 - 1 - D * ((q[1]^2 * q[2]^2) % P)) % P = 0}

Neutral == <<0, 1>>
Minus(q) == <<(-q[1]) % P, q[2]>>
Plus(q, r) ==
  LET k == (D * ((q[1] * r[1] * q[2]) % P) * r[2]) % P
  IN  <<((q[1] * r[2] + r[1] * q[2]) * Inv[(1 + k) % P]) % P,
        ((q[2] * r[2] + q[1] * r[1]) * Inv[(1 - k) % P]) % P>>

\* n q, for n up to bound
Multiples(q, bound) ==
  LET m[n \in 0 .. bound] == IF n = 0 THEN Neutral ELSE Plus(m[n - 1], q) IN m

\* 2^n q
Doubled(q, n) ==
  LET twice[k \in 0 .. n] == IF k = 0 THEN q
                             ELSE LET r == twice[k - 1] IN Plus(r, r)
  IN  twice[n]

RootMinusOne == CHOOSE r \in Residues : (r * r + 1) % P = 0
=============================================================================
