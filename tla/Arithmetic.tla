----------------------------- MODULE Arithmetic -----------------------------
(***************************************************************************)
(* Math.ceil of a fraction and Math.pow with a whole exponent, as pickFee  *)
(* uses them.  The power is a recursive function, which the provers can    *)
(* reason about; of ^ they know nothing.                                   *)
(***************************************************************************)
EXTENDS Integers

\* Ceiling of the fraction a / b, for b > 0.
CeilDiv(a, b) == -((-a) \div b)

\* All powers of b, by their exponent.
Powers(b) == LET p[n \in Nat] == IF n = 0 THEN 1 ELSE b * p[n - 1] IN p
Power(b, n) == Powers(b)[n]
=============================================================================
