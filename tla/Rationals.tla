------------------------------ MODULE Rationals ------------------------------
(***************************************************************************)
(* Exact rationals <<numerator, denominator>> in lowest terms, where the   *)
(* code has doubles.                                                       *)
(***************************************************************************)
EXTENDS Integers, FiniteSetsExt

(* p / q for an integer p and a positive q: the smallest denominator that  *)
(* p / q can be written with.                                              *)
Rat(p, q) ==
  LET d == Min({e \in 1..q : (p * e) % q = 0})
  IN  <<(p * d) \div q, d>>

Zero == <<0, 1>>
Plus(x, y) == Rat(x[1] * y[2] + y[1] * x[2], x[2] * y[2])
Minus(x, y) == Rat(x[1] * y[2] - y[1] * x[2], x[2] * y[2])
Times(x, y) == Rat(x[1] * y[1], x[2] * y[2])
Over(x, k) == Rat(x[1], x[2] * k)
=============================================================================
