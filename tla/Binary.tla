------------------------------- MODULE Binary -------------------------------
(***************************************************************************)
(* The shifts by which the code takes numbers apart into bits and puts     *)
(* them together.                                                          *)
(***************************************************************************)
EXTENDS Integers

\* value >> n
shiftRight(value, n) ==
  LET rest[k \in 0..n] == IF k = 0 THEN value ELSE rest[k - 1] \div 2 IN rest[n]

\* 1 << n
mask(n) ==
  LET power[k \in 0..n] == IF k = 0 THEN 1 ELSE 2 * power[k - 1] IN power[n]

\* Bit i of a number, 0 being the lowest.
BitOf(value, i) == shiftRight(value, i) % 2

\* The numbers of n bits.
Unsigned(n) == 0..(mask(n) - 1)
=============================================================================
