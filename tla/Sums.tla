-------------------------------- MODULE Sums --------------------------------
(***************************************************************************)
(* The loops of the program that add up a number for each element of an    *)
(* array or each item of an input.                                         *)
(***************************************************************************)
EXTENDS Integers

\* f[1] + ... + f[n]
Total(n, f) ==
  LET sum[k \in 0 .. n] == IF k = 0 THEN 0 ELSE sum[k - 1] + f[k]
  IN  sum[n]
=============================================================================
