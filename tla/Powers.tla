------------------------------- MODULE Powers -------------------------------
(***************************************************************************)
(* Powers as recursive functions: the scale of a number of decimals (10 to *)
(* that power) and the range of a number of bytes.                         *)
(***************************************************************************)
EXTENDS Naturals

powers(b) == LET p[n \in Nat] == IF n = 0 THEN 1 ELSE b * p[n - 1] IN p

pow10 == powers(10)
=============================================================================
