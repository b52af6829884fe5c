--------------------------- MODULE MCPaymentPages ---------------------------
(***************************************************************************)
(* The pages that pay, by themselves.                                      *)
(***************************************************************************)
EXTENDS PaymentPages

CONSTANTS me, you, sol, art

\* The other wallet has more than the accessory's own.
MCBalance == [w \in {me, you} |-> [c \in {sol} |-> IF w = me THEN 1 ELSE 2]]
=============================================================================
