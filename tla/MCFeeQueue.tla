----------------------------- MODULE MCFeeQueue -----------------------------
(***************************************************************************)
(* Two transactions of one block, one of which also tops the balance up,   *)
(* a message nobody can read, and a transaction of the block before that   *)
(* is long dealt with and that moved the balances of two wallets.          *)
(***************************************************************************)
EXTENDS FeeQueue

CONSTANTS a, b, old, junk, w1, w2

MCAffects == (a :> <<w1>> @@ b :> <<w1>> @@ old :> <<w2, w1>> @@ junk :> <<>>)
MCBlockTime == (a :> 2 @@ b :> 2 @@ old :> 1 @@ junk :> 2)
=============================================================================
