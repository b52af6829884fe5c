---------------------------- MODULE MCFeeLedger ----------------------------
(***************************************************************************)
(* Small ledgers: the messages of a run, what each is and moves, and the   *)
(* batches clients submit.  A reserve and the starter are small numbers.   *)
(***************************************************************************)
EXTENDS FeeLedger, TLC

CONSTANTS a, b, top, bad

(* Two spends that cost one and three, a top-up of two, and a wire the     *)
(* signer refuses.                                                         *)
MCKind == (a :> "spend" @@ b :> "spend" @@ top :> "topup" @@ bad :> "refused")
MCCredit == (a :> 0 @@ b :> 0 @@ top :> 2 @@ bad :> 0)
MCDebit == (a :> 1 @@ b :> 3 @@ top :> 0 @@ bad :> 0)

(* Two spends, a top-up and a spend whose batch is refused in the end, the *)
(* same message twice.                                                     *)
MCBatches == {<<b, a>>, <<top, a, bad>>, <<a, a>>}

(* One message in each call, as wallets submit them. *)
MCSingles == {<<a>>, <<b>>, <<top>>}
=============================================================================
