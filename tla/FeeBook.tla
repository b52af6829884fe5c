------------------------------ MODULE FeeBook ------------------------------
(***************************************************************************)
(* What a token's fee ledger promises: the prepaid balance moves only when *)
(* a transaction that landed is booked for the first time, and once when   *)
(* the starter balance is granted.  Signing, reserving, expiring, being    *)
(* told twice and restarting leave it alone.                               *)
(***************************************************************************)
EXTENDS Integers

CONSTANTS Messages,   \* the transactions that may land
          Credit,     \* [Messages -> Nat]: what each pays to the accumulator
          Debit,      \* [Messages -> Nat]: what each costs its sponsor
          Starter     \* the starter balance

VARIABLES balance,    \* prepaid lamports
          granted,    \* the starter was decided on
          booked      \* the sides of the transactions that were applied

Init ==
    /\ balance = 0
    /\ granted = FALSE
    /\ booked = {}

Grant ==
    /\ ~granted
    /\ granted' = TRUE
    /\ balance' = IF balance > 0 THEN balance ELSE Starter
    /\ UNCHANGED booked

(* A debit larger than the balance empties it. *)
Book(m, sides) ==
    LET side(kind, amount) == IF <<m, kind>> \in sides THEN amount ELSE 0
        after == balance + side("credit", Credit[m]) - side("debit", Debit[m])
    IN  /\ sides # {}
        /\ sides \subseteq ({m} \X {"credit", "debit"}) \ booked
        /\ booked' = booked \cup sides
        /\ balance' = IF after > 0 THEN after ELSE 0
        /\ UNCHANGED granted

Next ==
    \/ Grant
    \/ \E m \in Messages : \E sides \in SUBSET ({m} \X {"credit", "debit"}) : Book(m, sides)

Spec == Init /\ [][Next]_<<balance, granted, booked>>
=============================================================================
