----------------------------- MODULE PolicyMeter -----------------------------
(***************************************************************************)
(* The meter around a batch of inner calls (utils/policy.rs): a snapshot   *)
(* of the wallet's holdings before them, and after them the measured       *)
(* losses charged to the caps, with the control checks on every token      *)
(* account of the transaction.  Instruction data is never read.            *)
(*                                                                         *)
(* A holding is a record [lamports, accounts]: the lamports of the wallet  *)
(* and the token account at each address.  rem is the list of remaining    *)
(* accounts of the transaction; an address may occur in it more than once. *)
(* A policy is a record [sol, mints, permissions]: the SOL cap, a cap for  *)
(* each capped mint, and the program permissions.                          *)
(***************************************************************************)
EXTENDS SpendingLimit, Sequences, FiniteSetsExt

CONSTANTS
    Wallet,   \* the wallet PDA
    WSOL,     \* the wrapped-SOL mint
    NoKey,    \* COption::None of a delegate or of a close authority
    MaxU64    \* the largest u64

ASSUME MaxU64Assumption == MaxU64 \in Nat

U64 == 0 .. MaxU64

saturating_add(n)    == IF n \in U64 THEN n ELSE MaxU64
saturating_sub(a, b) == IF a > b THEN a - b ELSE 0

-----------------------------------------------------------------------------
(* Token accounts: "token" decodes as one, "empty" has no data (never      *)
(* opened, or closed), "opaque" holds data that does not decode (a mint).  *)

EmptyAccount  == [kind |-> "empty"]
OpaqueAccount == [kind |-> "opaque"]

TokenAccount(mint, owner, amount, delegate, delegated, close) ==
    [kind |-> "token", mint |-> mint, owner |-> owner, amount |-> amount,
     delegate |-> delegate, delegated_amount |-> delegated,
     close_authority |-> close]

is_token(acc)     == acc.kind = "token"
wallet_owned(acc) == is_token(acc) /\ acc.owner = Wallet
spendable(acc)    == is_token(acc) /\ (acc.owner = Wallet \/ acc.delegate = Wallet)
wallet_wsol(acc)  == wallet_owned(acc) /\ acc.mint = WSOL

\* Mutant: an account named twice is tracked twice.
every_position(rem) == DOMAIN rem

\* Positions of rem whose address has not occurred before.
firsts(rem) == {i \in DOMAIN rem : \A j \in 1 .. i - 1 : rem[j] # rem[i]}

-----------------------------------------------------------------------------
(* The snapshot.                                                           *)

charge_sol(p)             == is_active(p.sol)
spending_limits_active(p) == charge_sol(p) \/ DOMAIN p.mints # {}

tracked(p, rem, before) ==
    {i \in firsts(rem) :
        LET acc == before.accounts[rem[i]]
        IN  \/ wallet_owned(acc)
            \/ spending_limits_active(p) /\ spendable(acc)}

\* Under a SOL cap, the wrapped SOL in accounts the wallet owns.
wrapped_sol(p, rem, h) ==
    MapThenSumSet(LAMBDA i : h.accounts[rem[i]].amount,
        {i \in firsts(rem) : charge_sol(p) /\ wallet_wsol(h.accounts[rem[i]])})

\* Lamports and wrapped SOL are one total.
sol_total(p, rem, h) == saturating_add(h.lamports + wrapped_sol(p, rem, h))

-----------------------------------------------------------------------------
(* The checks and charges after the inner calls.                           *)

amount_after(acc) == IF is_token(acc) THEN acc.amount ELSE 0

account_spent(before, after, a) ==
    saturating_sub(before.accounts[a].amount, amount_after(after.accounts[a]))

\* A wallet-owned account that survives keeps its owner, mint and close
\* authority; one that does not survive leaves no data behind.
control_kept(acc, acc2) ==
    IF is_token(acc2)
    THEN /\ acc2.owner = Wallet
         /\ acc2.mint = acc.mint
         /\ acc2.close_authority = acc.close_authority
    ELSE acc2 = EmptyAccount

\* Mutant: only the wallet's own accounts are protected.
loss_allowed_if_lent(p, acc, loss) ==
    \/ ~spending_limits_active(p)
    \/ acc.mint \in DOMAIN p.mints
    \/ ~wallet_owned(acc)
    \/ charge_sol(p) /\ wallet_wsol(acc)
    \/ loss = 0

\* With any cap in force, an asset without one may not decrease.
loss_allowed(p, acc, loss) ==
    \/ ~spending_limits_active(p)
    \/ acc.mint \in DOMAIN p.mints
    \/ charge_sol(p) /\ wallet_wsol(acc)
    \/ loss = 0

\* Mutant: accounts new to the wallet are not examined for a close authority.
no_new_approval(acc, acc2) == wallet_owned(acc2) => acc2.delegated_amount = 0

\* No approval outlives the transaction, on any account of the wallet, and an
\* account that became the wallet's brings no foreign close authority.
no_new_control(acc, acc2) ==
    wallet_owned(acc2) =>
        /\ acc2.delegated_amount = 0
        /\ wallet_owned(acc) \/ acc2.close_authority \in {NoKey, Wallet}

control_checks(p, rem, before, after) ==
    /\ \A i \in tracked(p, rem, before) :
          LET a   == rem[i]
              acc == before.accounts[a]
          IN  /\ wallet_owned(acc) => control_kept(acc, after.accounts[a])
              /\ loss_allowed(p, acc, account_spent(before, after, a))
    /\ \A i \in DOMAIN rem :
          no_new_control(before.accounts[rem[i]], after.accounts[rem[i]])

\* Losses of a capped mint add up over its accounts: gains do not offset them.
mint_spent(p, rem, before, after, m) ==
    MapThenSumSet(LAMBDA i : account_spent(before, after, rem[i]),
                  {i \in tracked(p, rem, before) : before.accounts[rem[i]].mint = m})

sol_spent(p, rem, before, after) ==
    saturating_sub(sol_total(p, rem, before), sol_total(p, rem, after))

\* charge_policy_deltas returns an error, and the transaction reverts, exactly
\* when this is false.
charge_accepted(p, rem, before, after, now) ==
    LET sol == sol_spent(p, rem, before, after)
    IN  /\ control_checks(p, rem, before, after)
        /\ sol > 0 /\ spending_limits_active(p) =>
               charge_sol(p) /\ can_charge(p.sol, sol, now)
        /\ \A m \in DOMAIN p.mints :
               LET lost == mint_spent(p, rem, before, after, m)
               IN  lost \in U64 /\ can_charge(p.mints[m], lost, now)

\* The policy with its caps charged.
charge_policy_deltas(p, rem, before, after, now) ==
    [sol         |-> IF charge_sol(p)
                     THEN charge_cap(p.sol, sol_spent(p, rem, before, after), now)
                     ELSE p.sol,
     mints       |-> [m \in DOMAIN p.mints |->
                        charge_cap(p.mints[m], mint_spent(p, rem, before, after, m), now)],
     permissions |-> p.permissions]

=============================================================================
