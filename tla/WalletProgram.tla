---------------------------- MODULE WalletProgram ----------------------------
(***************************************************************************)
(* The on-chain program programs/phygital-wallet for one accessory: its    *)
(* wallet PDA, the token accounts a transaction can reach, and the         *)
(* authority PDA that holds the owner key, the rent payer and the policy.  *)
(*                                                                         *)
(* A step is one transaction or one move of the environment.  Every        *)
(* instruction is atomic: a failing check reverts all of it, so an action  *)
(* is enabled exactly when the whole handler succeeds.  What the inner     *)
(* calls do is up to programs outside this repository: a batch may leave   *)
(* the wallet and the accounts it names in any state whatever, and only    *)
(* the checks of the handler decide whether that outcome stands.           *)
(***************************************************************************)
EXTENDS PolicyMeter, FiniteSets

CONSTANTS
    Accounts,           \* addresses of the token accounts
    AccountStates,      \* the states such an address may be in
    Mints,              \* every mint, WSOL among them
    Watched,            \* any of them: the one whose allowance AllowanceSpec follows
    Owners,             \* ed25519 keys that may be set as authority
    Payers,             \* fee and rent payers
    Programs,           \* programs an inner instruction may call
    Baseline,           \* those allowed without an entry in the policy
    Self,               \* this program
    PhygitalToken,      \* the token program of the accessory
    Shapes,             \* instruction contents, as far as rules tell them apart
    Policies,           \* the arguments owners pass to set_wallet_policy
    Batches,            \* the batches of inner instructions transactions carry,
    Remaining,          \* and their lists of remaining accounts
    OldVersions,        \* policy versions of earlier releases
    BaseLen, MintLen,   \* bytes of an empty authority account and of a mint cap
    EntryLen, RuleLen,  \* bytes of a permission entry and of a rule in it
    RentPerByte,        \* lamports that make a byte rent-exempt
    MaxPrograms, MaxRules, MaxPermissionBytes,
    Fund,               \* lamports a payer starts with
    Donations,          \* lamports a payer may send to the authority PDA
    MaxLamports,        \* bound on the lamports of the wallet
    MaxTime             \* bound on chain time

POLICY_VERSION == 8
ACCOUNT_OVERHEAD == 128

ASSUME ProgramAssumption ==
    /\ BaseLen \in Nat /\ MintLen \in Nat /\ EntryLen \in Nat /\ RuleLen \in Nat
    /\ RentPerByte \in Nat /\ Fund \in Nat /\ MaxLamports \in Nat /\ MaxTime \in Nat
    /\ Donations \subseteq Nat
    /\ IsFiniteSet(Mints) /\ IsFiniteSet(Programs) /\ IsFiniteSet(Shapes)
    /\ MaxLamports <= MaxU64
    /\ IsFiniteSet(Accounts) /\ EmptyAccount \in AccountStates
    /\ \A acc \in AccountStates : is_token(acc) => acc.amount \in U64
    /\ {0, POLICY_VERSION} \cap OldVersions = {}

VARIABLES
    clock,     \* Clock::unix_timestamp
    token,     \* the accessory token, see TokenStates
    intact,    \* the wallet PDA still has its owner and its empty data
    lamports,  \* of the wallet
    accounts,  \* the token account at each address
    authority, \* the authority PDA's data, or NoAuthority
    rent,      \* lamports of the authority PDA
    len,       \* data length of the authority PDA
    balance    \* lamports of each payer

vars == <<clock, token, intact, lamports, accounts, authority, rent, len, balance>>

environment == <<clock, token, intact, lamports, accounts>>
pda         == <<authority, rent, len, balance>>

-----------------------------------------------------------------------------
(* The accessory token: unlocked or not controlled, locked for another     *)
(* owner, or locked and owned by the wallet PDA.                           *)

TokenStates == {"unlocked", "locked", "ours"}

locked_controlled    == token \in {"locked", "ours"}
wallet_matches_owner == token = "ours"

-----------------------------------------------------------------------------
(* The authority account.                                                  *)

Permission  == [kind : {"Denied", "AllInstructions", "Restricted"}, rules : SUBSET Shapes]
Permissions == UNION {[S -> Permission] : S \in SUBSET Programs}

\* Keyed by mint; the order of the mint caps in the account decides nothing.
NoMintCaps    == [m \in {} |-> InactiveCap]
NoPermissions == [p \in {} |-> [kind |-> "Denied", rules |-> {}]]
EmptyPolicy   == [sol |-> InactiveCap, mints |-> NoMintCaps, permissions |-> NoPermissions]

NoAuthority == [present |-> FALSE]

Header(owner, payer, version, policy) ==
    [present |-> TRUE, authority |-> owner, payer |-> payer,
     policy_version |-> version, policy |-> policy]

\* Authority::read: 0 is no policy, the current version a policy, and any other
\* version an error.
readable       == authority.present /\ authority.policy_version \in {0, POLICY_VERSION}
policy_present == authority.present /\ authority.policy_version = POLICY_VERSION

minimum_balance(bytes) == RentPerByte * (ACCOUNT_OVERHEAD + bytes)

Rules(permissions) ==
    {pr \in (DOMAIN permissions) \X Shapes :
        permissions[pr[1]].kind = "Restricted" /\ pr[2] \in permissions[pr[1]].rules}

permission_bytes(permissions) ==
    EntryLen * Cardinality(DOMAIN permissions) + RuleLen * Cardinality(Rules(permissions))

\* with_mint_count plus the permission tail; the four bytes of its own length
\* prefix are already part of BaseLen.
policy_len(policy) ==
    BaseLen + MintLen * Cardinality(DOMAIN policy.mints)
            + permission_bytes(policy.permissions)

\* Mutant: growth is not paid for.
top_up_for_base(bytes) == saturating_sub(minimum_balance(BaseLen), rent)

\* Lamports the authority PDA lacks to be rent-exempt at a length.
top_up(bytes) == saturating_sub(minimum_balance(bytes), rent)

\* Mutants: the signer gets the refund, or is never debited.
settle_with_signer(payer, topUp, receiver, refund) ==
    [balance EXCEPT ![payer] = @ - topUp + refund]

\* The balances after payer pays a top-up and receiver gets a refund.
settle(payer, topUp, receiver, refund) ==
    LET paid == [balance EXCEPT ![payer] = @ - topUp]
    IN  [paid EXCEPT ![receiver] = @ + refund]

-----------------------------------------------------------------------------
(* Arguments of set_wallet_policy: sol_cap is a set of at most one cap, and *)
(* mint_caps a set of caps with the mint each is for.                      *)

validate_permissions(permissions) ==
    /\ Cardinality(DOMAIN permissions) <= MaxPrograms
    /\ DOMAIN permissions \cap {Self, PhygitalToken} = {}
    /\ \A p \in DOMAIN permissions :
          permissions[p].kind = "Restricted" =>
              Cardinality(permissions[p].rules) \in 1 .. MaxRules
    /\ permission_bytes(permissions) <= MaxPermissionBytes

valid_policy_args(args) ==
    /\ \A c \in args.sol_cap \cup args.mint_caps : valid_cap_args(c.cap, c.window_seconds)
    /\ \A c \in args.mint_caps : c.mint # WSOL
    /\ \A c, d \in args.mint_caps : c.mint = d.mint => c = d
    /\ validate_permissions(args.permissions)

\* The policy a save leaves behind, given the one it replaces.
saved_policy(args, old, now) ==
    LET saved(c, prev) ==
            preserve_spend_cap(new_spend_cap(c.cap, c.window_seconds, now), prev)
        arg(m)  == CHOOSE c \in args.mint_caps : c.mint = m
        prev(m) == IF m \in DOMAIN old.mints THEN old.mints[m] ELSE InactiveCap
    IN  [sol         |-> IF args.sol_cap = {}
                         THEN InactiveCap
                         ELSE saved(CHOOSE c \in args.sol_cap : TRUE, old.sol),
         mints       |-> [m \in {c.mint : c \in args.mint_caps} |-> saved(arg(m), prev(m))],
         permissions |-> args.permissions]

-----------------------------------------------------------------------------
(* The batch of inner calls.                                               *)

\* writes_protected: some account meta hands the token or the authority PDA to
\* the callee as writable or as signer.
Instruction == [program : Programs, shape : Shapes, writes_protected : BOOLEAN]

PolicyArgs ==
    [sol_cap     : SUBSET [cap : Nat, window_seconds : Int],
     mint_caps   : SUBSET [mint : Mints, cap : Nat, window_seconds : Int],
     permissions : Permissions]

ASSUME InputsAssumption ==
    /\ Policies \subseteq PolicyArgs
    /\ Batches \subseteq SUBSET Instruction
    /\ Remaining \subseteq Seq(Accounts)

Holding  == [lamports |-> lamports, accounts |-> accounts]
Outcomes == [lamports : 0 .. MaxLamports, accounts : [Accounts -> AccountStates],
             intact : BOOLEAN]

check_instruction(permissions, ix) ==
    IF ix.program \in DOMAIN permissions
    THEN \/ permissions[ix.program].kind = "AllInstructions"
         \/ /\ permissions[ix.program].kind = "Restricted"
            /\ ix.shape \in permissions[ix.program].rules
    ELSE ix.program \in Baseline

\* execute_compact_instructions; `checked` when the policy's permissions apply.
\* An empty batch succeeds and changes nothing.
execute_compact_instructions(batch, rem, out, checked) ==
    /\ batch # {}
    /\ \A ix \in batch :
          /\ ix.program \notin {Self, PhygitalToken}
          /\ checked => check_instruction(authority.policy.permissions, ix)
          /\ ~ix.writes_protected
    /\ \A a \in Accounts : (\A i \in DOMAIN rem : rem[i] # a) => out.accounts[a] = accounts[a]
    /\ out.intact = intact
    /\ lamports' = out.lamports
    /\ accounts' = out.accounts
    /\ UNCHANGED <<clock, token, intact>>

\* The common path of execute and execute_with_authority_using_policies: with a
\* policy, snapshot, batch and charge; without one, the bare batch.
ExecuteUnderPolicy(batch, rem, out) ==
    /\ wallet_matches_owner
    /\ readable
    /\ execute_compact_instructions(batch, rem, out, policy_present)
    /\ IF policy_present
       THEN /\ charge_accepted(authority.policy, rem, Holding, out, clock)
            /\ authority' = Header(authority.authority, authority.payer, POLICY_VERSION,
                    charge_policy_deltas(authority.policy, rem, Holding, out, clock))
       ELSE UNCHANGED authority
    /\ UNCHANGED <<rent, len, balance>>

-----------------------------------------------------------------------------
(* The instructions.                                                       *)

\* A tap: the passkey challenge over the batch and a recent slot hash verifies.
Execute(batch, rem, out) == ExecuteUnderPolicy(batch, rem, out)

ExecuteWithAuthorityUsingPolicies(signer, batch, rem, out) ==
    /\ authority.present /\ signer = authority.authority
    /\ ExecuteUnderPolicy(batch, rem, out)

\* The owner's own transactions bypass the policy; its counters stand still.
ExecuteWithAuthority(signer, batch, rem, out) ==
    /\ wallet_matches_owner
    /\ authority.present /\ signer = authority.authority
    /\ execute_compact_instructions(batch, rem, out, FALSE)
    /\ UNCHANGED pda

\* Anchor's init creates the PDA, or tops up one that already holds lamports.
SetAuthority(owner, payer) ==
    LET needed == top_up(BaseLen)
    IN  /\ wallet_matches_owner
        /\ ~authority.present
        /\ balance[payer] >= needed
        /\ authority' = Header(owner, payer, POLICY_VERSION, EmptyPolicy)
        /\ len' = BaseLen
        /\ rent' = rent + needed
        /\ balance' = settle(payer, needed, payer, 0)
        /\ UNCHANGED environment

ClearAuthority(signer) ==
    /\ locked_controlled
    /\ authority.present /\ signer = authority.authority
    /\ authority' = NoAuthority
    /\ len' = 0
    /\ rent' = 0
    /\ balance' = settle(authority.payer, 0, authority.payer, rent)
    /\ UNCHANGED environment

\* Any signer may pay the top-up of a longer policy; what a shorter one frees
\* goes to the payer named in the header.
SetWalletPolicy(signer, payer, args) ==
    LET old     == IF policy_present THEN authority.policy ELSE EmptyPolicy
        new     == saved_policy(args, old, clock)
        minimum == minimum_balance(policy_len(new))
        topUp   == top_up(policy_len(new))
        refund  == IF policy_len(new) < len THEN rent + topUp - minimum ELSE 0
    IN  /\ locked_controlled
        /\ readable /\ signer = authority.authority
        /\ valid_policy_args(args)
        /\ balance[payer] >= topUp
        /\ authority' = Header(authority.authority, authority.payer, POLICY_VERSION, new)
        /\ len' = policy_len(new)
        /\ rent' = rent + topUp - refund
        /\ balance' = settle(payer, topUp, authority.payer, refund)
        /\ UNCHANGED environment

\* Reads only the header, so a policy of an earlier release can be cleared.
ClearWalletPolicy(signer) ==
    LET minimum == minimum_balance(BaseLen)
    IN  /\ locked_controlled
        /\ authority.present /\ signer = authority.authority
        /\ ~(authority.policy_version = 0 /\ len = BaseLen /\ authority.policy = EmptyPolicy)
        /\ rent >= minimum
        /\ authority' = Header(authority.authority, authority.payer, 0, EmptyPolicy)
        /\ len' = BaseLen
        /\ rent' = minimum
        /\ balance' = settle(authority.payer, 0, authority.payer, rent - minimum)
        /\ UNCHANGED environment

-----------------------------------------------------------------------------
(* The environment.                                                        *)

Tick(t) ==
    /\ t > clock
    /\ clock' = t
    /\ UNCHANGED <<token, intact, lamports, accounts, pda>>

\* The phygital-token program locks, unlocks or re-owns the accessory.
TokenChange(t) ==
    /\ t # token
    /\ token' = t
    /\ UNCHANGED <<clock, intact, lamports, accounts, pda>>

DepositSol(n) ==
    /\ n > lamports
    /\ lamports' = n
    /\ UNCHANGED <<clock, token, intact, accounts, pda>>

\* What transactions without the wallet's signature can do to a token account:
\* anything if the wallet does not own it, and otherwise add to it, draw on an
\* approval, or close it empty under a foreign close authority.
outside_change(acc, acc2) ==
    IF ~wallet_owned(acc)
    THEN TRUE
    ELSE \/ /\ wallet_owned(acc2) /\ acc2.amount > acc.amount
            /\ acc2 = [acc EXCEPT !.amount = acc2.amount]
         \/ /\ acc.delegate \notin {NoKey, Wallet}
            /\ \E n \in 1 .. acc.delegated_amount :
                  /\ n <= acc.amount
                  /\ acc2 = [acc EXCEPT !.amount = @ - n, !.delegated_amount = @ - n,
                                !.delegate = IF acc.delegated_amount = n THEN NoKey ELSE @]
         \/ /\ acc.close_authority \notin {NoKey, Wallet}
            /\ acc.amount = 0
            /\ acc2 = EmptyAccount

OutsideChange(a, acc2) ==
    /\ outside_change(accounts[a], acc2)
    /\ accounts' = [accounts EXCEPT ![a] = acc2]
    /\ UNCHANGED <<clock, token, intact, lamports, pda>>

\* Lamports sent to the authority PDA; the runtime keeps the account rent-exempt.
Donate(payer, n) ==
    /\ balance[payer] >= n
    /\ rent + n >= minimum_balance(len)
    /\ rent' = rent + n
    /\ balance' = [balance EXCEPT ![payer] = @ - n]
    /\ UNCHANGED <<clock, token, intact, lamports, accounts, authority, len>>

-----------------------------------------------------------------------------

\* No authority yet, or one left by an earlier release of the program.
Init ==
    /\ clock \in 0 .. MaxTime
    /\ token = "ours"
    /\ intact = TRUE
    /\ lamports \in 0 .. MaxLamports
    /\ accounts \in [Accounts -> AccountStates]
    /\ balance = [p \in Payers |-> Fund]
    /\ \/ /\ authority = NoAuthority
          /\ rent = 0
          /\ len = 0
       \/ /\ \E o \in Owners, p \in Payers, v \in OldVersions :
                authority = Header(o, p, v, EmptyPolicy)
          /\ len = BaseLen + MintLen
          /\ rent = minimum_balance(len)

NextExecute ==
    \E batch \in Batches, rem \in Remaining, out \in Outcomes :
        \/ Execute(batch, rem, out)
        \/ \E o \in Owners : ExecuteWithAuthorityUsingPolicies(o, batch, rem, out)

NextOwnerExecute ==
    \E batch \in Batches, rem \in Remaining, out \in Outcomes, o \in Owners :
        ExecuteWithAuthority(o, batch, rem, out)

NextConfigure ==
    \/ \E o \in Owners, p \in Payers : SetAuthority(o, p)
    \/ \E o \in Owners : ClearAuthority(o)
    \/ \E o \in Owners, p \in Payers, args \in Policies : SetWalletPolicy(o, p, args)
    \/ \E o \in Owners : ClearWalletPolicy(o)

NextEnvironment ==
    \/ \E t \in 0 .. MaxTime : Tick(t)
    \/ \E t \in TokenStates : TokenChange(t)
    \/ \E n \in 0 .. MaxLamports : DepositSol(n)
    \/ \E a \in Accounts, acc2 \in AccountStates : OutsideChange(a, acc2)
    \/ \E p \in Payers, n \in Donations : Donate(p, n)

Next == NextExecute \/ NextOwnerExecute \/ NextConfigure \/ NextEnvironment

Spec == Init /\ [][Next]_vars

-----------------------------------------------------------------------------
(* Types.                                                                  *)

policy_ok(p) ==
    /\ p = [sol |-> p.sol, mints |-> p.mints, permissions |-> p.permissions]
    /\ p.sol \in SpendCap
    /\ DOMAIN p.mints \subseteq Mints \ {WSOL}
    /\ p.mints \in [DOMAIN p.mints -> SpendCap]
    /\ p.permissions \in Permissions

authority_ok(a) ==
    \/ a = NoAuthority
    \/ /\ a = Header(a.authority, a.payer, a.policy_version, a.policy)
       /\ a.authority \in Owners /\ a.payer \in Payers
       /\ a.policy_version \in OldVersions \cup {0, POLICY_VERSION}
       /\ policy_ok(a.policy)

\* The type invariant.
TypeOK ==
    /\ clock \in 0 .. MaxTime
    /\ token \in TokenStates
    /\ intact \in BOOLEAN
    /\ lamports \in 0 .. MaxLamports
    /\ accounts \in [Accounts -> AccountStates]
    /\ authority_ok(authority)
    /\ rent \in Nat
    /\ len \in Nat
    /\ balance \in [Payers -> Nat]

-----------------------------------------------------------------------------
(* Properties of the caps.                                                 *)

caps(p) == {p.sol} \cup {p.mints[m] : m \in DOMAIN p.mints}

\* However charges, saves, clears and the clock interleave, no counter exceeds
\* its cap, no anchor lies in the future, and every anchor stays on the epoch
\* grid of its window (charge_cap advances it by whole windows, new_spend_cap
\* aligns it, preserve_spend_cap carries it over).
CapsSound == authority.present => \A c \in caps(authority.policy) : cap_sound(c, clock)

\* What the owner sees of a cap: its limit, and what is spent of the window.
cap_of(m) ==
    IF ~authority.present THEN InactiveCap
    ELSE IF m = WSOL THEN authority.policy.sol
    ELSE IF m \in DOMAIN authority.policy.mints THEN authority.policy.mints[m]
    ELSE InactiveCap

limit_of(c) == [cap |-> c.cap, window |-> IF is_active(c) THEN c.window_seconds ELSE 0]

SameWindow(window, s, t) == window = 0 \/ s \div window = t \div window

\* What is left of a past window says nothing about the current one.
spent_of(c) ==
    IF SameWindow(c.window_seconds, c.last_reset, clock) THEN c.cap - c.remaining ELSE 0

\* The step is a tap, or the owner's use of the same path, with a policy in force.
PolicyStep ==
    /\ policy_present
    /\ \E batch \in Batches, rem \in Remaining :
          ExecuteUnderPolicy(batch, rem,
              [lamports |-> lamports', accounts |-> accounts', intact |-> intact'])

\* What the wallet has of a mint; its lamports count as wrapped SOL.
holding(h, m) ==
    LET own == {a \in Accounts : wallet_owned(h.accounts[a]) /\ h.accounts[a].mint = m}
    IN  (IF m = WSOL THEN h.lamports ELSE 0)
            + MapThenSumSet(LAMBDA a : h.accounts[a].amount, own)

Capped(m) == IF m = WSOL THEN charge_sol(authority.policy)
                         ELSE m \in DOMAIN authority.policy.mints

\* With any cap in force, what has no cap of its own never decreases in a
\* policy-checked execution: not SOL through rent or unwrapping, not an
\* uncapped token, not through an approval another party gave the wallet.
UncappedKept ==
    [][PolicyStep /\ spending_limits_active(authority.policy) =>
          \A m \in Mints : ~Capped(m) =>
              /\ holding(Holding', m) >= holding(Holding, m)
              /\ \A a \in Accounts :
                    spendable(accounts[a]) /\ accounts[a].mint = m =>
                        amount_after(accounts'[a]) >= accounts[a].amount]_vars

\* A policy-checked execution gives away no control: a wallet-owned account
\* that survives has the same mint and close authority, one that becomes the
\* wallet's has no foreign close authority, and any approval on the wallet's
\* accounts that is left was there before, on an account it did not touch.
ControlKept ==
    [][PolicyStep =>
          \A a \in Accounts :
              /\ wallet_owned(accounts[a]) /\ accounts'[a] # EmptyAccount =>
                     /\ wallet_owned(accounts'[a])
                     /\ accounts'[a].mint = accounts[a].mint
                     /\ accounts'[a].close_authority = accounts[a].close_authority
              /\ wallet_owned(accounts'[a]) /\ accounts'[a] # accounts[a] =>
                     /\ accounts'[a].delegated_amount = 0
                     /\ \/ wallet_owned(accounts[a])
                        \/ accounts'[a].close_authority \in {NoKey, Wallet}]_vars

\* The wallet's SOL, native and wrapped, fits a u64, as all SOL there is does.
FitsU64(h) == holding(h, WSOL) \in U64

\* Native and wrapped SOL share one net budget: an execution that leaves the
\* wallet with no less of the two together, such as a wrap or an unwrap, spends
\* nothing of the current window, and one that loses some spends the loss.
SolChargedExactly ==
    [][PolicyStep /\ charge_sol(authority.policy) /\ FitsU64(Holding) /\ FitsU64(Holding') =>
          LET loss == saturating_sub(holding(Holding, WSOL), holding(Holding', WSOL))
          IN  spent_of(cap_of(WSOL))' = spent_of(cap_of(WSOL)) + loss]_vars

\* Of a capped mint, an execution spends what left the accounts the wallet can
\* spend from, each account by itself: nothing received offsets it, a transfer
\* between two accounts of the wallet counts, an account named twice counts once.
TokenChargedExactly ==
    [][PolicyStep =>
          \A m \in DOMAIN authority.policy.mints :
              LET from == {a \in Accounts : spendable(accounts[a]) /\ accounts[a].mint = m}
                  loss == MapThenSumSet(LAMBDA a : account_spent(Holding, Holding', a), from)
              IN  spent_of(cap_of(m))' = spent_of(cap_of(m)) + loss]_vars

\* An execution is charged exactly what it cost, in SOL and in every capped mint.
ChargedExactly == SolChargedExactly /\ TokenChargedExactly

-----------------------------------------------------------------------------
(* Properties of the rent.                                                 *)

\* The authority PDA is always rent-exempt for the data it holds and long
\* enough for an empty policy, so that shrinking it never lacks lamports and
\* the owner can always clear a policy; its length is the one its policy needs.
RentExempt ==
    authority.present =>
        /\ len >= BaseLen
        /\ rent >= minimum_balance(len)
        /\ authority.policy_version = POLICY_VERSION => len = policy_len(authority.policy)
        /\ authority.policy_version = 0 => len = BaseLen /\ authority.policy = EmptyPolicy

\* Lamports leave the PDA only to the payer recorded in its header, whoever
\* signed or paid for the transaction.
RefundsReachPayer ==
    [][rent' < rent =>
          balance' = [balance EXCEPT ![authority.payer] = @ + rent - rent']]_vars

-----------------------------------------------------------------------------
(* The program implements the allowance the owner is promised, for SOL and *)
(* for each mint.                                                          *)

SolAllowance ==
    INSTANCE Allowance WITH limit <- limit_of(cap_of(WSOL)), spent <- spent_of(cap_of(WSOL))

TokenAllowance ==
    INSTANCE Allowance WITH limit <- limit_of(cap_of(Watched)), spent <- spent_of(cap_of(Watched))

\* Lazy refills, preserved counters and re-aligned anchors amount, for SOL and
\* for a token, to a meter reset at every boundary of the grid and whenever the
\* limit changes.
AllowanceSpec == SolAllowance!Spec /\ TokenAllowance!Spec

=============================================================================
