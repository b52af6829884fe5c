------------------------ MODULE WalletProgram_proofs ------------------------
(***************************************************************************)
(* What holds of WalletProgram for every value of its constants.  Types    *)
(* and the soundness of the caps are proved together: that a charge leaves *)
(* a natural number in the counter is a fact about sound caps, and that a  *)
(* cap stays sound is a fact about caps of the right type.  First what the *)
(* operators of SpendingLimit preserve, for every cap, window, amount and  *)
(* time.                                                                   *)
(***************************************************************************)
EXTENDS WalletProgram, FoldFacts

-----------------------------------------------------------------------------
(* Facts of arithmetic.                                                    *)

\* A multiple of the window plus whole windows is a multiple of the window.
LEMMA MultipleStep ==
  ASSUME NEW w \in Nat, w > 0, NEW n \in Nat, n % w = 0, NEW k \in Nat
  PROVE  (n + k * w) % w = 0
<1> DEFINE j == n \div w
<1>1. j \in Nat
  BY SMT
<1>2. n = w * j
  BY SMT
<1> HIDE DEF j
<1>3. n + k * w = (j + k) * w
  BY <1>1, <1>2, SMT
<1>4. j + k \in Nat
  BY <1>1
<1>5. ((j + k) * w) % w = 0
  BY <1>4, SMT
<1>6. QED
  BY <1>3, <1>5

\* Whole windows taken from an elapsed time never exceed it.
LEMMA WholeWindows ==
  ASSUME NEW w \in Nat, w > 0, NEW e \in Nat
  PROVE  /\ e \div w \in Nat
         /\ (e \div w) * w \in Nat
         /\ (e \div w) * w <= e
<1>1. e \div w \in Nat /\ (e \div w) * w <= e
  BY SMT
<1>2. \A q \in Nat : q * w \in Nat
  BY SMT
<1>3. QED
  BY <1>1, <1>2

-----------------------------------------------------------------------------
(* The operators.                                                          *)

\* The anchor of a new cap is on the grid and not in the future.
LEMMA AlignOnGrid ==
  ASSUME NEW now \in Nat, NEW w \in Nat
  PROVE  /\ align_to_window(now, w) \in Nat
         /\ align_to_window(now, w) <= now
         /\ w > 0 => align_to_window(now, w) % w = 0
<1>1. CASE w = 0
  BY <1>1, SMT DEF align_to_window
<1>2. CASE w > 0
  <2>1. align_to_window(now, w) = now - (now % w)
    BY <1>2, SMT DEF align_to_window
  <2>2. (now % w) \in Nat /\ (now % w) <= now
    BY <1>2, SMT
  <2>3. (now - (now % w)) % w = 0
    BY <1>2, SMT
  <2>4. QED
    BY <1>2, <2>1, <2>2, <2>3
<1>3. QED
  BY <1>1, <1>2

\* new_spend_cap yields a sound cap with everything remaining.
LEMMA NewCapSound ==
  ASSUME NEW cap \in Nat, NEW w \in Nat, NEW now \in Nat
  PROVE  /\ new_spend_cap(cap, w, now) \in SpendCap
         /\ cap_sound(new_spend_cap(cap, w, now), now)
BY AlignOnGrid DEF new_spend_cap, SpendCap, cap_sound

\* Saving a policy keeps caps sound, whether a counter is preserved or restarted.
LEMMA PreserveSound ==
  ASSUME NEW now \in Nat,
         NEW new \in SpendCap, cap_sound(new, now),
         NEW prev \in SpendCap, cap_sound(prev, now)
  PROVE  /\ preserve_spend_cap(new, prev) \in SpendCap
         /\ cap_sound(preserve_spend_cap(new, prev), now)
BY DEF preserve_spend_cap

\* A lazy refill keeps a cap sound and its limit unchanged.
LEMMA RefillSound ==
  ASSUME NEW now \in Nat, NEW c \in SpendCap, cap_sound(c, now)
  PROVE  /\ refill(c, now) \in SpendCap
         /\ cap_sound(refill(c, now), now)
         /\ refill(c, now).cap = c.cap
         /\ refill(c, now).window_seconds = c.window_seconds
<1> DEFINE e == now - c.last_reset
           w == c.window_seconds
<1>1. e \in Nat /\ w \in Nat
  BY DEF cap_sound, SpendCap
<1>2. CASE ~(w > 0 /\ e >= w)
  BY <1>2 DEF refill
<1>3. CASE w > 0 /\ e >= w
  <2> DEFINE step == (e \div w) * w
  <2>1. refill(c, now) = [cap |-> c.cap, remaining |-> c.cap,
                          last_reset |-> c.last_reset + step, window_seconds |-> w]
    BY <1>3 DEF refill
  <2>2. step \in Nat /\ step <= e
    BY <1>1, <1>3, WholeWindows
  <2>3. e \div w \in Nat
    BY <1>1, <1>3, WholeWindows
  <2>4. (c.last_reset + step) % w = 0
    BY <1>1, <1>3, <2>3, MultipleStep DEF cap_sound, SpendCap
  <2> HIDE DEF step
  <2>5. c.last_reset + step <= now
    BY <2>2 DEF SpendCap
  <2>6. QED
    BY <2>1, <2>2, <2>4, <2>5 DEF cap_sound, SpendCap
<1>4. QED
  BY <1>2, <1>3

\* An accepted charge keeps a cap sound: the counter cannot pass below zero.
LEMMA ChargeSound ==
  ASSUME NEW now \in Nat, NEW c \in SpendCap, cap_sound(c, now),
         NEW n \in Nat, can_charge(c, n, now)
  PROVE  /\ charge_cap(c, n, now) \in SpendCap
         /\ cap_sound(charge_cap(c, n, now), now)
         /\ charge_cap(c, n, now).cap = c.cap
         /\ charge_cap(c, n, now).window_seconds = c.window_seconds
BY RefillSound DEF charge_cap, can_charge, cap_sound, SpendCap

\* A cap sound at some time is sound at any later one.
LEMMA SoundLater ==
  ASSUME NEW c \in SpendCap, NEW now \in Nat, NEW t \in Nat, now <= t, cap_sound(c, now)
  PROVE  cap_sound(c, t)
BY DEF cap_sound, SpendCap

\* The value that stands for an absent cap is sound at any time.
LEMMA InactiveSound ==
  ASSUME NEW now \in Nat
  PROVE  InactiveCap \in SpendCap /\ cap_sound(InactiveCap, now)
BY DEF InactiveCap, SpendCap, cap_sound

-----------------------------------------------------------------------------
IInv == TypeOK /\ CapsSound

caps_sound(p, now) == \A c \in caps(p) : cap_sound(c, now)

-----------------------------------------------------------------------------
(* Policies.                                                               *)

\* The policy of a fresh or cleared authority account.
LEMMA EmptyPolicyOk ==
  ASSUME NEW now \in Nat
  PROVE  policy_ok(EmptyPolicy) /\ caps_sound(EmptyPolicy, now)
<1>1. NoPermissions \in Permissions
  <2>1. NoPermissions \in [{} -> Permission]
    BY DEF NoPermissions
  <2>2. [{} -> Permission] \in {[S -> Permission] : S \in SUBSET Programs}
    OBVIOUS
  <2>3. QED
    BY <2>1, <2>2 DEF Permissions
<1>2. NoMintCaps \in [DOMAIN NoMintCaps -> SpendCap] /\ DOMAIN NoMintCaps = {}
  BY DEF NoMintCaps
<1>3. QED
  BY <1>1, <1>2, InactiveSound DEF EmptyPolicy, policy_ok, caps_sound, caps

\* What set_wallet_policy stores, whatever it replaces: every counter is either
\* carried over or new.
LEMMA SavedPolicyOk ==
  ASSUME NEW args \in Policies, valid_policy_args(args), NEW now \in Nat,
         NEW old, policy_ok(old), caps_sound(old, now)
  PROVE  /\ policy_ok(saved_policy(args, old, now))
         /\ caps_sound(saved_policy(args, old, now), now)
<1> DEFINE saved(c, prev) ==
             preserve_spend_cap(new_spend_cap(c.cap, c.window_seconds, now), prev)
           arg(m)  == CHOOSE c \in args.mint_caps : c.mint = m
           prev(m) == IF m \in DOMAIN old.mints THEN old.mints[m] ELSE InactiveCap
           mints   == {c.mint : c \in args.mint_caps}
           new     == saved_policy(args, old, now)
<1>1. args \in PolicyArgs
  BY InputsAssumption
<1>2. \A c \in args.sol_cap \cup args.mint_caps : c.cap \in Nat /\ c.window_seconds \in Nat
  BY <1>1 DEF PolicyArgs, valid_policy_args, valid_cap_args
<1>3. ASSUME NEW c \in args.sol_cap \cup args.mint_caps,
             NEW p \in SpendCap, cap_sound(p, now)
      PROVE  saved(c, p) \in SpendCap /\ cap_sound(saved(c, p), now)
  <2>1. /\ new_spend_cap(c.cap, c.window_seconds, now) \in SpendCap
        /\ cap_sound(new_spend_cap(c.cap, c.window_seconds, now), now)
    BY <1>2, NewCapSound
  <2>2. QED
    BY <1>3, <2>1, PreserveSound
<1>4. old.sol \in SpendCap /\ cap_sound(old.sol, now)
  BY DEF policy_ok, caps_sound, caps
<1>5. \A m : prev(m) \in SpendCap /\ cap_sound(prev(m), now)
  BY InactiveSound DEF policy_ok, caps_sound, caps
<1>6. \A m \in mints : arg(m) \in args.mint_caps
  OBVIOUS
<1>7. mints \subseteq Mints \ {WSOL}
  BY <1>1 DEF PolicyArgs, valid_policy_args
<1> HIDE DEF arg, prev, saved
<1>8. /\ new.sol \in SpendCap /\ cap_sound(new.sol, now)
  <2>1. CASE args.sol_cap = {}
    BY <2>1, InactiveSound DEF saved_policy
  <2>2. CASE args.sol_cap # {}
    <3>1. new.sol = saved(CHOOSE c \in args.sol_cap : TRUE, old.sol)
      BY <2>2 DEF saved_policy, saved
    <3>2. (CHOOSE c \in args.sol_cap : TRUE) \in args.sol_cap
      BY <2>2
    <3>3. QED
      BY <3>1, <3>2, <1>3, <1>4
  <2>3. QED
    BY <2>1, <2>2
<1>9. /\ new.mints = [m \in mints |-> saved(arg(m), prev(m))]
      /\ new.permissions = args.permissions
      /\ new = [sol |-> new.sol, mints |-> new.mints, permissions |-> new.permissions]
  BY DEF saved_policy, saved, arg, prev
<1>10. \A m \in mints : saved(arg(m), prev(m)) \in SpendCap /\ cap_sound(saved(arg(m), prev(m)), now)
  BY <1>3, <1>5, <1>6
<1>11. args.permissions \in Permissions
  BY <1>1 DEF PolicyArgs
<1> HIDE DEF new, mints
<1>12. policy_ok(new)
  BY <1>7, <1>8, <1>9, <1>10, <1>11 DEF policy_ok
<1>13. caps_sound(new, now)
  BY <1>8, <1>9, <1>10 DEF caps_sound, caps
<1>14. QED
  BY <1>12, <1>13 DEF new

\* What a policy-checked execution measures fits a u64.
LEMMA SolSpentType ==
  ASSUME NEW p, NEW rem, NEW before, NEW after
  PROVE  sol_spent(p, rem, before, after) \in Nat
<1>1. \A h : sol_total(p, rem, h) \in Nat
  BY MaxU64Assumption DEF sol_total, saturating_add, U64
<1>2. QED
  BY <1>1 DEF sol_spent, saturating_sub

\* An accepted batch leaves sound caps.
LEMMA ChargedPolicyOk ==
  ASSUME NEW p, policy_ok(p), NEW now \in Nat, caps_sound(p, now),
         NEW rem, NEW before, NEW after,
         charge_accepted(p, rem, before, after, now)
  PROVE  /\ policy_ok(charge_policy_deltas(p, rem, before, after, now))
         /\ caps_sound(charge_policy_deltas(p, rem, before, after, now), now)
<1> DEFINE sol     == sol_spent(p, rem, before, after)
           lost(m) == mint_spent(p, rem, before, after, m)
           new     == charge_policy_deltas(p, rem, before, after, now)
<1>1. p.sol \in SpendCap /\ cap_sound(p.sol, now)
  BY DEF policy_ok, caps_sound, caps
<1>2. \A m \in DOMAIN p.mints : p.mints[m] \in SpendCap /\ cap_sound(p.mints[m], now)
  BY DEF policy_ok, caps_sound, caps
<1>3. new.sol \in SpendCap /\ cap_sound(new.sol, now)
  <2>1. sol \in Nat
    BY SolSpentType
  <2>2. charge_sol(p) => can_charge(p.sol, sol, now)
    BY <2>1 DEF charge_accepted, can_charge, spending_limits_active
  <2>3. new.sol = IF charge_sol(p) THEN charge_cap(p.sol, sol, now) ELSE p.sol
    BY DEF charge_policy_deltas
  <2> HIDE DEF sol, new
  <2>4. QED
    BY <1>1, <2>1, <2>2, <2>3, ChargeSound
<1>4. /\ new.mints = [m \in DOMAIN p.mints |-> charge_cap(p.mints[m], lost(m), now)]
      /\ new.permissions = p.permissions
      /\ new = [sol |-> new.sol, mints |-> new.mints, permissions |-> new.permissions]
  BY DEF charge_policy_deltas
<1>5. ASSUME NEW m \in DOMAIN p.mints
      PROVE  /\ charge_cap(p.mints[m], lost(m), now) \in SpendCap
             /\ cap_sound(charge_cap(p.mints[m], lost(m), now), now)
  <2>1. lost(m) \in Nat /\ can_charge(p.mints[m], lost(m), now)
    BY MaxU64Assumption DEF charge_accepted, U64
  <2>2. QED
    BY <1>2, <2>1, ChargeSound
<1> HIDE DEF new, lost
<1>6. policy_ok(new)
  BY <1>3, <1>4, <1>5 DEF policy_ok
<1>7. caps_sound(new, now)
  BY <1>3, <1>4, <1>5 DEF caps_sound, caps
<1>8. QED
  BY <1>6, <1>7 DEF new

-----------------------------------------------------------------------------
(* Lengths and lamports.                                                   *)

LEMMA MinimumBalanceType ==
  ASSUME NEW bytes \in Nat
  PROVE  minimum_balance(bytes) \in Nat
<1>1. \A a, b \in Nat : a * b \in Nat
  BY SMT
<1>2. ACCOUNT_OVERHEAD + bytes \in Nat
  BY DEF ACCOUNT_OVERHEAD
<1>3. QED
  BY <1>1, <1>2, ProgramAssumption DEF minimum_balance

\* The length of a policy is a number because its mint caps, its permission
\* entries and their rules are finitely many.
LEMMA PolicyLenType ==
  ASSUME NEW p, policy_ok(p)
  PROVE  policy_len(p) \in Nat /\ policy_len(p) >= BaseLen
<1> DEFINE mints    == Cardinality(DOMAIN p.mints)
           programs == Cardinality(DOMAIN p.permissions)
           rules    == Cardinality(Rules(p.permissions))
<1>1. mints \in Nat
  <2>1. DOMAIN p.mints \in SUBSET Mints
    BY DEF policy_ok
  <2>2. QED
    BY <2>1, ProgramAssumption, FS_Subset, FS_CardinalityType
<1>2. DOMAIN p.permissions \in SUBSET Programs
  BY DEF policy_ok, Permissions
<1>3. programs \in Nat
  BY <1>2, ProgramAssumption, FS_Subset, FS_CardinalityType
<1>4. rules \in Nat
  <2>1. Rules(p.permissions) \in SUBSET (Programs \X Shapes)
    BY <1>2 DEF Rules
  <2>2. IsFiniteSet(Programs \X Shapes)
    BY ProgramAssumption, FS_Product
  <2>3. QED
    BY <2>1, <2>2, FS_Subset, FS_CardinalityType
<1>5. \A a, b \in Nat : a * b \in Nat
  BY SMT
<1> HIDE DEF mints, programs, rules
<1>6. MintLen * mints \in Nat /\ EntryLen * programs \in Nat /\ RuleLen * rules \in Nat
  BY <1>1, <1>3, <1>4, <1>5, ProgramAssumption
<1>7. policy_len(p) = BaseLen + MintLen * mints + (EntryLen * programs + RuleLen * rules)
  BY DEF policy_len, permission_bytes, mints, programs, rules
<1>8. QED
  BY <1>6, <1>7, ProgramAssumption

\* A top-up makes the account rent-exempt, and no more than that.
LEMMA TopUp ==
  ASSUME NEW bytes \in Nat, rent \in Nat
  PROVE  /\ top_up(bytes) \in Nat
         /\ rent + top_up(bytes) >= minimum_balance(bytes)
         /\ top_up(bytes) = 0 \/ rent + top_up(bytes) = minimum_balance(bytes)
BY MinimumBalanceType DEF top_up, saturating_sub

LEMMA SettleType ==
  ASSUME balance \in [Payers -> Nat], NEW payer \in Payers, NEW receiver \in Payers,
         NEW topUp \in Nat, balance[payer] >= topUp, NEW refund \in Nat
  PROVE  settle(payer, topUp, receiver, refund) \in [Payers -> Nat]
<1> DEFINE paid == [balance EXCEPT ![payer] = @ - topUp]
<1>1. paid \in [Payers -> Nat]
  OBVIOUS
<1>2. settle(payer, topUp, receiver, refund) = [paid EXCEPT ![receiver] = @ + refund]
  BY DEF settle
<1> HIDE DEF paid
<1>3. QED
  BY <1>1, <1>2

-----------------------------------------------------------------------------
(* The invariant.                                                          *)

\* With an authority account present, its fields have their types and its caps
\* are sound.
LEMMA PresentAuthority ==
  ASSUME IInv, authority.present
  PROVE  /\ authority = Header(authority.authority, authority.payer,
                               authority.policy_version, authority.policy)
         /\ authority.authority \in Owners /\ authority.payer \in Payers
         /\ authority.policy_version \in OldVersions \cup {0, POLICY_VERSION}
         /\ policy_ok(authority.policy) /\ caps_sound(authority.policy, clock)
         /\ clock \in Nat
BY DEF IInv, TypeOK, CapsSound, authority_ok, caps_sound, NoAuthority

\* An authority account with a policy of sound caps satisfies the invariant.
LEMMA HeaderOk ==
  ASSUME NEW o \in Owners, NEW p \in Payers,
         NEW v \in OldVersions \cup {0, POLICY_VERSION},
         NEW policy, policy_ok(policy)
  PROVE  /\ authority_ok(Header(o, p, v, policy))
         /\ Header(o, p, v, policy).present
         /\ Header(o, p, v, policy).policy = policy
BY DEF Header, authority_ok

\* The same for the authority there is, under the current version.
LEMMA HeaderKept ==
  ASSUME authority.authority \in Owners, authority.payer \in Payers,
         NEW policy, policy_ok(policy),
         authority' = Header(authority.authority, authority.payer, POLICY_VERSION, policy)
  PROVE  authority_ok(authority') /\ authority'.policy = policy
<1>1. POLICY_VERSION \in OldVersions \cup {0, POLICY_VERSION}
  OBVIOUS
<1> QED  BY <1>1, HeaderOk

\* It holds initially.
LEMMA InitIInv == Init => IInv
<1> SUFFICES ASSUME Init PROVE IInv
  OBVIOUS
<1>1. clock \in Nat
  BY ProgramAssumption DEF Init
<1>2. CASE authority = NoAuthority /\ rent = 0 /\ len = 0
  BY <1>2, ProgramAssumption
  DEF Init, IInv, TypeOK, TokenStates, CapsSound, authority_ok, NoAuthority
<1>3. CASE /\ \E o \in Owners, p \in Payers, v \in OldVersions :
                 authority = Header(o, p, v, EmptyPolicy)
           /\ len = BaseLen + MintLen
           /\ rent = minimum_balance(len)
  <2>1. len \in Nat /\ rent \in Nat
    BY <1>3, ProgramAssumption, MinimumBalanceType
  <2>2. authority_ok(authority) /\ authority.policy = EmptyPolicy
    BY <1>1, <1>3, EmptyPolicyOk, HeaderOk
  <2>3. CapsSound
    BY <1>1, <2>2, EmptyPolicyOk DEF CapsSound, caps_sound
  <2>4. QED
    BY <2>1, <2>2, <2>3, ProgramAssumption DEF Init, IInv, TypeOK, TokenStates
<1>4. QED
  BY <1>2, <1>3 DEF Init

\* A tap, or the owner through the same path, keeps it: the charged policy has
\* sound caps.
LEMMA ExecuteUnderPolicyIInv ==
  ASSUME IInv, NEW batch, NEW rem, NEW out \in Outcomes,
         ExecuteUnderPolicy(batch, rem, out)
  PROVE  IInv'
<1>1. lamports' \in 0 .. MaxLamports /\ accounts' \in [Accounts -> AccountStates]
  BY DEF ExecuteUnderPolicy, execute_compact_instructions, Outcomes
<1>2. UNCHANGED <<clock, token, intact, rent, len, balance>>
  BY DEF ExecuteUnderPolicy, execute_compact_instructions
<1>3. (authority_ok(authority) /\ CapsSound)'
  <2>1. CASE policy_present
    <3> DEFINE new == charge_policy_deltas(authority.policy, rem, Holding, out, clock)
    <3>1. authority' = Header(authority.authority, authority.payer, POLICY_VERSION, new)
      BY <2>1 DEF ExecuteUnderPolicy
    <3>2. policy_ok(new) /\ caps_sound(new, clock)
      <4>1. charge_accepted(authority.policy, rem, Holding, out, clock)
        BY <2>1 DEF ExecuteUnderPolicy
      <4>2. QED
        BY <2>1, <4>1, PresentAuthority, ChargedPolicyOk DEF policy_present
    <3> HIDE DEF new
    <3>3. authority_ok(authority') /\ authority'.policy = new
      <4>1. authority.authority \in Owners /\ authority.payer \in Payers
        BY <2>1, PresentAuthority DEF policy_present
      <4>2. QED
        BY <3>1, <3>2, <4>1, HeaderKept
    <3>4. CapsSound'
      BY <1>2, <3>2, <3>3 DEF CapsSound, caps_sound
    <3>5. QED
      BY <3>3, <3>4 DEF authority_ok
  <2>2. CASE ~policy_present
    BY <1>2, <2>2 DEF ExecuteUnderPolicy, IInv, TypeOK, CapsSound
  <2>3. QED
    BY <2>1, <2>2
<1>4. QED
  BY <1>1, <1>2, <1>3 DEF IInv, TypeOK

\* The instructions that manage the authority account keep it.
LEMMA SetAuthorityIInv ==
  ASSUME IInv, NEW owner \in Owners, NEW payer \in Payers, SetAuthority(owner, payer)
  PROVE  IInv'
<1> DEFINE needed == top_up(BaseLen)
<1>1. BaseLen \in Nat /\ clock \in Nat /\ rent \in Nat /\ balance \in [Payers -> Nat]
  BY ProgramAssumption DEF IInv, TypeOK
<1>2. needed \in Nat
  BY <1>1, TopUp
<1>3. /\ rent' = rent + needed /\ len' = BaseLen
      /\ balance[payer] >= needed
      /\ balance' = settle(payer, needed, payer, 0)
      /\ authority' = Header(owner, payer, POLICY_VERSION, EmptyPolicy)
      /\ UNCHANGED environment
  BY DEF SetAuthority
<1> HIDE DEF needed
<1>4. rent' \in Nat /\ len' \in Nat /\ balance' \in [Payers -> Nat]
  BY <1>1, <1>2, <1>3, SettleType
<1>5. authority_ok(authority') /\ authority'.policy = EmptyPolicy
  BY <1>1, <1>3, EmptyPolicyOk, HeaderOk
<1>6. CapsSound'
  BY <1>1, <1>3, <1>5, EmptyPolicyOk DEF CapsSound, caps_sound, environment
<1>7. QED
  BY <1>3, <1>4, <1>5, <1>6 DEF IInv, TypeOK, authority_ok, environment

LEMMA ClearAuthorityIInv ==
  ASSUME IInv, NEW signer, ClearAuthority(signer)
  PROVE  IInv'
<1>1. authority.payer \in Payers
  BY PresentAuthority DEF ClearAuthority
<1>2. balance' \in [Payers -> Nat]
  <2>1. /\ balance \in [Payers -> Nat] /\ rent \in Nat
        /\ balance' = settle(authority.payer, 0, authority.payer, rent)
    BY DEF ClearAuthority, IInv, TypeOK
  <2>2. balance[authority.payer] >= 0
    BY <1>1, <2>1
  <2>3. QED
    BY <1>1, <2>1, <2>2, SettleType
<1>3. QED
  BY <1>2 DEF ClearAuthority, IInv, TypeOK, CapsSound, authority_ok, NoAuthority, environment

LEMMA SetWalletPolicyIInv ==
  ASSUME IInv, NEW signer, NEW payer \in Payers, NEW args \in Policies,
         SetWalletPolicy(signer, payer, args)
  PROVE  IInv'
<1> DEFINE old     == IF policy_present THEN authority.policy ELSE EmptyPolicy
           new     == saved_policy(args, old, clock)
           minimum == minimum_balance(policy_len(new))
           topUp   == top_up(policy_len(new))
           refund  == IF policy_len(new) < len THEN rent + topUp - minimum ELSE 0
<1>1. /\ clock \in Nat /\ rent \in Nat /\ balance \in [Payers -> Nat]
      /\ authority.present /\ authority.authority \in Owners /\ authority.payer \in Payers
  BY PresentAuthority DEF SetWalletPolicy, readable, IInv, TypeOK
<1>2. policy_ok(old) /\ caps_sound(old, clock)
  BY <1>1, PresentAuthority, EmptyPolicyOk
<1>3. policy_ok(new) /\ caps_sound(new, clock)
  BY <1>1, <1>2, SavedPolicyOk DEF SetWalletPolicy
<1>4. /\ authority' = Header(authority.authority, authority.payer, POLICY_VERSION, new)
      /\ len' = policy_len(new)
      /\ rent' = rent + topUp - refund
      /\ balance[payer] >= topUp
      /\ balance' = settle(payer, topUp, authority.payer, refund)
      /\ UNCHANGED environment
  BY DEF SetWalletPolicy
<1> HIDE DEF new
<1>5. policy_len(new) \in Nat /\ minimum \in Nat
  BY <1>3, PolicyLenType, MinimumBalanceType
<1>6. topUp \in Nat /\ rent + topUp >= minimum
  BY <1>1, <1>5, TopUp
<1> HIDE DEF minimum, topUp
<1>7. refund \in Nat /\ rent + topUp - refund \in Nat
  BY <1>1, <1>5, <1>6
<1> HIDE DEF refund
<1>8. balance' \in [Payers -> Nat]
  BY <1>1, <1>4, <1>6, <1>7, SettleType
<1>9. rent' \in Nat /\ len' \in Nat /\ balance' \in [Payers -> Nat]
  BY <1>1, <1>4, <1>5, <1>7, <1>8
<1>10. authority_ok(authority') /\ authority'.policy = new
  BY <1>1, <1>3, <1>4, HeaderKept
<1>11. CapsSound'
  BY <1>3, <1>4, <1>10 DEF CapsSound, caps_sound, environment
<1>12. QED
  BY <1>4, <1>9, <1>10, <1>11 DEF IInv, TypeOK, authority_ok, environment

LEMMA ClearWalletPolicyIInv ==
  ASSUME IInv, NEW signer, ClearWalletPolicy(signer)
  PROVE  IInv'
<1> DEFINE minimum == minimum_balance(BaseLen)
<1>1. /\ clock \in Nat /\ rent \in Nat /\ balance \in [Payers -> Nat] /\ BaseLen \in Nat
      /\ authority.authority \in Owners /\ authority.payer \in Payers
  BY PresentAuthority, ProgramAssumption DEF ClearWalletPolicy, IInv, TypeOK
<1>2. minimum \in Nat
  BY <1>1, MinimumBalanceType
<1>3. /\ rent >= minimum /\ rent' = minimum /\ len' = BaseLen
      /\ balance' = settle(authority.payer, 0, authority.payer, rent - minimum)
      /\ authority' = Header(authority.authority, authority.payer, 0, EmptyPolicy)
      /\ UNCHANGED environment
  BY DEF ClearWalletPolicy
<1> HIDE DEF minimum
<1>4. balance' \in [Payers -> Nat]
  <2>1. rent - minimum \in Nat /\ balance[authority.payer] >= 0
    BY <1>1, <1>2, <1>3
  <2>2. QED
    BY <1>1, <1>3, <2>1, SettleType
<1>5. authority_ok(authority') /\ authority'.policy = EmptyPolicy
  <2>1. 0 \in OldVersions \cup {0, POLICY_VERSION} /\ policy_ok(EmptyPolicy)
    BY <1>1, EmptyPolicyOk
  <2>2. QED
    BY <2>1, <1>1, <1>3, HeaderOk
<1>6. CapsSound'
  BY <1>1, <1>3, <1>5, EmptyPolicyOk DEF CapsSound, caps_sound, environment
<1>7. QED
  BY <1>1, <1>2, <1>3, <1>4, <1>5, <1>6 DEF IInv, TypeOK, authority_ok, environment

\* A later clock keeps every anchor in the past.
LEMMA TickIInv ==
  ASSUME IInv, NEW t \in 0 .. MaxTime, Tick(t)
  PROVE  IInv'
<1>1. clock \in Nat /\ t \in Nat /\ clock <= t /\ clock' = t
  BY ProgramAssumption DEF IInv, TypeOK, Tick
<1>2. UNCHANGED <<token, intact, lamports, accounts, authority, rent, len, balance>>
  BY DEF Tick, pda
<1>3. CapsSound'
  <2>1. SUFFICES ASSUME authority.present
                 PROVE  \A c \in caps(authority.policy) : cap_sound(c, t)
    BY <1>1, <1>2 DEF CapsSound
  <2>2. \A c \in caps(authority.policy) : c \in SpendCap /\ cap_sound(c, clock)
    BY <2>1, PresentAuthority DEF caps_sound, caps, policy_ok
  <2>3. QED
    BY <1>1, <2>2, SoundLater
<1>4. QED
  BY <1>1, <1>2, <1>3, ProgramAssumption DEF IInv, TypeOK

\* Every step keeps it.
LEMMA NextIInv == IInv /\ [Next]_vars => IInv'
<1> SUFFICES ASSUME IInv, [Next]_vars PROVE IInv'
  OBVIOUS
<1>1. CASE NextExecute
  BY <1>1, ExecuteUnderPolicyIInv
  DEF NextExecute, Execute, ExecuteWithAuthorityUsingPolicies
<1>2. CASE NextOwnerExecute
  <2>1. PICK batch \in Batches, rem \in Remaining, out \in Outcomes, o \in Owners :
               ExecuteWithAuthority(o, batch, rem, out)
    BY <1>2 DEF NextOwnerExecute
  <2>2. lamports' \in 0 .. MaxLamports /\ accounts' \in [Accounts -> AccountStates]
    BY <2>1 DEF ExecuteWithAuthority, execute_compact_instructions, Outcomes
  <2>3. UNCHANGED <<clock, token, intact, authority, rent, len, balance>>
    BY <2>1 DEF ExecuteWithAuthority, execute_compact_instructions, pda
  <2>4. QED
    BY <2>2, <2>3 DEF IInv, TypeOK, CapsSound
<1>3. CASE NextConfigure
  BY <1>3, SetAuthorityIInv, ClearAuthorityIInv, SetWalletPolicyIInv, ClearWalletPolicyIInv
  DEF NextConfigure
<1>4. CASE NextEnvironment
  <2>1. CASE \E t \in 0 .. MaxTime : Tick(t)
    BY <2>1, TickIInv
  <2>2. CASE \E t \in TokenStates : TokenChange(t)
    BY <2>2 DEF TokenChange, IInv, TypeOK, CapsSound, pda
  <2>3. CASE \E n \in 0 .. MaxLamports : DepositSol(n)
    BY <2>3 DEF DepositSol, IInv, TypeOK, CapsSound, pda
  <2>4. CASE \E a \in Accounts, acc2 \in AccountStates : OutsideChange(a, acc2)
    <3>1. accounts' \in [Accounts -> AccountStates]
      BY <2>4 DEF OutsideChange, IInv, TypeOK
    <3>2. UNCHANGED <<clock, token, intact, lamports, authority, rent, len, balance>>
      BY <2>4 DEF OutsideChange, pda
    <3>3. QED
      BY <3>1, <3>2 DEF IInv, TypeOK, CapsSound
  <2>5. CASE \E p \in Payers, n \in Donations : Donate(p, n)
    <3>1. PICK p \in Payers, n \in Donations : Donate(p, n)
      BY <2>5
    <3>2. n \in Nat
      BY ProgramAssumption
    <3>3. rent' \in Nat /\ balance' \in [Payers -> Nat]
      BY <3>1, <3>2 DEF Donate, IInv, TypeOK
    <3>4. UNCHANGED <<clock, token, intact, lamports, accounts, authority, len>>
      BY <3>1 DEF Donate
    <3>5. QED
      BY <3>3, <3>4 DEF IInv, TypeOK, CapsSound
  <2>6. QED
    BY <1>4, <2>1, <2>2, <2>3, <2>4, <2>5 DEF NextEnvironment
<1>5. CASE UNCHANGED vars
  BY <1>5 DEF vars, IInv, TypeOK, CapsSound
<1>6. QED
  BY <1>1, <1>2, <1>3, <1>4, <1>5 DEF Next

-----------------------------------------------------------------------------
(* The theorems.                                                           *)

THEOREM Invariance == Spec => []IInv
BY InitIInv, NextIInv, PTL DEF Spec

\* Every variable keeps its type: no instruction of state.rs, policy.rs or
\* wallet_policy.rs leaves a counter, a length or a lamport balance below zero.
THEOREM TypeCorrect == Spec => []TypeOK
<1>1. IInv => TypeOK
  BY DEF IInv
<1>2. QED
  BY <1>1, Invariance, PTL

\* No counter of spending_limit.rs ever exceeds its cap, runs ahead of the
\* clock or leaves the epoch grid of its window.
THEOREM CapsAlwaysSound == Spec => []CapsSound
<1>1. IInv => CapsSound
  BY DEF IInv
<1>2. QED
  BY <1>1, Invariance, PTL

-----------------------------------------------------------------------------
(* Rent.  The invariant is inductive given the types: the length of the    *)
(* account depends on the shape of the policy, which no charge changes.    *)

LEMMA EmptyPolicyLen == policy_len(EmptyPolicy) = BaseLen
<1>1. DOMAIN EmptyPolicy.mints = {} /\ DOMAIN EmptyPolicy.permissions = {}
  BY DEF EmptyPolicy, NoMintCaps, NoPermissions
<1>2. Rules(EmptyPolicy.permissions) = {}
  BY <1>1 DEF Rules
<1>3. QED
  BY <1>1, <1>2, FS_EmptySet, ProgramAssumption DEF policy_len, permission_bytes

\* Charging caps leaves the length of the policy alone.
LEMMA ChargedPolicyLen ==
  ASSUME NEW p, NEW rem, NEW before, NEW after, NEW now
  PROVE  policy_len(charge_policy_deltas(p, rem, before, after, now)) = policy_len(p)
BY DEF policy_len, charge_policy_deltas

\* RentExempt holds initially: with no authority account, or with one of an
\* earlier release, which is rent-exempt for the length it has.
LEMMA InitRentExempt == Init => RentExempt
<1> SUFFICES ASSUME Init, authority.present PROVE RentExempt
  BY DEF RentExempt
<1>1. PICK o \in Owners, p \in Payers, v \in OldVersions :
             /\ authority = Header(o, p, v, EmptyPolicy)
             /\ len = BaseLen + MintLen
             /\ rent = minimum_balance(len)
  BY DEF Init, NoAuthority
<1>2. authority.policy_version \notin {0, POLICY_VERSION}
  BY <1>1, ProgramAssumption DEF Header
<1>3. len >= BaseLen /\ rent >= minimum_balance(len)
  BY <1>1, ProgramAssumption, MinimumBalanceType
<1>4. QED
  BY <1>2, <1>3 DEF RentExempt

\* Every step keeps RentExempt.
LEMMA NextRentExempt == IInv /\ RentExempt /\ [Next]_vars => RentExempt'
<1> SUFFICES ASSUME IInv, RentExempt, [Next]_vars PROVE RentExempt'
  OBVIOUS
<1>1. rent \in Nat /\ len \in Nat /\ BaseLen \in Nat /\ clock \in Nat
  BY ProgramAssumption DEF IInv, TypeOK
<1>2. \A n \in Nat : minimum_balance(n) \in Nat
  BY MinimumBalanceType
<1>3. POLICY_VERSION # 0
  BY DEF POLICY_VERSION
<1>4. ASSUME NEW batch, NEW rem, NEW out, ExecuteUnderPolicy(batch, rem, out)
      PROVE  RentExempt'
  <2> DEFINE new == charge_policy_deltas(authority.policy, rem, Holding, out, clock)
  <2>1. rent' = rent /\ len' = len
    BY <1>4 DEF ExecuteUnderPolicy
  <2>2. CASE policy_present
    <3>1. authority' = Header(authority.authority, authority.payer, POLICY_VERSION, new)
      BY <1>4, <2>2 DEF ExecuteUnderPolicy
    <3>2. policy_len(new) = policy_len(authority.policy)
      BY ChargedPolicyLen
    <3> HIDE DEF new
    <3>3. authority'.policy = new /\ authority'.policy_version = POLICY_VERSION
      BY <3>1 DEF Header
    <3>4. QED
      BY <1>3, <2>1, <2>2, <3>2, <3>3 DEF RentExempt, policy_present
  <2>3. CASE ~policy_present
    BY <1>4, <2>1, <2>3 DEF ExecuteUnderPolicy, RentExempt
  <2>4. QED
    BY <2>2, <2>3
<1>5. ASSUME NEW owner, NEW payer, SetAuthority(owner, payer)
      PROVE  RentExempt'
  <2> DEFINE needed == top_up(BaseLen)
  <2>1. /\ authority' = Header(owner, payer, POLICY_VERSION, EmptyPolicy)
        /\ len' = BaseLen /\ rent' = rent + needed
    BY <1>5 DEF SetAuthority
  <2>2. rent + needed >= minimum_balance(BaseLen)
    BY <1>1, TopUp
  <2> HIDE DEF needed
  <2>3. authority'.policy = EmptyPolicy /\ authority'.policy_version = POLICY_VERSION
    BY <2>1 DEF Header
  <2>4. QED
    BY <1>1, <1>3, <2>1, <2>2, <2>3, EmptyPolicyLen DEF RentExempt
<1>6. ASSUME NEW signer, ClearAuthority(signer)
      PROVE  RentExempt'
  BY <1>6 DEF ClearAuthority, RentExempt, NoAuthority
<1>7. ASSUME NEW signer, NEW payer, NEW args \in Policies,
             SetWalletPolicy(signer, payer, args)
      PROVE  RentExempt'
  <2> DEFINE old     == IF policy_present THEN authority.policy ELSE EmptyPolicy
             new     == saved_policy(args, old, clock)
             minimum == minimum_balance(policy_len(new))
             topUp   == top_up(policy_len(new))
             refund  == IF policy_len(new) < len THEN rent + topUp - minimum ELSE 0
  <2>1. policy_ok(old) /\ caps_sound(old, clock)
    BY <1>1, <1>7, PresentAuthority, EmptyPolicyOk DEF SetWalletPolicy, readable
  <2>2. policy_ok(new)
    BY <1>1, <1>7, <2>1, SavedPolicyOk DEF SetWalletPolicy
  <2>3. /\ authority' = Header(authority.authority, authority.payer, POLICY_VERSION, new)
        /\ len' = policy_len(new)
        /\ rent' = rent + topUp - refund
    BY <1>7 DEF SetWalletPolicy
  <2> HIDE DEF new
  <2>4. policy_len(new) \in Nat /\ policy_len(new) >= BaseLen
    BY <2>2, PolicyLenType
  <2>5. minimum \in Nat
    BY <1>2, <2>4
  <2>6. topUp \in Nat /\ rent + topUp >= minimum
    BY <1>1, <2>4, TopUp
  <2> HIDE DEF minimum, topUp
  <2>7. rent' >= minimum
    BY <1>1, <2>3, <2>4, <2>5, <2>6
  <2>8. authority'.policy = new /\ authority'.policy_version = POLICY_VERSION
    BY <2>3 DEF Header
  <2>9. QED
    BY <1>3, <2>3, <2>4, <2>7, <2>8 DEF RentExempt, minimum
<1>8. ASSUME NEW signer, ClearWalletPolicy(signer)
      PROVE  RentExempt'
  <2>1. /\ rent' = minimum_balance(BaseLen) /\ len' = BaseLen
        /\ authority' = Header(authority.authority, authority.payer, 0, EmptyPolicy)
    BY <1>8 DEF ClearWalletPolicy
  <2>2. authority'.policy = EmptyPolicy /\ authority'.policy_version = 0
    BY <2>1 DEF Header
  <2>3. QED
    BY <1>1, <1>2, <1>3, <2>1, <2>2 DEF RentExempt
<1>9. ASSUME NEW p \in Payers, NEW n \in Donations, Donate(p, n)
      PROVE  RentExempt'
  BY <1>9 DEF Donate, RentExempt
<1>10. CASE UNCHANGED pda
  BY <1>10 DEF pda, RentExempt
<1>11. QED
  <2>1. CASE NextExecute
    BY <1>4, <2>1 DEF NextExecute, Execute, ExecuteWithAuthorityUsingPolicies
  <2>2. CASE NextOwnerExecute
    BY <1>10, <2>2 DEF NextOwnerExecute, ExecuteWithAuthority
  <2>3. CASE NextConfigure
    BY <1>5, <1>6, <1>7, <1>8, <2>3 DEF NextConfigure
  <2>4. CASE NextEnvironment
    BY <1>9, <1>10, <2>4 DEF NextEnvironment, Tick, TokenChange, DepositSol, OutsideChange
  <2>5. CASE UNCHANGED vars
    BY <1>10, <2>5 DEF vars, pda
  <2>6. QED
    BY <2>1, <2>2, <2>3, <2>4, <2>5 DEF Next

\* The authority PDA of every reachable state is rent-exempt for exactly the
\* data its policy needs, so clearing a policy never lacks lamports.
THEOREM AlwaysRentExempt == Spec => []RentExempt
BY Invariance, InitRentExempt, NextRentExempt, PTL DEF Spec

-----------------------------------------------------------------------------
(* Refunds.                                                                *)

RefundStep ==
    rent' < rent => balance' = [balance EXCEPT ![authority.payer] = @ + rent - rent']

\* With nothing to pay, settling only adds the refund.
LEMMA RefundOnly ==
  ASSUME balance \in [Payers -> Nat], rent \in Nat, rent' \in Int,
         NEW payer \in Payers, authority.payer \in Payers,
         NEW refund \in Int, refund = rent - rent',
         balance' = settle(payer, 0, authority.payer, refund)
  PROVE  RefundStep
<1> DEFINE paid == [balance EXCEPT ![payer] = @ - 0]
<1>1. paid = balance
  OBVIOUS
<1>2. balance' = [paid EXCEPT ![authority.payer] = @ + refund]
  BY DEF settle
<1>3. balance[authority.payer] + refund = balance[authority.payer] + rent - rent'
  OBVIOUS
<1> HIDE DEF paid
<1>4. QED
  BY <1>1, <1>2, <1>3 DEF RefundStep

\* A step that takes lamports from the PDA gives them to the recorded payer: a
\* save that shortens the policy has then no top-up to take from the signer.
LEMMA NextRefund == IInv /\ [Next]_vars => RefundStep
<1> SUFFICES ASSUME IInv, [Next]_vars, rent' < rent PROVE RefundStep
  BY DEF RefundStep
<1>1. /\ rent \in Nat /\ len \in Nat /\ clock \in Nat /\ BaseLen \in Nat
      /\ balance \in [Payers -> Nat]
  BY ProgramAssumption DEF IInv, TypeOK
<1>2. CASE UNCHANGED rent
  BY <1>1, <1>2
<1>3. ASSUME NEW owner, NEW payer, SetAuthority(owner, payer)
      PROVE  FALSE
  <2>1. top_up(BaseLen) \in Nat
    BY <1>1, TopUp
  <2>2. QED
    BY <1>1, <1>3, <2>1 DEF SetAuthority
<1>4. ASSUME NEW signer, ClearAuthority(signer)
      PROVE  RefundStep
  <2>1. authority.payer \in Payers
    BY <1>4, PresentAuthority DEF ClearAuthority
  <2>2. /\ rent' = 0 /\ rent - 0 = rent
        /\ balance' = settle(authority.payer, 0, authority.payer, rent)
    BY <1>1, <1>4 DEF ClearAuthority
  <2>3. QED
    BY <1>1, <2>1, <2>2, RefundOnly
<1>5. ASSUME NEW signer, NEW payer \in Payers, NEW args \in Policies,
             SetWalletPolicy(signer, payer, args)
      PROVE  RefundStep
  <2> DEFINE old     == IF policy_present THEN authority.policy ELSE EmptyPolicy
             new     == saved_policy(args, old, clock)
             minimum == minimum_balance(policy_len(new))
             topUp   == top_up(policy_len(new))
             refund  == IF policy_len(new) < len THEN rent + topUp - minimum ELSE 0
  <2>1. policy_ok(old) /\ caps_sound(old, clock) /\ authority.payer \in Payers
    BY <1>1, <1>5, PresentAuthority, EmptyPolicyOk DEF SetWalletPolicy, readable
  <2>2. policy_ok(new)
    BY <1>1, <1>5, <2>1, SavedPolicyOk DEF SetWalletPolicy
  <2>3. /\ rent' = rent + topUp - refund
        /\ balance' = settle(payer, topUp, authority.payer, refund)
    BY <1>5 DEF SetWalletPolicy
  <2> HIDE DEF new
  <2>4. policy_len(new) \in Nat /\ minimum \in Nat
    BY <2>2, PolicyLenType, MinimumBalanceType
  <2>5. topUp \in Nat /\ (topUp = 0 \/ rent + topUp = minimum)
    BY <1>1, <2>4, TopUp
  <2> HIDE DEF minimum, topUp
  <2>6. topUp = 0 /\ refund = rent - rent' /\ rent' \in Int
    BY <1>1, <2>3, <2>4, <2>5
  <2> HIDE DEF refund
  <2>7. QED
    BY <1>1, <1>5, <2>1, <2>3, <2>6, RefundOnly
<1>6. ASSUME NEW signer, ClearWalletPolicy(signer)
      PROVE  RefundStep
  <2>1. authority.payer \in Payers /\ minimum_balance(BaseLen) \in Nat
    BY <1>1, <1>6, PresentAuthority, MinimumBalanceType DEF ClearWalletPolicy
  <2>2. /\ rent' = minimum_balance(BaseLen)
        /\ balance' = settle(authority.payer, 0, authority.payer, rent - rent')
    BY <1>6 DEF ClearWalletPolicy
  <2>3. QED
    BY <1>1, <2>1, <2>2, RefundOnly
<1>7. ASSUME NEW p, NEW n \in Donations, Donate(p, n)
      PROVE  FALSE
  BY <1>1, <1>7, ProgramAssumption DEF Donate
<1>8. QED
  <2>1. CASE NextExecute
    BY <1>2, <2>1
    DEF NextExecute, Execute, ExecuteWithAuthorityUsingPolicies, ExecuteUnderPolicy
  <2>2. CASE NextOwnerExecute
    BY <1>2, <2>2 DEF NextOwnerExecute, ExecuteWithAuthority, pda
  <2>3. CASE NextConfigure
    BY <1>3, <1>4, <1>5, <1>6, <2>3 DEF NextConfigure
  <2>4. CASE NextEnvironment
    BY <1>2, <1>7, <2>4 DEF NextEnvironment, Tick, TokenChange, DepositSol, OutsideChange, pda
  <2>5. CASE UNCHANGED vars
    BY <1>2, <2>5 DEF vars
  <2>6. QED
    BY <2>1, <2>2, <2>3, <2>4, <2>5 DEF Next

\* Whoever signs or pays, lamports leave the authority PDA only to the payer
\* recorded in its header.
THEOREM RefundsAlwaysReachPayer == Spec => RefundsReachPayer
<1>1. IInv /\ [Next]_vars => [RefundStep]_vars
  BY NextRefund
<1>2. QED
  BY <1>1, Invariance, PTL DEF Spec, RefundsReachPayer, RefundStep

-----------------------------------------------------------------------------
(* Control.  The checks are made at the first position of each account in   *)
(* the list of the transaction.                                            *)

\* Every account of the list has a first position in it.
LEMMA FirstPosition ==
  ASSUME NEW rem \in Seq(Accounts), NEW i \in DOMAIN rem
  PROVE  \E k \in firsts(rem) : rem[k] = rem[i]
<1> DEFINE S == {k \in DOMAIN rem : rem[k] = rem[i]}
<1>1. S \subseteq Nat /\ S # {} /\ DOMAIN rem = 1 .. Len(rem) /\ Len(rem) \in Nat
  OBVIOUS
<1>2. PICK k \in S : \A n \in S : k <= n
  <2> HIDE DEF S
  <2>1. QED
    BY <1>1, LeastNumber
<1>3. ASSUME NEW j \in 1 .. k - 1 PROVE rem[j] # rem[k]
  <2>1. k \in 1 .. Len(rem) /\ rem[k] = rem[i]
    BY <1>1
  <2>2. j \in 1 .. Len(rem) /\ ~(k <= j)
    BY <1>1, <2>1
  <2>3. QED
    BY <1>1, <1>2, <2>1, <2>2
<1>4. QED
  BY <1>3 DEF firsts

\* What a policy-checked execution may do to the accounts.
LEMMA PolicyStepEffect ==
  ASSUME PolicyStep
  PROVE  \E rem \in Seq(Accounts) :
             /\ control_checks(authority.policy, rem, Holding, Holding')
             /\ \A a \in Accounts : (\A i \in DOMAIN rem : rem[i] # a) => accounts'[a] = accounts[a]
<1> DEFINE out == [lamports |-> lamports', accounts |-> accounts', intact |-> intact']
<1>1. PICK batch \in Batches, rem \in Remaining : policy_present /\ ExecuteUnderPolicy(batch, rem, out)
  BY DEF PolicyStep
<1>2. rem \in Seq(Accounts)
  BY InputsAssumption
<1>3. control_checks(authority.policy, rem, Holding, out)
  BY <1>1 DEF ExecuteUnderPolicy, charge_accepted
<1>4. \A a \in Accounts : (\A i \in DOMAIN rem : rem[i] # a) => accounts'[a] = accounts[a]
  BY <1>1 DEF ExecuteUnderPolicy, execute_compact_instructions
<1>5. out.accounts = Holding'.accounts
  BY DEF Holding
<1> HIDE DEF out
<1>6. control_checks(authority.policy, rem, Holding, Holding')
  BY <1>3, <1>5 DEF control_checks, tracked, account_spent
<1>7. QED
  BY <1>2, <1>4, <1>6

\* Whatever an inner program does with the accounts handed to it, a step that
\* charge_policy_deltas accepts gives away no account of the wallet.
THEOREM ControlAlwaysKept == Spec => ControlKept
<1> DEFINE Kept ==
        \A a \in Accounts :
              /\ wallet_owned(accounts[a]) /\ accounts'[a] # EmptyAccount =>
                     /\ wallet_owned(accounts'[a])
                     /\ accounts'[a].mint = accounts[a].mint
                     /\ accounts'[a].close_authority = accounts[a].close_authority
              /\ wallet_owned(accounts'[a]) /\ accounts'[a] # accounts[a] =>
                     /\ accounts'[a].delegated_amount = 0
                     /\ \/ wallet_owned(accounts[a])
                        \/ accounts'[a].close_authority \in {NoKey, Wallet}
<1>1. PolicyStep => Kept
  <2> SUFFICES ASSUME PolicyStep, NEW a \in Accounts
               PROVE  /\ wallet_owned(accounts[a]) /\ accounts'[a] # EmptyAccount =>
                            /\ wallet_owned(accounts'[a])
                            /\ accounts'[a].mint = accounts[a].mint
                            /\ accounts'[a].close_authority = accounts[a].close_authority
                      /\ wallet_owned(accounts'[a]) /\ accounts'[a] # accounts[a] =>
                            /\ accounts'[a].delegated_amount = 0
                            /\ \/ wallet_owned(accounts[a])
                               \/ accounts'[a].close_authority \in {NoKey, Wallet}
    OBVIOUS
  <2>1. PICK rem \in Seq(Accounts) :
             /\ control_checks(authority.policy, rem, Holding, Holding')
             /\ \A b \in Accounts : (\A i \in DOMAIN rem : rem[i] # b) => accounts'[b] = accounts[b]
    BY PolicyStepEffect
  <2>2. Holding.accounts = accounts /\ Holding'.accounts = accounts'
    BY DEF Holding
  <2>3. CASE \A i \in DOMAIN rem : rem[i] # a
    BY <2>1, <2>3
  <2>4. CASE \E i \in DOMAIN rem : rem[i] = a
    <3>1. PICK i \in DOMAIN rem : rem[i] = a
      BY <2>4
    <3>2. no_new_control(accounts[a], accounts'[a])
      BY <2>1, <2>2, <3>1 DEF control_checks
    <3>3. ASSUME wallet_owned(accounts[a]) PROVE control_kept(accounts[a], accounts'[a])
      <4>1. PICK k \in firsts(rem) : rem[k] = a
        BY <3>1, FirstPosition
      <4>2. k \in tracked(authority.policy, rem, Holding)
        BY <2>2, <3>3, <4>1 DEF tracked
      <4>3. QED
        BY <2>1, <2>2, <3>3, <4>1, <4>2 DEF control_checks
    <3>4. QED
      BY <3>2, <3>3 DEF no_new_control, control_kept, wallet_owned
  <2>5. QED
    BY <2>3, <2>4
<1>2. [PolicyStep => Kept]_vars
  BY <1>1
<1>3. QED
  BY <1>2, PTL DEF ControlKept

-----------------------------------------------------------------------------
(* The allowance.  Between two times on the chain a cap and the one it      *)
(* becomes are a step of the meter its owner is promised.                  *)

spent_at(c, t) == IF SameWindow(c.window_seconds, c.last_reset, t) THEN c.cap - c.remaining ELSE 0

Metered(c, d, t, u) ==
    \/ /\ u = t /\ limit_of(d) = limit_of(c)
       /\ \/ spent_at(d, u) = spent_at(c, t)
          \/ spent_at(d, u) > spent_at(c, t) /\ spent_at(d, u) <= limit_of(c).cap
    \/ /\ u > t /\ limit_of(d) = limit_of(c)
       /\ spent_at(d, u) = IF SameWindow(limit_of(c).window, t, u) THEN spent_at(c, t) ELSE 0
    \/ /\ u = t /\ limit_of(d) # limit_of(c)
       /\ spent_at(d, u) = 0

LEMMA LessByFactor ==
  ASSUME NEW w \in Nat, w > 0, NEW j \in Nat, NEW k \in Nat, w * j < w * k
  PROVE  j < k
<1> SUFFICES ASSUME k <= j PROVE FALSE
  OBVIOUS
<1>1. w * (j - k) \in Nat
  BY SMT
<1>2. w * j = w * k + w * (j - k)
  BY SMT
<1>3. w * k \in Nat
  BY SMT
<1> QED  BY <1>1, <1>2, <1>3

LEMMA DivGrows ==
  ASSUME NEW w \in Nat, w > 0, NEW a \in Nat, NEW n \in Nat, a <= n
  PROVE  a \div w \in Nat /\ n \div w \in Nat /\ a \div w <= n \div w
<1> DEFINE j == a \div w
           k == n \div w
<1>1. j \in Nat /\ k \in Nat /\ w * j <= a /\ n < w * k + w
  BY SMT
<1>2. w * (k + 1) = w * k + w
  BY <1>1, SMT
<1>3. w * j \in Nat /\ w * k \in Nat
  BY <1>1, SMT
<1> HIDE DEF j, k
<1>4. w * j < w * (k + 1)
  BY <1>1, <1>2, <1>3
<1>5. j < k + 1
  BY <1>1, <1>4, LessByFactor
<1> QED  BY <1>1, <1>5 DEF j, k

\* A time is in the window of an anchor on the grid until the next window begins.
LEMMA WindowEnds ==
  ASSUME NEW w \in Nat, w > 0, NEW a \in Nat, NEW n \in Nat, a % w = 0, a <= n
  PROVE  n - a < w <=> a \div w = n \div w
<1> DEFINE j == a \div w
           k == n \div w
<1>1. j \in Nat /\ k \in Nat /\ a = w * j /\ w * k <= n /\ n < w * k + w
  BY SMT
<1>2. w * (j + 1) = w * j + w
  BY <1>1, SMT
<1>3. w * j \in Nat /\ w * k \in Nat
  BY <1>1, SMT
<1>4. j <= k
  BY DivGrows
<1> HIDE DEF j, k
<1>5. ASSUME n - a < w PROVE j = k
  <2>1. w * k < w * (j + 1)
    BY <1>1, <1>2, <1>3, <1>5
  <2>2. k < j + 1
    BY <1>1, <2>1, LessByFactor
  <2> QED  BY <1>1, <1>4, <2>2
<1>6. ASSUME j = k PROVE n - a < w
  BY <1>1, <1>3, <1>6
<1> QED  BY <1>5, <1>6 DEF j, k

\* Nothing is spent of a cap of nothing.
LEMMA ZeroSpent ==
  ASSUME NEW c \in SpendCap, NEW t \in Nat, cap_sound(c, t), c.cap = 0, NEW u
  PROVE  spent_at(c, u) = 0
BY DEF SpendCap, cap_sound, spent_at

LEMMA SpentType ==
  ASSUME NEW c \in SpendCap, NEW t \in Nat, cap_sound(c, t), NEW u
  PROVE  spent_at(c, u) \in Nat /\ spent_at(c, u) <= c.cap
BY DEF SpendCap, cap_sound, spent_at

\* A charge that is accepted is spent of the window it falls in.
LEMMA ChargeSpends ==
  ASSUME NEW now \in Nat, NEW c \in SpendCap, cap_sound(c, now),
         NEW n \in Nat, can_charge(c, n, now)
  PROVE  /\ spent_at(charge_cap(c, n, now), now) = spent_at(c, now) + n
         /\ limit_of(charge_cap(c, n, now)) = limit_of(c)
<1> DEFINE w == c.window_seconds
           e == now - c.last_reset
           r == refill(c, now)
           d == charge_cap(c, n, now)
<1>1. /\ w \in Nat /\ e \in Nat /\ c.last_reset \in Nat /\ c.last_reset <= now
      /\ w > 0 => c.last_reset % w = 0
      /\ c.cap \in Nat /\ c.remaining \in Nat
  BY DEF SpendCap, cap_sound
<1>2. limit_of(d) = limit_of(c)
  BY ChargeSound DEF limit_of, is_active
<1>3. CASE n = 0
  BY <1>2, <1>3, SpentType DEF charge_cap
<1>4. ASSUME n # 0
      PROVE  spent_at(d, now) = spent_at(c, now) + n
  <2>1. r \in SpendCap /\ cap_sound(r, now) /\ r.cap = c.cap /\ r.window_seconds = w
    BY RefillSound
  <2>2. spent_at(r, now) = spent_at(c, now) /\ SameWindow(w, r.last_reset, now)
    <3>1. CASE ~(w > 0 /\ e >= w)
      <4>1. r = c
        BY <3>1 DEF refill
      <4>2. SameWindow(w, c.last_reset, now)
        <5>1. w = 0 \/ (w > 0 /\ e < w)
          BY <1>1, <3>1
        <5>2. w > 0 /\ e < w => c.last_reset \div w = now \div w
          BY <1>1, WindowEnds
        <5> QED  BY <5>1, <5>2 DEF SameWindow
      <4> QED  BY <4>1, <4>2
    <3>2. CASE w > 0 /\ e >= w
      <4>1. r.remaining = r.cap /\ r.last_reset = c.last_reset + (e \div w) * w
        BY <3>2 DEF refill
      <4>2. spent_at(c, now) = 0
        <5>1. c.last_reset \div w # now \div w
          BY <1>1, <3>2, WindowEnds
        <5> QED  BY <3>2, <5>1 DEF spent_at, SameWindow
      <4>3. now - r.last_reset < w
        <5> DEFINE q == e \div w
        <5>1. e < w * q + w /\ w * q = q * w /\ q * w \in Int
          BY <1>1, <3>2, SMT
        <5>2. r.last_reset = c.last_reset + q * w
          BY <4>1
        <5> HIDE DEF q
        <5> QED  BY <1>1, <5>1, <5>2
      <4>4. SameWindow(w, r.last_reset, now)
        <5>1. r.last_reset \in Nat /\ r.last_reset % w = 0 /\ r.last_reset <= now
          BY <2>1, <3>2 DEF SpendCap, cap_sound
        <5>2. r.last_reset \div w = now \div w
          BY <1>1, <3>2, <4>3, <5>1, WindowEnds
        <5> QED  BY <5>2 DEF SameWindow
      <4>5. spent_at(r, now) = 0
        BY <2>1, <4>1, ZeroSpent DEF spent_at, SpendCap
      <4> QED  BY <4>2, <4>4, <4>5
    <3> QED  BY <3>1, <3>2
  <2>3. /\ d.remaining = r.remaining - n /\ d.cap = r.cap
        /\ d.window_seconds = r.window_seconds /\ d.last_reset = r.last_reset
    BY <1>4, <2>1 DEF charge_cap, SpendCap
  <2> HIDE DEF d, r, w
  <2>4. spent_at(d, now) = d.cap - d.remaining /\ spent_at(r, now) = r.cap - r.remaining
    BY <2>1, <2>2, <2>3 DEF spent_at
  <2>5. r.cap \in Nat /\ r.remaining \in Nat
    BY <2>1 DEF SpendCap
  <2> QED  BY <2>2, <2>3, <2>4, <2>5
<1> QED  BY <1>2, <1>3, <1>4

\* Nothing happens when a window ends, and nothing is spent of the new one.
LEMMA SpentLater ==
  ASSUME NEW c \in SpendCap, NEW t \in Nat, NEW u \in Nat, t < u, cap_sound(c, t)
  PROVE  Metered(c, c, t, u)
<1> DEFINE w == c.window_seconds
           a == c.last_reset
<1>1. w \in Nat /\ a \in Nat /\ a <= t
  BY DEF SpendCap, cap_sound
<1>2. CASE c.cap = 0
  BY <1>2, ZeroSpent DEF Metered
<1>3. CASE c.cap # 0
  <2>1. limit_of(c).window = w
    BY <1>3 DEF limit_of, is_active
  <2>2. spent_at(c, u) = IF SameWindow(w, t, u) THEN spent_at(c, t) ELSE 0
    <3>1. CASE w = 0
      BY <3>1 DEF spent_at, SameWindow
    <3>2. CASE w > 0
      <4>1. a \div w <= t \div w /\ t \div w <= u \div w
        BY <1>1, <3>2, DivGrows
      <4>2. a \div w \in Nat /\ t \div w \in Nat /\ u \div w \in Nat
        BY <1>1, <3>2, DivGrows
      <4>3. SameWindow(w, a, u) <=> SameWindow(w, a, t) /\ SameWindow(w, t, u)
        BY <3>2, <4>1, <4>2 DEF SameWindow
      <4> HIDE DEF w, a
      <4>4. \A x : spent_at(c, x) = IF SameWindow(w, a, x) THEN c.cap - c.remaining ELSE 0
        BY DEF spent_at, w, a
      <4> QED  BY <4>3, <4>4
    <3> QED  BY <1>1, <3>1, <3>2
  <2> QED  BY <2>1, <2>2 DEF Metered
<1> QED  BY <1>2, <1>3

\* A cap that is saved is the one in force, or another limit of which nothing is spent.
LEMMA SavedMetered ==
  ASSUME NEW t \in Nat, NEW prev \in SpendCap, cap_sound(prev, t),
         NEW cap \in Nat, cap > 0, NEW w \in Nat
  PROVE  Metered(prev, preserve_spend_cap(new_spend_cap(cap, w, t), prev), t, t)
<1> DEFINE new == new_spend_cap(cap, w, t)
<1>1. new.cap = cap /\ new.window_seconds = w /\ new.remaining = cap
  BY DEF new_spend_cap
<1> HIDE DEF new
<1>2. CASE prev.cap = new.cap /\ prev.window_seconds = new.window_seconds
  BY <1>2 DEF preserve_spend_cap, Metered, new
<1>3. CASE ~(prev.cap = new.cap /\ prev.window_seconds = new.window_seconds)
  <2>1. preserve_spend_cap(new, prev) = new
    BY <1>3 DEF preserve_spend_cap
  <2>2. spent_at(new, t) = 0
    BY <1>1 DEF spent_at
  <2>3. limit_of(new) = [cap |-> cap, window |-> w]
    BY <1>1 DEF limit_of, is_active
  <2>4. limit_of(prev) # limit_of(new)
    <3>1. CASE prev.cap = cap
      <4>1. prev.window_seconds # w
        BY <1>1, <1>3, <3>1
      <4>2. limit_of(prev) = [cap |-> cap, window |-> prev.window_seconds]
        BY <3>1 DEF limit_of, is_active
      <4>3. limit_of(prev).window # limit_of(new).window
        BY <2>3, <4>1, <4>2
      <4> QED  BY <4>3
    <3>2. CASE prev.cap # cap
      <4>1. limit_of(prev).cap # limit_of(new).cap
        BY <2>3, <3>2 DEF limit_of
      <4> QED  BY <4>1
    <3> QED  BY <3>1, <3>2
  <2> QED  BY <2>1, <2>2, <2>4 DEF Metered, new
<1> QED  BY <1>2, <1>3 DEF new

LEMMA DroppedMetered ==
  ASSUME NEW t \in Nat, NEW prev \in SpendCap, cap_sound(prev, t)
  PROVE  Metered(prev, InactiveCap, t, t)
<1>1. spent_at(InactiveCap, t) = 0 /\ limit_of(InactiveCap) = [cap |-> 0, window |-> 0]
  BY DEF spent_at, InactiveCap, limit_of, is_active
<1>2. CASE prev.cap = 0
  <2>1. spent_at(prev, t) = 0
    BY <1>2, ZeroSpent
  <2>2. limit_of(prev) = [cap |-> 0, window |-> 0]
    BY <1>2 DEF limit_of, is_active
  <2> QED  BY <1>1, <2>1, <2>2 DEF Metered
<1>3. CASE prev.cap # 0
  <2>1. limit_of(prev).cap # limit_of(InactiveCap).cap
    BY <1>1, <1>3 DEF limit_of
  <2> QED  BY <1>1, <2>1 DEF Metered
<1> QED  BY <1>2, <1>3

LEMMA ChargeMetered ==
  ASSUME NEW t \in Nat, NEW c \in SpendCap, cap_sound(c, t), NEW n \in Nat, can_charge(c, n, t)
  PROVE  Metered(c, charge_cap(c, n, t), t, t)
<1> DEFINE d == charge_cap(c, n, t)
<1>1. d \in SpendCap /\ cap_sound(d, t) /\ d.cap = c.cap
  BY ChargeSound
<1>2. spent_at(d, t) = spent_at(c, t) + n /\ limit_of(d) = limit_of(c)
  BY ChargeSpends
<1> HIDE DEF d
<1>3. spent_at(c, t) \in Nat /\ spent_at(d, t) <= limit_of(c).cap
  BY <1>1, SpentType DEF limit_of
<1>4. n = 0 \/ spent_at(d, t) > spent_at(c, t)
  BY <1>2, <1>3
<1> QED  BY <1>2, <1>3, <1>4 DEF Metered, d

\* Whichever mint it is for, a cap in force has its type and is sound.
LEMMA CapOfSound ==
  ASSUME IInv, NEW m
  PROVE  cap_of(m) \in SpendCap /\ cap_sound(cap_of(m), clock) /\ clock \in Nat
<1>1. clock \in Nat
  BY ProgramAssumption DEF IInv, TypeOK
<1>2. InactiveCap \in SpendCap /\ cap_sound(InactiveCap, clock)
  BY <1>1, InactiveSound
<1>3. CASE ~authority.present
  BY <1>1, <1>2, <1>3 DEF cap_of
<1>4. CASE authority.present
  BY <1>1, <1>2, <1>4, PresentAuthority DEF cap_of, policy_ok, caps_sound, caps
<1> QED  BY <1>3, <1>4

\* Without a change of the authority account a cap is what it was.
LEMMA CapStays ==
  ASSUME UNCHANGED <<authority, clock>>, NEW m
  PROVE  Metered(cap_of(m), cap_of(m)', clock, clock')
BY DEF cap_of, Metered

\* A cap that is gone afterwards.
LEMMA CapGoes ==
  ASSUME IInv, NEW m, clock' = clock, cap_of(m)' = InactiveCap
  PROVE  Metered(cap_of(m), cap_of(m)', clock, clock')
BY CapOfSound, DroppedMetered

LEMMA EmptyPolicyCaps ==
  ASSUME NEW m, authority'.present, authority'.policy = EmptyPolicy
  PROVE  cap_of(m)' = InactiveCap
BY DEF cap_of, EmptyPolicy, NoMintCaps

LEMMA ExecuteMetered ==
  ASSUME IInv, NEW batch, NEW rem, NEW out, ExecuteUnderPolicy(batch, rem, out), NEW m
  PROVE  Metered(cap_of(m), cap_of(m)', clock, clock')
<1>1. clock' = clock
  BY DEF ExecuteUnderPolicy, execute_compact_instructions
<1>2. CASE ~policy_present
  BY <1>1, <1>2, CapStays DEF ExecuteUnderPolicy
<1>3. CASE policy_present
  <2> DEFINE p == authority.policy
             new == charge_policy_deltas(p, rem, Holding, out, clock)
  <2>1. authority.present /\ authority'.present /\ authority'.policy = new
    BY <1>3 DEF ExecuteUnderPolicy, policy_present, Header
  <2>2. charge_accepted(p, rem, Holding, out, clock)
    BY <1>3 DEF ExecuteUnderPolicy
  <2>3. policy_ok(p) /\ caps_sound(p, clock) /\ clock \in Nat
    BY <2>1, PresentAuthority
  <2>4. CASE m = WSOL
    <3> DEFINE n == sol_spent(p, rem, Holding, out)
    <3>1. n \in Nat
      BY SolSpentType
    <3>2. cap_of(m) = p.sol /\ cap_of(m)' = new.sol
      BY <2>1, <2>4 DEF cap_of
    <3>3. new.sol = IF charge_sol(p) THEN charge_cap(p.sol, n, clock) ELSE p.sol
      BY DEF charge_policy_deltas
    <3>4. charge_sol(p) => can_charge(p.sol, n, clock)
      BY <2>2, <3>1 DEF charge_accepted, can_charge, spending_limits_active
    <3>5. p.sol \in SpendCap /\ cap_sound(p.sol, clock)
      BY <2>3 DEF policy_ok, caps_sound, caps
    <3> HIDE DEF n, new
    <3>6. CASE charge_sol(p)
      BY <1>1, <2>3, <3>1, <3>2, <3>3, <3>4, <3>5, <3>6, ChargeMetered
    <3>7. CASE ~charge_sol(p)
      BY <1>1, <3>2, <3>3, <3>7 DEF Metered
    <3> QED  BY <3>6, <3>7
  <2>5. CASE m # WSOL /\ m \in DOMAIN p.mints
    <3> DEFINE n == mint_spent(p, rem, Holding, out, m)
    <3>1. n \in Nat /\ can_charge(p.mints[m], n, clock)
      BY <2>2, <2>5, MaxU64Assumption DEF charge_accepted, U64
    <3>2. new.mints = [a \in DOMAIN p.mints |-> charge_cap(p.mints[a], mint_spent(p, rem, Holding, out, a), clock)]
      BY DEF charge_policy_deltas
    <3>3. m \in DOMAIN new.mints /\ new.mints[m] = charge_cap(p.mints[m], n, clock)
      BY <2>5, <3>2
    <3> HIDE DEF n, new
    <3>4. cap_of(m) = p.mints[m] /\ cap_of(m)' = new.mints[m]
      BY <2>1, <2>5, <3>3 DEF cap_of
    <3>5. p.mints[m] \in SpendCap /\ cap_sound(p.mints[m], clock)
      BY <2>3, <2>5 DEF policy_ok, caps_sound, caps
    <3> QED  BY <1>1, <2>3, <3>1, <3>3, <3>4, <3>5, ChargeMetered
  <2>6. CASE m # WSOL /\ m \notin DOMAIN p.mints
    <3>1. DOMAIN new.mints = DOMAIN p.mints
      BY DEF charge_policy_deltas
    <3> HIDE DEF new
    <3>2. cap_of(m) = InactiveCap /\ cap_of(m)' = InactiveCap
      BY <2>1, <2>6, <3>1 DEF cap_of
    <3> QED  BY <1>1, <3>2 DEF Metered
  <2> QED  BY <2>4, <2>5, <2>6
<1> QED  BY <1>2, <1>3

\* What a save makes of the cap of a mint: a save carries it over, changes the
\* limit or drops it.
LEMMA SaveMetered ==
  ASSUME IInv, RentExempt, NEW signer, NEW payer, NEW args \in Policies,
         SetWalletPolicy(signer, payer, args), NEW m
  PROVE  Metered(cap_of(m), cap_of(m)', clock, clock')
<1> DEFINE old == IF policy_present THEN authority.policy ELSE EmptyPolicy
           new == saved_policy(args, old, clock)
           saved(c, prev) ==
             preserve_spend_cap(new_spend_cap(c.cap, c.window_seconds, clock), prev)
           arg(k)  == CHOOSE c \in args.mint_caps : c.mint = k
           prev_of(k) == IF k \in DOMAIN old.mints THEN old.mints[k] ELSE InactiveCap
           mints   == {c.mint : c \in args.mint_caps}
<1>1. clock' = clock /\ authority.present /\ readable /\ valid_policy_args(args)
  BY DEF SetWalletPolicy, readable, environment
<1>2. authority'.present /\ authority'.policy = new
  BY DEF SetWalletPolicy, Header
<1>3. old = authority.policy
  <2>1. CASE policy_present
    BY <2>1
  <2>2. CASE ~policy_present
    <3>1. authority.policy_version = 0
      BY <1>1, <2>2 DEF readable, policy_present
    <3> QED  BY <1>1, <2>2, <3>1 DEF RentExempt
  <2> QED  BY <2>1, <2>2
<1>4. args \in PolicyArgs
  BY InputsAssumption
<1>5. \A c \in args.sol_cap \cup args.mint_caps :
         c.cap \in Nat /\ c.cap > 0 /\ c.window_seconds \in Nat
  BY <1>1, <1>4 DEF PolicyArgs, valid_policy_args, valid_cap_args
<1>6. cap_of(m) \in SpendCap /\ cap_sound(cap_of(m), clock) /\ clock \in Nat
  BY CapOfSound
<1>7. ASSUME NEW c \in args.sol_cap \cup args.mint_caps, cap_of(m)' = saved(c, cap_of(m))
      PROVE  Metered(cap_of(m), cap_of(m)', clock, clock')
  BY <1>1, <1>5, <1>6, <1>7, SavedMetered
<1>8. CASE m = WSOL
  <2>1. cap_of(m) = old.sol /\ cap_of(m)' = new.sol
    BY <1>1, <1>2, <1>3, <1>8 DEF cap_of
  <2>2. CASE args.sol_cap = {}
    <3>1. new.sol = InactiveCap
      BY <2>2 DEF saved_policy
    <3> QED  BY <1>1, <2>1, <3>1, CapGoes
  <2>3. CASE args.sol_cap # {}
    <3>1. new.sol = saved(CHOOSE c \in args.sol_cap : TRUE, old.sol)
      BY <2>3 DEF saved_policy
    <3>2. (CHOOSE c \in args.sol_cap : TRUE) \in args.sol_cap
      BY <2>3
    <3> HIDE DEF saved, new, old
    <3> QED  BY <1>7, <2>1, <3>1, <3>2
  <2> QED  BY <2>2, <2>3
<1>9. CASE m # WSOL /\ m \in mints
  <2>1. new.mints = [k \in mints |-> saved(arg(k), prev_of(k))]
    BY DEF saved_policy
  <2>2. arg(m) \in args.mint_caps
    BY <1>9
  <2>3. cap_of(m) = prev_of(m)
    BY <1>1, <1>3, <1>9 DEF cap_of
  <2> HIDE DEF new, old, saved, arg, prev_of, mints
  <2>4. cap_of(m)' = new.mints[m] /\ new.mints[m] = saved(arg(m), prev_of(m))
    BY <1>2, <1>9, <2>1 DEF cap_of
  <2> QED  BY <1>7, <2>2, <2>3, <2>4
<1>10. CASE m # WSOL /\ m \notin mints
  <2>1. DOMAIN new.mints = mints
    BY DEF saved_policy
  <2> HIDE DEF new, mints
  <2>2. cap_of(m)' = InactiveCap
    BY <1>2, <1>10, <2>1 DEF cap_of
  <2> QED  BY <1>1, <2>2, CapGoes
<1> QED  BY <1>8, <1>9, <1>10

LEMMA NextMetered ==
  ASSUME IInv, RentExempt, [Next]_vars, NEW m
  PROVE  Metered(cap_of(m), cap_of(m)', clock, clock')
<1> DEFINE Goal == Metered(cap_of(m), cap_of(m)', clock, clock')
<1> SUFFICES Goal  OBVIOUS
<1>1. CASE UNCHANGED vars
  BY <1>1, CapStays DEF vars
<1>2. CASE NextExecute
  BY <1>2, ExecuteMetered DEF NextExecute, Execute, ExecuteWithAuthorityUsingPolicies
<1>3. CASE NextOwnerExecute
  BY <1>3, CapStays
  DEF NextOwnerExecute, ExecuteWithAuthority, execute_compact_instructions, pda
<1>4. CASE NextConfigure
  <2>1. ASSUME NEW o \in Owners, NEW p \in Payers, SetAuthority(o, p) PROVE Goal
    <3>1. clock' = clock /\ authority'.present /\ authority'.policy = EmptyPolicy
      BY <2>1 DEF SetAuthority, Header, environment
    <3> QED  BY <3>1, EmptyPolicyCaps, CapGoes
  <2>2. ASSUME NEW o \in Owners, ClearAuthority(o) PROVE Goal
    <3>1. clock' = clock /\ cap_of(m)' = InactiveCap
      BY <2>2 DEF ClearAuthority, NoAuthority, cap_of, environment
    <3> QED  BY <3>1, CapGoes
  <2>3. ASSUME NEW o \in Owners, NEW p \in Payers, NEW args \in Policies,
               SetWalletPolicy(o, p, args)
        PROVE  Goal
    BY <2>3, SaveMetered
  <2>4. ASSUME NEW o \in Owners, ClearWalletPolicy(o) PROVE Goal
    <3>1. clock' = clock /\ authority'.present /\ authority'.policy = EmptyPolicy
      BY <2>4 DEF ClearWalletPolicy, Header, environment
    <3> QED  BY <3>1, EmptyPolicyCaps, CapGoes
  <2> HIDE DEF Goal
  <2> QED  BY <1>4, <2>1, <2>2, <2>3, <2>4 DEF NextConfigure
<1>5. CASE NextEnvironment
  <2>1. ASSUME NEW t \in 0 .. MaxTime, Tick(t) PROVE Goal
    <3>1. clock' = t /\ t > clock /\ t \in Nat /\ cap_of(m)' = cap_of(m)
      BY <2>1, ProgramAssumption DEF Tick, pda, cap_of
    <3> QED  BY <3>1, CapOfSound, SpentLater
  <2>2. CASE \/ \E t \in TokenStates : TokenChange(t)
             \/ \E n \in 0 .. MaxLamports : DepositSol(n)
             \/ \E a \in Accounts, acc2 \in AccountStates : OutsideChange(a, acc2)
             \/ \E p \in Payers, n \in Donations : Donate(p, n)
    <3>1. UNCHANGED <<authority, clock>>
      BY <2>2 DEF TokenChange, DepositSol, OutsideChange, Donate, pda
    <3> QED  BY <3>1, CapStays
  <2> HIDE DEF Goal
  <2> QED  BY <1>5, <2>1, <2>2 DEF NextEnvironment
<1> QED  BY <1>1, <1>2, <1>3, <1>4, <1>5 DEF Next

\* Every step spends within the limit, moves on to another window or changes the
\* limit, as Allowance has it, of SOL and of any token; and no lazy refill,
\* preserved counter or re-aligned anchor can be told from outside.
THEOREM ImplementsAllowance == Spec => AllowanceSpec
<1>1. Init => SolAllowance!Init /\ TokenAllowance!Init
  <2> SUFFICES ASSUME Init PROVE \A m : /\ limit_of(cap_of(m)) = [cap |-> 0, window |-> 0]
                                        /\ spent_of(cap_of(m)) = 0
    BY DEF SolAllowance!Init, TokenAllowance!Init, SolAllowance!NoLimit, TokenAllowance!NoLimit
  <2> TAKE m
  <2>1. cap_of(m) = InactiveCap
    BY DEF Init, NoAuthority, Header, EmptyPolicy, NoMintCaps, cap_of
  <2> QED  BY <2>1 DEF InactiveCap, limit_of, is_active, spent_of
<1>2. IInv /\ RentExempt /\ [Next]_vars =>
         /\ [SolAllowance!Next]_(SolAllowance!allowanceVars)
         /\ [TokenAllowance!Next]_(TokenAllowance!allowanceVars)
  <2> SUFFICES ASSUME IInv, RentExempt, [Next]_vars
               PROVE  /\ [SolAllowance!Next]_(SolAllowance!allowanceVars)
                      /\ [TokenAllowance!Next]_(TokenAllowance!allowanceVars)
    OBVIOUS
  <2>1. \A m : /\ spent_of(cap_of(m)) = spent_at(cap_of(m), clock)
               /\ spent_of(cap_of(m))' = spent_at(cap_of(m)', clock')
    BY DEF spent_of, spent_at
  <2>2. \A m : Metered(cap_of(m), cap_of(m)', clock, clock')
    BY NextMetered
  <2>3. \A m : limit_of(cap_of(m))' = limit_of(cap_of(m)')
    BY DEF limit_of, is_active
  <2>4. [SolAllowance!Next]_(SolAllowance!allowanceVars)
    BY <2>1, <2>2, <2>3
    DEF Metered, SolAllowance!Next, SolAllowance!allowanceVars, SolAllowance!Spend,
        SolAllowance!Advance, SolAllowance!Configure, SolAllowance!SameWindow, SameWindow
  <2>5. [TokenAllowance!Next]_(TokenAllowance!allowanceVars)
    BY <2>1, <2>2, <2>3
    DEF Metered, TokenAllowance!Next, TokenAllowance!allowanceVars, TokenAllowance!Spend,
        TokenAllowance!Advance, TokenAllowance!Configure, TokenAllowance!SameWindow, SameWindow
  <2> QED  BY <2>4, <2>5
<1> QED
  BY <1>1, <1>2, Invariance, AlwaysRentExempt, PTL
  DEF Spec, AllowanceSpec, SolAllowance!Spec, TokenAllowance!Spec

-----------------------------------------------------------------------------
(* The charges.  The meter adds up over the first positions of accounts in  *)
(* the list of the transaction, the properties over the accounts.           *)

\* What the wallet's own accounts of a mint hold, account by account.
owned_amount(accs, m) ==
    [a \in Accounts |-> IF wallet_owned(accs[a]) /\ accs[a].mint = m THEN accs[a].amount ELSE 0]

listed(rem, g)   == [a \in Accounts |-> IF \E i \in DOMAIN rem : rem[i] = a THEN g[a] ELSE 0]
unlisted(rem, g) == [a \in Accounts |-> IF \E i \in DOMAIN rem : rem[i] = a THEN 0 ELSE g[a]]

LEMMA AmountType ==
  ASSUME NEW accs \in [Accounts -> AccountStates]
  PROVE  \A a \in Accounts : is_token(accs[a]) => accs[a].amount \in Nat
<1>1. \A acc \in AccountStates : is_token(acc) => acc.amount \in U64
  BY ProgramAssumption
<1>2. U64 \subseteq Nat
  BY MaxU64Assumption DEF U64
<1> QED  BY <1>1, <1>2

LEMMA OwnedAmountType ==
  ASSUME NEW accs \in [Accounts -> AccountStates], NEW m
  PROVE  owned_amount(accs, m) \in [Accounts -> Nat]
BY AmountType DEF owned_amount, wallet_owned

LEMMA AmountsPlus ==
  \A b, g, k \in [Accounts -> Nat] :
      (\A a \in Accounts : b[a] = g[a] + k[a])
          => Total(b, Accounts) = Total(g, Accounts) + Total(k, Accounts)
BY ProgramAssumption, TotalPlus

LEMMA AmountsMore ==
  \A g, k \in [Accounts -> Nat] :
      (\A a \in Accounts : g[a] <= k[a]) => Total(g, Accounts) <= Total(k, Accounts)
BY ProgramAssumption, TotalMore

\* A sum over positions is one over the accounts at them.
LEMMA AmountsMoved ==
  ASSUME NEW D, IsFiniteSet(D)
  PROVE  \A g \in [D -> Nat], k \in [Accounts -> Nat], h \in [D -> Accounts] :
             /\ \A x, y \in D : h[x] = h[y] => x = y
             /\ \A x \in D : k[h[x]] = g[x]
             /\ \A y \in Accounts : (\A x \in D : h[x] # y) => k[y] = 0
             => Total(g, D) = Total(k, Accounts)
BY ProgramAssumption, TotalMoved

\* The sums of the meter and of the properties, as sums of a function.
LEMMA AmountsSummed ==
  ASSUME NEW S, NEW h
  PROVE  MapThenSumSet(LAMBDA a : h.accounts[a].amount, S) = Total([a \in S |-> h.accounts[a].amount], S)
BY DEF Total, MapThenSumSet, MapThenFoldSet

LEMMA ListedAmountsSummed ==
  ASSUME NEW S, NEW h, NEW rem
  PROVE  MapThenSumSet(LAMBDA i : h.accounts[rem[i]].amount, S)
             = Total([i \in S |-> h.accounts[rem[i]].amount], S)
BY DEF Total, MapThenSumSet, MapThenFoldSet

LEMMA LossesSummed ==
  ASSUME NEW S, NEW before, NEW after
  PROVE  MapThenSumSet(LAMBDA a : account_spent(before, after, a), S)
             = Total([a \in S |-> account_spent(before, after, a)], S)
BY DEF Total, MapThenSumSet, MapThenFoldSet

\* What the wallet has of a mint, as a sum over all accounts.
LEMMA HoldingTotal ==
  ASSUME NEW h, h.accounts \in [Accounts -> AccountStates], NEW m
  PROVE  holding(h, m) = (IF m = WSOL THEN h.lamports ELSE 0)
                             + Total(owned_amount(h.accounts, m), Accounts)
<1> DEFINE own == {a \in Accounts : wallet_owned(h.accounts[a]) /\ h.accounts[a].mint = m}
           g   == [a \in own |-> h.accounts[a].amount]
           k   == owned_amount(h.accounts, m)
           id  == [a \in own |-> a]
<1>1. MapThenSumSet(LAMBDA a : h.accounts[a].amount, own) = Total(g, own)
  BY AmountsSummed
<1>2. holding(h, m) = (IF m = WSOL THEN h.lamports ELSE 0) + Total(g, own)
  BY <1>1 DEF holding
<1>3. IsFiniteSet(Accounts) /\ IsFiniteSet(own)
  BY ProgramAssumption, FS_Subset
<1>4. g \in [own -> Nat] /\ k \in [Accounts -> Nat] /\ id \in [own -> Accounts]
  BY AmountType, OwnedAmountType DEF wallet_owned
<1>5. \A x \in own : k[id[x]] = g[x]
  BY DEF owned_amount
<1>6. \A y \in Accounts : (\A x \in own : id[x] # y) => k[y] = 0
  BY DEF owned_amount
<1>7. \A x, y \in own : id[x] = id[y] => x = y
  OBVIOUS
<1> HIDE DEF own, g, k, id
<1>8. Total(g, own) = Total(k, Accounts)
  BY <1>3, <1>4, <1>5, <1>6, <1>7, TotalMoved
<1> QED  BY <1>2, <1>8 DEF k

LEMMA FirstsFinite ==
  ASSUME NEW rem \in Seq(Accounts), NEW D, D \subseteq firsts(rem)
  PROVE  /\ IsFiniteSet(D)
         /\ \A i \in D : rem[i] \in Accounts
         /\ \A i, j \in D : rem[i] = rem[j] => i = j
<1>1. Len(rem) \in Nat /\ DOMAIN rem = 1 .. Len(rem) /\ \A i \in DOMAIN rem : rem[i] \in Accounts
  OBVIOUS
<1>2. D \subseteq 1 .. Len(rem)
  BY <1>1 DEF firsts
<1>3. IsFiniteSet(1 .. Len(rem))
  BY <1>1, FS_Interval
<1>4. IsFiniteSet(D)
  BY <1>2, <1>3, FS_Subset
<1>5. \A i, j \in D : i < j => rem[i] # rem[j]
  <2> TAKE i, j \in D
  <2> HAVE i < j
  <2>1. i \in 1 .. j - 1 /\ j \in firsts(rem)
    BY <1>2
  <2> QED  BY <2>1 DEF firsts
<1>6. \A i, j \in D : i < j \/ j < i \/ i = j
  BY <1>2
<1> QED  BY <1>1, <1>2, <1>4, <1>5, <1>6

\* Under a SOL cap, the wrapped SOL that is measured is that of the accounts
\* in the list, each of them once.
LEMMA WrappedTotal ==
  ASSUME NEW p, charge_sol(p), NEW rem \in Seq(Accounts),
         NEW h, h.accounts \in [Accounts -> AccountStates]
  PROVE  wrapped_sol(p, rem, h) = Total(listed(rem, owned_amount(h.accounts, WSOL)), Accounts)
<1> DEFINE own == {i \in firsts(rem) : charge_sol(p) /\ wallet_wsol(h.accounts[rem[i]])}
           g   == [i \in own |-> h.accounts[rem[i]].amount]
           k   == listed(rem, owned_amount(h.accounts, WSOL))
           at  == [i \in own |-> rem[i]]
<1>1. MapThenSumSet(LAMBDA i : h.accounts[rem[i]].amount, own) = Total(g, own)
  BY ListedAmountsSummed
<1>2. wrapped_sol(p, rem, h) = Total(g, own)
  BY <1>1 DEF wrapped_sol
<1>3. own \subseteq firsts(rem)
  OBVIOUS
<1>4. \A i \in own : i \in DOMAIN rem /\ wallet_wsol(h.accounts[rem[i]])
  BY DEF firsts
<1>5. /\ IsFiniteSet(own) /\ \A i \in own : rem[i] \in Accounts
      /\ \A i, j \in own : rem[i] = rem[j] => i = j
  <2> HIDE DEF own
  <2> QED  BY <1>3, FirstsFinite
<1>6. \A i \in own : h.accounts[rem[i]].amount \in Nat
  BY <1>4, <1>5, AmountType DEF wallet_wsol, wallet_owned
<1>7. g \in [own -> Nat] /\ at \in [own -> Accounts]
  BY <1>5, <1>6
<1>8. k \in [Accounts -> Nat]
  BY OwnedAmountType DEF listed
<1>9. \A x \in own : k[at[x]] = g[x]
  <2> TAKE x \in own
  <2>1. k[rem[x]] = owned_amount(h.accounts, WSOL)[rem[x]]
    BY <1>4, <1>5 DEF listed
  <2>2. owned_amount(h.accounts, WSOL)[rem[x]] = h.accounts[rem[x]].amount
    BY <1>4, <1>5 DEF owned_amount, wallet_wsol
  <2> QED  BY <2>1, <2>2
<1>10. ASSUME NEW y \in Accounts, \A x \in own : at[x] # y PROVE k[y] = 0
  <2> SUFFICES ASSUME NEW i \in DOMAIN rem, rem[i] = y,
                      wallet_owned(h.accounts[y]), h.accounts[y].mint = WSOL
               PROVE  FALSE
    BY DEF listed, owned_amount
  <2>1. PICK x \in firsts(rem) : rem[x] = y
    BY FirstPosition
  <2>2. x \in own
    BY <2>1 DEF wallet_wsol
  <2> QED  BY <1>10, <2>1, <2>2
<1>11. \A x, y \in own : at[x] = at[y] => x = y
  BY <1>5
<1>12. \A y \in Accounts : (\A x \in own : at[x] # y) => k[y] = 0
  BY <1>10
<1>13. Total(g, own) = Total(k, Accounts)
  <2>1. IsFiniteSet(own)
    BY <1>5
  <2> HIDE DEF own, g, k, at
  <2>2. \A e \in [own -> Nat], f \in [Accounts -> Nat], r \in [own -> Accounts] :
             /\ \A x, y \in own : r[x] = r[y] => x = y
             /\ \A x \in own : f[r[x]] = e[x]
             /\ \A y \in Accounts : (\A x \in own : r[x] # y) => f[y] = 0
             => Total(e, own) = Total(f, Accounts)
    BY <2>1, AmountsMoved
  <2> QED  BY <1>7, <1>8, <1>9, <1>11, <1>12, <2>2
<1> QED  BY <1>2, <1>13 DEF k

\* The rest of the wallet's wrapped SOL is out of the batch's reach.
LEMMA RestTotal ==
  ASSUME NEW rem \in Seq(Accounts), NEW accs \in [Accounts -> AccountStates], NEW m
  PROVE  /\ Total(listed(rem, owned_amount(accs, m)), Accounts) \in Nat
         /\ Total(unlisted(rem, owned_amount(accs, m)), Accounts) \in Nat
         /\ Total(owned_amount(accs, m), Accounts)
                = Total(listed(rem, owned_amount(accs, m)), Accounts)
                      + Total(unlisted(rem, owned_amount(accs, m)), Accounts)
<1> DEFINE b == owned_amount(accs, m)
           g == listed(rem, b)
           k == unlisted(rem, b)
<1>1. b \in [Accounts -> Nat]
  BY OwnedAmountType
<1>2. IsFiniteSet(Accounts)
  BY ProgramAssumption
<1> HIDE DEF b
<1>3. g \in [Accounts -> Nat] /\ k \in [Accounts -> Nat]
  BY <1>1 DEF listed, unlisted
<1>4. \A a \in Accounts : b[a] = g[a] + k[a]
  BY <1>1 DEF listed, unlisted
<1> HIDE DEF g, k
<1>5. Total(b, Accounts) = Total(g, Accounts) + Total(k, Accounts)
  BY <1>1, <1>3, <1>4, AmountsPlus
<1>6. Total(g, Accounts) \in Nat /\ Total(k, Accounts) \in Nat
  BY <1>2, <1>3, TotalType
<1> QED  BY <1>5, <1>6 DEF b, g, k

LEMMA UnlistedSame ==
  ASSUME NEW rem, NEW accs, NEW accs2, NEW m,
         \A a \in Accounts : (\A i \in DOMAIN rem : rem[i] # a) => accs2[a] = accs[a]
  PROVE  unlisted(rem, owned_amount(accs2, m)) = unlisted(rem, owned_amount(accs, m))
BY DEF unlisted, owned_amount

\* Without a SOL cap only lamports are measured.
LEMMA WrappedNone ==
  ASSUME NEW p, ~charge_sol(p), NEW rem, NEW h
  PROVE  wrapped_sol(p, rem, h) = 0
<1> DEFINE own == {i \in firsts(rem) : charge_sol(p) /\ wallet_wsol(h.accounts[rem[i]])}
           g   == [i \in own |-> h.accounts[rem[i]].amount]
<1>1. MapThenSumSet(LAMBDA i : h.accounts[rem[i]].amount, own) = Total(g, own)
  <2> HIDE DEF own
  <2> QED  BY ListedAmountsSummed
<1>2. wrapped_sol(p, rem, h) = Total(g, own)
  BY <1>1 DEF wrapped_sol
<1>3. own = {}
  OBVIOUS
<1> HIDE DEF own
<1>4. g \in [own -> Nat] /\ IsFiniteSet(own)
  BY <1>3, FS_EmptySet
<1> HIDE DEF g
<1>5. PICK f : IsTotal(f, g, own)
  BY <1>4, TotalExists
<1>6. f[own] = 0
  BY <1>3, <1>5 DEF IsTotal
<1>7. Total(g, own) = f[own]
  BY <1>4, <1>5, TotalIs
<1> QED  BY <1>2, <1>6, <1>7

\* What a policy-checked execution is charged.
LEMMA PolicyStepCharge ==
  ASSUME PolicyStep
  PROVE  \E rem \in Seq(Accounts) : \E out :
             /\ out.lamports = lamports' /\ out.accounts = accounts'
             /\ charge_accepted(authority.policy, rem, Holding, out, clock)
             /\ authority'.policy = charge_policy_deltas(authority.policy, rem, Holding, out, clock)
             /\ authority.present /\ authority'.present /\ clock' = clock
             /\ \A a \in Accounts : (\A i \in DOMAIN rem : rem[i] # a) => accounts'[a] = accounts[a]
<1> DEFINE o == [lamports |-> lamports', accounts |-> accounts', intact |-> intact']
<1>1. PICK batch \in Batches, rem \in Remaining : policy_present /\ ExecuteUnderPolicy(batch, rem, o)
  BY DEF PolicyStep
<1>2. rem \in Seq(Accounts)
  BY InputsAssumption
<1>3. o.lamports = lamports' /\ o.accounts = accounts'
  OBVIOUS
<1> HIDE DEF o
<1>4. /\ charge_accepted(authority.policy, rem, Holding, o, clock)
      /\ authority' = Header(authority.authority, authority.payer, POLICY_VERSION,
                             charge_policy_deltas(authority.policy, rem, Holding, o, clock))
      /\ authority.present /\ clock' = clock
  BY <1>1 DEF ExecuteUnderPolicy, execute_compact_instructions, policy_present
<1>5. /\ authority'.present
      /\ authority'.policy = charge_policy_deltas(authority.policy, rem, Holding, o, clock)
  BY <1>4 DEF Header
<1>6. \A a \in Accounts : (\A i \in DOMAIN rem : rem[i] # a) => accounts'[a] = accounts[a]
  BY <1>1, <1>3 DEF ExecuteUnderPolicy, execute_compact_instructions
<1> QED  BY <1>2, <1>3, <1>4, <1>5, <1>6

\* What an account the wallet can spend from may lose when it has no cap.
LEMMA UncappedAccount ==
  ASSUME NEW p, policy_ok(p), spending_limits_active(p), NEW m,
         IF m = WSOL THEN ~charge_sol(p) ELSE m \notin DOMAIN p.mints,
         NEW rem \in Seq(Accounts), NEW before, NEW after,
         before.accounts \in [Accounts -> AccountStates],
         after.accounts \in [Accounts -> AccountStates],
         control_checks(p, rem, before, after),
         \A a \in Accounts : (\A i \in DOMAIN rem : rem[i] # a) => after.accounts[a] = before.accounts[a],
         NEW a \in Accounts, spendable(before.accounts[a]), before.accounts[a].mint = m
  PROVE  /\ amount_after(after.accounts[a]) >= before.accounts[a].amount
         /\ owned_amount(before.accounts, m)[a] <= owned_amount(after.accounts, m)[a]
<1> DEFINE acc  == before.accounts[a]
           acc2 == after.accounts[a]
<1>1. acc.amount \in Nat /\ amount_after(acc2) \in Nat /\ is_token(acc)
  BY AmountType DEF spendable, amount_after
<1>2. CASE \A i \in DOMAIN rem : rem[i] # a
  <2>1. acc2 = acc
    BY <1>2
  <2>2. owned_amount(before.accounts, m)[a] = owned_amount(after.accounts, m)[a]
    BY <2>1 DEF owned_amount
  <2>3. owned_amount(before.accounts, m)[a] \in Nat
    BY OwnedAmountType
  <2> QED  BY <1>1, <2>1, <2>2, <2>3 DEF amount_after
<1>3. CASE \E i \in DOMAIN rem : rem[i] = a
  <2>1. PICK k \in firsts(rem) : rem[k] = a
    BY <1>3, FirstPosition
  <2>2. k \in tracked(p, rem, before)
    BY <2>1 DEF tracked
  <2>3. /\ wallet_owned(acc) => control_kept(acc, acc2)
        /\ loss_allowed(p, acc, account_spent(before, after, a))
    BY <2>1, <2>2 DEF control_checks
  <2>4. account_spent(before, after, a) = 0
    <3>1. acc.mint \notin DOMAIN p.mints
      BY DEF policy_ok
    <3>2. ~(charge_sol(p) /\ wallet_wsol(acc))
      BY DEF wallet_wsol
    <3> HIDE DEF acc
    <3> QED  BY <2>3, <3>1, <3>2 DEF loss_allowed
  <2>5. amount_after(acc2) >= acc.amount
    BY <1>1, <2>4 DEF account_spent, saturating_sub
  <2>6. CASE ~wallet_owned(acc)
    <3>1. owned_amount(before.accounts, m)[a] = 0 /\ owned_amount(after.accounts, m)[a] \in Nat
      BY <2>6, OwnedAmountType DEF owned_amount
    <3> QED  BY <2>5, <3>1
  <2>7. CASE wallet_owned(acc)
    <3>1. owned_amount(before.accounts, m)[a] = acc.amount
      BY <2>7 DEF owned_amount
    <3>2. CASE is_token(acc2)
      <4>1. wallet_owned(acc2) /\ acc2.mint = m
        BY <2>3, <2>7, <3>2 DEF control_kept, wallet_owned
      <4>2. owned_amount(after.accounts, m)[a] = amount_after(acc2)
        BY <3>2, <4>1 DEF owned_amount, amount_after
      <4> QED  BY <2>5, <3>1, <4>2
    <3>3. CASE ~is_token(acc2)
      <4>1. amount_after(acc2) = 0 /\ owned_amount(after.accounts, m)[a] \in Nat
        BY <3>3, OwnedAmountType DEF amount_after
      <4> QED  BY <1>1, <2>5, <3>1, <4>1
    <3> QED  BY <3>2, <3>3
  <2> QED  BY <2>6, <2>7
<1> QED  BY <1>2, <1>3

\* What the measured SOL comes to without a SOL cap: no lamport may leave.
LEMMA UncappedLamports ==
  ASSUME NEW p, spending_limits_active(p), ~charge_sol(p), NEW rem, NEW before, NEW after,
         before.lamports \in 0 .. MaxLamports, after.lamports \in 0 .. MaxLamports,
         NEW now, charge_accepted(p, rem, before, after, now)
  PROVE  after.lamports >= before.lamports
<1>1. MaxLamports \in Nat /\ MaxU64 \in Nat /\ MaxLamports <= MaxU64
  BY ProgramAssumption, MaxU64Assumption
<1>2. sol_total(p, rem, before) = before.lamports /\ sol_total(p, rem, after) = after.lamports
  BY <1>1, WrappedNone DEF sol_total, saturating_add, U64
<1>3. ~(sol_spent(p, rem, before, after) > 0)
  BY DEF charge_accepted
<1> QED  BY <1>1, <1>2, <1>3 DEF sol_spent, saturating_sub

\* With any cap in force, nothing without a cap of its own decreases.
THEOREM UncappedAlwaysKept == Spec => UncappedKept
<1> DEFINE Kept ==
        \A m \in Mints : ~Capped(m) =>
            /\ holding(Holding', m) >= holding(Holding, m)
            /\ \A a \in Accounts :
                  spendable(accounts[a]) /\ accounts[a].mint = m =>
                      amount_after(accounts'[a]) >= accounts[a].amount
<1>1. IInv /\ IInv' /\ PolicyStep /\ spending_limits_active(authority.policy) => Kept
  <2> SUFFICES ASSUME IInv, IInv', PolicyStep, spending_limits_active(authority.policy),
                      NEW m \in Mints, ~Capped(m)
               PROVE  /\ holding(Holding', m) >= holding(Holding, m)
                      /\ \A a \in Accounts :
                            spendable(accounts[a]) /\ accounts[a].mint = m =>
                                amount_after(accounts'[a]) >= accounts[a].amount
    OBVIOUS
  <2> DEFINE p  == authority.policy
             b  == owned_amount(accounts, m)
             b2 == owned_amount(accounts', m)
  <2>0. PICK rem \in Seq(Accounts) : \E out :
             /\ out.lamports = lamports' /\ out.accounts = accounts'
             /\ charge_accepted(p, rem, Holding, out, clock)
             /\ authority.present
             /\ \A a \in Accounts : (\A i \in DOMAIN rem : rem[i] # a) => accounts'[a] = accounts[a]
    BY PolicyStepCharge
  <2>1. PICK out :
             /\ out.lamports = lamports' /\ out.accounts = accounts'
             /\ charge_accepted(p, rem, Holding, out, clock)
             /\ authority.present
             /\ \A a \in Accounts : (\A i \in DOMAIN rem : rem[i] # a) => accounts'[a] = accounts[a]
    BY <2>0
  <2>2. /\ accounts \in [Accounts -> AccountStates] /\ accounts' \in [Accounts -> AccountStates]
        /\ lamports \in 0 .. MaxLamports /\ lamports' \in 0 .. MaxLamports
    BY DEF IInv, TypeOK
  <2>3. Holding.lamports = lamports /\ Holding.accounts = accounts
        /\ Holding'.lamports = lamports' /\ Holding'.accounts = accounts'
    BY DEF Holding
  <2>4. policy_ok(p) /\ IF m = WSOL THEN ~charge_sol(p) ELSE m \notin DOMAIN p.mints
    BY <2>1, PresentAuthority DEF Capped
  <2>5. control_checks(p, rem, Holding, out)
    BY <2>1 DEF charge_accepted
  <2>6. ASSUME NEW a \in Accounts, spendable(accounts[a]), accounts[a].mint = m
        PROVE  amount_after(accounts'[a]) >= accounts[a].amount /\ b[a] <= b2[a]
    <3>1. /\ Holding.accounts \in [Accounts -> AccountStates]
          /\ out.accounts \in [Accounts -> AccountStates]
          /\ \A c \in Accounts : (\A i \in DOMAIN rem : rem[i] # c) => out.accounts[c] = Holding.accounts[c]
          /\ spendable(Holding.accounts[a]) /\ Holding.accounts[a].mint = m
      BY <2>1, <2>2, <2>3, <2>6
    <3> HIDE DEF p
    <3>2. /\ amount_after(out.accounts[a]) >= Holding.accounts[a].amount
          /\ owned_amount(Holding.accounts, m)[a] <= owned_amount(out.accounts, m)[a]
      BY <2>4, <2>5, <3>1, UncappedAccount DEF p
    <3> QED  BY <2>1, <2>3, <3>2
  <2>7. b \in [Accounts -> Nat] /\ b2 \in [Accounts -> Nat]
    BY <2>2, OwnedAmountType
  <2>8. \A a \in Accounts : b[a] <= b2[a]
    <3> TAKE a \in Accounts
    <3>1. CASE spendable(accounts[a]) /\ accounts[a].mint = m
      BY <2>6, <3>1
    <3>2. CASE ~(spendable(accounts[a]) /\ accounts[a].mint = m)
      <4>1. b[a] = 0
        BY <3>2 DEF owned_amount, spendable, wallet_owned
      <4>2. b2[a] \in Nat
        BY <2>7
      <4> HIDE DEF b, b2
      <4> QED  BY <4>1, <4>2
    <3> QED  BY <3>1, <3>2
  <2>9. holding(Holding', m) >= holding(Holding, m)
    <3>1. holding(Holding, m) = (IF m = WSOL THEN lamports ELSE 0) + Total(b, Accounts)
      BY <2>2, <2>3, HoldingTotal
    <3>2. holding(Holding', m) = (IF m = WSOL THEN lamports' ELSE 0) + Total(b2, Accounts)
      BY <2>2, <2>3, HoldingTotal
    <3>3. m = WSOL => lamports' >= lamports
      BY <2>1, <2>2, <2>3, <2>4, UncappedLamports
    <3> HIDE DEF b, b2
    <3>4. IsFiniteSet(Accounts)
      BY ProgramAssumption
    <3>5. Total(b, Accounts) <= Total(b2, Accounts)
      BY <2>7, <2>8, AmountsMore
    <3>6. Total(b, Accounts) \in Nat /\ Total(b2, Accounts) \in Nat
      BY <2>7, <3>4, TotalType
    <3>7. lamports \in Nat /\ lamports' \in Nat
      BY <2>2
    <3> QED  BY <3>1, <3>2, <3>3, <3>5, <3>6, <3>7
  <2> QED  BY <2>6, <2>9
<1>2. IInv /\ [Next]_vars =>
          [PolicyStep /\ spending_limits_active(authority.policy) => Kept]_vars
  <2> HIDE DEF Kept
  <2> QED  BY <1>1, NextIInv
<1>3. QED
  BY <1>2, Invariance, PTL DEF Spec, UncappedKept

\* What the accounts of a mint that the wallet can spend from lose, each by
\* itself.
lost_amount(accs, accs2, m) ==
    [a \in Accounts |-> IF spendable(accs[a]) /\ accs[a].mint = m
                        THEN saturating_sub(accs[a].amount, amount_after(accs2[a])) ELSE 0]

LEMMA LostAmountType ==
  ASSUME NEW accs \in [Accounts -> AccountStates], NEW accs2 \in [Accounts -> AccountStates], NEW m
  PROVE  lost_amount(accs, accs2, m) \in [Accounts -> Nat]
<1>1. \A a \in Accounts : amount_after(accs2[a]) \in Nat
  BY AmountType DEF amount_after
<1>2. \A a \in Accounts : spendable(accs[a]) => accs[a].amount \in Nat
  BY AmountType DEF spendable
<1> QED  BY <1>1, <1>2 DEF lost_amount, saturating_sub

\* The loss ChargedExactly speaks of.
LEMMA LossTotal ==
  ASSUME NEW before, NEW after,
         before.accounts \in [Accounts -> AccountStates],
         after.accounts \in [Accounts -> AccountStates], NEW m
  PROVE  MapThenSumSet(LAMBDA a : account_spent(before, after, a),
                       {a \in Accounts : spendable(before.accounts[a]) /\ before.accounts[a].mint = m})
             = Total(lost_amount(before.accounts, after.accounts, m), Accounts)
<1> DEFINE from == {a \in Accounts : spendable(before.accounts[a]) /\ before.accounts[a].mint = m}
           g    == [a \in from |-> account_spent(before, after, a)]
           k    == lost_amount(before.accounts, after.accounts, m)
           id   == [a \in from |-> a]
<1>1. MapThenSumSet(LAMBDA a : account_spent(before, after, a), from) = Total(g, from)
  BY LossesSummed
<1>2. IsFiniteSet(from)
  BY ProgramAssumption, FS_Subset
<1>3. k \in [Accounts -> Nat] /\ id \in [from -> Accounts]
  BY LostAmountType
<1>4. \A x \in from : k[id[x]] = g[x]
  BY DEF lost_amount, account_spent
<1>5. g \in [from -> Nat]
  <2>1. \A x \in from : k[id[x]] \in Nat
    BY <1>3
  <2> QED  BY <1>4, <2>1
<1>6. \A y \in Accounts : (\A x \in from : id[x] # y) => k[y] = 0
  BY DEF lost_amount
<1>7. \A x, y \in from : id[x] = id[y] => x = y
  OBVIOUS
<1>8. Total(g, from) = Total(k, Accounts)
  <2> HIDE DEF from, g, k, id
  <2>1. \A e \in [from -> Nat], f \in [Accounts -> Nat], r \in [from -> Accounts] :
             /\ \A x, y \in from : r[x] = r[y] => x = y
             /\ \A x \in from : f[r[x]] = e[x]
             /\ \A y \in Accounts : (\A x \in from : r[x] # y) => f[y] = 0
             => Total(e, from) = Total(f, Accounts)
    BY <1>2, AmountsMoved
  <2> QED  BY <1>3, <1>4, <1>5, <1>6, <1>7, <2>1
<1> QED  BY <1>1, <1>8

LEMMA LossesTotal ==
  ASSUME NEW p, NEW m, NEW before, NEW after, NEW rem
  PROVE  LET from == {i \in tracked(p, rem, before) : before.accounts[rem[i]].mint = m}
         IN  mint_spent(p, rem, before, after, m)
                 = Total([i \in from |-> account_spent(before, after, rem[i])], from)
<1> DEFINE from == {i \in tracked(p, rem, before) : before.accounts[rem[i]].mint = m}
<1>1. mint_spent(p, rem, before, after, m)
          = MapThenSumSet(LAMBDA i : account_spent(before, after, rem[i]), from)
  BY DEF mint_spent
<1> HIDE DEF from
<1>2. MapThenSumSet(LAMBDA i : account_spent(before, after, rem[i]), from)
             = Total([i \in from |-> account_spent(before, after, rem[i])], from)
  BY DEF Total, MapThenSumSet, MapThenFoldSet
<1> QED  BY <1>1, <1>2 DEF from

\* The loss of a capped mint that the meter measures: the accounts it does not
\* track lose nothing.
LEMMA MintSpentTotal ==
  ASSUME NEW p, NEW m \in DOMAIN p.mints, NEW rem \in Seq(Accounts), NEW before, NEW after,
         before.accounts \in [Accounts -> AccountStates],
         after.accounts \in [Accounts -> AccountStates],
         \A a \in Accounts : (\A i \in DOMAIN rem : rem[i] # a) => after.accounts[a] = before.accounts[a]
  PROVE  mint_spent(p, rem, before, after, m)
             = Total(lost_amount(before.accounts, after.accounts, m), Accounts)
<1> DEFINE from == {i \in tracked(p, rem, before) : before.accounts[rem[i]].mint = m}
           g    == [i \in from |-> account_spent(before, after, rem[i])]
           k    == lost_amount(before.accounts, after.accounts, m)
           at   == [i \in from |-> rem[i]]
<1>1. mint_spent(p, rem, before, after, m) = Total(g, from)
  BY LossesTotal
<1>2. from \subseteq firsts(rem)
        /\ \A i \in from : spendable(before.accounts[rem[i]]) /\ before.accounts[rem[i]].mint = m
  BY DEF tracked, wallet_owned, spendable
<1>3. /\ IsFiniteSet(from) /\ \A i \in from : rem[i] \in Accounts
      /\ \A i, j \in from : rem[i] = rem[j] => i = j
  <2> HIDE DEF from
  <2> QED  BY <1>2, FirstsFinite
<1>4. k \in [Accounts -> Nat] /\ at \in [from -> Accounts]
  BY <1>3, LostAmountType
<1>5. \A x \in from : k[at[x]] = g[x]
  BY <1>2, <1>3 DEF lost_amount, account_spent
<1>6. g \in [from -> Nat]
  <2>1. \A x \in from : k[at[x]] \in Nat
    BY <1>3, <1>4
  <2> QED  BY <1>5, <2>1
<1>7. ASSUME NEW y \in Accounts, \A x \in from : at[x] # y PROVE k[y] = 0
  <2> SUFFICES ASSUME spendable(before.accounts[y]), before.accounts[y].mint = m
               PROVE  saturating_sub(before.accounts[y].amount, amount_after(after.accounts[y])) = 0
    BY DEF lost_amount
  <2>1. CASE \A i \in DOMAIN rem : rem[i] # y
    <3>1. after.accounts[y] = before.accounts[y] /\ before.accounts[y].amount \in Nat
      BY <2>1, AmountType DEF spendable
    <3>2. amount_after(after.accounts[y]) = before.accounts[y].amount
      BY <3>1 DEF amount_after, spendable
    <3> QED  BY <3>1, <3>2 DEF saturating_sub
  <2>2. CASE \E i \in DOMAIN rem : rem[i] = y
    <3>1. PICK x \in firsts(rem) : rem[x] = y
      BY <2>2, FirstPosition
    <3>2. spending_limits_active(p)
      BY DEF spending_limits_active
    <3>3. x \in from
      BY <3>1, <3>2 DEF tracked
    <3> QED  BY <1>7, <3>1, <3>3
  <2> QED  BY <2>1, <2>2
<1>8. \A y \in Accounts : (\A x \in from : at[x] # y) => k[y] = 0
  BY <1>7
<1>9. \A x, y \in from : at[x] = at[y] => x = y
  BY <1>3
<1>10. Total(g, from) = Total(k, Accounts)
  <2>1. IsFiniteSet(from)
    BY <1>3
  <2> HIDE DEF from, g, k, at
  <2>2. \A e \in [from -> Nat], f \in [Accounts -> Nat], r \in [from -> Accounts] :
             /\ \A x, y \in from : r[x] = r[y] => x = y
             /\ \A x \in from : f[r[x]] = e[x]
             /\ \A y \in Accounts : (\A x \in from : r[x] # y) => f[y] = 0
             => Total(e, from) = Total(f, Accounts)
    BY <2>1, AmountsMoved
  <2> QED  BY <1>4, <1>5, <1>6, <1>8, <1>9, <2>2
<1> QED  BY <1>1, <1>10

\* The SOL that is charged is what the wallet lost of native and wrapped SOL
\* together: the wrapped SOL the meter does not see did not move.
LEMMA SolSpentTotal ==
  ASSUME NEW p, charge_sol(p), NEW rem \in Seq(Accounts), NEW before, NEW after,
         before.accounts \in [Accounts -> AccountStates],
         after.accounts \in [Accounts -> AccountStates],
         before.lamports \in Nat, after.lamports \in Nat,
         \A a \in Accounts : (\A i \in DOMAIN rem : rem[i] # a) => after.accounts[a] = before.accounts[a],
         FitsU64(before), FitsU64(after)
  PROVE  sol_spent(p, rem, before, after)
             = saturating_sub(holding(before, WSOL), holding(after, WSOL))
<1> DEFINE w(h) == Total(listed(rem, owned_amount(h.accounts, WSOL)), Accounts)
           u(h) == Total(unlisted(rem, owned_amount(h.accounts, WSOL)), Accounts)
<1>1. u(before) = u(after)
  BY UnlistedSame
<1>2. ASSUME NEW h \in {before, after}
      PROVE  /\ w(h) \in Nat /\ u(h) \in Nat /\ h.lamports \in Nat
             /\ holding(h, WSOL) = h.lamports + (w(h) + u(h))
             /\ sol_total(p, rem, h) = saturating_add(h.lamports + w(h))
  <2>1. h.accounts \in [Accounts -> AccountStates] /\ h.lamports \in Nat
    OBVIOUS
  <2>2. holding(h, WSOL) = h.lamports + Total(owned_amount(h.accounts, WSOL), Accounts)
    BY <2>1, HoldingTotal
  <2>3. /\ w(h) \in Nat /\ u(h) \in Nat
        /\ Total(owned_amount(h.accounts, WSOL), Accounts) = w(h) + u(h)
    BY <2>1, RestTotal
  <2>4. wrapped_sol(p, rem, h) = w(h)
    BY <2>1, WrappedTotal
  <2> HIDE DEF w, u
  <2> QED  BY <2>1, <2>2, <2>3, <2>4 DEF sol_total
<1> HIDE DEF w, u
<1>3. \A h \in {before, after} : sol_total(p, rem, h) = h.lamports + w(h)
  <2> TAKE h \in {before, after}
  <2>1. h.lamports + (w(h) + u(h)) <= MaxU64 /\ MaxU64 \in Nat
    BY <1>2, MaxU64Assumption DEF FitsU64, U64
  <2>2. h.lamports + w(h) \in U64
    <3>1. \A i, j, k \in Nat : i + (j + k) <= MaxU64 => i + j \in 0 .. MaxU64
      BY <2>1
    <3>2. h.lamports \in Nat /\ w(h) \in Nat /\ u(h) \in Nat
      BY <1>2
    <3> QED  BY <2>1, <3>1, <3>2 DEF U64
  <2> QED  BY <1>2, <2>2 DEF saturating_add
<1>4. /\ sol_total(p, rem, before) = before.lamports + w(before)
      /\ sol_total(p, rem, after) = after.lamports + w(after)
      /\ holding(before, WSOL) = before.lamports + (w(before) + u(before))
      /\ holding(after, WSOL) = after.lamports + (w(after) + u(before))
      /\ before.lamports \in Nat /\ after.lamports \in Nat
      /\ w(before) \in Nat /\ w(after) \in Nat /\ u(before) \in Nat
  BY <1>1, <1>2, <1>3
<1> QED  BY <1>4 DEF sol_spent, saturating_sub

SolCharged ==
    PolicyStep /\ charge_sol(authority.policy) /\ FitsU64(Holding) /\ FitsU64(Holding') =>
        LET loss == saturating_sub(holding(Holding, WSOL), holding(Holding', WSOL))
        IN  spent_of(cap_of(WSOL))' = spent_of(cap_of(WSOL)) + loss

TokenCharged ==
    PolicyStep =>
        \A m \in DOMAIN authority.policy.mints :
            LET from == {a \in Accounts : spendable(accounts[a]) /\ accounts[a].mint = m}
                loss == MapThenSumSet(LAMBDA a : account_spent(Holding, Holding', a), from)
            IN  spent_of(cap_of(m))' = spent_of(cap_of(m)) + loss

LEMMA SpentAtClock ==
  ASSUME NEW m
  PROVE  /\ spent_of(cap_of(m)) = spent_at(cap_of(m), clock)
         /\ spent_of(cap_of(m))' = spent_at(cap_of(m)', clock')
BY DEF spent_of, spent_at

LEMMA NextSolCharged ==
  ASSUME IInv, IInv', PolicyStep, charge_sol(authority.policy), FitsU64(Holding), FitsU64(Holding')
  PROVE  spent_of(cap_of(WSOL))'
             = spent_of(cap_of(WSOL)) + saturating_sub(holding(Holding, WSOL), holding(Holding', WSOL))
<1> DEFINE p == authority.policy
<1>1. PICK rem \in Seq(Accounts) : \E out :
             /\ out.lamports = lamports' /\ out.accounts = accounts'
             /\ charge_accepted(p, rem, Holding, out, clock)
             /\ authority'.policy = charge_policy_deltas(p, rem, Holding, out, clock)
             /\ authority.present /\ authority'.present /\ clock' = clock
             /\ \A a \in Accounts : (\A i \in DOMAIN rem : rem[i] # a) => accounts'[a] = accounts[a]
  BY PolicyStepCharge
<1>2. PICK out :
             /\ out.lamports = lamports' /\ out.accounts = accounts'
             /\ charge_accepted(p, rem, Holding, out, clock)
             /\ authority'.policy = charge_policy_deltas(p, rem, Holding, out, clock)
             /\ authority.present /\ authority'.present /\ clock' = clock
             /\ \A a \in Accounts : (\A i \in DOMAIN rem : rem[i] # a) => accounts'[a] = accounts[a]
  BY <1>1
<1> DEFINE n == sol_spent(p, rem, Holding, out)
<1>3. /\ accounts \in [Accounts -> AccountStates] /\ accounts' \in [Accounts -> AccountStates]
      /\ lamports \in Nat /\ lamports' \in Nat
  BY ProgramAssumption DEF IInv, TypeOK
<1>4. Holding.lamports = lamports /\ Holding.accounts = accounts
      /\ Holding'.lamports = lamports' /\ Holding'.accounts = accounts'
  BY DEF Holding
<1>5. holding(out, WSOL) = holding(Holding', WSOL)
  <2>1. holding(out, WSOL) = out.lamports + Total(owned_amount(out.accounts, WSOL), Accounts)
    BY <1>2, <1>3, HoldingTotal
  <2>2. holding(Holding', WSOL) = Holding'.lamports + Total(owned_amount(Holding'.accounts, WSOL), Accounts)
    BY <1>3, <1>4, HoldingTotal
  <2> QED  BY <1>2, <1>4, <2>1, <2>2
<1>6. n = saturating_sub(holding(Holding, WSOL), holding(Holding', WSOL)) /\ n \in Nat
  <2>1. /\ Holding.accounts \in [Accounts -> AccountStates]
        /\ out.accounts \in [Accounts -> AccountStates]
        /\ Holding.lamports \in Nat /\ out.lamports \in Nat
        /\ \A a \in Accounts : (\A i \in DOMAIN rem : rem[i] # a) => out.accounts[a] = Holding.accounts[a]
    BY <1>2, <1>3, <1>4
  <2>2. FitsU64(out)
    BY <1>5 DEF FitsU64
  <2>3. sol_spent(p, rem, Holding, out) = saturating_sub(holding(Holding, WSOL), holding(out, WSOL))
    BY <2>1, <2>2, SolSpentTotal
  <2> QED  BY <1>5, <2>3, SolSpentType
<1> HIDE DEF n
<1>7. cap_of(WSOL) = p.sol /\ cap_of(WSOL)' = charge_cap(p.sol, n, clock)
  BY <1>2 DEF cap_of, charge_policy_deltas, n
<1>8. can_charge(p.sol, n, clock)
  BY <1>2, <1>6 DEF charge_accepted, can_charge, spending_limits_active, n
<1> HIDE DEF p
<1>9. spent_at(charge_cap(p.sol, n, clock), clock) = spent_at(p.sol, clock) + n
  <2>1. p.sol \in SpendCap /\ cap_sound(p.sol, clock) /\ clock \in Nat
    BY <1>7, CapOfSound
  <2> QED  BY <1>6, <1>8, <2>1, ChargeSpends
<1> QED  BY <1>2, <1>6, <1>7, <1>9, SpentAtClock

LEMMA NextTokenCharged ==
  ASSUME IInv, IInv', PolicyStep, NEW m \in DOMAIN authority.policy.mints
  PROVE  LET from == {a \in Accounts : spendable(accounts[a]) /\ accounts[a].mint = m}
             loss == MapThenSumSet(LAMBDA a : account_spent(Holding, Holding', a), from)
         IN  spent_of(cap_of(m))' = spent_of(cap_of(m)) + loss
<1> DEFINE p == authority.policy
           from == {a \in Accounts : spendable(accounts[a]) /\ accounts[a].mint = m}
           loss == MapThenSumSet(LAMBDA a : account_spent(Holding, Holding', a), from)
<1>1. PICK rem \in Seq(Accounts) : \E out :
             /\ out.lamports = lamports' /\ out.accounts = accounts'
             /\ charge_accepted(p, rem, Holding, out, clock)
             /\ authority'.policy = charge_policy_deltas(p, rem, Holding, out, clock)
             /\ authority.present /\ authority'.present /\ clock' = clock
             /\ \A a \in Accounts : (\A i \in DOMAIN rem : rem[i] # a) => accounts'[a] = accounts[a]
  BY PolicyStepCharge
<1>2. PICK out :
             /\ out.lamports = lamports' /\ out.accounts = accounts'
             /\ charge_accepted(p, rem, Holding, out, clock)
             /\ authority'.policy = charge_policy_deltas(p, rem, Holding, out, clock)
             /\ authority.present /\ authority'.present /\ clock' = clock
             /\ \A a \in Accounts : (\A i \in DOMAIN rem : rem[i] # a) => accounts'[a] = accounts[a]
  BY <1>1
<1> DEFINE n == mint_spent(p, rem, Holding, out, m)
<1>3. accounts \in [Accounts -> AccountStates] /\ accounts' \in [Accounts -> AccountStates]
  BY DEF IInv, TypeOK
<1>4. Holding.accounts = accounts /\ Holding'.accounts = accounts'
  BY DEF Holding
<1>5. loss = Total(lost_amount(accounts, accounts', m), Accounts)
  <2>1. MapThenSumSet(LAMBDA a : account_spent(Holding, Holding', a),
            {a \in Accounts : spendable(Holding.accounts[a]) /\ Holding.accounts[a].mint = m})
          = Total(lost_amount(Holding.accounts, Holding'.accounts, m), Accounts)
    BY <1>3, <1>4, LossTotal
  <2> QED  BY <1>4, <2>1
<1>6. n = Total(lost_amount(accounts, accounts', m), Accounts)
  <2>1. /\ Holding.accounts \in [Accounts -> AccountStates]
        /\ out.accounts \in [Accounts -> AccountStates]
        /\ \A a \in Accounts : (\A i \in DOMAIN rem : rem[i] # a) => out.accounts[a] = Holding.accounts[a]
    BY <1>2, <1>3, <1>4
  <2>2. mint_spent(p, rem, Holding, out, m) = Total(lost_amount(Holding.accounts, out.accounts, m), Accounts)
    BY <2>1, MintSpentTotal
  <2> QED  BY <1>2, <1>4, <2>2
<1>7. n \in Nat /\ can_charge(p.mints[m], n, clock)
  BY <1>2, MaxU64Assumption DEF charge_accepted, U64
<1> HIDE DEF n, loss
<1>8. m # WSOL
  BY <1>2, PresentAuthority DEF policy_ok
<1>9. cap_of(m) = p.mints[m] /\ cap_of(m)' = charge_cap(p.mints[m], n, clock)
  <2>1. authority'.policy.mints
          = [k \in DOMAIN p.mints |-> charge_cap(p.mints[k], mint_spent(p, rem, Holding, out, k), clock)]
    BY <1>2 DEF charge_policy_deltas
  <2>2. m \in DOMAIN authority'.policy.mints
        /\ authority'.policy.mints[m] = charge_cap(p.mints[m], n, clock)
    BY <2>1 DEF n
  <2> QED  BY <1>2, <1>8, <2>2 DEF cap_of
<1> HIDE DEF p
<1>10. spent_at(charge_cap(p.mints[m], n, clock), clock) = spent_at(p.mints[m], clock) + n
  <2>1. p.mints[m] \in SpendCap /\ cap_sound(p.mints[m], clock) /\ clock \in Nat
    BY <1>9, CapOfSound
  <2> QED  BY <1>7, <2>1, ChargeSpends
<1>11. spent_of(cap_of(m))' = spent_of(cap_of(m)) + loss
  BY <1>2, <1>5, <1>6, <1>9, <1>10, SpentAtClock
<1> QED  BY <1>11 DEF loss

\* An execution is charged exactly what it cost.
THEOREM AlwaysChargedExactly == Spec => ChargedExactly
<1>1. IInv /\ [Next]_vars => SolCharged
  BY NextIInv, NextSolCharged DEF SolCharged
<1>2. IInv /\ [Next]_vars => TokenCharged
  BY NextIInv, NextTokenCharged DEF TokenCharged
<1>3. IInv /\ [Next]_vars => [SolCharged]_vars /\ [TokenCharged]_vars
  BY <1>1, <1>2
<1> QED
  BY <1>3, Invariance, PTL
  DEF Spec, ChargedExactly, SolChargedExactly, TokenChargedExactly, SolCharged, TokenCharged

=============================================================================
