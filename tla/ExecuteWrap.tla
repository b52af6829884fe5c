----------------------------- MODULE ExecuteWrap -----------------------------
(***************************************************************************)
(* How a transaction of an application becomes one tap of the accessory    *)
(* (compile.ts, wrap-transaction.ts, challenges.ts) and how the program    *)
(* takes it apart again (compact.rs).                                      *)
(*                                                                         *)
(* A message is [payer, body, memos, roles]: the instructions that are     *)
(* wrapped and the memos that are not, as [program, accounts, data] with   *)
(* addresses for accounts, and the role of each address, which a compiled  *)
(* message has once for all its instructions.  A role is a set of          *)
(* privileges.  A hash is what is hashed.                                  *)
(***************************************************************************)
EXTENDS InstructionPolicy

CONSTANTS
    Addresses,       \* accounts and programs
    Wallet, Token, AuthorityAccount,
    Authority,       \* the key of the owner
    FeePayer,        \* the configured fee payer
    Self, PhygitalToken,
    OwnerOf,         \* the program that owns an account
    DataOf           \* the bytes of an account

Privileges == {"signer", "writable"}
Role == SUBSET Privileges

ASSUME WrapAssumption ==
    /\ {Wallet, Token, AuthorityAccount, Authority, FeePayer, Self, PhygitalToken}
           \subseteq Addresses
    /\ FeePayer # Wallet
    /\ Refused = {Self, PhygitalToken}

Meta(a, role) == [address |-> a, role |-> role]

DENIED_PROGRAMS == {Self, PhygitalToken}

-----------------------------------------------------------------------------
(* compileWalletInstructions *)

index_of(remaining, a) == CHOOSE i \in DOMAIN remaining : remaining[i].address = a
listed(remaining, a) == \E i \in DOMAIN remaining : remaining[i].address = a

(* getOrInsertRemainingAccount: an address is listed once, with the roles  *)
(* of all its mentions.                                                    *)
insert(remaining, meta) ==
    IF listed(remaining, meta.address)
    THEN [remaining EXCEPT ![index_of(remaining, meta.address)].role = @ \cup meta.role]
    ELSE Append(remaining, meta)

(* downgradeWalletSignerRole: the program signs for the wallet. *)
downgrade(a, role) == IF a = Wallet THEN role \ {"signer"} ELSE role

(* What an instruction mentions, its program first. *)
mentions(m, ix) ==
    <<Meta(ix.program, {})>>
    \o [i \in DOMAIN ix.accounts |->
           Meta(ix.accounts[i], downgrade(ix.accounts[i], m.roles[ix.accounts[i]]))]

all_mentions(m) == FlattenSeq([i \in DOMAIN m.body |-> mentions(m, m.body[i])])

remaining_accounts(m) == FoldLeft(insert, <<>>, all_mentions(m))

(* elevateRemainingForExecuteChallenge *)
elevate(remaining, writable, signers) ==
    [i \in DOMAIN remaining |->
        Meta(remaining[i].address,
             remaining[i].role
             \cup (IF remaining[i].address \in writable THEN {"writable"} ELSE {})
             \cup (IF remaining[i].address \in signers THEN {"signer"} ELSE {}))]

(* Mutant of compact: accounts are numbered within their instruction. *)
compact_locally(remaining, ix) ==
    [program |-> index_of(remaining, ix.program) - 1,
     indexes |-> [i \in DOMAIN ix.accounts |-> i],
     data    |-> ix.data]

compact(remaining, ix) ==
    [program |-> index_of(remaining, ix.program) - 1,
     indexes |-> [i \in DOMAIN ix.accounts |-> index_of(remaining, ix.accounts[i]) - 1],
     data    |-> ix.data]

can_compile(m) ==
    /\ m.body # <<>>
    /\ \A i \in DOMAIN m.body : m.body[i].program \notin DENIED_PROGRAMS

(* Mutant of elevateForExecuteAccounts: only what the body itself says. *)
elevated_for_wallet(remaining) == elevate(remaining, {Wallet}, {})

elevateForExecuteAccounts(remaining) ==
    elevate(remaining, {Wallet, Token, AuthorityAccount}, {FeePayer})

compileWalletInstructions(m) ==
    LET remaining == elevateForExecuteAccounts(elevate(remaining_accounts(m), {Wallet}, {}))
    IN  [remaining |-> remaining,
         compact   |-> [i \in DOMAIN m.body |-> compact(remaining, m.body[i])]]

-----------------------------------------------------------------------------
(* The challenge, as the client and as the program hash it. *)

referenced(remaining, ixs) ==
    FlattenSeq([i \in DOMAIN ixs |->
        <<remaining[ixs[i].program + 1]>>
        \o [k \in DOMAIN ixs[i].indexes |-> remaining[ixs[i].indexes[k] + 1]]])

hash_execute_challenge(slot, ixs, remaining) ==
    [slot |-> slot, instructions |-> ixs, accounts |-> referenced(remaining, ixs)]

-----------------------------------------------------------------------------
(* The outer transactions, and the privileges the runtime gives. *)

payer_of(m) == IF m.payer = Wallet THEN FeePayer ELSE m.payer

(* named: the roles of the accounts an instruction names itself. *)
execute_names ==
    [a \in Addresses |->
        IF a \in {Token, Wallet, AuthorityAccount} THEN {"writable"} ELSE {}]

preview_names ==
    [a \in Addresses |->
        CASE a = Authority -> {"signer"}
          [] a \in {Wallet, AuthorityAccount} -> {"writable"}
          [] OTHER -> {}]

memo_accounts(m) == UNION {Range(m.memos[i].accounts) : i \in DOMAIN m.memos}

(* The roles of one address in the whole outer message. *)
runtime_role(m, remaining, named, a) ==
    named[a]
    \cup (UNION {remaining[i].role : i \in {k \in DOMAIN remaining : remaining[k].address = a}})
    \cup (IF a \in memo_accounts(m) THEN m.roles[a] ELSE {})
    \cup (IF a = payer_of(m) THEN Privileges ELSE {})

(* The remaining accounts as the program sees them. *)
account_infos(m, remaining, named) ==
    [i \in DOMAIN remaining |->
        LET a == remaining[i].address
        IN  [address |-> a, role |-> runtime_role(m, remaining, named, a),
             owner |-> OwnerOf[a], data |-> DataOf[a]]]

challenge_seen(slot, ixs, infos) ==
    hash_execute_challenge(slot, ixs,
        [i \in DOMAIN infos |-> Meta(infos[i].address, infos[i].role)])

-----------------------------------------------------------------------------
(* execute_compact_instructions *)

Protected == {Token, AuthorityAccount}

(* The program signs for the wallet in every call. *)
inner_role(info) == IF info.address = Wallet THEN info.role \cup {"signer"} ELSE info.role

inner_call(ix, infos) ==
    [program  |-> infos[ix.program + 1].address,
     accounts |-> [k \in DOMAIN ix.indexes |->
                      Meta(infos[ix.indexes[k] + 1].address,
                           inner_role(infos[ix.indexes[k] + 1]))],
     data     |-> ix.data]

(* permissions: None for no policy, Some(empty) for the baseline alone.    *)
call_allowed(ix, infos, permissions) ==
    LET program == infos[ix.program + 1].address
    IN  /\ program \notin {Self, PhygitalToken}
        /\ \A p \in permissions : check_instruction(p, program, ix, infos, Wallet)
        /\ \A k \in DOMAIN ix.indexes :
               LET info == infos[ix.indexes[k] + 1]
               IN  info.address \in Protected => info.role = {}

calls_allowed(ixs, infos, permissions) ==
    \A i \in DOMAIN ixs : call_allowed(ixs[i], infos, permissions)

inner_calls(ixs, infos) == [i \in DOMAIN ixs |-> inner_call(ixs[i], infos)]
=============================================================================
