----------------------------- MODULE TapPipeline -----------------------------
(***************************************************************************)
(* One signature by tapping (modifyAndWrapWalletTransaction), from the     *)
(* message of an application to its execution by the program, while slots  *)
(* pass, the owner changes the policy and the application may abort.       *)
(*                                                                         *)
(* An action is what happens between two awaits.  The three requests the   *)
(* preview makes at once are answered in any order; the fees they also ask *)
(* for change no decision and are left out.                                *)
(***************************************************************************)
EXTENDS ExecuteWrap, SlotHash

CONSTANTS
    Messages,   \* messages the application may ask to sign
    Policies,   \* permissions the owner may try to save
    KeepSlots,  \* entries of the SlotHashes sysvar, 512 on the chain
    MaxSlot     \* bound: the last slot of a run

ASSUME PipelineAssumption == KeepSlots \in Nat \ {0} /\ MaxSlot \in Nat \ {0}

Byte == 0 .. Base - 1
Instruction == [program : Addresses, accounts : Seq(Addresses), data : Seq(Byte)]

\* Whoever pays signs and is charged, and is neither wallet nor fee payer called
\* as a program: a program has no key, and none that is called may be written to.
ASSUME MessagesAssumption ==
    \A m \in Messages :
        /\ m \in [payer : Addresses, body : Seq(Instruction), memos : Seq(Instruction),
                  roles : [Addresses -> Role]]
        /\ m.roles[m.payer] = Privileges
        /\ \A i \in DOMAIN m.body :
               m.body[i].program # FeePayer /\ m.roles[m.body[i].program] = {}

(* Permissions as Borsh decodes them, whatever they say.                   *)

Comparisons ==
    {"Equal", "NotEqual", "LessThan", "LessThanOrEqual", "GreaterThan", "GreaterThanOrEqual"}

DataConstraint ==
    [offset : Nat,
     predicate : [kind : {"BytesEqual"}, bytes : Seq(Byte)]
                 \cup [kind : {"Unsigned"}, width : Nat, comparison : Comparisons, value : Nat]]

AccountConstraint ==
    [index : Nat, key : {"any", "wallet"} \cup Addresses, owner : SUBSET Addresses,
     is_signer : SUBSET BOOLEAN, is_writable : SUBSET BOOLEAN, data : Seq(DataConstraint)]

InstructionRule ==
    [selector : Seq(Byte), data_length : SUBSET Nat, account_count : SUBSET Nat,
     accounts : Seq(AccountConstraint), arguments : Seq(DataConstraint)]

ProgramAccess ==
    [kind : {"Restricted"}, rules : Seq(InstructionRule)] \cup {Denied, AllInstructions}

ProgramPermission == [program_id : Addresses, access : ProgramAccess]

ASSUME PoliciesAssumption == Policies \subseteq Seq(ProgramPermission)

VARIABLES
    slots,      \* the SlotHashes sysvar
    policy,     \* the permissions of the wallet, an Option
    message,    \* what is to be signed
    phase,      \* where the pipeline is
    aborted,    \* the application has aborted
    previewed,  \* the policy preview has succeeded
    wrap,       \* the compiled message, [remaining, compact]
    slot,       \* the slot the challenge is tied to, NoHash before it is fetched
    challenge,  \* what the accessory signs, an Option
    why,        \* why the pipeline or the program refused
    invoked     \* what the program has called

outside == <<slots, policy>>
local == <<wrap, slot, challenge, previewed>>
vars == <<outside, message, phase, aborted, local, why, invoked>>

NoWrap == [remaining |-> <<>>, compact |-> <<>>]

Phases == {"new", "fetching", "passkey", "building", "paying", "signed", "landed", "failed"}
Reasons == {"none", "refused", "denied", "network", "aborted", "slot", "challenge", "policy"}

Init ==
    /\ slots = <<1>>
    /\ policy \in {{}} \cup {{p} : p \in {q \in Policies : validate_permissions(q)}}
    /\ message \in Messages
    /\ phase = "new"
    /\ aborted = FALSE
    /\ previewed = FALSE
    /\ wrap = NoWrap
    /\ slot = NoHash
    /\ challenge = {}
    /\ why = "none"
    /\ invoked = <<>>

Fails(reason) ==
    /\ phase' = "failed"
    /\ why' = reason
    /\ UNCHANGED local

Continues(p) == phase' = p /\ UNCHANGED why

-----------------------------------------------------------------------------
(* What the program makes of a transaction. *)

infos(named) == account_infos(message, wrap.remaining, named)

execute_allowed == calls_allowed(wrap.compact, infos(execute_names), policy)
preview_allowed == calls_allowed(wrap.compact, infos(preview_names), policy)

Executes == "none"
execute_result ==
    CASE fetch_slot_hash(slots, slot) = NoHash -> "slot"
      [] challenge # {challenge_seen(slot, wrap.compact, infos(execute_names))} -> "challenge"
      [] ~execute_allowed -> "policy"
      [] OTHER -> Executes

-----------------------------------------------------------------------------
(* The pipeline. *)

Prepare ==
    /\ phase = "new"
    /\ \/ /\ can_compile(message)
          /\ wrap' = compileWalletInstructions(message)
          /\ Continues("fetching")
          /\ UNCHANGED <<slot, challenge, previewed>>
       \/ /\ ~can_compile(message)
          /\ Fails("refused")

Preview ==
    /\ phase = "fetching" /\ ~previewed
    /\ \/ /\ preview_allowed
          /\ previewed' = TRUE
          /\ Continues("fetching")
          /\ UNCHANGED <<wrap, slot, challenge>>
       \/ /\ ~preview_allowed
          /\ Fails("denied")

FetchSlot ==
    /\ phase = "fetching" /\ slot = NoHash
    /\ \/ /\ slot' = Head(slots)
          /\ Continues("fetching")
          /\ UNCHANGED <<wrap, challenge, previewed>>
       \/ Fails("network")

(* Everything is there: ask for the tap. *)
Prompt ==
    /\ phase = "fetching" /\ previewed /\ slot # NoHash
    /\ \/ /\ ~aborted
          /\ challenge' = {hash_execute_challenge(slot, wrap.compact, wrap.remaining)}
          /\ Continues("passkey")
          /\ UNCHANGED <<wrap, slot, previewed>>
       \/ aborted /\ Fails("aborted")

Tapped ==
    /\ phase = "passkey"
    /\ \/ Continues("building") /\ UNCHANGED local
       \/ Fails("network")

(* The limits are estimated by simulating the real transaction. *)
Build ==
    /\ phase = "building"
    /\ \/ /\ execute_result = Executes /\ ~aborted
          /\ Continues("paying")
          /\ UNCHANGED local
       \/ execute_result # Executes /\ Fails(execute_result)
       \/ aborted /\ Fails("aborted")

Pay ==
    /\ phase = "paying"
    /\ \/ Continues("signed") /\ UNCHANGED local
       \/ Fails("network")
       \/ aborted /\ Fails("aborted")

Lands ==
    /\ phase = "signed"
    /\ \/ /\ execute_result = Executes
          /\ invoked' = inner_calls(wrap.compact, infos(execute_names))
          /\ Continues("landed")
          /\ UNCHANGED local
       \/ /\ execute_result # Executes
          /\ Fails(execute_result)
          /\ UNCHANGED invoked

PipelineStep ==
    /\ \/ (Prepare \/ Preview \/ FetchSlot \/ Prompt \/ Tapped \/ Build \/ Pay)
          /\ UNCHANGED invoked
       \/ Lands
    /\ UNCHANGED <<outside, message, aborted>>

-----------------------------------------------------------------------------
(* The chain, the owner and the application. *)

running == phase \notin {"landed", "failed"}

(* The next block, or the one after a slot without a block. *)
Produce ==
    /\ running
    /\ \E n \in {1, 2} :
           /\ Head(slots) + n <= MaxSlot
           /\ slots' = SubSeq(<<Head(slots) + n>> \o slots, 1, Min({KeepSlots, Len(slots) + 1}))
    /\ UNCHANGED <<policy, message, phase, aborted, local, why, invoked>>

SavePolicy(p) ==
    /\ running
    /\ validate_permissions(p)
    /\ policy' = {p}
    /\ UNCHANGED <<slots, message, phase, aborted, local, why, invoked>>

Abort ==
    /\ running /\ ~aborted
    /\ aborted' = TRUE
    /\ UNCHANGED <<outside, message, phase, local, why, invoked>>

Next == PipelineStep \/ Produce \/ Abort \/ \E p \in Policies : SavePolicy(p)

Spec == Init /\ [][Next]_vars

-----------------------------------------------------------------------------
(* Properties *)

asks(ix, a) == a \in Range(ix.accounts)
mentioned(a) == \E i \in DOMAIN message.body : asks(message.body[i], a)

(* The wallet was to pay, the configured fee payer takes its place, and    *)
(* the body reads the account of that fee payer: the runtime marks it      *)
(* writable, elevateForExecuteAccounts hashes it without.                  *)
PayerReadOnly ==
    /\ message.payer = Wallet
    /\ mentioned(FeePayer)
    /\ "writable" \notin message.roles[FeePayer]

(* A memo that the wallet is to sign: nobody can. *)
WalletSignsMemo ==
    /\ Wallet \in memo_accounts(message)
    /\ "signer" \in message.roles[Wallet]

(* The accessory signs the challenge the program computes: the accounts    *)
(* and privileges hashed before the tap are those of the transaction built *)
(* after it (elevateForExecuteAccounts against AccountInfo flags).         *)
ChallengeMatches ==
    why = "challenge" => PayerReadOnly \/ WalletSignsMemo

(* The program calls exactly what the application asked for, in that       *)
(* order, with the same accounts and data; the wallet signs every call,    *)
(* and nobody but the wallet and the fee payer has another privilege than  *)
(* the application asked for.                                              *)
CallsAsAsked ==
    phase = "landed" =>
        /\ Len(invoked) = Len(message.body)
        /\ \A i \in DOMAIN invoked :
               LET call == invoked[i]
                   ix   == message.body[i]
               IN  /\ call.program = ix.program
                   /\ call.data = ix.data
                   /\ [k \in DOMAIN call.accounts |-> call.accounts[k].address] = ix.accounts
                   /\ \A k \in DOMAIN call.accounts :
                          LET meta == call.accounts[k]
                          IN  CASE meta.address = Wallet -> "signer" \in meta.role
                                [] meta.address = FeePayer -> message.roles[FeePayer] \subseteq meta.role
                                [] OTHER -> meta.role = message.roles[meta.address]

(* A signature by tapping is for what was asked: the challenge that is     *)
(* tapped is the one the program computes, and the program calls what the  *)
(* application's message called, with the accounts it named.               *)
TapsAsAsked == ChallengeMatches /\ CallsAsAsked

(* The preview, which simulates another instruction with the authority for *)
(* a signer, decides as the tap will under the same policy, unless the     *)
(* body mentions the authority itself.                                     *)
PreviewAgrees ==
    wrap # NoWrap /\ ~mentioned(Authority) =>
        (preview_allowed <=> execute_allowed)

(* The binary search finds a slot exactly when the sysvar still lists it,  *)
(* with and without skipped slots.                                         *)
SearchFinds ==
    \A n \in 0..(MaxSlot + 1) : fetch_slot_hash(slots, n) = (IF n \in Range(slots) THEN n ELSE NoHash)

rules_of(p) ==
    UNION {Range(p[i].access.rules) : i \in DOMAIN p}

(* Matching a constraint against data is finding the bytes, or a number    *)
(* written little-endian, at that place: never beyond the end.             *)
ConstraintsMean ==
    \A p \in policy : \A rule \in rules_of(p), i \in DOMAIN message.body :
        \A c \in Range(rule.arguments) :
            data_matches(c, message.body[i].data) <=> ConstraintMeans(c, message.body[i].data)

(* Permissions that could be saved can be used: every later tap can read   *)
(* them, for saving and decoding count the same memory (heap_bytes,        *)
(* budget), and no constraint of a rule that fixes the length of the data  *)
(* can fail because the data is too short (validate_permissions).          *)
SavedIsUsable ==
    \A p \in policy :
        /\ decode_permissions(p)
        /\ \A rule \in rules_of(p), i \in DOMAIN message.body :
               rule.data_length = {Len(message.body[i].data)} =>
                   \A c \in Range(rule.arguments) :
                       c.predicate.kind = "Unsigned" =>
                           \E n \in 0..(powers(Base)[c.predicate.width] - 1) :
                               data_matches(Constraint(c.offset, Unsigned(c.predicate.width, "Equal", n)),
                                            message.body[i].data)

(* A saved policy means what it says and stays usable.                     *)
PoliciesHold == ConstraintsMean /\ SavedIsUsable
=============================================================================
