-------------------------- MODULE InstructionPolicy --------------------------
(***************************************************************************)
(* Permissions for direct calls of the wallet program                      *)
(* (instruction_policy.rs): which program, which instructions of it, with  *)
(* which accounts and arguments.                                           *)
(*                                                                         *)
(* A byte is a number below Base.  An Option is a set of at most one       *)
(* element.  Encoded policies are measured, not spelled out: what the      *)
(* decoder allocates, and the bound on it.                                 *)
(***************************************************************************)
EXTENDS Integers, SequencesExt, FiniteSetsExt, Powers

CONSTANTS
    Base,            \* 256 in the code
    MaxMatch,        \* MAX_MATCH_BYTES
    MaxConstraints,  \* MAX_RULE_CONSTRAINTS
    MaxRules,        \* MAX_INSTRUCTION_RULES
    MaxPermissions,  \* MAX_PROGRAM_PERMISSIONS
    MaxHeap,         \* MAX_PERMISSION_HEAP_BYTES
    SizeOf,          \* size_of of the four structures that are listed
    Refused,         \* programs no permission may name: this one, phygital-token
    Allowed          \* is_policy_allowed_program

ASSUME PolicyAssumption ==
    /\ Base \in Nat /\ Base > 1
    /\ {MaxMatch, MaxConstraints, MaxRules, MaxPermissions, MaxHeap} \subseteq Nat
    /\ SizeOf \in [{"permission", "rule", "account", "constraint"} -> Nat]

Some(o) == o # {}
Bytes(b) == [kind |-> "BytesEqual", bytes |-> b]
Unsigned(w, c, v) == [kind |-> "Unsigned", width |-> w, comparison |-> c, value |-> v]
Constraint(offset, p) == [offset |-> offset, predicate |-> p]
Denied == [kind |-> "Denied", rules |-> <<>>]
AllInstructions == [kind |-> "AllInstructions", rules |-> <<>>]
Restricted(rules) == [kind |-> "Restricted", rules |-> rules]

-----------------------------------------------------------------------------
(* DataConstraint. *)

width(c) == IF c.predicate.kind = "BytesEqual" THEN Len(c.predicate.bytes)
                                               ELSE c.predicate.width

validate(c) ==
    IF c.predicate.kind = "BytesEqual"
    THEN Len(c.predicate.bytes) \in 1..MaxMatch
    ELSE c.predicate.value < powers(Base)[c.predicate.width]

compare(actual, comparison, value) ==
    CASE comparison = "Equal" -> actual = value
      [] comparison = "NotEqual" -> actual # value
      [] comparison = "LessThan" -> actual < value
      [] comparison = "LessThanOrEqual" -> actual <= value
      [] comparison = "GreaterThan" -> actual > value
      [] comparison = "GreaterThanOrEqual" -> actual >= value

le_value(b) == FoldRight(LAMBDA byte, n : byte + Base * n, b, 0)

(* matches: data too short for the constraint does not match. *)
data_matches(c, data) ==
    LET bytes == SubSeq(data, c.offset + 1, c.offset + width(c))
    IN  /\ c.offset + width(c) <= Len(data)
        /\ IF c.predicate.kind = "BytesEqual"
           THEN bytes = c.predicate.bytes
           ELSE compare(le_value(bytes), c.predicate.comparison, c.predicate.value)

-----------------------------------------------------------------------------
(* Rules.  An instruction is [program, indexes, data], indexes starting at *)
(* zero; an account is [address, role, owner, data].                       *)

key_matches(key, address, wallet) ==
    \/ key \in {"any", address}
    \/ key = "wallet" /\ address = wallet

account_matches(a, ix, remaining, wallet) ==
    /\ a.index < Len(ix.indexes)
    /\ ix.indexes[a.index + 1] < Len(remaining)
    /\ LET account == remaining[ix.indexes[a.index + 1] + 1]
       IN  /\ key_matches(a.key, account.address, wallet)
           /\ a.owner \subseteq {account.owner}
           /\ a.is_signer \subseteq {"signer" \in account.role \/ account.address = wallet}
           /\ a.is_writable \subseteq {"writable" \in account.role}
           /\ \A i \in DOMAIN a.data : data_matches(a.data[i], account.data)

rule_matches(rule, ix, remaining, wallet) ==
    /\ IsPrefix(rule.selector, ix.data)
    /\ rule.data_length \subseteq {Len(ix.data)}
    /\ rule.account_count \subseteq {Len(ix.indexes)}
    /\ \A i \in DOMAIN rule.arguments : data_matches(rule.arguments[i], ix.data)
    /\ \A i \in DOMAIN rule.accounts : account_matches(rule.accounts[i], ix, remaining, wallet)

check_instruction(permissions, program, ix, remaining, wallet) ==
    LET named == {i \in DOMAIN permissions : permissions[i].program_id = program}
    IN  IF named = {} THEN program \in Allowed
        ELSE LET access == permissions[Min(named)].access
             IN  \/ access.kind = "AllInstructions"
                 \/ /\ access.kind = "Restricted"
                    /\ \E i \in DOMAIN access.rules :
                           rule_matches(access.rules[i], ix, remaining, wallet)

-----------------------------------------------------------------------------
(* What may be saved, and what can be read back. *)

total(f(_), seq) == MapThenSumSet(LAMBDA i : f(seq[i]), DOMAIN seq)

match_bytes(c) == IF c.predicate.kind = "BytesEqual" THEN Len(c.predicate.bytes) ELSE 0

list_bytes(item, seq) == SizeOf[item] * Len(seq)

(* Mutant of account_heap: the bytes an account is compared with are free. *)
account_heap_of_list(a) == list_bytes("constraint", a.data)

account_heap(a) == list_bytes("constraint", a.data) + total(match_bytes, a.data)

rule_heap(rule) ==
    Len(rule.selector)
    + list_bytes("account", rule.accounts)
    + list_bytes("constraint", rule.arguments)
    + total(match_bytes, rule.arguments)
    + total(account_heap, rule.accounts)

permission_heap(p) == list_bytes("rule", p.access.rules) + total(rule_heap, p.access.rules)

heap_bytes(permissions) ==
    list_bytes("permission", permissions) + total(permission_heap, permissions)

(* An argument ends within the length the rule demands. *)
argument_fits(c, length) == c.offset + width(c) <= length

validate_rule(rule) ==
    /\ Len(rule.selector) \in 1..MaxMatch
    /\ Len(rule.accounts) <= MaxConstraints
    /\ Len(rule.arguments) <= MaxConstraints
    /\ \A n \in rule.data_length : Len(rule.selector) <= n
    /\ \A i \in DOMAIN rule.arguments :
           /\ validate(rule.arguments[i])
           /\ \A n \in rule.data_length : argument_fits(rule.arguments[i], n)
    /\ \A i \in DOMAIN rule.accounts :
           LET a == rule.accounts[i]
           IN  /\ \A n \in rule.account_count : a.index < n
               /\ Len(a.data) <= MaxConstraints
               /\ a.data = <<>> \/ Some(a.owner)
               /\ \A k \in DOMAIN a.data : validate(a.data[k])

validate_permissions(permissions) ==
    /\ Len(permissions) <= MaxPermissions
    /\ \A i, j \in DOMAIN permissions :
           permissions[i].program_id = permissions[j].program_id => i = j
    /\ \A i \in DOMAIN permissions :
           LET access == permissions[i].access
           IN  /\ permissions[i].program_id \notin Refused
               /\ access.kind = "Restricted" =>
                      /\ Len(access.rules) \in 1..MaxRules
                      /\ \A k \in DOMAIN access.rules : validate_rule(access.rules[k])
    /\ heap_bytes(permissions) <= MaxHeap

(* The lists the decoder allocates, in the order it meets them: each takes *)
(* its share of the budget and has a bound of its own.                     *)
Listed(item, n, max) == [cost |-> n * (IF item = "byte" THEN 1 ELSE SizeOf[item]), fits |-> n <= max]

predicate_lists(c) ==
    IF c.predicate.kind = "BytesEqual"
    THEN <<Listed("byte", Len(c.predicate.bytes), MaxMatch)>> ELSE <<>>

constraint_lists(seq) ==
    <<Listed("constraint", Len(seq), MaxConstraints)>>
    \o FlattenSeq([i \in DOMAIN seq |-> predicate_lists(seq[i])])

rule_lists(rule) ==
    <<Listed("byte", Len(rule.selector), MaxMatch),
      Listed("account", Len(rule.accounts), MaxConstraints)>>
    \o FlattenSeq([i \in DOMAIN rule.accounts |-> constraint_lists(rule.accounts[i].data)])
    \o constraint_lists(rule.arguments)

permission_lists(p) ==
    IF p.access.kind # "Restricted" THEN <<>>
    ELSE <<Listed("rule", Len(p.access.rules), MaxRules)>>
         \o FlattenSeq([i \in DOMAIN p.access.rules |-> rule_lists(p.access.rules[i])])

decode_permissions(permissions) ==
    LET lists == <<Listed("permission", Len(permissions), MaxPermissions)>>
                 \o FlattenSeq([i \in DOMAIN permissions |-> permission_lists(permissions[i])])
    IN  /\ \A i \in DOMAIN lists : lists[i].fits
        /\ total(LAMBDA l : l.cost, lists) <= MaxHeap
        /\ validate_permissions(permissions)

-----------------------------------------------------------------------------
(* What a constraint and a rule mean, said without slices and folds. *)

Encodes(bytes, n) == \A i \in DOMAIN bytes : bytes[i] = (n \div powers(Base)[i - 1]) % Base

At(data, offset, bytes) ==
    \E before, after \in SubSeqs(data) :
        /\ data = before \o bytes \o after
        /\ Len(before) = offset

ConstraintMeans(c, data) ==
    IF c.predicate.kind = "BytesEqual" THEN At(data, c.offset, c.predicate.bytes)
    ELSE \E n \in 0..(powers(Base)[c.predicate.width] - 1),
            bytes \in [1..c.predicate.width -> 0..(Base - 1)] :
             /\ Encodes(bytes, n)
             /\ At(data, c.offset, bytes)
             /\ compare(n, c.predicate.comparison, c.predicate.value)
=============================================================================
