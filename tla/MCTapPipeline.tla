--------------------------- MODULE MCTapPipeline ---------------------------
(***************************************************************************)
(* Bodies of one call with up to two accounts or two calls with one, over  *)
(* the wallet, the fee payer, the owner, the accessory and a stranger;     *)
(* bytes are bits.                                                         *)
(***************************************************************************)
EXTENDS TapPipeline

CONSTANTS w, tk, au, owner, f, x, p1, p2, self, ptok

MCAddresses == {w, tk, au, owner, f, x, p1, p2, self, ptok}
MCSizes == [permission |-> 2, rule |-> 2, account |-> 2, constraint |-> 1]
MCOwnerOf == [a \in MCAddresses |-> IF a = w THEN p1 ELSE p2]
MCDataOf == [a \in MCAddresses |-> IF a = x THEN <<1, 0>> ELSE <<>>]

Call(p, accounts, data) == [program |-> p, accounts |-> accounts, data |-> data]
Memo(accounts) == [program |-> x, accounts |-> accounts, data |-> <<>>]

RolesOf(payer, S) ==
    {[a \in MCAddresses |-> IF a = payer THEN Privileges
                            ELSE IF a \in S THEN r[a] ELSE {}] : r \in [S -> Role]}

MessagesOver(payer, body, memos) ==
    LET S == UNION {Range(body[i].accounts) : i \in DOMAIN body}
             \cup UNION {Range(memos[i].accounts) : i \in DOMAIN memos}
    IN  {[payer |-> payer, body |-> body, memos |-> memos, roles |-> r] : r \in RolesOf(payer, S)}

Bodies ==
    {<<>>, <<Call(self, <<w>>, <<1>>)>>, <<Call(p1, <<tk>>, <<1>>)>>}
        \cup {<<Call(p1, <<a, b>>, <<1, 1, 0>>)>> : a \in {w, owner}, b \in {f, x}}
        \cup {<<Call(p1, <<a>>, <<1, 0>>), Call(p, <<b>>, <<0, 1>>)>> :
                  a \in {w, x}, b \in {f, x}, p \in {p1, p2}}

MCMessages ==
    UNION {MessagesOver(w, b, <<>>) : b \in Bodies}
        \cup UNION {MessagesOver(x, b, <<>>) : b \in {<<Call(p1, <<w, x>>, <<1>>)>>,
                                                      <<Call(p2, <<f, p1>>, <<1, 0, 1>>)>>}}
        \cup UNION {MessagesOver(w, <<Call(p1, <<x>>, <<1>>)>>, <<Memo(<<a>>)>>) : a \in {w, x}}

-----------------------------------------------------------------------------

Rule(selector, length, count, accounts, arguments) ==
    [selector |-> selector, data_length |-> length, account_count |-> count,
     accounts |-> accounts, arguments |-> arguments]
Account(index, key, signer, writable, data) ==
    [index |-> index, key |-> key, owner |-> IF data = <<>> THEN {} ELSE {p2},
     is_signer |-> signer, is_writable |-> writable, data |-> data]
Only(p, rules) == [program_id |-> p, access |-> Restricted(rules)]

MCPolicies ==
    {<<>>,
     <<[program_id |-> p1, access |-> AllInstructions], [program_id |-> p2, access |-> Denied]>>,
     \* the wallet first; one number of two bits
     <<Only(p1, <<Rule(<<1>>, {}, {},
            <<Account(0, "wallet", {TRUE}, {TRUE}, <<>>)>>,
            <<Constraint(0, Unsigned(2, "LessThanOrEqual", 2))>>)>>)>>,
     \* two accounts, the second a signer; an exact length
     <<Only(p1, <<Rule(<<1>>, {3}, {2},
            <<Account(1, "any", {TRUE}, {}, <<>>)>>,
            <<Constraint(1, Bytes(<<1, 0>>))>>),
            Rule(<<1, 0>>, {2}, {}, <<>>, <<Constraint(0, Unsigned(2, "Equal", 1))>>)>>)>>,
     \* the data of an account
     <<Only(p1, <<Rule(<<1>>, {}, {},
            <<Account(0, x, {}, {}, <<Constraint(0, Bytes(<<1, 0>>))>>)>>, <<>>)>>)>>,
     \* as much as fits, and a byte more
     <<Only(p1, <<Rule(<<1>>, {}, {},
            <<Account(0, x, {}, {}, <<Constraint(0, Bytes(<<1, 0>>)), Constraint(1, Bytes(<<0, 0>>))>>)>>,
            <<Constraint(0, Bytes(<<1, 1>>))>>)>>)>>,
     <<Only(p1, <<Rule(<<1, 1>>, {}, {},
            <<Account(0, x, {}, {}, <<Constraint(0, Bytes(<<1, 0>>)), Constraint(1, Bytes(<<0, 0>>))>>)>>,
            <<Constraint(0, Bytes(<<1, 1>>))>>)>>)>>,
     \* refused: an argument that ends beyond the length, a protected program
     <<Only(p1, <<Rule(<<1>>, {2}, {}, <<>>, <<Constraint(1, Unsigned(2, "Equal", 1))>>)>>)>>,
     <<[program_id |-> self, access |-> AllInstructions]>>}
=============================================================================
