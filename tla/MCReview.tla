------------------------------ MODULE MCReview ------------------------------
(***************************************************************************)
(* Transactions of up to two instructions, and spends of up to four calls: *)
(* one call of every kind, and whole, short and strange data for each.     *)
(***************************************************************************)
EXTENDS TransactionReview

MCOwners == {"mine", "other"}
ReviewPrograms == {"System", "Token", "Token-2022", "Memo", "ATA", "Metadata", "Core", "Bubblegum", "dex"}

\* Two accounts look the same once they are shortened.
MCEnds ==
    [a \in MCOwners \cup ReviewPrograms \cup {"wallet", "dest", "dust", "usdc", "art"} |->
        IF a \in {"dest", "dust"} THEN "de...st" ELSE a]

MCKnownMints == [m \in {"usdc"} |-> [decimals |-> 2, symbol |-> "USDC"]]

Data(disc, len, amount) == [disc |-> disc, len |-> len, amount |-> amount, decimals |-> 3, text |-> "hello"]

\* The accounts of a spend: its program first, then where its calls find what
\* they need.
RemainingOf(program) == <<program, "wallet", "usdc", "dest", "art", "dust">>

Calls1 ==
    {<<2, 4>>, <<2>>} \X {Data(2, 12, 105), Data(2, 11, 105)}
        \cup {<<2, 3, 4>>, <<2, 5, 6>>, <<2, 5>>, <<>>} \X {Data(12, 10, 1050), Data(3, 9, 7), Data(12, 8, 7), Data(1, 1, 0)}
        \cup {<<>>} \X {[Data(0, 7, 0) EXCEPT !.text = "unknown"]}
        \cup {<<9>>} \X {Data(2, 12, 105)}

CallOf(c) == [program |-> 1, accounts |-> c[1], data |-> c[2]]

NoPolicy == [sol |-> <<>>, mints |-> <<>>, programs |-> <<>>]
CapOf(m, n, w) == [mint |-> m, cap |-> n, window |-> w]
ReviewPolicies ==
    {NoPolicy,
     [sol |-> <<[cap |-> 1050, window |-> 2]>>, mints |-> <<CapOf("usdc", 5, 0)>>, programs |-> <<>>],
     [sol |-> <<>>, mints |-> <<CapOf("usdc", 50, 14), CapOf("art", 50, 3)>>,
      programs |-> <<[program |-> "Token", access |-> "Denied"], [program |-> "dex", access |-> "2 rules"]>>]}

Ix(kind, owner, inner, program, policy) ==
    [program |-> "phygital-wallet", kind |-> kind, authority |-> owner,
     remaining |-> RemainingOf(program), inner |-> inner, policy |-> policy]

Single(kind, inner, program) == Ix(kind, "mine", inner, program, NoPolicy)

OneCall == {Single(k, <<CallOf(c)>>, p) : k \in Spends, c \in Calls1, p \in ReviewPrograms}

SendTo(n) == CallOf(<<<<2, n>>, Data(2, 12, 100 + n)>>)

\* Several calls of one spend; the second place of the accounts may name a
\* program too.
Several ==
    {Single("ExecuteWithAuthority", inner, "System") :
        inner \in {<<>>, <<SendTo(4), SendTo(6)>>, <<SendTo(4), SendTo(6), SendTo(3)>>,
                   <<SendTo(4), CallOf(<<<<>>, Data(0, 7, 0)>>), SendTo(5)>>,
                   <<SendTo(4), SendTo(6), SendTo(3), SendTo(5)>>}}

Whole == {Ix(k, o, <<>>, "System", NoPolicy) :
             k \in {"ClearAuthority", "ClearWalletPolicy", "SetAuthority", "Execute", "unknown"}, o \in MCOwners}
         \cup {Ix("SetWalletPolicy", o, <<>>, "System", p) : o \in MCOwners, p \in ReviewPolicies}
         \cup {Single("ExecuteWithAuthority", <<SendTo(4)>>, "System")}

Wire(ixs, signers, config) == [instructions |-> ixs, signers |-> signers, config |-> config]

MCTransactions ==
    {Wire(<<ix>>, {"mine"}, <<5000>>) : ix \in OneCall \cup Several}
        \cup {Wire(<<ix>>, S, <<>>) : ix \in Whole, S \in SUBSET MCOwners}
        \cup {Wire(<<i, j>>, {"mine", "other"}, <<>>) : i, j \in Whole}
        \cup {Wire(<<>>, {"mine"}, <<>>),
              Wire(<<[Single("Execute", <<>>, "System") EXCEPT !.program = "System"]>>, {"mine"}, <<>>)}
=============================================================================
