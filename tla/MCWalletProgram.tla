--------------------------- MODULE MCWalletProgram ---------------------------
(***************************************************************************)
(* Values of the constants of WalletProgram for model checking.  Each      *)
(* configuration takes the definitions of one section.                     *)
(***************************************************************************)
EXTENDS WalletProgram

CONSTANTS w, wsol, m1, m2, a1, a2, o1, x, payA, payB, sys, self, ptok, s1, s2

MCAccounts1 == {a1}
MCMints     == {wsol, m1, m2}
MCOwners    == {o1}
MCPrograms  == {sys, self, ptok}

PlainBatch  == {[program |-> sys, shape |-> s1, writes_protected |-> FALSE]}

SolCap(cap, window)     == [cap |-> cap, window_seconds |-> window]
MintCap(m, cap, window) == [mint |-> m, cap |-> cap, window_seconds |-> window]
Args(sol, mints)        == [sol_cap |-> sol, mint_caps |-> mints, permissions |-> NoPermissions]

Lent(m, n) == TokenAccount(m, x, n, w, n, NoKey)
Own(m, n) == TokenAccount(m, w, n, NoKey, 0, NoKey)

-----------------------------------------------------------------------------
(* Windows: two windows of different length, time to cross several         *)
(* boundaries of each, and one token account with every owner, approval    *)
(* and close authority, and every way for it to disappear.                 *)

WindowAccounts  ==
    {EmptyAccount, OpaqueAccount, Own(m2, 1)}
        \cup {Own(m1, n) : n \in 0 .. 2}
        \cup {TokenAccount(m1, o, 1, NoKey, 0, c) : o \in {w, x}, c \in {NoKey, w, x}}
        \cup {TokenAccount(m1, w, 0, NoKey, 0, x)}
        \cup {TokenAccount(m1, w, 1, x, n, NoKey) : n \in 0 .. 1}
        \cup {Lent(m1, 1)}
WindowPolicies  ==
    {Args({SolCap(2, 2)}, {MintCap(m1, 2, 3)}),
     Args({SolCap(2, 2)}, {MintCap(m1, 1, 3)}),
     Args({SolCap(2, 3)}, {}),
     Args({}, {MintCap(m1, 2, 0)})}
WindowBatches   == {PlainBatch}
WindowRemaining == {<<a1>>}

-----------------------------------------------------------------------------
(* Metering: two token accounts that may hold wrapped SOL, a capped or an  *)
(* uncapped mint, or belong to another party that approved the wallet; the *)
(* second list names an account twice.                                     *)

MCAccounts2 == {a1, a2}

MeterAccounts  ==
    {EmptyAccount, Lent(m1, 1), Own(m2, 1)} \cup {Own(m, n) : m \in {wsol, m1}, n \in 0 .. 1}
MeterPolicies  ==
    {Args({}, {}),
     Args({SolCap(1, 0)}, {}),
     Args({}, {MintCap(m1, 1, 0)}),
     Args({SolCap(2, 0)}, {MintCap(m1, 2, 0)})}
MeterRemaining == {<<a1, a2>>, <<a1, a2, a1>>}

-----------------------------------------------------------------------------
(* Rent and permissions: no token accounts, two payers, policies of        *)
(* several lengths and policies that are refused, an earlier version.      *)

Deny         == [kind |-> "Denied", rules |-> {}]
AllowAll     == [kind |-> "AllInstructions", rules |-> {}]
Only(S)      == [kind |-> "Restricted", rules |-> S]

MintsOnly(S)      == Args({}, {MintCap(m, 1, 0) : m \in S})
PermitOnly(perms) == [sol_cap |-> {SolCap(1, 0)}, mint_caps |-> {}, permissions |-> perms]

RentPolicies ==
    {MintsOnly({}), MintsOnly({m1}), MintsOnly({m1, m2}),
     PermitOnly([p \in {sys} |-> Only({s1})]),
     PermitOnly([p \in {sys} |-> Only({s1, s2})]),
     PermitOnly([p \in {sys} |-> Deny]),
     \* refused: a SOL cap of nothing, a negative window, WSOL, two caps of a
     \* mint, a protected program, no rules
     Args({SolCap(0, 0)}, {}),
     Args({SolCap(1, -1)}, {}),
     MintsOnly({wsol}),
     Args({}, {MintCap(m1, 1, 0), MintCap(m1, 2, 0)}),
     PermitOnly([p \in {self} |-> AllowAll]),
     PermitOnly([p \in {sys} |-> Only({})])}

RentBatches ==
    {{[program |-> p, shape |-> s, writes_protected |-> b]} :
        p \in MCPrograms, s \in {s1, s2}, b \in BOOLEAN}
NoAccounts    == {}
RentRemaining == {<<>>}

=============================================================================
