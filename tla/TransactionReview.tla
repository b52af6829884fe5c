-------------------------- MODULE TransactionReview --------------------------
(***************************************************************************)
(* What the secure signer shows of a transaction before it signs: the      *)
(* policy that refuses most transactions, the summary of each instruction, *)
(* the risk, and the rows of the sheet.  The sheet is drawn before the     *)
(* wallet is known when the local storage is empty: the wallet comes back  *)
(* from its backup after the user has agreed, and the policy is evaluated  *)
(* again for it.                                                           *)
(*                                                                         *)
(* A text is a sequence whose first member says what kind of text it is;   *)
(* a row is a label and a text.                                            *)
(***************************************************************************)
EXTENDS Integers, Sequences, SequencesExt, Powers

CONSTANTS
    Owners,          \* the wallets
    Ends,            \* what an address looks like once shortened
    KnownMints,      \* KNOWN_MINT_META, a function of some mints
    SolDecimals,
    Day,             \* windows are in days, or parts of one
    Transactions     \* the transactions an app may send

Addresses == DOMAIN Ends

ASSUME ReviewAssumption ==
    /\ SolDecimals \in Nat
    /\ Day \in Nat \ {0}
    /\ {"none", "?"} \cap (Owners \cup Addresses) = {}
    /\ \A m \in DOMAIN KnownMints : KnownMints[m].decimals \in Nat

(* A transaction as it is decoded, whatever it says. *)

InnerCall ==
    [program : Nat, accounts : Seq(Nat),
     data : [disc : Nat, len : Nat, amount : Nat, decimals : Nat, text : STRING]]

PolicyArgs ==
    [sol : Seq([cap : Nat, window : Nat]),
     mints : Seq([mint : Addresses, cap : Nat, window : Nat]),
     programs : Seq([program : Addresses, access : STRING])]

Decoded ==
    [program : STRING, kind : STRING, authority : Addresses, remaining : Seq(Addresses),
     inner : Seq(InnerCall), policy : PolicyArgs]

ASSUME TransactionsAssumption ==
    Transactions \subseteq
        [instructions : Seq(Decoded), signers : SUBSET Addresses, config : Seq(Nat)]

VARIABLES
    tx,       \* the transaction
    asked,    \* "new", "shown", "agreed", "signed" or "refused"
    sheet,    \* what is on the screen
    signer    \* the wallet whose seed is at hand, "none" before

review == <<tx, asked, sheet, signer>>

Line(label, value) == [label |-> label, nr |-> 0, value |-> value]

(* The row about one of several says which. *)
LineOf(label, n, all, value) ==
    [label |-> label, nr |-> IF Len(all) = 1 THEN 0 ELSE n, value |-> value]

first_of(seq, Test(_)) ==
    LET n == SelectInSeq(seq, Test) IN IF n = 0 THEN <<>> ELSE <<seq[n]>>

(* The members of seq at the places of a set. *)
picked(seq, places) ==
    FlattenSeq([n \in DOMAIN seq |-> IF n \in places THEN <<seq[n]>> ELSE <<>>])

labelled(rows, labels) == picked(rows, {n \in DOMAIN rows : rows[n].label \in labels})

-----------------------------------------------------------------------------
(* Amounts and windows. *)

(* The n-th digit after the point of raw units, of so many decimals. *)
digit(raw, decimals, n) == (raw \div pow10[decimals - n]) % 10

(* Without the zeros at its end. *)
trimmed(frac) ==
    LET kept == {n \in DOMAIN frac : \E k \in n .. Len(frac) : frac[k] # 0}
    IN  [n \in kept |-> frac[n]]

(* Mutant of fraction: the zeros before the first digit are not padded. *)
unpadded(raw, decimals) ==
    SelectSeq([n \in 1 .. decimals |-> digit(raw, decimals, n)], LAMBDA d : d # 0)

fraction(raw, decimals) == trimmed([n \in 1 .. decimals |-> digit(raw, decimals, n)])

formatUnits(raw, decimals) == <<"units", raw \div pow10[decimals], fraction(raw, decimals)>>

(* Decimals that are not known (a hint of 0) print the raw units. *)
formatTokenAmount(raw, mint, hint) ==
    IF mint \in DOMAIN KnownMints
    THEN formatUnits(raw, KnownMints[mint].decimals) \o <<KnownMints[mint].symbol>>
    ELSE formatUnits(raw, hint) \o <<"mint", Ends[mint]>>

windowPhrase(w) ==
    CASE w = 0        -> <<"lifetime">>
      [] w = 7 * Day  -> <<"every", "week">>
      [] w = 30 * Day -> <<"every", "month">>
      [] w % Day = 0 /\ w \notin {0, 7 * Day, 30 * Day} -> <<"days", w \div Day>>
      [] OTHER        -> <<"seconds", w>>

-----------------------------------------------------------------------------
(* One call inside a spend.  Its data begin with the number of the         *)
(* operation; len says how many bytes there are.                           *)

short(accounts, n) ==
    IF n \in DOMAIN accounts THEN <<"address", Ends[accounts[n]]>> ELSE <<"?">>

Opaque(title, accounts, data) ==
    [title |-> title,
     details |-> <<Line("Accounts", <<"number", Len(accounts)>>),
                   Line("Data bytes", <<"number", data.len>>)>>]

named_accounts(accounts, most) ==
    [i \in 1 .. (IF Len(accounts) < most THEN Len(accounts) ELSE most) |->
        [label |-> "Account", nr |-> i, value |-> short(accounts, i)]]

system_call(accounts, data) ==
    IF data.disc = 2 /\ data.len >= 12
    THEN [title |-> <<"Send">> \o formatUnits(data.amount, SolDecimals) \o <<"SOL">>,
          details |-> <<Line("From", short(accounts, 1)), Line("To", short(accounts, 2))>>]
    ELSE Opaque(<<"System program">>, accounts, data)

token_call(kind, accounts, data) ==
    LET amount == IF 2 \in DOMAIN accounts
                  THEN formatTokenAmount(data.amount, accounts[2], data.decimals)
                  ELSE formatUnits(data.amount, data.decimals)
    IN  CASE data.disc = 12 /\ data.len >= 10 ->
               [title |-> <<"Send">> \o amount \o <<kind>>,
                details |-> <<Line("Mint", short(accounts, 2)), Line("From", short(accounts, 1)),
                              Line("To", short(accounts, 3))>>]
          [] data.disc = 3 /\ data.len >= 9 ->
               [title |-> <<"Send", "tokens", kind>>,
                details |-> <<Line("Amount", <<"number", data.amount>>),
                              Line("From", short(accounts, 1)), Line("To", short(accounts, 2))>>]
          [] OTHER -> Opaque(<<kind, "instruction">>, accounts, data)

describeInnerInstruction(program, accounts, data) ==
    CASE program = "System" -> system_call(accounts, data)
      [] program = "Memo" ->
           [title |-> <<"Memo">>, details |-> <<Line("Text", <<"text", data.text>>)>>]
      [] program \in {"Token", "Token-2022"} -> token_call(program, accounts, data)
      [] program = "ATA" ->
           [title |-> IF data.disc = 1 THEN <<"Create token account">> ELSE <<"Associated token">>,
            details |-> <<Line("Owner", short(accounts, 3)), Line("Mint", short(accounts, 4))>>]
      [] program = "Metadata" ->
           [title |-> <<"Transfer pNFT">>, details |-> named_accounts(accounts, 4)]
      [] program = "Core" ->
           [title |-> <<"Transfer NFT">>, details |-> named_accounts(accounts, 3)]
      [] program = "Bubblegum" -> Opaque(<<"Transfer cNFT">>, accounts, data)
      [] OTHER -> Opaque(<<"Call", Ends[program]>>, accounts, data)

-----------------------------------------------------------------------------
(* One instruction. *)

Spends == {"ExecuteWithAuthority", "ExecuteWithAuthorityUsingPolicies"}

(* Its calls name their programs and accounts by their place in remaining. *)
in_range(ix) ==
    \A n \in DOMAIN ix.inner :
        {ix.inner[n].program} \cup ToSet(ix.inner[n].accounts) \subseteq DOMAIN ix.remaining

(* An instruction the generated parser does not know, or whose calls name  *)
(* accounts that are not there, throws.                                    *)
parses(ix) == ix.kind # "unknown" /\ (ix.kind \in Spends => in_range(ix))

summarizeInner(ix) ==
    [n \in DOMAIN ix.inner |->
        LET call == ix.inner[n]
        IN  describeInnerInstruction(ix.remaining[call.program],
                [i \in DOMAIN call.accounts |-> ix.remaining[call.accounts[i]]], call.data)]

cap_rows(caps, n) ==
    <<LineOf("Token limit", n, caps, formatTokenAmount(caps[n].cap, caps[n].mint, 0)),
      LineOf("Token window", n, caps, windowPhrase(caps[n].window))>>

program_rows(programs, n) ==
    <<LineOf("Program", n, programs, <<"address", Ends[programs[n].program]>>),
      LineOf("Access", n, programs, <<"access", programs[n].access>>)>>

describeWalletPolicy(policy) ==
    (IF policy.sol = <<>> THEN <<Line("SOL limit", <<"None">>)>>
     ELSE <<Line("SOL limit", formatUnits(policy.sol[1].cap, SolDecimals)),
            Line("SOL window", windowPhrase(policy.sol[1].window))>>)
    \o (IF policy.mints = <<>> THEN <<Line("Token limits", <<"None">>)>>
        ELSE FlattenSeq([n \in DOMAIN policy.mints |-> cap_rows(policy.mints, n)]))
    \o (IF policy.programs = <<>> THEN <<Line("Programs", <<"Baseline only">>)>>
        ELSE FlattenSeq([n \in DOMAIN policy.programs |-> program_rows(policy.programs, n)]))

details_of(ix) ==
    CASE ix.kind = "SetWalletPolicy" -> describeWalletPolicy(ix.policy)
      [] ix.kind = "ExecuteWithAuthorityUsingPolicies" ->
           <<Line("Note", <<"text", "wallet policies applied">>)>>
      [] ix.kind = "ClearAuthority" -> <<Line("Effect", <<"text", "removes the owner key">>)>>
      [] ix.kind = "ClearWalletPolicy" -> <<Line("Effect", <<"text", "deletes caps and overrides">>)>>
      [] OTHER -> <<>>

parseInstruction(ix) ==
    [kind |-> ix.kind,
     authority |-> IF ix.kind \in {"SetAuthority", "Execute"} THEN "none" ELSE ix.authority,
     inner |-> IF ix.kind \in Spends THEN summarizeInner(ix) ELSE <<>>,
     details |-> details_of(ix)]

-----------------------------------------------------------------------------
(* The policy. *)

previewable(t) ==
    /\ t.instructions # <<>>
    /\ \A n \in DOMAIN t.instructions :
          LET ix == t.instructions[n]
          IN  ix.program = "phygital-wallet" /\ parses(ix) /\ ix.kind # "SetAuthority"

summaries(t) == [n \in DOMAIN t.instructions |-> parseInstruction(t.instructions[n])]

first_authority(s) ==
    LET with == first_of(s, LAMBDA ix : ix.authority # "none")
    IN  IF with = <<>> THEN "none" ELSE with[1].authority

(* previewPolicy, when the wallet is not known *)
previewPolicy(t) ==
    [wallet |-> first_authority(summaries(t)), instructions |-> summaries(t), config |-> t.config]

evaluates(t, owner) ==
    /\ previewable(t)
    /\ owner \in t.signers
    /\ \A n \in DOMAIN t.instructions : summaries(t)[n].authority \in {"none", owner}

evaluatePolicy(t, owner) == [previewPolicy(t) EXCEPT !.wallet = owner]

-----------------------------------------------------------------------------
(* The risk. *)

kinds(s) == {s[n].kind : n \in DOMAIN s}

isCriticalInstruction(kind) == kind \in {"ClearAuthority", "ClearWalletPolicy"}

isElevatedInstruction(kind) == kind = "SetWalletPolicy"

(* A title that begins with Program or speaks of something opaque, or a    *)
(* detail that says unknown or opaque. *)
suspicious(call) ==
    \/ call.title[1] \in {"Program", "opaque"}
    \/ \E n \in DOMAIN call.details : call.details[n].value \in {<<"text", "unknown">>, <<"text", "opaque">>}

ownerSpendRisk(s) ==
    LET spends == {n \in DOMAIN s : s[n].kind \in Spends}
    IN  CASE spends = {} -> "none"
          [] \E n \in spends : s[n].inner = <<>> \/ \E i \in DOMAIN s[n].inner : suspicious(s[n].inner[i])
               -> "critical"
          [] OTHER -> "elevated"

classifySignRisk(s) ==
    IF ownerSpendRisk(s) = "critical" \/ \E k \in kinds(s) : isCriticalInstruction(k) THEN "critical"
    ELSE IF ownerSpendRisk(s) = "elevated" \/ \E k \in kinds(s) : isElevatedInstruction(k) THEN "elevated"
    ELSE "normal"

Gravest ==
    <<"ClearAuthority", "ClearWalletPolicy", "SetWalletPolicy",
      "ExecuteWithAuthority", "ExecuteWithAuthorityUsingPolicies">>

(* The kind of instruction the callout speaks of, or none. *)
riskCallout(s) == first_of(Gravest, LAMBDA k : k \in kinds(s))

-----------------------------------------------------------------------------
(* The sheet. *)

calls(s) == FlattenSeq([n \in DOMAIN s |-> s[n].inner])

(* The sequence of one address, or of none. *)
pickToSubtitle(call) == first_of(call.details, LAMBDA r : r.label = "To")

confirmHero(s) ==
    LET send == first_of(calls(s), LAMBDA c : c.title[1] = "Send")
        only(call) == [titles |-> <<call.title>>, to |-> pickToSubtitle(call)]
    IN  CASE send # <<>> -> only(send[1])
          [] send = <<>> /\ Len(calls(s)) = 1 -> only(calls(s)[1])
          [] send = <<>> /\ Len(calls(s)) > 1 ->
               [titles |-> [n \in DOMAIN calls(s) |-> calls(s)[n].title], to |-> <<>>]
          [] OTHER -> [titles |-> <<<<s[1].kind>>>>, to |-> <<>>]

(* An action of several: by its title while there is room for it. *)
action_row(all, n) ==
    [label |-> "Action", nr |-> n, title |-> IF Len(all) <= 3 THEN all[n].title ELSE <<>>,
     value |-> pickToSubtitle(all[n])]

first_rows(details) == SubSeq(details, 1, IF Len(details) < 4 THEN Len(details) ELSE 4)

primaryRows(s) ==
    CASE Len(calls(s)) = 1 ->
           labelled(calls(s)[1].details, {"To", "From", "Text"})
      [] Len(calls(s)) > 1 -> [n \in DOMAIN calls(s) |-> action_row(calls(s), n)]
      [] OTHER -> FlattenSeq([n \in DOMAIN s |-> first_rows(s[n].details)])

rest_of(ix, primary) ==
    picked(ix.details, {n \in DOMAIN ix.details : ix.details[n] \notin ToSet(primary)})

mint_rows(ix) ==
    FlattenSeq([n \in DOMAIN ix.inner |-> labelled(ix.inner[n].details, {"Mint", "Owner"})])

\* The row of the compute unit limit, which pays nothing by itself, is left out.
advancedRows(sum, primary) ==
    LET s == sum.instructions
        step(n) == IF Len(s) > 1 THEN <<[label |-> "Step", nr |-> n, value |-> <<s[n].kind>>]>> ELSE <<>>
    IN  <<Line("Wallet", <<"address", sum.wallet>>)>>
        \o FlattenSeq([n \in DOMAIN s |-> step(n) \o rest_of(s[n], primary) \o mint_rows(s[n])])
        \o (IF sum.config = <<>> THEN <<>>
             ELSE <<Line("Priority fee", formatUnits(sum.config[1], SolDecimals))>>)

Sheet(sum) ==
    LET s == sum.instructions
    IN  [hero |-> confirmHero(s), callout |-> riskCallout(s), risk |-> classifySignRisk(s),
         primary |-> primaryRows(s), advanced |-> advancedRows(sum, primaryRows(s))]

NoSheet == [hero |-> <<>>]

-----------------------------------------------------------------------------
(* handleSign *)

ReviewInit ==
    /\ tx \in Transactions
    /\ asked = "new"
    /\ sheet = NoSheet
    /\ signer = "none"

Ask(stage, sum) == asked' = stage /\ sheet' = Sheet(sum)

Refuse == asked' = "refused" /\ UNCHANGED sheet

(* With a blob in the local storage its wallet is known. *)
ReviewWarm(w) ==
    /\ asked = "new"
    /\ signer' = w
    /\ IF evaluates(tx, w) THEN Ask("shown", evaluatePolicy(tx, w)) ELSE Refuse
    /\ UNCHANGED tx

ReviewCold ==
    /\ asked = "new"
    /\ IF previewable(tx) THEN Ask("shown", previewPolicy(tx)) ELSE Refuse
    /\ UNCHANGED <<tx, signer>>

AnswerSheet ==
    /\ asked = "shown"
    /\ asked' \in {"agreed", "refused"}
    /\ UNCHANGED <<tx, sheet, signer>>

(* The passkey opens the wallet at hand, or one comes back from its backup. *)
SignWith(w) ==
    /\ asked = "agreed"
    /\ signer \in {"none", w}
    /\ signer' = w
    /\ asked' = IF signer = w \/ evaluates(tx, w) THEN "signed" ELSE "refused"
    /\ UNCHANGED <<tx, sheet>>

ReviewNext ==
    \/ ReviewCold \/ AnswerSheet
    \/ \E w \in Owners : ReviewWarm(w) \/ SignWith(w)

ReviewSpec == ReviewInit /\ [][ReviewNext]_review

-----------------------------------------------------------------------------
(* Properties *)

titles_shown ==
    ToSet(sheet.hero.titles)
        \cup {sheet.primary[n].title : n \in {k \in DOMAIN sheet.primary : sheet.primary[k].label = "Action"}}

values(rows) == {r.value : r \in ToSet(rows)}

places_shown ==
    LET rows(label) == {r \in ToSet(sheet.primary) : r.label = label}
    IN  values(sheet.hero.to) \cup {r.value : r \in rows("To")}
            \cup UNION {values(r.value) : r \in rows("Action")}

(* What a user who knows the decimals reads in the text of an amount. *)
reads(text, decimals) ==
    LET f == text[3]
        part[n \in 0 .. Len(f)] == IF n = 0 THEN 0 ELSE part[n - 1] + f[n] * pow10[decimals - n]
    IN  text[2] * pow10[decimals] + part[Len(f)]

(* The transfers of a transaction, each with the decimals of what it moves. *)
transfers ==
    UNION {{<<tx.instructions[n], tx.instructions[n].inner[i]>> : i \in DOMAIN tx.instructions[n].inner} :
              n \in {k \in DOMAIN tx.instructions : tx.instructions[k].kind \in Spends}}

decimals_of(ix, call) ==
    LET mint == ix.remaining[call.accounts[2]]
    IN  IF ix.remaining[call.program] = "System" THEN SolDecimals
        ELSE IF mint \in DOMAIN KnownMints THEN KnownMints[mint].decimals ELSE call.data.decimals

is_transfer(ix, call) ==
    \/ ix.remaining[call.program] = "System" /\ call.data.disc = 2 /\ call.data.len >= 12
    \/ /\ ix.remaining[call.program] \in {"Token", "Token-2022"}
       /\ call.data.disc = 12 /\ call.data.len >= 10 /\ Len(call.accounts) >= 3

(* The colour of the sheet and its warning come from two functions that    *)
(* look at the same instructions apart: there is a warning whenever the    *)
(* risk is not normal, and what cannot be undone has both the colour and   *)
(* the word (classifySignRisk, riskCallout).                               *)
CalloutFits ==
    /\ sheet.callout = <<>> <=> sheet.risk = "normal"
    /\ \A n \in DOMAIN tx.instructions : isCriticalInstruction(tx.instructions[n].kind) =>
          sheet.risk = "critical" /\ isCriticalInstruction(sheet.callout[1])

(* The amount of every transfer, in units its reader can take back to the  *)
(* raw ones, as long as there are at most three calls; where each transfer *)
(* goes; every fact of every instruction, in the first rows or behind the  *)
(* details; and a warning that fits.                                       *)
ToldInFull ==
    /\ Len(calls(summaries(tx))) <= 3 =>
          \A t \in {p \in transfers : is_transfer(p[1], p[2])} :
              \E title \in titles_shown :
                  /\ title[1] = "Send" /\ title[2] = "units"
                  /\ reads(Tail(title), decimals_of(t[1], t[2])) = t[2].data.amount
    /\ \A n \in DOMAIN calls(summaries(tx)) :
          values(pickToSubtitle(calls(summaries(tx))[n])) \subseteq places_shown
    /\ \A n \in DOMAIN tx.instructions :
          ToSet(details_of(tx.instructions[n])) \subseteq ToSet(sheet.primary) \cup ToSet(sheet.advanced)
    /\ CalloutFits

(* Who signs is who the sheet said signs, in every instruction that names  *)
(* an authority, and nothing on the sheet would be different had the       *)
(* wallet been known when it was drawn; only a transaction without an      *)
(* authority is shown without a wallet (evaluatePolicy, previewPolicy).    *)
SignedAsShown ==
    LET named == {tx.instructions[n].authority :
                     n \in {k \in DOMAIN tx.instructions : tx.instructions[k].kind # "Execute"}}
    IN  /\ signer \in tx.signers
        /\ named \subseteq {signer}
        /\ named # {} => sheet = Sheet(evaluatePolicy(tx, signer))

(* The sheet tells of everything that is signed, and what is signed is     *)
(* what it told, also when the wallet became known only after the user had *)
(* agreed (confirmHero, primaryRows, advancedRows, formatUnits,            *)
(* riskCallout, handleSign).                                               *)
SheetTells ==
    /\ sheet # NoSheet => ToldInFull
    /\ asked = "signed" => SignedAsShown
=============================================================================
