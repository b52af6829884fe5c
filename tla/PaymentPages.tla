---------------------------- MODULE PaymentPages ----------------------------
(***************************************************************************)
(* The three pages of the web app that pay: SendFlow with the stage its    *)
(* page shows while the accessory is held, ReceiveNearbyPanel, and         *)
(* FeeBalancePanel; and useWalletTransaction with the one approval sheet   *)
(* through which an owner may send what the policy denied.                 *)
(*                                                                         *)
(* A payment is one call of runSend, runReceive or runTopUp.  What it pays *)
(* is fixed when it begins; the page stays live meanwhile, and is rendered *)
(* again whenever what it reads has changed.  AppTransactions has what a   *)
(* payment does to the caches and how it is confirmed.                     *)
(*                                                                         *)
(* The answers about the rent of the recipient's account and about the fee *)
(* balance may disable a button at any time; as nothing here must happen,  *)
(* they are left out.  So are toasts, inline errors and icons.             *)
(***************************************************************************)
EXTENDS Naturals, FiniteSets

CONSTANTS
    Home,          \* the wallet of the accessory whose pages these are
    Wallets,
    NoWallet,
    Coins,         \* the first is DefaultCoin
    Collectibles,
    NoAsset,
    DefaultCoin,
    Balance,       \* what the portfolio of a wallet says it has of a coin
    Amounts,       \* what users type
    TopUpAmount,   \* what the top-up page starts with
    MaxPays,       \* bound on the payments
    MaxTaps        \* bound on the accessories being held

ASSUME PagesAssumption ==
    /\ Home \in Wallets /\ NoWallet \notin Wallets
    /\ DefaultCoin \in Coins /\ NoAsset \notin Coins \cup Collectibles
    /\ Balance \in [Wallets -> [Coins -> Nat]]
    /\ Amounts \subseteq Nat /\ TopUpAmount \in Nat
    /\ MaxPays \in Nat /\ MaxTaps \in Nat

Pays  == 1 .. MaxPays
NoPay == 0

VARIABLES
    route,   \* the page, the asset named in its URL, and the session: [page, asset, owner]
    login,   \* who is signed in: "owner", "other" or "none"
    loaded,  \* wallets whose portfolio has been fetched
    form,
    stage,   \* of the send page: idle, holding or success, with its recap
    abort,   \* sendAbortRef
    sheet,   \* the approval sheet: whether it is open, has its spinner, and about which payment
    decide,  \* decideRef: the payment that waits for the decision
    taps,    \* accessories being held to identify a wallet
    pay,     \* the payments
    wiped    \* history: the form was reset while it was busy

pages == <<route, login, loaded, form, stage, abort, sheet, decide, taps, pay, wiped>>

On(page) == route.page = page

Payment(asset, amount, from, to) == [asset |-> asset, amount |-> amount, from |-> from, to |-> to]
NoArgs == Payment(NoAsset, 0, NoWallet, NoWallet)

NotBegun == [phase |-> "new", mode |-> "policy", args |-> NoArgs, aborted |-> FALSE, edited |-> {}]
UnderWay == {"login", "signing", "asking"}
Over     == [NotBegun EXCEPT !.phase = "over"]
active   == {r \in Pays : pay[r].phase \in UnderWay}

Idle_   == [stage |-> "idle", recap |-> NoArgs]
Closed_ == [open |-> FALSE, busy |-> FALSE, mode |-> "owner", about |-> NoPay]

-----------------------------------------------------------------------------
(* The forms.  An amount that is blank is 0; peer is who is paid, or pays. *)

amount_for(a, amount) == IF a \in Collectibles THEN 1 ELSE amount

\* A token list, or the portfolio, names the first asset.
defaultAsset(wallets) ==
    CASE On("top up") -> DefaultCoin
      [] On("receive") -> DefaultCoin
      [] OTHER -> IF Home \notin wallets THEN NoAsset
                  ELSE IF route.asset # NoAsset THEN route.asset ELSE DefaultCoin

\* As it is mounted, and as the send form is reset.
fresh(wallets) ==
    LET a == defaultAsset(wallets)
    IN  [asset |-> a, amount |-> amount_for(a, IF On("top up") THEN TopUpAmount ELSE 0),
         peer |-> NoWallet, phase |-> "form", busy |-> FALSE]

\* What the user changes while a payment is under way is remembered with it.
edits(new) ==
    (IF new.asset = form.asset THEN {} ELSE {"asset"})
    \cup (IF new.amount = form.amount THEN {} ELSE {"amount"})

note_edits(new) ==
    pay' = [r \in Pays |-> IF r \in active THEN [pay[r] EXCEPT !.edited = @ \cup edits(new)] ELSE pay[r]]

\* A change of the form by its user.
Change(new) ==
    /\ form' = new
    /\ note_edits(new)
    /\ UNCHANGED <<route, login, loaded, stage, abort, sheet, decide, taps, wiped>>

send_form    == On("send") /\ form.phase = "form" /\ stage = Idle_ /\ ~sheet.open
receive_form == On("receive") /\ form.phase = "form"
top_up_form  == On("top up") /\ form.phase = "form"
summary      == On("receive") /\ form.phase = "summary"

\* A page opened for a token lists no collectibles.
pickable == Coins \cup IF On("send") /\ route.asset \in Collectibles THEN Collectibles ELSE {}

PickAsset(a) ==
    /\ \/ send_form /\ Home \in loaded
       \/ receive_form
    /\ a \in pickable
    /\ Change([form EXCEPT !.asset = a,
                           !.amount = amount_for(a, IF form.asset \in Collectibles THEN 0 ELSE @)])

TypeAmount(n) ==
    /\ send_form \/ receive_form \/ top_up_form
    /\ form.asset \in Coins
    /\ Change([form EXCEPT !.amount = n])

\* The whole balance, in the receive page the payer's, while it pays too.
TakeMax ==
    \/ /\ send_form /\ form.asset \in Coins /\ Home \in loaded
       /\ Change([form EXCEPT !.amount = Balance[Home][form.asset]])
    \/ /\ summary /\ form.peer \in loaded
       /\ Change([form EXCEPT !.amount = Balance[form.peer][form.asset]])

TypeRecipient(w) ==
    /\ send_form
    /\ Change([form EXCEPT !.peer = w])

backToForm ==
    /\ summary
    /\ form' = [form EXCEPT !.phase = "form"]
    /\ UNCHANGED <<route, login, loaded, stage, abort, sheet, decide, taps, pay, wiped>>

LeaveHandoff ==
    /\ On("receive") /\ form.phase = "handoff"
    /\ form' = [form EXCEPT !.phase = "summary"]
    /\ UNCHANGED <<route, login, loaded, stage, abort, sheet, decide, taps, pay, wiped>>

-----------------------------------------------------------------------------
(* Holding an accessory to learn its wallet.                               *)

\* Mutant: the button is live whatever the form does.
can_pick_always == TRUE
can_pick == ~form.busy

Identify ==
    /\ \/ send_form /\ can_pick
       \/ receive_form /\ form.amount > 0 /\ ~form.busy
    /\ taps < MaxTaps
    /\ taps' = taps + 1
    /\ form' = [form EXCEPT !.busy = TRUE, !.phase = IF On("receive") THEN "identifying" ELSE @]
    /\ UNCHANGED <<route, login, loaded, stage, abort, sheet, decide, pay, wiped>>

\* In the receive page it must not be the one that is paid.
Identified(w) ==
    /\ taps > 0
    /\ taps' = taps - 1
    /\ LET new == IF On("send") THEN [form EXCEPT !.peer = w]
                  ELSE IF w = Home THEN [form EXCEPT !.phase = "form"]
                  ELSE [form EXCEPT !.peer = w, !.phase = "summary"]
       IN  form' = [new EXCEPT !.busy = FALSE]
    /\ UNCHANGED <<route, login, loaded, stage, abort, sheet, decide, pay, wiped>>

NotIdentified ==
    /\ taps > 0
    /\ taps' = taps - 1
    /\ form' = [form EXCEPT !.busy = FALSE, !.phase = IF On("receive") THEN "form" ELSE @]
    /\ UNCHANGED <<route, login, loaded, stage, abort, sheet, decide, pay, wiped>>

-----------------------------------------------------------------------------
(* Beginning a payment.                                                    *)

form_payment ==
    CASE On("receive") -> Payment(form.asset, form.amount, form.peer, Home)
      [] OTHER -> Payment(form.asset, form.amount, Home, form.peer)

canSend ==
    /\ send_form
    /\ form.asset # NoAsset /\ form.peer \notin {NoWallet, Home} /\ ~form.busy
    /\ form.asset \in Coins => form.amount > 0 /\ form.amount <= Balance[Home][form.asset]

canConfirm ==
    /\ summary
    /\ form.amount > 0 /\ ~form.busy
    /\ form.peer \in loaded /\ form.amount <= Balance[form.peer][form.asset]

canTopUp == top_up_form /\ form.amount > 0 /\ ~form.busy

\* Nearby payers pay with their accessory, top-ups are the owner's.
preferredMode ==
    IF On("top up") \/ (On("send") /\ route.owner) THEN "authority" ELSE "policy"

Begin(r) ==
    /\ pay[r] = NotBegun /\ \A q \in Pays : q < r => pay[q] # NotBegun
    /\ canSend \/ canConfirm \/ canTopUp
    /\ form' = [form EXCEPT !.busy = TRUE]
    /\ pay' = [q \in Pays |->
                 CASE q = r -> [NotBegun EXCEPT
                                  !.phase = IF preferredMode = "authority" /\ login # "owner"
                                            THEN "login" ELSE "signing",
                                  !.mode = preferredMode, !.args = form_payment]
                   [] q = abort -> [pay[q] EXCEPT !.aborted = TRUE]
                   [] OTHER -> pay[q]]
    /\ abort' = IF On("send") THEN r ELSE abort
    /\ UNCHANGED <<route, login, loaded, stage, sheet, decide, taps, wiped>>

-----------------------------------------------------------------------------
(* Its end.  Whichever it is, the sheet closes, run's finally.             *)

sheet_closes == sheet' = Closed_ /\ decide' = NoPay

\* What runSend, runReceive and runTopUp do to their form.  A visitor's send
\* leaves the held accessory on the screen.
after_send(outcome) ==
    CASE outcome # "sent" -> "form"
      [] outcome = "sent" -> IF route.owner THEN form.phase ELSE "holding"

after_receive(outcome) ==
    CASE outcome = "sent" -> "success"
      [] outcome = "denied" -> "handoff"
      [] outcome = "failed" -> "summary"

after_top_up(outcome) == IF outcome = "sent" THEN "success" ELSE "form"

phase_after(outcome) ==
    CASE On("send") -> after_send(outcome)
      [] On("receive") -> after_receive(outcome)
      [] On("top up") -> after_top_up(outcome)

released(r) == IF abort = r THEN NoPay ELSE abort

\* Without a transaction.
Ends(r, outcome) ==
    /\ pay' = [pay EXCEPT ![r] = Over]
    /\ form' = [form EXCEPT !.busy = FALSE, !.phase = phase_after(outcome)]
    /\ stage' = Idle_
    /\ abort' = released(r)
    /\ sheet_closes
    /\ UNCHANGED <<route, loaded, taps, wiped>>

\* Only an owner goes on.
LogsIn(r) ==
    /\ pay[r].phase = "login"
    /\ login' \in IF login = "none" THEN {"owner", "other", "none"} ELSE {login}
    /\ IF login' = "owner"
       THEN /\ pay' = [pay EXCEPT ![r].phase = "signing"]
            /\ UNCHANGED <<route, loaded, form, stage, abort, sheet, decide, taps, wiped>>
       ELSE Ends(r, "failed")

PaymentFails(r) ==
    /\ pay[r].phase = "signing"
    /\ Ends(r, "failed")
    /\ UNCHANGED login

\* showHolding.  An owner who browses holds nothing.
HoldShown(r) ==
    /\ pay[r].phase = "signing" /\ pay[r].mode = "policy"
    /\ form' = [form EXCEPT !.phase = "holding"]
    /\ stage' = IF On("send") THEN [stage |-> "holding", recap |-> pay[r].args] ELSE stage
    /\ UNCHANGED <<route, login, loaded, abort, sheet, decide, taps, pay, wiped>>

\* Mutant: the recap is made of what the form holds by then.
recap_of_form(r) == form_payment
recapForSend(r) == pay[r].args

\* The RPC took it, and it counts as sent.
Sent(r) ==
    /\ pay[r].phase = "signing" /\ ~pay[r].aborted
    /\ pay[r].mode = "authority" => login = "owner"
    /\ pay' = [pay EXCEPT ![r].phase = "sent"]
    /\ form' = [form EXCEPT !.busy = FALSE, !.phase = phase_after("sent")]
    /\ stage' = IF On("send") THEN [stage |-> "success", recap |-> recapForSend(r)] ELSE stage
    /\ abort' = released(r)
    /\ sheet_closes
    /\ UNCHANGED <<route, login, loaded, taps, wiped>>

-----------------------------------------------------------------------------
(* Denials by the policy.                                                  *)

DeniedByPolicy(r) ==
    /\ pay[r].phase = "signing" /\ pay[r].mode = "policy"
    /\ IF On("receive")
       THEN Ends(r, "denied") /\ UNCHANGED login
       ELSE /\ pay' = [pay EXCEPT ![r].phase = "asking"]
            /\ form' = [form EXCEPT !.phase = "form"]
            /\ stage' = Idle_
            /\ sheet' = [open |-> TRUE, busy |-> FALSE, about |-> r,
                         mode |-> IF login = "owner" THEN "owner" ELSE "blocked"]
            /\ decide' = r
            /\ UNCHANGED <<route, login, loaded, abort, taps, wiped>>

onApprove ==
    /\ sheet.open /\ ~sheet.busy /\ sheet.mode = "owner" /\ decide # NoPay
    /\ sheet' = [sheet EXCEPT !.busy = TRUE]
    /\ decide' = NoPay
    /\ pay' = [pay EXCEPT ![decide].phase = "signing", ![decide].mode = "authority"]
    /\ UNCHANGED <<route, login, loaded, form, stage, abort, taps, wiped>>

onCancel ==
    /\ sheet.open /\ ~sheet.busy /\ decide # NoPay
    /\ Ends(decide, "failed")
    /\ UNCHANGED login

-----------------------------------------------------------------------------
(* The page around the form.                                               *)

\* A send page opened for one asset computes it anew whenever it is rendered,
\* and the form's effect takes it for another one.
reset_by(wallets) == On("send") /\ route.asset # NoAsset /\ Home \in wallets /\ form.phase # "holding"

Reset ==
    /\ form' = fresh(loaded')
    /\ abort' = NoPay
    /\ note_edits(form')
    /\ wiped' = (wiped \/ form.busy)

PortfolioLoads(w) ==
    /\ w \notin loaded
    /\ loaded' = loaded \cup {w}
    /\ IF reset_by(loaded') THEN Reset
       ELSE /\ form' = IF form.asset = NoAsset /\ w = Home
                       THEN [form EXCEPT !.asset = defaultAsset(loaded')] ELSE form
            /\ UNCHANGED <<abort, pay, wiped>>
    /\ UNCHANGED <<route, login, stage, sheet, decide, taps>>

\* The page is rendered again: the portfolio was fetched again and is not what
\* it was, at any time, or the stage changed.
Rendered ==
    /\ reset_by(loaded)
    /\ UNCHANGED loaded
    /\ Reset
    /\ UNCHANGED <<route, login, stage, sheet, decide, taps>>

\* By Cancel, Done or Back, and then opened again.  Nothing aborts a payment
\* that is under way: it goes on, with no page to show it.
Leave ==
    /\ form' = fresh(loaded)
    /\ stage' = Idle_ /\ abort' = NoPay /\ taps' = 0 /\ wiped' = FALSE
    /\ sheet' = Closed_ /\ decide' = NoPay
    /\ pay' = [r \in Pays |-> IF r \in active THEN Over ELSE pay[r]]
    /\ UNCHANGED <<route, login, loaded>>

PagesInit ==
    /\ route \in [page : {"send", "receive", "top up"},
                  asset : {NoAsset} \cup Coins \cup Collectibles, owner : BOOLEAN]
    /\ ~On("send") => route.asset = NoAsset /\ ~route.owner
    /\ login \in {"owner", "other", "none"}
    /\ loaded \in {{}, {Home}}
    /\ form = fresh(loaded)
    /\ stage = Idle_ /\ abort = NoPay
    /\ sheet = Closed_ /\ decide = NoPay
    /\ taps = 0
    /\ pay = [r \in Pays |-> NotBegun]
    /\ wiped = FALSE

PagesNext ==
    \/ \E a \in Coins \cup Collectibles : PickAsset(a)
    \/ \E n \in Amounts : TypeAmount(n)
    \/ TakeMax \/ backToForm \/ LeaveHandoff \/ Identify \/ NotIdentified
    \/ \E w \in Wallets : TypeRecipient(w) \/ Identified(w) \/ PortfolioLoads(w)
    \/ \E r \in Pays : Begin(r) \/ LogsIn(r) \/ PaymentFails(r) \/ HoldShown(r) \/ Sent(r) \/ DeniedByPolicy(r)
    \/ onApprove \/ onCancel \/ Rendered \/ Leave

PagesSpec == PagesInit /\ [][PagesNext]_pages

-----------------------------------------------------------------------------
\* The form has what the payment pays, but for the asset and the amount where
\* its user has changed them since.  On the receive page the form is shown as
\* a whole, and who pays there is not the user's to change.
as_paid(p) ==
    /\ "asset" \notin p.edited => p.args.asset = form.asset
    /\ On("receive") => /\ "amount" \notin p.edited => p.args.amount = form.amount
                        /\ p.args.from = form.peer

(* What the pages show of a payment is that payment: the card of a         *)
(* success, the one above a held accessory, the success of the receive     *)
(* page and the asset in the approval sheet.  The last two read the form:  *)
(* of what is shown there only a field that its user edited while the      *)
(* payment was under way may differ, and never who paid, whatever is       *)
(* tapped, fetched, denied or rendered meanwhile.                          *)
ShownIsSent ==
    /\ stage.stage = "success" => \E r \in Pays : pay[r].phase = "sent" /\ pay[r].args = stage.recap
    /\ stage.stage = "holding" => \E r \in active : pay[r].args = stage.recap
    /\ On("receive") /\ form.phase = "success" =>
           \E r \in Pays : pay[r].phase = "sent" /\ as_paid(pay[r])
    /\ sheet.open => as_paid(pay[sheet.about])

(* The form is busy exactly while it pays or identifies, whatever ends     *)
(* that, and does one of the two, once, at a time.  So the one approval    *)
(* sheet is enough: a payment that waits for a decision has it open, and a *)
(* decision it takes is for that payment.  Unless the send form was reset  *)
(* under it.                                                               *)
BusyIsTrue ==
    \/ wiped
    \/ /\ form.busy <=> (active # {} \/ taps > 0)
       /\ Cardinality(active) + taps <= 1
       /\ \A r \in Pays : pay[r].phase = "asking" => sheet.open /\ sheet.about = r /\ decide = r
       /\ sheet.open => sheet.about \in active

(* "portfolio intentionally omitted -- background refetches must not reset *)
(* the form" (send-flow.tsx): what renders the page anew, a fetch of the   *)
(* portfolio it already has among it, leaves the form as it is.            *)
RefetchKeepsForm == [][Rendered => UNCHANGED form]_pages
=============================================================================
