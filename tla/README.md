# Phygital wallet: verification project

TLA+ models, model-checking runs and machine-checked proofs for the Phygital
wallet: an NFC accessory that authorizes Solana transactions, an on-chain
program that confines what a tap may spend, and the off-chain services that
sponsor fees, hold the owner's key and keep the sessions.

Parse a module with `tlasany M.tla`, check a run with
`tlc -workers 2 -config MCRent.cfg MCWalletProgram`, check the proofs of a
module with `tlapm WalletProgram_proofs.tla`. `PROJECT.json` lists the
components, the runs, the mutants that show each property can fail, the source
lines behind each definition, the hazards and the theorems.

## 1. The system

| Part | Where | State it keeps | Operations |
| --- | --- | --- | --- |
| Wallet program | `programs/phygital-wallet` | wallet PDA (lamports, token accounts), authority PDA (owner key, rent payer, policy with counters) | `execute`, `execute_with_authority`, `execute_with_authority_using_policies`, `set_authority`, `clear_authority`, `set_wallet_policy`, `clear_wallet_policy` |
| Spending allowance | `utils/spending_limit.rs` | a `SpendCap` per asset | align, create, preserve, charge |
| Policy meter | `utils/policy.rs` | snapshot of a transaction | snapshot, charge, control checks |
| Instruction policy | `utils/instruction_policy.rs` | permissions in the policy | validate, match, decode |
| Slot-hash challenge | `utils/slot_hash.rs`, `utils/compact.rs` | none | binary search of SlotHashes, hashes |
| Token signer | `workers/api-signer` | per-token SQLite ledger: fee balance, open reserves, applied fee events | `signTransactions`, `applyFeeEvents`, `getFeeBalance`, alarm |
| Fee observation | `workers/api/src/fees`, `webhooks` | queue messages | webhook intake, batch processing, retries |
| Activity feed | `webhooks/wallet-activity-store.ts` | activity rows per wallet | append, page |
| KV challenges | `shared/kv-challenge.ts` | challenges with a lifetime | issue, consume |
| Tap counters | `tap/` | last counter of each accessory | evaluate, consume |
| Access and owner sessions | `auth/` | signed cookies of the browser | tap, Hold, owner open, sign-out, the gates |
| Owner wallet blobs | `owner-wallet/` | encrypted key backups | back up, restore |
| Secure signer: handlers | `secure-signer/src/main.ts`, `state.ts` | ids seen, the running request, authorization | create, unlock, sign, export |
| Secure signer: keys and storage | `secure-signer/src` (`wallet-service.ts`, `wallet-format.ts`, `blob-store.ts`, `webauthn.ts`, `api-backup.ts`) | the sealed blob on each phone | seal, open, back up, restore |
| Secure signer: review | `secure-signer/src/tx`, `ui` | the confirmation sheet | decode, refuse, summarise, warn |
| SDK connector | `packages/js/phygital-wallet/src/wallet-standard` | session, signer, local storage | connect, restore, sign, disconnect |
| SDK transaction wrapping | `packages/js/phygital-wallet/src/wallet` | none | compile, challenge, preview, tap, build |
| Web app: signer client | `app/src/lib/wallet/secure-signer-client.ts` | the sheet, the frame, pending requests | request, show, hide, timers |
| Web app: transactions | `app/src/lib/wallet`, `lib/queries` | runs, query cache, persisted cache | run, retry, patch, roll back, confirm, reload |
| Web app: owner setup | `app/src/components/wallet`, `hooks/wallet`, `lib/wallet` | the setup sheet, passkeys, sessions, claims | login, register, claim, unlink, log out |
| Web app: policy panel | `app/src/components/wallet/policy-*` | drafts, dialogs, the view of the policy | edit, save, restore, turn off |
| Web app: pages that pay | `app/src/components/wallet` (send, receive, top up) | forms, held accessories, the approval sheet | hold, pay, approve, cancel |
| Web app: routes and unlocking | `app/src/middleware.ts`, `components/token`, `components/home` | the page, the navigation, ceremonies under way | link, Hold, open, claim, redirect |
| Web app: other pages | `app` | lists | user interface |

### How the parts interact

A tap yields a passkey assertion over a batch of inner instructions and a recent
slot hash. The SDK wraps it into `execute`; the API worker checks that the
transaction is one it sponsors and asks the token signer, a Durable Object per
accessory token, for the fee payer's signature. The signer reserves part of the
token's fee balance before it signs. The program verifies the assertion by a
call to the external phygital-token program, snapshots the wallet, runs the
inner calls with the wallet's signature, measures what the wallet lost and
charges the caps or reverts. A webhook later reports the landed transaction; a
queue, delivered at least once and in no order, turns it into a debit of the
ledger that settles the reserve, or into a credit when the transaction pays the
sponsor back. The owner's key lives encrypted in the blob store and is unlocked
inside the secure signer, an isolated frame that talks to its embedder through
messages; with it the owner sets policies and bypasses them.

### What is hard, and what makes each part correct

* **Wallet program.** Transactions are atomic, so there is no interleaving inside
  an instruction, but the inner calls are foreign code that may leave the
  accounts in any state, the same account may be named twice, approvals and close
  authorities outlive a transaction, caps are refilled lazily, counters survive
  saves, the account is resized with every policy. Correct: what a tap may take
  per window is bounded; nothing without a cap leaves while a cap is in force; no
  control is given away; the PDA is rent-exempt and refunds its payer.
* **Token signer.** `await`s between reserve, sign and commit let requests of one
  token interleave with each other, with the alarm and with webhook events; a
  failed batch rolls back; a late event meets an expired reserve. Correct: the
  ledger is never overdrawn by concurrent attempts, an event is applied once, a
  reserve is released or expires.
* **Fee observation.** Messages are duplicated, reordered, retried after partial
  success, and given up. Correct: balance = starter + credits − debits of distinct
  signatures, what moved a balance is shown, and a landed transaction is booked or
  among the dead letters.
* **Challenges, counters, cookies, backups.** Reads and writes in different
  statements with other requests between them; answers that cross each other in
  one browser, or are lost. Correct: a challenge is not accepted again after the
  answer, a counter never goes back, the two gates agree, owner mode and sessions
  end, a signed-in key has a backup.
* **Secure signer.** Messages replayed or out of order, one busy flag, an
  authorization that must be spent by exactly one signature. The sheet is drawn
  before the wallet is known; a new key passes through four stores, each of which
  may fail. Correct: what is signed was confirmed, told in full, and by the right
  wallet; no seed stays; no wallet is lost that anybody knows of.
* **SDK connector.** Loads that end after a disconnect, a second connect or a tap.
  Correct: a transaction is signed for the account it names, the storage holds
  what is connected, every call ends.
* **Wrapping.** Privileges are computed three times: before the tap for the
  challenge, in the transaction, and by the runtime. Correct: they agree, and the
  program calls what the application asked for.
* **Web app.** A frame that mounts, loads and closes by timers and renders while
  requests wait for it; optimistic patches whose rollbacks, refetches and
  confirmations overlap; drafts and forms that stay live while something is
  saved or paid; redirects by cookies, by queries and by what was held. Correct:
  every request settles, nothing is sent twice, a quiet page shows the chain, a
  save changes what was edited and nothing else, a page shows the payment it made,
  and who opens an accessory gets to its page.

## 2. Plan

| # | Modules | Run | Proved |
| --- | --- | --- | --- |
| 1 | `SpendingLimit`, `Allowance`, `PolicyMeter`, `WalletProgram` | `windows`, `meter`, `rent` | every property of the three runs |
| 2 | `FeeBook`, `FeeLedger` | `ledger`, `settle` | types, bounds, reserves, refinement of `FeeBook` |
| 3 | `SecureSigner`, `TransactionReview`, `OwnerSetup`, together in `MCOwner` | `signer`, `cancel` | every property |
| 4 | `Connector`, `SignerClient`, together in `MCConnector` | `connector` | whose signature it is |
| 5 | `Access`, `AccessoryRoutes`, together in `MCAccess` | `access` | every property of the run |
| 6 | `FeeQueue` (on the promise of `FeeLedger`) | `queue` | `BookedIsShown`, `WalkComplete` |
| 7 | `InstructionPolicy`, `ExecuteWrap`, `SlotHash`, composed in `TapPipeline` | `app` | every property of `TapPipeline` |
| 8 | `AppTransactions`, `PolicyPanel`, `PaymentPages`, with `TapPipeline` in `MCWebApp` | `app`, `refetch` | every property of `AppTransactions`, `PolicyPanel` and `PaymentPages` |

Each `MC` module gives the constants their values, a `.cfg` fixes the bounds of a
run, and proofs are in a module named after the one they are about; those about
`SecureSigner`, `OwnerSetup` and `TransactionReview` are in `OwnerWallet_proofs`,
those about `AppTransactions`, `PolicyPanel`, `PaymentPages` and `TapPipeline` in
`WebApp_proofs`, and what they need of folds is in `FoldFacts`. `MCOwner`,
`MCConnector`, `MCAccess` and `MCWebApp` check several modules in one run: the
modules share no variable, so a behaviour moves one of them, its `scene`, chosen at
the start, and leaves the others at rest. What is left: a tap
composed with the ledger's reserve.

## 3. The wallet program

`SpendingLimit` holds the operators of `spending_limit.rs`, `PolicyMeter` those of
`policy.rs`; `WalletProgram` is the state machine of one accessory and `Allowance`
what its owner is promised about one asset: SOL, or the mint `Watched`, which may
be any.

State: `clock`; `token`, the accessory as the account constraints see it; `intact`,
the owner and data length of the wallet PDA; its `lamports`; the token `accounts`;
`authority`, the data of the authority PDA, with its `rent` (lamports) and `len`;
and the `balance` of each payer. One action per instruction, whole: a failing
check reverts everything, so an action is enabled exactly when its handler
succeeds. `Execute` and `ExecuteWithAuthorityUsingPolicies` share
`ExecuteUnderPolicy`, as the handlers share snapshot, batch and charge.

Abstractions, and why they lose nothing the properties can see:

* The inner calls are foreign programs: a batch may leave the wallet and every
  account it names in any state (`Outcomes`); only the handler's checks decide
  what stands. This includes outcomes no program produces.
* The passkey assertion and the slot hash are conditions of a tap that are not
  about this state; they are true or the transaction fails. So are the refusal of
  durable nonces and of CPI wrapping: every modelled instruction is a top-level one.
* Caps are keyed by mint and arguments are sets: order plays no role in the code,
  and the duplicate check is kept (`valid_policy_args`).
* An inner instruction is its program, a shape that rules tell apart, and whether
  it hands out a protected account; `InstructionPolicy` has the rules themselves. Default public keys, refused by the handlers,
  are not members of `Mints` and `Owners`.
* Byte lengths and the rent rate are constants; the length arithmetic is the code's.
* Between the transactions of the wallet, other parties may send it SOL and tokens,
  draw on approvals, close empty accounts they control (`outside_change`), the
  phygital-token program may unlock or re-own the accessory, time passes.

### Runs

| Run | Instance | What it shows |
| --- | --- | --- |
| `windows` | one account of a capped mint with every owner, approval, close authority and way to disappear, four policies with windows 0, 2 and 3, clock 0..5, amounts 0..2 | the clock crosses every boundary of both windows with charges, saves and clears anywhere between; the lazily refilled counters implement `Allowance` for SOL and for the token; a policy-checked execution gives away no control |
| `meter` | two accounts (wrapped SOL, capped, uncapped, or lent by another owner), lamports 0..1, lists that name an account twice | every outcome of a batch is tried against four policies: what leaves is what is charged |
| `rent` | two payers, eleven policies (six refused), an account left by policy version 7, donations | growth is paid, the account stays rent-exempt, shrinking refunds the recorded payer |

Two accounts are enough for the meter because its sums and checks treat accounts
one by one, and the only relation between two positions of the list is whether
they name the same address. Two windows with different lengths and a clock that
passes the second boundary of each cover every relation between an anchor, the
clock and a boundary. Rent uses unit sizes, so every length and every rent differ
by small amounts and the payers can run out (`Fund`).

No run has fairness: a wallet program promises nothing about progress.

### Proofs

The first part of `WalletProgram_proofs` shows that every operation of
`SpendingLimit` keeps a cap *sound*: within its limit, on the grid of its window,
not ahead of the clock. The arithmetic that matters is `MultipleStep`, that
advancing an anchor by whole windows stays on the grid, and `WholeWindows`, that it
does not overtake the clock.

The module proves for every value of the constants, from
`MaxU64Assumption` (the largest u64 is a natural number), `ProgramAssumption`
(sizes and rates are natural numbers; the mints, programs, shapes and accounts are
finitely many; amounts of tokens and lamports fit a u64; an account can be empty;
earlier policy versions are neither 0 nor the current one) and `InputsAssumption`
(arguments have the types of the instruction's arguments):

* `TypeCorrect` and `CapsAlwaysSound`, together, from `IInv == TypeOK /\ CapsSound`.
  Neither is inductive alone: that a charge leaves a natural number needs the
  guard on a refilled, sound cap; that a cap stays sound needs its type.
* `AlwaysRentExempt`, inductive given `IInv`: no charge changes the length of a
  policy, and a top-up is exactly what the account lacks.
* `RefundsAlwaysReachPayer`, an action property: a save refunds only when it needed
  no top-up, so the signer who pays is never charged for a refund.
* `ControlAlwaysKept`, an action property: an account the wallet still owns at the
  end of a policy-checked execution, and the wallet itself, have given no control
  away.

* `ImplementsAllowance`: the program implements `Allowance` for SOL and for
  `Watched`. Every step takes a cap and the clock to a cap and a clock that are
  `Metered`: it spends within the limit, moves on in time or changes the limit.
  That a lazy refill and the meter's own idea of a window agree is `WindowEnds`: an
  anchor on the grid is less than a window behind the clock exactly when both lie
  in the same window; that a charge is spent of the window it falls in is
  `ChargeSpends`. Both need the caps to be sound.
* `UncappedAlwaysKept` and `AlwaysChargedExactly`, action properties that relate
  the meter to the wallet as a whole. The meter adds up over the first positions
  of addresses in the transaction's list, the properties over the accounts there
  are: `WrappedTotal` and `MintSpentTotal` rename one sum to the other, accounts
  that are not tracked adding 0, and `RestTotal` splits off the accounts out of
  the list, which the batch cannot have changed. For SOL the property supposes
  that native and wrapped SOL together fit a u64 (`FitsU64`), as all SOL there is
  does: beyond it the total saturates and a loss could go unseen.

The sums are those of `FoldFacts`: a sum over a finite set takes its elements in any
order (`TotalExists`, `TotalIs`), grows with its terms (`TotalMore`), adds term by
term (`TotalPlus`) and stays when its terms are renamed (`TotalMoved`).

## 4. The fee ledger

`FeeLedger` models the Durable Object of one token (`token-signer.ts`) with its
store (`token-store.ts`); `FeeBook` is what the ledger promises about the balance
alone, with no requests, reserves or clock.

State: `balance` and `granted` are `fee_balance` and `meta.starter_granted`;
`reserves` maps the id of a row of `fee_reserves` to the ticks it has left, 0 for
a row that has expired and is still in the table; `booked` is `fee_events`;
`alarm` the object's alarm; `request` what each call of `signTransactions` has
done; `answered` the messages whose signature left the service.

An action is what JavaScript runs between two awaits. `Submit` is a call up to
the first of them, `Reserve` follows the digest of a message, `Sign` its
signature (and takes the next wire), `Answer` the stored alarm.
`ApplyFeeEvents`, `GetFeeBalance` and the alarm have no await between their
reads and their writes. Any of them may come between two actions of a request,
with one exception: `FeePayerSigner.sign` does no input or output, so while it is
awaited no event is taken from outside and `Date.now()` stands still
(`taking_events`). Only other requests that wait for computation go on.

Abstractions:

* Every reserve is for `MIN_ATTEMPT_FEE_LAMPORTS`, the only amount the signer
  asks for, so a row keeps its expiry alone.
* A wire is what the request makes of it: a message that spends, one that tops
  up, or one refused before anything is reserved. `Credit` and `Debit` say what
  the message moves once it lands.
* The id of a reserve is its kind and its message: the hash of the message, the
  base64 signature, or the base58 signature under which the chain reports it.
  Hashes and signatures of different messages differ.
* A restart drops the requests in flight and keeps the tables and the alarm, as
  the object's output gate makes its writes durable before anything is seen of
  them. A restart between reserve and alarm leaves a row that the next call
  clears; it counts for nothing once it has expired.

### Runs

| Run | Instance | What it shows |
| --- | --- | --- |
| `ledger` | two concurrent calls, batches of several wires (two spends, a top-up and a spend before a refused wire, a message twice), one message that lands from outside, two slots, expiry in two ticks, evictions at any await | the bound on open reserves, no overcommitment, and the refinement of `FeeBook`: interleaving, redelivery and the loss of requests never move the balance. `NoStrayReserve`: a batch that fails half way leaves no reserve that nobody would release; only an eviction does, until the expiry. `AnsweredReserveKept`: the reserve of a signature a client holds lasts until its debit or its expiry, unless a later call over the same message gives up. `ReservesCleared`: once an alarm is set every row is eventually deleted with no further call |
| `settle` (violation) | one message per call | a debit does not release its reserve: the row bears the base64 signature, `settleDebit` is given the base58 one |

Two calls suffice for the races of two, and the store treats calls alike; two
slots make the limit reachable with one reserve per call and with both; a
lifetime of two ticks lets a row be new, half spent and expired in the same
state. `PROJECT.json` quotes the lines that disagree in `settle`.

Three more disagreements need no run:

* `token-signer.ts:175` says that reserves settle on the debit or the alarm; a
  batch that resubmits a message answered earlier shares the reserve of that
  answer and releases it when a later wire fails (`token-signer.ts:238`). This is
  the exception of `AnsweredReserveKept`. Wallets submit one message per call.
* The README of the signer has a debit release the oldest reserve, the code looks
  for the one with the transaction's name.
* A restart between the reserve and the first alarm leaves the row to the next
  call, so the alarm alone does not clear it; `ReservesCleared` begins with the
  alarm.

Fairness: the clock goes on however many signatures are being made (strong,
because it stands still during each), the runtime runs a due alarm, and a digest,
a signature or a stored alarm is eventually there. No fairness is put on callers.

### Proofs

`FeeLedger_proofs` shows, for any messages, batches, amounts, requests, lifetimes
and slots:

* `LedgerInvariant`: `TypeOK`, `RequestsHold` (what a request has reserved at each
  of its awaits bears the name of a message of its batch, before or after its
  signature) and `ReservesBounded`. The table is finite because each step adds at
  most one row, and `Cardinality` of the open rows needs that. The type of `alarm`
  is left out: it is the least of a set of expiries, of which no property speaks.
* `ReservesAlwaysFit`, `NoStrays` and `AnsweredReservesKept` from it: the guard of
  a reserve counts every open row, and every way out of a batch that is not an
  answer releases what `RequestsHold` says it holds.
* `ImplementsFeeBook`: every step maps to a step of `FeeBook` or to a stutter.

Only model-checked: `ReservesCleared`, a liveness property.

## 5. The secure signer

`SecureSigner` models `main.ts` with the state of `state.ts`: the frame that holds
the owner's key and answers the four requests `create`, `unlock`, `sign` and
`export` of the page around it.

State: `state`, `activeRequestId`, `authorization` and `seen` are the fields of
`SignerState`; `dismiss` says whose callback the close button of the waiting
screen runs (`busyDismiss` in `ui.ts`); `flow` holds the handlers with their local
variables: the `phase` (what is awaited), whether the blob came from the `local`
storage or the backup (`cold`), the `wallet` and `seed` in hand, and the answers
posted; `local` is the wallet whose blob is in the local storage.

An action is what a handler does between two awaits, and bears the name of the
await that is over: `Digest`, `Confirm` or `Decline`, `Mint` (a challenge),
`Passkey` and `Discover` (the two kinds of assertion), `Restore`, `Unwrap`,
`Push`, `Frozen` (the second digest, before the signature), `Again` and `Close`
(screens that end with a choice). `Accept` is the message listener up to the
first await of the handler it starts. Between two of them anything else may
happen: another request, `Dismiss`, a change of the storage by another frame of
the origin, or `Reload`. The four handlers share their actions where they share
their code, and differ in them where the code does, for example in whether a
dismissal is looked at after the await. A seed that is decrypted and zeroed between
two awaits is in the action all the same (`decrypted`, then `discarded` or
`scrubbed`), at each of the returns in between: dismissed, a blob that is not kept,
a challenge that does not decode, a policy that refuses.

Abstractions:

* Schema and freshness checks, and the origin of a message, decide only whether a
  request is accepted or answered with an error that touches no state.
* A transaction is the set of wallets for which `evaluatePolicy` accepts it, and
  whether `previewPolicy` accepts it with no wallet known.
* The message is copied before the first await, so a request has one digest; the
  digests that the authorization compares are equal by that copy, and what
  `consumable` keeps is the operation and the request.
* Error codes other than `USER_CANCELLED` are one answer, `"error"`.
* Decryption yields the wallet of the blob or fails; a backup may yield any wallet.

### Runs

| Run | Instance | What it shows |
| --- | --- | --- |
| `signer`, scene "signer" | one request of each kind and one that does not decode, a wallet the transaction is for and one it is not for; the record of ids keeps one; three requests between two reloads; retries until two answers were posted | an authorization belongs to the running, confirmed request; a signature is as agreed and by an accepted wallet, also when a backup restores another; seeds are zeroed on every way out; an id comes back only after it was evicted |
| `cancel` (violation) | an unlock and a signature | a request dismissed while the wallet is restored, or the backup uploaded, is answered `USER_CANCELLED` and completes all the same |

The handlers are kept apart by `may_begin` alone, so two requests show every
interference and the third lets an id be evicted and come back; a record of one
id is full at once. The retry bound (`MaxAnswers`) cuts the loop of
`showRecoverable`, whose rounds differ only in the answers before them. No
fairness is assumed and no liveness stated: a user may leave any screen open.

One disagreement needs no run: the README says that signing and exporting use the
local storage only, while `handleSign` and `handleExportPrivateKey` fall back on
the backup (`restoreWalletSeed`).

### The review of a transaction

`TransactionReview` models what the signer tells of a transaction: the policy that
refuses most of them (`evaluatePolicy`, `previewPolicy`), the summary of each
instruction and of each call inside a spend, the risk, the warning, and the rows
of the sheet. State: the transaction `tx`, how far it is (`asked`), the `sheet`,
and the wallet that signs. With an empty local storage the sheet is drawn with no
wallet known, and the policy is evaluated again when the backup has told it. A
text is the kind of text and the facts in it, so that two texts are equal when a
reader sees no difference: an address is what is left of it once shortened, an
amount is its whole part and its digits. The decoder of the wire format is an input.

| Run | Instance | What it shows |
| --- | --- | --- |
| `signer`, scene "review" | up to two instructions, spends of up to four calls, every kind of instruction and call with whole, short and strange data, wallets that sign or do not | `SheetTells`: of up to three calls every amount can be read back to the raw one, wherever something goes is named, every fact is in the first rows or behind the details, and a warning is there exactly when the risk is not normal; what is signed is signed by who the sheet said, and the sheet is the one that would have been drawn had the wallet been known |

What the code does, and the property leaves out:

* `sign-risk.ts:62` calls unknown inner calls critical, but no summary ever has a
  title it looks for: a call to an unknown program is "elevated" only, while a
  memo whose text says "unknown" is critical.
* With more than three calls among which there is a send, the amounts of the other
  sends are not on the sheet; an unchecked token transfer shows no amount, its
  decimals not being known; the accounts of a single NFT transfer are not shown.
* "Copied, clears in 30s" (`ui.ts:640`): closing the sheet clears the timer
  (`ui.ts:630`), and the exported key stays in the clipboard. Not modelled.

### How a wallet is made and given accessories

`OwnerSetup` models the wallet's life across phones: the setup sheet of the app
(`setup`), passkeys (`made`; any phone may have them synced), the signer's
handlers as lists of steps still to do (`handlers`), the blob in each `storage`,
the `rows` of the backup, the session (`cookie`) and wallet (`address`) of each
phone, `claims` under way and the `authority` on the chain. A key stands for its
seed and a blob is what `wrapNewSeed` makes of it, with the key derived from the
passkey and the header that GCM authenticates. Any step may fail, the answer to the
push may be lost (`BackUp` stores the row, and `Fails`), the storage may refuse or
lose what it had, and a user may leave (`Abandon`): behind the passkey nothing asks
whether the user is still there, so the handler goes on next to a new one.

| Run | Instance | What it shows |
| --- | --- | --- |
| `signer`, scene "setup" | two phones, three passkeys of which one has a wallet, two handlers, one accessory, one claim at a time | `WalletsSurvive`: a wallet that an accessory, a claim or an app speaks of can be had back with its passkey alone; a blob a phone keeps opens, and its row has the same wallet, so that an unlock with it is taken |

Two handlers are one that was left and the next one, on one phone or two; of three
passkeys one is old, one may be lost half-way and one made after it. The order of
`handleCreate` (push, store, tell) is what the property hangs on: with the storage
first, a phone keeps a key that no backup has and that the API never takes.

What the code does not promise: a phone with a blob unlocks that wallet and
never asks the backup for another; after a dismissal the storage may hold another
wallet than the session's; a lost answer leaves a row nobody was told of; leaving
the page of a claim stops nothing.

### Proofs

`OwnerWallet_proofs` shows `WalletsSurvive` for any phones, passkeys, handlers and
accessories, from `SetupAssumption` (the null value is no passkey and no handler;
earlier passkeys are passkeys). The inductive invariant says what a handler has in
hand before each of its steps: once the push is over, or if the blob was stored or
restored, the blob is backed up. It is kept because a row stays and keeps its
wallet (`RowsGrow`, `GrowKeeps`); the steps that are left are shown to carry what
the next one needs (`StepsFacts`).

The same module shows `AuthorizationBound`, `SignedAsAgreed` and
`SeedsScrubbed`, and besides them `OneFlow` (one handler at a time) and
`EndsAnswered` (no way out without an answer), for every set of
requests, wallets and policies, from `SignerAssumption` (requests have one of the
four types, the policy accepts known wallets, the null values are not members,
the record keeps at least one id). The bounds `MaxAccepted` and `MaxAnswers` are
any natural numbers there.

The inductive invariant is `IInv == TypeOK /\ OneFlow /\ AuthorizationBound /\
FlowSound`. `FlowSound` says what a handler knows of itself at each await
(`FlowOK`): which awaits hold a seed, that a dismissal has posted an answer, that
no result is posted before the end, and of a signature which awaits it never
reaches, where the user has agreed and where the policy is known to hold. The
policy part is needed because a signature reads it far from where it is checked:
before the confirmation with a local blob, after the decryption with a restored
one.

Each action is shown to be one of two shapes, `Advances` (to another await, with
`FlowOK` there) or `Closes` (with `FlowOK` at the end), one lemma per action;
`AdvancesKeeps` and `ClosesKeeps` then show once that both shapes keep `IInv`.
`OneFlow` carries the rest: while one handler runs no other reads the state it
shares.

`DuplicatesAlwaysEvicted` is about the record of ids: between two acceptances of an
id since the last reload at least as many others were accepted as the record keeps.

`AlwaysSheetTells` is about the review, of transactions with any number of
instructions, calls, caps and remaining accounts, any amounts, mints and decimals.
Assumed are `ReviewAssumption` (the null values are no wallet and no address,
decimals are natural numbers, a day is not empty) and `TransactionsAssumption`,
the types of a decoded transaction. The argument has four parts:

* An amount can be read back. What `formatUnits` writes is the whole part and the
  digits behind it, without the zeros at the end: the digits up to any place weigh
  the raw fraction without its last ones (`DigitAdds`, `UptoEnds`), zeros at the
  end weigh nothing (`ZerosSayNothing`, `TrimmedIs`), so what a reader adds up is
  the raw amount (`AmountRead`).
* Nothing is left out. The functions that build rows are concatenations, and what
  they contain is shown of each (`SummarizedCalls`, `DetailsAre`, `PrimaryIs`,
  `AdvancedHolds`); from them follow the transfers and their amounts
  (`TransfersTold`), the places (`PlacesTold`) and every detail (`DetailsTold`).
* The warning fits. The gravest kind `riskCallout` finds first is a kind of the
  transaction, and there is one exactly when the risk is not normal (`CalloutTold`).
* What is signed is what was shown. The invariant `ReviewInv` says that the sheet is
  that of the transaction, drawn either for the wallet at hand or for none
  (`Drawn`), and that nothing is signed that the policy does not accept of the
  signer. If the sheet was drawn for none, the wallet it names is the first
  authority of an instruction, and since the policy accepts the signer each of them
  is the signer: the two sheets are one (`SignedShown`).

Every safety property that a run checks of this wallet is a theorem.

## 6. The clients of the signers

`Connector` models `PhygitalWallet` (`wallet.ts`), the object a page of an
application holds. State: `session`, `account`, `signer` and `promise` are its
private fields, `load` the calls of `loadSigner`, `stored` the session in the
local storage, `call` what the application's calls wait for. An action is what a
call runs between two awaits; loading awaits the wallet's address (`Checked`) and
the authority account (`Loaded`), `connect` awaits a load, a tap and the build of
the tapped signer. Other tabs write the storage (`StorageChanges`), and `Reload`
starts the page again. A wallet address is named after its accessory, so that a
session that claims another's wallet is `wallet # token`.

`SignerClient` models the web app's client of the secure signer
(`secure-signer-client.ts`): `request`, its waits (for the host to mount, for the
frame, for its READY message), their timers, the user's dismissal, and the sheet,
whose state (`open`), rendering (`shown`) and frame (`link`) follow one another
with delays. The frame takes one request at a time, as `SecureSigner` has it.

| Run | Instance | What it shows |
| --- | --- | --- |
| `connector`, scene "connector" | an interactive and a silent connect, a disconnect and a signature; two accessories at hand, a third that only a forged stored session names; three loads | `SignsForAccount`: a signature is made by the accessory of the account it was asked for; `NobodyStaysWaiting`: every call ends |
| `connector`, scene "client" | three requests | `NobodyStaysWaiting`: every request is answered, refused or timed out, through cold starts, dismissals and a closing sheet |

`SignsForAccount` holds as long as no two changes of the connection overlap
(`overlapped`), and the run shows it needs that. When they do overlap, the code
lets a load that ends late set the session and the signer of a wallet that was
disconnected, without its account; `connect` then returns no accounts, and a
signature may come from another accessory's signer. A build that fails after a tap
leaves an account without a signer. That a forged session never signs holds even
then. Each kind of call once is enough to overlap any two of them; three loads are
one for the page and one for each connect, which `ConnectorAssumption` asks for in
general. Three requests are one that waits, one that is refused, and one after them.

A second request is refused by the signer and closes the frame under the first one.
A dismissal while the signer loads cancels nothing that is pending, and a READY
during the closing animation posts the request to a frame about to go, so that the
caller waits for the request's own timeout; the comment of `abortReady` says that
callers do not hang.

Fairness: requests to the network, the prompt of a tap (which has a timeout) and
the continuation of a settled promise; timers fire, the host mounts, React renders
what was set and the closing animation ends. Neither the user nor the signer need
do anything.

### Proofs

`Connector_proofs` shows `SignsForAccount` for any accessories, stored sessions and
calls, from `ConnectorAssumption`: a stored session that fits its accessory was
stored after a tap (a tab writes what `connect` built), and there is one more load
than there are connects. The invariant has two halves. One holds whatever overlaps:
a call waits for a load that was begun, a promise is of no failed load, only
sessions that fit their accessory are built (`RefsOK`), names of loads are left for
each connect to come (`NamesOK`). The other, `Calm`, holds until two changes of the
connection overlap: one connect or load at a time (`OneChange`), with which session,
account and signer agree (`SignerOK`), and a signature waits for a load of the
account it was asked for (`CallsOK`).

Only model-checked: `NobodyStaysWaiting`, a liveness property.

## 7. Access

`Access` models what lets a browser open an accessory's pages: the routes under
`auth/`, the tap counters, the KV challenges and the backups of the owner's key.
State: `kv`, `counters` and `blobs` are the stores, `authority` the chain, `jar`
the browser's three cookies, `reqs` the requests under way with their local
variables. Every await of a handler is an action: the read of a challenge and its
deletion (`ConsumeRead`, then the action that calls `DropChallenge`), the read and the conditional
write of a counter, each statement of `putOwnerWalletBlob`. A request carries the
cookies the browser had when it was sent, and its answer changes the jar when it
arrives (`Answer`) or is lost. `Fail` cuts a handler at any await.

Abstractions: signatures, HMACs and WebAuthn assertions are conditions; an
encrypted backup is its key and a serial number; lifetimes count ticks left, so
one `Tick` ages everything. KV is seen from one location: elsewhere a deleted
challenge may still be read for up to a minute.

| Run | Instance | What it shows |
| --- | --- | --- |
| `access`, scene "api" | two accessories and two keys (symmetric), one passkey, one challenge, two requests at a time, three sent or handovers made; owner cookies live two ticks, sessions three, challenges one; counters up to two; at first an empty or legacy row, or a signed-in browser | the API's gate and the app's agree; accepted counters rise; a challenge is not accepted after the answer that used it; owner mode ends a cookie lifetime after the ownership; a sign-out brings no cookie back but those whose open or backup it crosses; a session has a complete backup, and a complete row keeps its key |

Two requests at a time show each race of two statements; the third event is what
comes before or after them (a handover, an earlier open, a retry).

What the code does not promise, and the properties leave out: requests that
overlap may share one challenge; an open in flight at a sign-out puts owner mode
back, a backup in flight the session, and each only that (`SignOutHolds` follows the
two cookies apart, through every such crossing); opening the same accessory while a tap is answered can leave neither
cookie; a tap whose token lookup fails has used its counter; an older backup's
retry may overwrite a newer ciphertext of the same key.

### The way to a page

`AccessoryRoutes` models where one tab of the web app takes its user. State: the
browser's `cookies`, which other tabs share; the page on the `screen`, the
navigation under way (`going`) and the page `behind`; the `hold` ceremony, the card
being opened (`opening`), the claim or unlink under way (`owning`) and the
accessory held instead of the one expected (`mismatch`); the chain's `owners` and
the two queries about them. `Request` is the middleware, which reads the cookies of
that moment. `sendOn` is what a page does by itself: the gate before an unclaimed
accessory, the claim panel, and the address page that shows the wallet. It runs when
a page is shown (`Show`) and when a query it reads has changed (`Learn`). `asked` is
the accessory opened last, by its link, a Hold, "open the one held" or a card,
unless another navigation came since; `hops` counts redirects since something was
done or learnt. The wallet's inner pages are one page, and so are addresses the app
refuses and the cold page.

| Run | Instance | What it shows |
| --- | --- | --- |
| `access`, scene "route" | two accessories (symmetric), any cookies but owner mode at first, two actions of the user, one change of a cookie or an owner from elsewhere, one Hold, one card and one claim or unlink at a time | `Arrives`: the user is redirected at most twice in a row, and ends in the wallet or at the claim of the accessory he opened, as the queries say, if he may still enter it |

Two actions overlap any ceremony with any other or with a navigation; the change
from elsewhere expires a cookie, or opens another accessory, between any two steps.
The proof needs none of these bounds. No fairness: nobody has to follow a link.

What the code does besides: a query of the owner that failed counts as unclaimed
(`use-token-owner.ts`), so a claimed accessory is sent to its claim until the query
succeeds; `setPendingReturn` (`claim-return.ts`) has no caller, so `OwnerHome` never
finds a pending return; the session mode is cached for five minutes and not
invalidated when a Hold replaces owner mode.

### Proofs

`Access_proofs` proves every property of the run for any number of accessories,
keys, passkeys, challenges and requests and any lifetimes, from
`LimitsAssumption`, `CredentialsAssumption` (there is a passkey) and
`NoneAssumption` (the null value is no other). `TypeCorrect` rests on `RequestOK`,
what a request carries at each await; the handlers are shown once to leave a
request in one of a few ways (`Moves`, with what an answer may set in `Issued`),
and four invariants use that:

* `TapsRise` is inductive: the upsert's condition is what rises.
* `TicketsOK`: past the deletion, and for ever after an answer, a challenge is
  `gone`, which no step undoes because ids are issued once (`GoneStays`).
* `CookiesOK`: an answer that puts one admit cookie down alive takes the other
  away; the ticks left plus the ticks since the ownership was lost never exceed a
  lifetime. `SignOutOK`: while a sign-out holds for a cookie, nothing under way could
  end in that cookie (`mints`), and what is sent later could only with a session,
  which is why nothing but a backup ends it for the session, and nothing but a
  session for owner mode.
* `BackupOK`: a live session in the jar *or in an answer under way* has its row;
  an update under way has seen the row it changes; complete rows only change their
  ciphertext (`RowsKept`).
* `RoutesInv`: a page ends the navigation (`EndsAt`), or is sent on once to one that
  does (`EndsSoon`); `Settles` ties that to the count of redirects, and `OnTheWay`
  says that the accessory opened last is where the user goes or is. It needs that
  neither cookies nor queries change without the count starting anew. Every step is
  of one of seven kinds (`StepKinds`), and each invariant is shown for the kinds.

## 8. From the chain to the ledger

`FeeQueue` models the webhook, the queue, its consumer and the activity feed.
State: `hook` (what the outside service has still to deliver), `queue` with the
retries each copy has left, the `batch` a consumer is at, the `dead` letters, the
`rows` of the activity in order of insertion, `booked` (the `fee_events` of the
ledgers) and `walk`, somebody reading page by page. `Deliver` may fail to send or
lose its answer. A batch is stored chunk by chunk and then applied to one ledger
after the other; a failure after any statement sends it back whole. Of the ledger
only `booked` is here: what one delivery does to the balance is `FeeLedger`'s
`BookSpec`.

| Run | Instance | What it shows |
| --- | --- | --- |
| `queue` | two transactions of one block that debit, one of which also credits, an older one that moved two wallets and is long booked, a message nobody can read; batches of two, one retry, one copy each, chunks and pages of one row, one consumer | what is booked is shown; paging shows each row once and every row that was there at the start; a landed transaction is booked or ends among the dead letters |

A chunk of one makes every statement a place to fail; one retry has both a retry
and a dead letter. A late delivery (`hook` due) inserts a row older than what the
reader has passed. `Affects` names the wallets whose rows are shown. Left out: a
payload that cannot be indexed is acknowledged and not enqueued; a transaction
whose row cannot be parsed is dropped for the ledger too; failed transactions are
never debited; a sponsored transaction that moves nothing but the fee has a debit
and no row.

Fairness: the service delivers until it is answered with 200 ("the service retries
indefinitely", `0002_wallet_activity.sql`), the queue hands out a message that
keeps being available (strong), and a batch is worked on or given up.

### Proofs

`FeeQueue_proofs` shows `BookedIsShown` and `WalkComplete` for any messages,
wallets, consumers, chunk sizes, page limits, block times and numbers of retries and
copies, from `QueueAssumption`.

* `StoreInv` says how far each batch has come (`BatchesReached`): up to its next
  row the table holds what it stores, and from its first fee on all of it. It is
  kept whatever other batches do because a table only grows at its end and stays
  without repetitions (`Inserted`, which INSERT OR IGNORE of a row satisfies and a
  fold of such rows with it). That the last chunk ends where the rows end is
  arithmetic about `D1_BATCH_CHUNK`.
* `WalkInv` rests on the order of a reading being total (`NewerOrder`), which the
  row id makes it, and on what `LIMIT` takes being its beginning (`NewestHolds`):
  everything read is at or before the row of the cursor, everything that was there
  at the start and has not been read is behind it. A row inserted meanwhile may land
  on either side; it is never read twice.

Only model-checked: `LandedIsBooked`, a liveness property.

## 9. From a message to a tap

`TapPipeline` follows one signature by tapping from the application's message to
its execution, over three modules of pure operators: `ExecuteWrap` (compilation,
elevation and challenge in the SDK; expansion, hashes and checks in `compact.rs`),
`InstructionPolicy` (permissions: matching, validation, decoding) and `SlotHash`.
`Powers` has the powers its numbers and the amounts of the web app are scaled by.
State: the sysvar `slots` and the `policy` on chain, the `message`, the `phase`,
what the pipeline holds (`wrap`, `slot`, `challenge`, `previewed`), whether the
application `aborted`, `why` something refused, and what was `invoked`. Slots with
and without a block pass, and the owner saves policies, between any two steps.

A message is its instructions and one role per address, as a compiled message has;
a hash is what is hashed; a byte is a number below `Base`; the runtime's flags are
`runtime_role`. Limits, priority fees and the lifetime of the blockhash change no
decision here.

| Run | Instance | What it shows |
| --- | --- | --- |
| `app`, scene "tap" | messages of one or two calls, memos, every combination of privileges on the accounts named, two payers; nine policies, two of them refused; three entries of SlotHashes, four slots | `TapsAsAsked`: the challenge that was tapped is the one the program computes, and the program calls what was asked, with no other privileges; the preview decides as the tap; the search finds exactly what is listed; a saved policy means what it says and can be read back |

Two calls show how accounts merge and renumber; three entries have a middle, both
ends and gaps. The properties name their exceptions, which are the code's:

* `TapsAsAsked` (`ChallengeMatches`): a configured fee payer that the body reads is hashed without
  the writable flag the runtime gives it (`elevateForExecuteAccounts`,
  `wrap-transaction.ts:537`), contrary to `compile.ts:55`; a memo that the wallet
  is to sign can never land.
* `PreviewAgrees`: not when the body names the authority itself, which signs the
  preview and not the tap.
* The accounts `execute` protects are always writable in it, so no call that names
  them is ever accepted in a tap.
* `applyBlockhashIfNeeded` (`wrap-transaction.ts:275`) refreshes the blockhash
  almost always, contrary to the comment of its constant.

No fairness: an application may leave a prompt open.

### Proofs

`WebApp_proofs` shows `TapsAsAsked`, `PreviewAgrees` and `SearchFinds` for any
addresses, messages, policies, numbers of slots and entries of the sysvar, from
`MessagesAssumption` (the payer signs and is charged; a program that is called is
neither the fee payer nor signs nor is written to, as the runtime has it) and
`PoliciesAssumption` (what may be asked to be saved is a list of permissions as
Borsh decodes it, `ProgramPermission`, whatever it says). From the same assumptions
follows `PoliciesHold`.

* What a compiled message lists is a left fold over its mentions. `ListsAll` says of
  the result that it names every account once, with the roles of all its mentions
  and no others; it is an invariant of the fold (`LeftFoldKeeps`). From it follow
  that the indexes of a call point at its accounts (`CompactPoints`), and that
  expanding what was compiled gives back what was asked.
* The roles that were hashed are compared with `runtime_role`, the flags of the
  transaction that is built afterwards, account by account. The two exceptions are
  needed exactly where the sides differ.
* `PreviewAgrees` follows because every check of `InstructionPolicy` looks at
  accounts that are the same in both simulations unless they are the authority
  (`JudgedAlike`).
* `TapInv` carries the compiled message and the challenge from one await to the
  next (`WrapKept`), while slots pass and policies are saved.
* `SearchFinds` needs that the sysvar descends (`SlotsOK`) and follows by the length
  of the range that is left to search (`FindsBetween`).

* `PoliciesHold` needs only that whatever is saved was validated (`PolicySaved`);
  the rest is about `InstructionPolicy`.
  * Its first half, that a constraint matches the data that say what it says, is
    about slices and numbers. `At` is a slice (`SliceAt`). `le_value`, a fold from
    the right, is read as the number each suffix of the bytes writes
    (`LeValueTails`), and `Positional` shows by induction from either end that the
    digits of a number below `Base`^width are the bytes exactly when it is that
    number. The powers are the recursive function of `Powers`, whose equations
    `PowersPositive` derives.
  * Its second half, that what can be saved can be decoded, relates two walks over a
    policy: validation sums sizes structure by structure, decoding lists every
    allocation in the order it meets it. `Allocates` says of a list of lists what it
    costs in all and when each fits its bound; it is shown for constraints,
    accounts, rules and permissions in turn, lists in a row costing what they cost
    together (`WeighConcat`, `WeighFlatten`).

## 10. The web app

`AppTransactions` models the transactions of a page and one query of its cache: a
run of `runWalletTransaction` or of a mutation makes attempts that are denied,
approved, retried, sent and confirmed; patches, snapshots, rollbacks, fetches and
reloads change what the query shows. The RPC takes a transaction (`Taken`) before the
page hears of it (`Answered`) and patches its cache; in between the transaction may
land and a fetch may read it. What a query holds is how often it shows the effect of
each transaction: a policy is replaced, a collectible leaves its list and a row
enters the activity once, a balance is changed by the amount as often as it is
patched (`effect`). The balance is of a coin that is listed and covers the payments;
that a coin of which there is none is not patched, and that a balance is cut off at
zero, is left out. A fetch of the policy reads the chain; the feed of activity and
the index of what a wallet holds may lag behind it (`may_miss`).

`PolicyPanel` models the panel in which an owner edits the policy. State: `stored`
on the chain, the clock and what taps draw; `fetched` and the view the cache shows;
the editor's drafts, dialogs and errors; and the calls of the three mutations
(`save`) with what they were computed from, each from the submission over the
RPC's acceptance (`SaveTaken`) to the answer and its patch (`Broadcast`), which may
be lost (`unanswered`). Amounts are parsed and formatted
digit by digit as the page does it, since a draft that was only looked at is
written back; SOL and mints are one function of the asset. What the program makes
of a save is the arithmetic of `SpendingLimit`.

`PaymentPages` models the send, receive and top-up pages: the `form`, the `stage`
shown while an accessory is held, the one approval `sheet` with the promise it
decides (`decide`), held accessories (`taps`) and payments (`pay`). What a payment
pays is fixed when it begins; the page is live meanwhile and is rendered again
whenever what it reads changes (`Rendered`, `PortfolioLoads`).

| Run | Instance | What it shows |
| --- | --- | --- |
| `app`, scene "page" | two runs with two attempts each (the code allows four), the balance, the collectibles, the activity or the policy | `SpendsOnce`: nothing is sent twice unless an answer was lost; `ShownIsTrue`: a quiet page shows the chain, each transaction once, but for the cases below |
| `app`, scene "panel" | SOL and one mint with one decimal, two programs of one capability and a third, three first policies (with rules of their own, denied, drawn on), one save, a tap, another device that turns the policy off; one asset or program touched, one amount typed | `UntouchedKept`: a save changes nothing that was not touched, of caps, of what is left of them and of rules, if nothing was written since; `PatchForetells`: the patch of a save is what a fetch would return; `MatrixIsSafe`: the matrix never shows more than a tap may do, and a row shown as blocked has a program that is |
| `app`, scene "pay" | each page for each kind of asset, an owner or a visitor, two payments, two held accessories, renders at any time | `ShownIsSent`: the card of a success, the one above a held accessory and the approval sheet are about the payment that was made, field by field, the payer always; `BusyIsTrue`: the form is busy exactly while it pays or identifies, does one thing at a time, and a decision goes to the payment that asked |
| `refetch` (violation) | the send page, by itself | a send page opened for one token loses what was typed when its portfolio is fetched again |

Two runs overlap in every way, and a third attempt does what the second did. Of
two mutations one is signed by a tap and one by the owner (`OneTapped`); of two
sends both may be either. One save is enough for what a draft and a patch contain;
how patches and fetches cross is the page's scene. Two payments are one that is
left and its successor.

Properties name what the code does not promise. In `ShownIsTrue`, until the next
clean fetch:

* a payment that lands, and is fetched, between the RPC's acceptance (`tx.ts:272`,
  `wallet-transaction.ts:113`) and the patch (`mutations.ts:111`) is subtracted from
  a balance that counts it already, and its confirmation does not undo that
  (`overtaken`); likewise a policy is patched over one that replaced it meanwhile;
* rollbacks that overlap restore each other's snapshot, and a fetch races a patch, in
  either order, or reads an index that lags;
* a reload keeps a persisted patch without its rollback; an answer that is lost
  leaves no patch of what may land;
* the feed of activity is patched before it was loaded, so it shows that row alone;
* `confirmed` rejects on a failed poll or after a minute though the transaction may
  land (`tx.ts:228` says it "rejects if the tx fails or the blockhash expires").

In `SpendsOnce`: an RPC answer that is lost counts as never broadcast (`wallet-
transaction.ts`), so a retried mutation may send twice. In `PatchForetells`: the
patch starts a window at the time of the save, the program on its grid
(`same_but_anchor`). In `BusyIsTrue`: the effect that resets a send form under a
busy payment (the finding of `refetch`) also forgets the payment's abort, so that
a second one may run (`wiped`). In `ShownIsSent`: the success card of the receive
page and the approval sheet read the form as it is now, so they differ in the
asset, the amount or the note where the user has edited that field since the
payment began (`edited`); who pays is fixed with the payment and is never another,
whatever is edited or held meanwhile.

What else the pages do, with no run about it:

* A cap typed as "." is 0, which the program refuses; caps of tokens that are not
  listed keep their raw amount; the comment of `MAX_MINT_CAPS` speaks of a limit on
  chain that the program does not have.
* The amount left that the page shows is not refilled lazily as the program does it.
* A token list that failed and is fetched again remounts the editor and loses its
  drafts; its inputs and Back are live while a save is pending.
* A denial of one of the token programs shows the row of both as blocked.
* Cancel while an accessory is held leaves the page without aborting the payment.

No fairness is assumed in these scenes.

### Proofs

`WebApp_proofs` proves `SpendsOnce` and `ShownIsTrue` for any runs and
number of attempts (at least two). `Sent` says that nothing is sent ahead of the
current attempt, nor by an earlier one unless it lost its answer. For
`ShownIsTrue` the invariant (`PageOK`) follows the cache while the page is calm: it
agrees with the chain on every transaction but those that landed ahead of their
answer (`ahead`, `agrees`), where it may be either. At most one patch waits for its
verdict (`Watched`): until it lands the cache is that patch of a snapshot that agrees,
so it can be taken back, and from then on the cache agrees. A current fetch has read
what the chain still says (`Fetched`), and the chain has each transaction once
(`Counts`), which a balance patched after it was fetched has not.

Its second part proves the panel's properties for any assets, decimals, programs,
capabilities, presets and saves (`PanelAssumption`). `PanelInv` says of every
asset and program that was not touched, in the editor and in a save under way, that
its draft still means what is stored, as long as nothing was written since; and of a
save's patch that it is what the program will make of it at some time (`foretold`).
What it rests on is `RoundTrip`: an amount that is formatted, not touched and parsed
again is the same amount, for every number of decimals. Powers of ten are the
recursive function `pow10` of `Powers`, which the provers know nothing of; that it
is what it says is shown by a least counterexample (`PowersPositive`), not by the
library's induction theorem, whose operator parameter cannot be instantiated.
`AlwaysMatrixIsSafe` follows for every row of the matrix (`RowOf`).

Its third part proves `ShownIsSent` and `BusyIsTrue` for any wallets, assets
and number of payments (`PagesAssumption`). `PagesInv` relates the form, the stage,
the sheet, the decision and the abort controller to the payments: what is under way
pays what the form holds in every field that was not edited (`FormIsPaid`), what they point to can
still use them (`RefsOK`), and one thing at a time is under way until a busy form
was reset (`OneAtATime`).

## 11. Not modelled

Generated clients, scripts and deployment configuration. The audit log, which
nothing reads back. The lists and wording of the web app: presentation
with no protocol of its own. Fee balances in the query cache, which are patched by
an estimate. The rent and fee-balance answers that may disable a button. Layout and
the clipboard of the secure signer. Cryptography, WebAuthn, Borsh, the wire format
of transactions, the Solana runtime and the external phygital-token program are
conditions and inputs. `PROJECT.json` gives each part its status and reason.

What TLAPS cannot reach here stays with TLC: the liveness properties
(`ReservesCleared`, `LandedIsBooked`, `NobodyStaysWaiting`). The library's induction theorems take an operator, which no prover here instantiates;
where a fold or a recursive function matters the proofs use a least counterexample
instead (`LeastNumber`, `Inductive`). `FoldFacts` shows in this way that folds over
finite sets and sequences exist and have the values of their equations, what the
largest of a finite set is, how sums compare and combine, what a left fold keeps,
what `FlattenSeq` contains and weighs, what it keeps of sequences whose members have
no common type (the rows of the review hold texts of many kinds: `IsSeq`,
`FlattenedSeqs`), where `SelectInSeq` finds what it looks for, what powers are, and
what digits write. `SignerClient`, whose one property is liveness, has no proofs.
Every invariant and action property that a passing run checks is a theorem.
