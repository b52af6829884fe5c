-------------------------- MODULE AppTransactions --------------------------
(***************************************************************************)
(* The transactions of the web app: how a send, a top-up, a claim or a     *)
(* policy change is signed, submitted and confirmed, and what the page's   *)
(* query cache shows meanwhile.                                            *)
(*                                                                         *)
(* A run is one call of runWalletTransaction (sends, top-ups) or of a      *)
(* mutation that React Query retries (claim, unlink, set and clear policy).*)
(* Its transactions are its attempts.  What the signer and the fee payer   *)
(* answer is an input; SignerClient models how the signer's answer comes.  *)
(*                                                                         *)
(* Queries are patched, fetched and restored each for itself, and the two  *)
(* kinds of run patch different ones, so a behaviour follows one query and *)
(* the runs that patch it.  What the query holds is how often it shows the *)
(* effect of each transaction, so that a patch, a snapshot and the chain   *)
(* compare: a balance can count one twice.                                 *)
(***************************************************************************)
EXTENDS Naturals

CONSTANTS
    Runs,
    MaxAttempts,  \* 1 + the retries of shouldRetryQuery
    NotLoaded     \* a query with no data

\* An approval by the owner is a second attempt.
ASSUME AttemptsAssumption == MaxAttempts \in Nat /\ MaxAttempts >= 2

Txs == Runs \X (1 .. MaxAttempts)

\* No data is not data.
ASSUME NotLoadedAssumption == NotLoaded \notin [Txs -> Nat]

VARIABLES
    query,    \* "balance", "collectibles", "activity" or "policy"
    run,      \* mode, phase and current attempt of each run
    chain,    \* what became of each transaction
    verdict,  \* what its confirmed promise said
    truth,    \* what the query would show if fetched from the chain now
    cache,    \* what it does show
    pending,  \* activity rows shown as pending
    snap,     \* what each transaction's rollback would restore
    fetch,    \* a fetch under way: what it read, and whether that is current
    calm,     \* history: nothing below has made the query unreliable
    lost      \* history: runs that lost the answer of the RPC

page == <<cache, pending, snap>>
app == <<query, run, chain, verdict, truth, cache, pending, snap, fetch, calm, lost>>

Nothing == [t \in Txs |-> 0]
Just(t) == [Nothing EXCEPT ![t] = 1]

Run(mode, phase, n) == [mode |-> mode, phase |-> phase, n |-> n]

NoFetch == [value |-> NotLoaded, current |-> FALSE, going |-> FALSE]
NoSnap  == [value |-> NotLoaded, pending |-> {}]

AppInit ==
    /\ query \in {"balance", "collectibles", "activity", "policy"}
    /\ run = [r \in Runs |-> Run("policy", "idle", 1)]
    /\ chain = [t \in Txs |-> "none"]
    /\ verdict = [t \in Txs |-> "none"]
    /\ truth = Nothing
    /\ cache \in {Nothing, NotLoaded}
    /\ pending = {}
    /\ snap = [t \in Txs |-> NoSnap]
    /\ fetch = NoFetch
    /\ calm = TRUE
    /\ lost = {}

current(r) == <<r, run[r].n>>

\* Claim, unlink, set and clear policy are mutations, a send is not.
mutation == query = "policy"

\* The coins and the collectibles of a wallet are one query.
portfolio == query \in {"balance", "collectibles"}

\* A policy or an owner is replaced.  A payment is subtracted from the
\* balance at hand, or added to it, whatever that counts already; a
\* collectible leaves its list and a row enters the activity once.  (The
\* balance is of a coin that is listed, and no payment exceeds it: that a
\* coin of which there is none is not patched, and that a balance is cut off
\* at zero, is left out.)
effect(shown, t) ==
    CASE query = "policy" -> Just(t)
      [] query = "balance" -> [shown EXCEPT ![t] = @ + 1]
      [] OTHER -> [shown EXCEPT ![t] = 1]

\* The RPC took it, and its answer is on its way.
taken == {current(r) : r \in {s \in Runs : run[s].phase = "taken"}}

\* Patched and not yet confirmed.
unsettled == {t \in Txs : verdict[t] = "waiting"}

under_way == taken \cup unsettled

-----------------------------------------------------------------------------
(* Attempts.                                                               *)

goto(r, phase) == run' = [run EXCEPT ![r] = Run(run[r].mode, phase, run[r].n)]
first_phase(mode) == IF mode = "policy" THEN "tapping" ELSE "signing"

\* Owners who browse send as the authority, accessories under the policy.  A
\* claim is a mutation that a tap signs.
Start(r) ==
    /\ run[r].phase = "idle"
    /\ \E mode \in {"policy", "authority"} :
          run' = [run EXCEPT ![r] = Run(mode, first_phase(mode), 1)]
    /\ UNCHANGED <<query, chain, verdict, truth, page, fetch, calm, lost>>

next_attempt(r, retry) ==
    LET now == run[r]
    IN  run' = [run EXCEPT ![r] =
                  IF retry /\ now.n < MaxAttempts
                  THEN Run(now.mode, first_phase(now.mode), now.n + 1)
                  ELSE Run(now.mode, "unsent", now.n)]

\* Mutant: a send, too, is tried again.
retried(r, network) == next_attempt(r, network)

\* An attempt failed: a mutation tries again after an error that looks like
\* the network's, a send never.
failed_attempt(r, network) == next_attempt(r, network /\ mutation)

\* The tap, the build or the owner's or the fee payer's signature fails.
AttemptFails(r) ==
    /\ run[r].phase \in {"tapping", "signing"}
    /\ \E network \in BOOLEAN : failed_attempt(r, network)
    /\ UNCHANGED <<query, chain, verdict, truth, page, fetch, calm, lost>>

\* Denied before anything is sent: the owner may approve, unless it is for
\* want of fees.  A claim has no such way out.
PolicyDenies(r) ==
    /\ run[r].phase = "tapping"
    /\ \E funding \in BOOLEAN :
          goto(r, IF ~mutation /\ ~funding THEN "asking" ELSE "unsent")
    /\ UNCHANGED <<query, chain, verdict, truth, page, fetch, calm, lost>>

Decide(r) ==
    /\ run[r].phase = "asking"
    /\ \/ run' = [run EXCEPT ![r] = Run("authority", "signing", run[r].n + 1)]
       \/ goto(r, "unsent")
    /\ UNCHANGED <<query, chain, verdict, truth, page, fetch, calm, lost>>

Signed(r) ==
    /\ run[r].phase = "signing"
    /\ goto(r, "sending")
    /\ UNCHANGED <<query, chain, verdict, truth, page, fetch, calm, lost>>

-----------------------------------------------------------------------------
(* Submission and confirmation.                                            *)

submitting(r) == run[r].phase \in {"tapping", "sending"}

\* The RPC takes the transaction.  Before its answer is back the transaction
\* may land, and fetches may read it.
Taken(r) ==
    /\ submitting(r)
    /\ chain' = [chain EXCEPT ![current(r)] = "inflight"]
    /\ goto(r, "taken")
    /\ UNCHANGED <<query, verdict, truth, page, fetch, calm, lost>>

\* setQueryData: an absent portfolio stays absent, anything else absent is
\* created from the patch.
patched(t) ==
    IF cache # NotLoaded THEN effect(cache, t)
    ELSE IF portfolio THEN NotLoaded ELSE Just(t)

\* Mutant: the snapshot is taken after the patch.
patched_snapshot(t) == [value |-> patched(t), pending |-> pending]

snapshot(t) == [value |-> cache, pending |-> pending]

\* The patch comes too late: the balance was fetched and counts the
\* transaction, or another policy has replaced this one.
overtaken(t) ==
    \/ query = "balance" /\ cache # NotLoaded /\ cache[t] > 0
    \/ query = "policy" /\ chain[t] = "landed" /\ truth # Just(t)

\* The answer is back: the cache, as it is by now, is patched.
Answered(r) ==
    /\ run[r].phase = "taken"
    /\ LET t == current(r)
       IN  /\ verdict' = [verdict EXCEPT ![t] = "waiting"]
           /\ snap' = [snap EXCEPT ![t] = snapshot(t)]
           /\ cache' = patched(t)
           /\ pending' = IF query = "activity" THEN pending \cup {t} ELSE pending
           /\ calm' = (calm /\ unsettled = {} /\ ~overtaken(t)
                           /\ (query = "activity" => cache # NotLoaded))
    /\ fetch' = [fetch EXCEPT !.current = FALSE]
    /\ goto(r, "sent")
    /\ UNCHANGED <<query, chain, truth, lost>>

\* The answer is lost, of a transaction that may have landed.
AnswerLost(r) ==
    /\ run[r].phase = "taken"
    /\ failed_attempt(r, TRUE)
    /\ lost' = lost \cup {r}
    /\ calm' = (calm /\ chain[current(r)] # "landed")
    /\ UNCHANGED <<query, chain, verdict, truth, page, fetch>>

SendRefused(r) ==
    /\ run[r].phase = "sending"
    /\ \E network \in BOOLEAN : failed_attempt(r, network)
    /\ UNCHANGED <<query, chain, verdict, truth, page, fetch, calm, lost>>

Land(t) ==
    /\ chain[t] = "inflight"
    /\ chain' = [chain EXCEPT ![t] = "landed"]
    /\ truth' = effect(truth, t)
    /\ fetch' = [fetch EXCEPT !.current = FALSE]
    /\ calm' = (calm /\ t \in under_way)
    /\ UNCHANGED <<query, run, verdict, page, lost>>

\* It fails, or its blockhash expires.
Die(t) ==
    /\ chain[t] = "inflight"
    /\ chain' = [chain EXCEPT ![t] = "dead"]
    /\ UNCHANGED <<query, run, verdict, truth, page, fetch, calm, lost>>

Confirmed(t) ==
    /\ verdict[t] = "waiting" /\ chain[t] = "landed"
    /\ verdict' = [verdict EXCEPT ![t] = "ok"]
    /\ pending' = pending \ {t}
    /\ snap' = [snap EXCEPT ![t] = NoSnap]
    /\ UNCHANGED <<query, run, chain, truth, cache, fetch, calm, lost>>

\* The restore functions: without a snapshot the portfolio is fetched again
\* and the others are removed.
restored(t) ==
    IF portfolio /\ snap[t].value = NotLoaded THEN cache ELSE snap[t].value

\* confirmed rejects: the transaction died, or the minute ended while it was
\* still on its way, or two polls failed, of what may have landed.
Rejected(t) ==
    /\ verdict[t] = "waiting"
    /\ calm' = (calm /\ chain[t] # "landed")
    /\ verdict' = [verdict EXCEPT ![t] = "error"]
    /\ cache' = restored(t)
    /\ pending' = snap[t].pending
    /\ snap' = [snap EXCEPT ![t] = NoSnap]
    /\ UNCHANGED <<query, run, chain, truth, fetch, lost>>

-----------------------------------------------------------------------------
(* Fetches.                                                                *)

\* The policy is read from the chain; the feed of activity and the index of
\* what a wallet holds lag behind it.
may_miss == IF query = "policy" THEN {} ELSE {t \in Txs : truth[t] > 0}

FetchStart ==
    /\ ~fetch.going
    /\ \E missed \in SUBSET may_miss :
          fetch' = [value |-> [t \in Txs |-> IF t \in missed THEN 0 ELSE truth[t]],
                    going |-> TRUE, current |-> missed = {} /\ unsettled = {}]
    /\ UNCHANGED <<query, run, chain, verdict, truth, page, calm, lost>>

\* No patch cancels a fetch: what it read replaces the patch.
FetchDone ==
    /\ fetch.going
    /\ cache' = fetch.value
    /\ pending' = {}
    /\ calm' = fetch.current
    /\ fetch' = NoFetch
    /\ UNCHANGED <<query, run, chain, verdict, truth, snap, lost>>

-----------------------------------------------------------------------------
(* The page is loaded anew.  Nothing watches a transaction any longer, and *)
(* of the queries only the portfolio is kept in the local storage, its     *)
(* patches with it.  (The storage follows the cache within a second; here  *)
(* at once.)                                                               *)

persisted == portfolio

Reload ==
    /\ run' = [r \in Runs |-> IF run[r].phase \in {"idle", "sent", "unsent"} THEN run[r]
                                ELSE Run(run[r].mode, "gone", run[r].n)]
    /\ verdict' = [t \in Txs |-> IF t \in unsettled THEN "gone" ELSE verdict[t]]
    /\ cache' = IF persisted THEN cache ELSE NotLoaded
    /\ calm' = (persisted => calm /\ under_way = {})
    /\ pending' = {}
    /\ snap' = [t \in Txs |-> NoSnap]
    /\ fetch' = NoFetch
    /\ UNCHANGED <<query, chain, truth, lost>>

-----------------------------------------------------------------------------
AppNext ==
    \/ \E r \in Runs :
          \/ Start(r) \/ AttemptFails(r) \/ PolicyDenies(r) \/ Decide(r) \/ Signed(r)
          \/ Taken(r) \/ Answered(r) \/ AnswerLost(r) \/ SendRefused(r)
    \/ \E t \in Txs : Land(t) \/ Die(t) \/ Confirmed(t) \/ Rejected(t)
    \/ FetchStart \/ FetchDone \/ Reload

AppSpec == AppInit /\ [][AppNext]_app

-----------------------------------------------------------------------------
(* When nothing is under way, a query shows what the chain says, once, and *)
(* no row is left pending, unless since its last clean fetch two patches   *)
(* of it overlapped (the rollback of one restores a snapshot without, or   *)
(* with, the other), a fetch overlapped a patch, a balance was patched     *)
(* that had been fetched with the transaction or a policy that another had *)
(* replaced by then, a transaction landed that was reported as failed, or  *)
(* whose answer was lost, or that a reload had forgotten, a reload came    *)
(* before the last word of one, or the feed was patched before it was      *)
(* loaded (runWalletTransaction, the patches and rollbacks of              *)
(* mutations.ts).                                                          *)
ShownIsTrue ==
    calm /\ under_way = {} /\ cache # NotLoaded =>
        cache = truth /\ (query = "activity" => pending = {})

\* A send puts at most one transaction on its way, through denial, approval
\* and both ways of signing, and a mutation a second one only after it lost
\* the answer to the first; a run that ends unsent put none on its way,
\* unless it lost an answer.
SpendsOnce ==
    \A r \in Runs :
        LET sent == {n \in 1 .. MaxAttempts : chain[<<r, n>>] # "none"}
        IN  /\ ~mutation \/ r \notin lost => \A m, n \in sent : m = n
            /\ run[r].phase = "unsent" /\ r \notin lost => sent = {}
=============================================================================
