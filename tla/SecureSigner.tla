---------------------------- MODULE SecureSigner ----------------------------
(***************************************************************************)
(* The secure signer: a frame that receives requests from the page around  *)
(* it, asks the user and the passkey, and answers with a signature, an     *)
(* unlocked wallet, or an error.                                           *)
(*                                                                         *)
(* Each accepted request runs an asynchronous handler; an action is what a *)
(* handler does between two awaits.  Between them other requests arrive,   *)
(* the user closes the waiting screen, the frame is reloaded.  The signer  *)
(* state, the authorization and the handler of the close button are shared *)
(* by all handlers; only the guard of begin keeps handlers apart.          *)
(***************************************************************************)
EXTENDS Integers, Sequences, FiniteSets

CONSTANTS
    Ids,                      \* request ids, each naming one request
    Type,                     \* what each asks for, in Types
    Malformed,                \* requests whose payload the handler refuses at once
    Previewed,                \* transactions previewPolicy accepts
    Signers,                  \* the wallets for which evaluatePolicy accepts each
    Wallets,
    SEEN_REQUEST_IDS_LIMIT,
    MaxAccepted,              \* bound: requests accepted between two reloads
    MaxAnswers                \* bound: answers after which a user stops retrying

Types == {"create", "unlock", "sign", "export"}

(* evaluatePolicy starts with previewPolicy. *)
ASSUME SignerAssumption ==
    /\ Type \in [Ids -> Types]
    /\ Signers \in [Ids -> SUBSET Wallets]
    /\ \A i \in Ids : Signers[i] # {} => i \in Previewed
    /\ "none" \notin Ids
    /\ "no wallet" \notin Wallets
    /\ SEEN_REQUEST_IDS_LIMIT \in Nat \ {0}
    /\ MaxAccepted \in Nat
    /\ MaxAnswers \in Nat

VARIABLES
    state,                \* SignerState.state
    activeRequestId,
    authorization,
    seen,                 \* seenOrder, the request ids remembered
    dismiss,              \* whose callback the close button of a waiting screen runs
    flow,                 \* the handlers
    local,                \* the wallet whose blob is in the local storage
    accepted              \* ids accepted since the frame was loaded

vars == <<state, activeRequestId, authorization, seen, dismiss, flow, local, accepted>>

NoId == "none"
NoWallet == "no wallet"
Auth(op, i, w) == [operation |-> op, requestId |-> i, walletPublicKey |-> w]
NoAuth == Auth("IDLE", NoId, NoWallet)

operation == [create |-> "AUTH_PENDING", unlock |-> "AUTH_PENDING",
              sign |-> "SIGN_PENDING", export |-> "PRIVATE_EXPORT_PENDING"]

(***************************************************************************)
(* What a handler awaits: the digest of the message; a choice of the user  *)
(* (confirm, again, success, reveal); a challenge, the backup blob or its  *)
(* upload (mint, restore, push); the passkey with a known credential or a  *)
(* discoverable one (passkey, discover); a decryption (unwrap); the second *)
(* digest, before signing (frozen).                                        *)
(***************************************************************************)
Waiting == {"mint", "passkey", "discover", "restore", "unwrap", "push"}
Awaits == Waiting \cup {"digest", "confirm", "again", "success", "reveal", "frozen"}

(***************************************************************************)
(* phase: what the handler awaits, "idle" before it runs, "done" after.    *)
(* cold: no blob was found in the local storage, the backup is asked.      *)
(* wallet: the wallet it works with; seed: the wallet whose decrypted seed *)
(* it holds; agreed: the user confirmed; dismissed: wasDismissed();        *)
(* posted: the answers to the request, an error other than USER_CANCELLED  *)
(* being "error".                                                          *)
(***************************************************************************)
Answers == {"result", "error", "USER_CANCELLED"}

Flows == [phase : Awaits \cup {"idle", "done"}, cold : BOOLEAN,
          wallet : Wallets \cup {NoWallet}, seed : Wallets \cup {NoWallet},
          agreed : BOOLEAN, dismissed : BOOLEAN, posted : Seq(Answers)]

Flow(phase, cold, wallet) ==
    [phase |-> phase, cold |-> cold, wallet |-> wallet, seed |-> NoWallet,
     agreed |-> FALSE, dismissed |-> FALSE, posted |-> <<>>]

at(f, phase) == [f EXCEPT !.phase = phase]
agreeing(f) == [f EXCEPT !.agreed = TRUE]
using(f, w) == [f EXCEPT !.wallet = w]
going_cold(f, c) == [f EXCEPT !.cold = c]
holding(f, w) == [f EXCEPT !.seed = w]
scrubbed(f) == [f EXCEPT !.seed = NoWallet]
with_fresh_busy(f) == [f EXCEPT !.dismissed = FALSE]
post(f, answer) == [f EXCEPT !.posted = Append(f.posted, answer)]

running(i) == flow[i].phase \in Awaits

-----------------------------------------------------------------------------
(* The signer state. *)

(* Mutant of remember: evicts one id too early. *)
remember_one_less(i) ==
    LET pushed == Append(seen, i)
    IN  IF Len(pushed) >= SEEN_REQUEST_IDS_LIMIT THEN Tail(pushed) ELSE pushed

remember(i) ==
    LET pushed == Append(seen, i)
    IN  IF Len(pushed) > SEEN_REQUEST_IDS_LIMIT THEN Tail(pushed) ELSE pushed

may_begin == state = "IDLE"

begin(i) ==
    /\ state' = operation[Type[i]]
    /\ activeRequestId' = i

(* Mutant of left_authorized: the authorization outlives its flow. *)
kept_authorized == authorization

left_authorized == NoAuth

(* end and renderIdle *)
end ==
    /\ state' = "IDLE"
    /\ activeRequestId' = NoId
    /\ authorization' = left_authorized
    /\ dismiss' = NoId

(* What consumeAuthorization asks of the authorization it clears.  The     *)
(* message was copied when the request came, so a request has one digest.  *)
consumable(i) ==
    /\ authorization.operation = "SIGN_PENDING"
    /\ authorization.requestId = i

(* How a handler goes on, ends with an answer, or ends without one. *)
Continue(i, f) ==
    /\ flow' = [flow EXCEPT ![i] = f]
    /\ UNCHANGED <<state, activeRequestId, seen, accepted>>

Finish(i, f) ==
    /\ flow' = [flow EXCEPT ![i] = at(f, "done")]
    /\ end
    /\ UNCHANGED <<seen, accepted>>

Fail(i, f) == Finish(i, post(f, "error"))

(* if (busy.wasDismissed()) return; throw e; *)
Throw(i, f, answer) == Finish(i, IF f.dismissed THEN f ELSE post(f, answer))

(* The passkey is refused, times out, or cannot do what is asked. *)
PasskeyErrors == {"error", "USER_CANCELLED"}

-----------------------------------------------------------------------------
(* Requests arrive. *)

(***************************************************************************)
(* The listener accepts a request that is well formed, fresh and not seen; *)
(* any other it answers with an error, which changes nothing here.  While  *)
(* a flow is active an accepted request is remembered and answered with an *)
(* error.                                                                  *)
(***************************************************************************)
Accept(i) ==
    /\ Len(accepted) < MaxAccepted
    /\ \A k \in DOMAIN seen : seen[k] # i
    /\ seen' = remember(i)
    /\ accepted' = Append(accepted, i)
    /\ UNCHANGED local
    /\ \/ /\ ~may_begin
          /\ UNCHANGED <<state, activeRequestId, authorization, dismiss, flow>>
       \/ /\ may_begin
          /\ i \in Malformed
          /\ flow' = [flow EXCEPT ![i] = post(Flow("done", FALSE, NoWallet), "error")]
          /\ end
       \/ /\ may_begin
          /\ i \notin Malformed
          /\ begin(i)
          /\ flow' = [flow EXCEPT ![i] =
                 Flow(IF Type[i] = "sign" THEN "digest" ELSE "confirm",
                      Type[i] = "unlock" /\ local = NoWallet,
                      IF Type[i] = "unlock" THEN local ELSE NoWallet)]
          /\ UNCHANGED <<authorization, dismiss>>

(* handleSign with the digest: the local blob, the policy for its wallet, *)
(* or the preview when there is none.                                      *)
Digest(i) ==
    LET f == going_cold(using(flow[i], local), local = NoWallet)
        allowed == IF local = NoWallet THEN i \in Previewed ELSE local \in Signers[i]
    IN  /\ flow[i].phase = "digest"
        /\ UNCHANGED local
        /\ \/ /\ allowed
              /\ Continue(i, at(f, "confirm"))
              /\ UNCHANGED <<authorization, dismiss>>
           \/ /\ ~allowed
              /\ Fail(i, f)

-----------------------------------------------------------------------------
(* The user answers. *)

Decline(i) ==
    /\ flow[i].phase = "confirm"
    /\ Finish(i, post(flow[i], "USER_CANCELLED"))
    /\ UNCHANGED local

(* beginBusy, where the next wait has a screen the user can close. *)
busy(i) == dismiss' = i

Confirm(i) ==
    LET f == with_fresh_busy(agreeing(flow[i]))
    IN  /\ flow[i].phase = "confirm"
        /\ UNCHANGED local
        /\ \/ /\ Type[i] = "create" \/ (Type[i] = "unlock" /\ ~f.cold)
              /\ Continue(i, at(f, "mint"))
              /\ busy(i)
              /\ UNCHANGED authorization
           \/ /\ Type[i] \in {"unlock", "sign"} /\ f.cold
              /\ Continue(i, at(f, "mint"))
              /\ UNCHANGED <<authorization, dismiss>>
           \/ /\ Type[i] = "sign" /\ ~f.cold
              /\ Continue(i, at(f, "passkey"))
              /\ busy(i)
              /\ authorization' = Auth("SIGN_PENDING", i, f.wallet)
           \/ /\ Type[i] = "export" /\ local = NoWallet
              /\ Continue(i, at(going_cold(f, TRUE), "mint"))
              /\ UNCHANGED <<authorization, dismiss>>
           \/ /\ Type[i] = "export" /\ local # NoWallet
              /\ Continue(i, at(using(f, local), "passkey"))
              /\ busy(i)
              /\ UNCHANGED authorization

(* The close button of a waiting screen; later screens replace it.         *)
Dismiss(i) ==
    /\ dismiss = i
    /\ flow[i].phase \in Waiting
    /\ flow' = [flow EXCEPT ![i] = post([flow[i] EXCEPT !.dismissed = TRUE], "USER_CANCELLED")]
    /\ dismiss' = NoId
    /\ UNCHANGED <<state, activeRequestId, authorization, seen, local, accepted>>

(* showRecoverable: try again from the confirmation, or give up. *)
Again(i) ==
    /\ flow[i].phase = "again"
    /\ UNCHANGED local
    /\ \/ /\ Len(flow[i].posted) < MaxAnswers
          /\ Continue(i, at(flow[i], "confirm"))
          /\ dismiss' = IF Type[i] = "create" THEN NoId ELSE dismiss
          /\ UNCHANGED authorization
       \/ Finish(i, post(flow[i], IF Type[i] = "create" THEN "USER_CANCELLED" ELSE "error"))

(* showSuccess and showExportedSecret are closed. *)
Close(i) ==
    /\ flow[i].phase \in {"success", "reveal"}
    /\ Finish(i, IF flow[i].phase = "success" /\ ~flow[i].cold /\ flow[i].dismissed
                 THEN flow[i] ELSE post(flow[i], "result"))
    /\ UNCHANGED local

-----------------------------------------------------------------------------
(* The network, the passkey and the cipher answer. *)

Mint(i) ==
    LET f == flow[i]
    IN  /\ f.phase = "mint"
        /\ UNCHANGED local
        /\ \/ /\ f.cold
              /\ Continue(i, at(f, "discover"))
              /\ busy(i)
              /\ UNCHANGED authorization
           \/ /\ ~f.cold
              /\ Continue(i, at(f, "passkey"))
              /\ UNCHANGED <<authorization, dismiss>>
           \/ Throw(i, f, "error")
           \/ /\ Type[i] = "create"          \* the challenge does not decode
              /\ Fail(i, f)

(* busy.wasDismissed(), once the passkey has answered *)
heeds(f) == f.dismissed

(* What a handler has once the blob of its wallet is decrypted. *)
decrypted(f) == holding(f, f.wallet)

(* Mutant of discarded: the seed stays when a handler stops early. *)
discarded_unscrubbed(f) == f

(* The returns between the decryption and the use of the seed. *)
discarded(f) == scrubbed(f)

Passkey(i) ==
    LET f == flow[i]
        g == IF Type[i] = "create" THEN f ELSE decrypted(f)
    IN  /\ f.phase = "passkey"
        /\ UNCHANGED local
        /\ \/ \E answer \in IF Type[i] = "create" THEN PasskeyErrors ELSE {"error"} :
                  Throw(i, f, answer)
           \/ /\ Type[i] \in {"create", "unlock"}
              /\ ~f.dismissed
              /\ Continue(i, at(f, "again"))
              /\ UNCHANGED <<authorization, dismiss>>
           \/ /\ heeds(f)
              /\ Finish(i, discarded(g))
           \/ /\ ~heeds(f)
              /\ Type[i] = "unlock"            \* the challenge does not decode
              /\ Fail(i, discarded(g))
           \/ /\ ~heeds(f)
              /\ UNCHANGED authorization
              /\ \/ /\ Type[i] = "create"
                    /\ \E w \in Wallets : Continue(i, at(using(f, w), "push"))
                    /\ UNCHANGED dismiss
                 \/ /\ Type[i] = "unlock"
                    /\ Continue(i, at(g, "push"))
                    /\ UNCHANGED dismiss
                 \/ /\ Type[i] = "sign"
                    /\ Continue(i, at(g, "frozen"))
                    /\ dismiss' = NoId
                 \/ /\ Type[i] = "export"
                    /\ Continue(i, at(scrubbed(g), "reveal"))
                    /\ dismiss' = NoId

Discover(i) ==
    LET f == flow[i]
    IN  /\ f.phase = "discover"
        /\ UNCHANGED local
        /\ \/ /\ f.dismissed
              /\ Finish(i, f)
           \/ /\ ~f.dismissed
              /\ Type[i] # "unlock"
              /\ \E answer \in PasskeyErrors : Throw(i, f, answer)
           \/ /\ ~f.dismissed
              /\ Type[i] = "unlock"
              /\ Continue(i, at(f, "again"))
              /\ dismiss' = NoId
              /\ UNCHANGED authorization
           \/ /\ ~f.dismissed
              /\ Continue(i, at(f, "restore"))
              /\ busy(i)
              /\ UNCHANGED authorization

Restore(i) ==
    LET f == flow[i]
    IN  /\ f.phase = "restore"
        /\ UNCHANGED local
        /\ \/ Fail(i, f)
           \/ Throw(i, f, "error")             \* the blob does not parse
           \/ /\ Type[i] = "unlock"            \* there is no backup
              /\ Continue(i, at(f, "again"))
              /\ dismiss' = NoId
              /\ UNCHANGED authorization
           \/ /\ \E w \in Wallets : Continue(i, at(using(f, w), "unwrap"))
              /\ UNCHANGED <<authorization, dismiss>>

(* Mutant of owned: the policy is not evaluated again after the restore. *)
previewed(i, w) == i \in Previewed

owned(i, w) == w \in Signers[i]

(* unwrapWallet, writeLocalBlob; a signature then needs the policy for the *)
(* wallet that came back.                                                  *)
Unwrap(i) ==
    LET f == flow[i]
        g == decrypted(f)
    IN  /\ f.phase = "unwrap"
        /\ \/ /\ Throw(i, f, "error")
              /\ UNCHANGED local
           \/ /\ Type[i] = "unlock" /\ f.dismissed
              /\ Finish(i, discarded(g))
              /\ UNCHANGED local
           \/ /\ Type[i] = "unlock" => ~f.dismissed
              /\ Fail(i, discarded(g))         \* the blob is not kept
              /\ UNCHANGED local
           \/ /\ Type[i] = "unlock" => ~f.dismissed
              /\ local' = f.wallet
              /\ \/ /\ Type[i] = "unlock"
                    /\ Continue(i, at(scrubbed(g), "push"))
                    /\ UNCHANGED <<authorization, dismiss>>
                 \/ /\ Type[i] = "unlock"      \* the challenge does not decode
                    /\ Fail(i, discarded(g))
                 \/ /\ Type[i] = "sign" /\ owned(i, f.wallet)
                    /\ Continue(i, at(g, "frozen"))
                    /\ authorization' = Auth("SIGN_PENDING", i, f.wallet)
                    /\ dismiss' = NoId
                 \/ /\ Type[i] = "sign" /\ ~owned(i, f.wallet)
                    /\ Fail(i, discarded(g))
                 \/ /\ Type[i] = "export"
                    /\ Continue(i, at(scrubbed(g), "reveal"))
                    /\ dismiss' = NoId
                    /\ UNCHANGED authorization

(* pushBackup, writeLocalBlob (already done when the blob was restored) *)
Push(i) ==
    LET f == scrubbed(flow[i])
    IN  /\ f.phase = "push"
        /\ \/ /\ Fail(i, f)
              /\ UNCHANGED local
           \/ /\ ~f.cold
              /\ local' = f.wallet
              /\ Continue(i, at(f, "success"))
              /\ UNCHANGED <<authorization, dismiss>>
           \/ /\ f.cold
              /\ Continue(i, at(f, "success"))
              /\ dismiss' = NoId
              /\ UNCHANGED <<authorization, local>>

(* The digest of the copied bytes: consume the authorization and sign. *)
Frozen(i) ==
    LET f == scrubbed(flow[i])
    IN  /\ f.phase = "frozen"
        /\ UNCHANGED local
        /\ IF consumable(i) THEN Finish(i, post(f, "result")) ELSE Fail(i, f)

-----------------------------------------------------------------------------
(* The environment. *)

(* Another frame of the signer's origin, or the browser, changes storage. *)
StorageChanges ==
    /\ local' \in (Wallets \cup {NoWallet}) \ {local}
    /\ UNCHANGED <<state, activeRequestId, authorization, seen, dismiss, flow, accepted>>

NoFlows == [i \in Ids |-> Flow("idle", FALSE, NoWallet)]

(* The page around the frame removes it, or loads it again. *)
Reload ==
    /\ accepted # <<>>
    /\ end
    /\ seen' = <<>>
    /\ flow' = NoFlows
    /\ accepted' = <<>>
    /\ UNCHANGED local

Init ==
    /\ state = "IDLE"
    /\ activeRequestId = NoId
    /\ authorization = NoAuth
    /\ seen = <<>>
    /\ dismiss = NoId
    /\ flow = NoFlows
    /\ local \in Wallets \cup {NoWallet}
    /\ accepted = <<>>

Step(i) ==
    \/ Digest(i) \/ Decline(i) \/ Confirm(i) \/ Dismiss(i) \/ Again(i) \/ Close(i)
    \/ Mint(i) \/ Passkey(i) \/ Discover(i) \/ Restore(i) \/ Unwrap(i) \/ Push(i) \/ Frozen(i)

Next ==
    \/ \E i \in Ids : Accept(i) \/ Step(i)
    \/ StorageChanges
    \/ Reload

Spec == Init /\ [][Next]_vars

-----------------------------------------------------------------------------
(* Properties *)

posted(i, answer) == \E k \in DOMAIN flow[i].posted : flow[i].posted[k] = answer

(* Types; at most SEEN_REQUEST_IDS_LIMIT ids are remembered (remember).    *)
TypeOK ==
    /\ state \in {"IDLE", "AUTH_PENDING", "SIGN_PENDING", "PRIVATE_EXPORT_PENDING"}
    /\ activeRequestId \in Ids \cup {NoId}
    /\ authorization \in {NoAuth} \cup {Auth("SIGN_PENDING", i, w) : i \in Ids, w \in Wallets}
    /\ seen \in Seq(Ids)
    /\ Len(seen) <= SEEN_REQUEST_IDS_LIMIT
    /\ dismiss \in Ids \cup {NoId}
    /\ flow \in [Ids -> Flows]
    /\ local \in Wallets \cup {NoWallet}
    /\ accepted \in Seq(Ids)

(* One sensitive flow is active at a time, the shared state names it, and  *)
(* the close button runs no other's callback ("A second request while one  *)
(* is pending is rejected without disturbing the active operation").       *)
OneFlow ==
    /\ state = "IDLE" <=> activeRequestId = NoId
    /\ \A i \in Ids : running(i) <=> i = activeRequestId
    /\ \A i \in Ids : running(i) => state = operation[Type[i]]
    /\ dismiss \in {NoId, activeRequestId}

bound_to(i, f, auth) ==
    auth.requestId = i =>
        /\ Type[i] = "sign"
        /\ f.phase \in {"passkey", "frozen"}
        /\ f.agreed
        /\ auth.walletPublicKey = f.wallet
        /\ f.wallet \in Signers[i]

(* An authorization belongs to the running request, which the user has    *)
(* confirmed and whose policy holds for the wallet; none is left behind by *)
(* a flow that ended in any way (authorize, end, consumeAuthorization).    *)
AuthorizationBound == \A i \in Ids : bound_to(i, flow[i], authorization)

(* Whoever signs: the user agreed in this run of the request, and the      *)
(* wallet that signed is one the policy accepts for the transaction.  When *)
(* the wallet is known only after the user agreed, the policy is evaluated *)
(* again (handleSign).                                                     *)
SignedAsAgreed ==
    \A i \in Ids : Type[i] = "sign" /\ posted(i, "result") =>
        flow[i].agreed /\ flow[i].wallet \in Signers[i]

(* A handler that is over holds no decrypted seed, by whichever of its     *)
(* returns it ended: dismissed, refused by the policy, with a blob that    *)
(* cannot be kept or a challenge that does not decode, after an upload or  *)
(* a signature that failed or not (seed.fill(0) before each).              *)
SeedsScrubbed == \A i \in Ids : ~running(i) => flow[i].seed = NoWallet

(* No handler ends without an answer: the returns that post nothing come   *)
(* after the close button has posted USER_CANCELLED.                       *)
EndsAnswered == \A i \in Ids : flow[i].phase = "done" => flow[i].posted # <<>>

(* An id is accepted again only after SEEN_REQUEST_IDS_LIMIT others (the   *)
(* bounded record of checkFreshnessAndReplay and remember).                *)
DuplicateNeedsEviction ==
    \A m, n \in DOMAIN accepted :
        m < n /\ accepted[m] = accepted[n] => n - m > SEEN_REQUEST_IDS_LIMIT

(* Once the close button has posted USER_CANCELLED the request yields no   *)
(* result ("Register a cancel handler for the current busy screen (passkey *)
(* / restoring)", setBusyDismiss).                                         *)
CancelledYieldsNothing ==
    \A i \in Ids : ~(posted(i, "USER_CANCELLED") /\ posted(i, "result"))
=============================================================================
