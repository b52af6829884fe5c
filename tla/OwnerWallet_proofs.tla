------------------------- MODULE OwnerWallet_proofs -------------------------
(***************************************************************************)
(* Proofs about the owner wallet: the signer that holds it, and how it is  *)
(* set up, restored and linked.                                            *)
(*                                                                         *)
(* For every set of requests, wallets and policies: types, one flow at a   *)
(* time, authorizations bound to the running request, signatures as agreed *)
(* upon, seeds zeroed and requests answered on every way out, and no id    *)
(* accepted twice before as many others as are remembered.                 *)
(*                                                                         *)
(* For any phones, passkeys, handlers and accessories: no wallet is lost.  *)
(* The invariant says what a handler has in hand before each step, in      *)
(* particular that a blob is backed up before it is written to the storage *)
(* or told to anybody, and rests on the rows: a row stays, and keeps its   *)
(* key (RowsGrow).                                                         *)
(*                                                                         *)
(* For any transactions, wallets, mints and decimals: the sheet of a       *)
(* review tells every transfer, place and detail, its amounts can be read  *)
(* back from their digits, its warning fits the risk, and what is signed   *)
(* is what it showed.                                                      *)
(***************************************************************************)
EXTENDS SecureSigner, OwnerSetup, TransactionReview, FoldFacts

has(f, answer) == \E k \in DOMAIN f.posted : f.posted[k] = answer

(***************************************************************************)
(* What a handler knows of itself at each await.                           *)
(***************************************************************************)
FlowOK(i, f) ==
    /\ f.seed # NoWallet => f.phase \in {"push", "frozen"}
    /\ f.dismissed \/ f.phase = "done" => f.posted # <<>>
    /\ f.phase \in Awaits => ~has(f, "result")
    /\ Type[i] = "sign" =>
        /\ f.phase \notin {"again", "push", "success", "reveal"}
        /\ f.phase = "mint" => f.cold
        /\ f.phase \in Awaits \ {"digest", "confirm"} => f.agreed
        /\ f.phase \in {"passkey", "frozen"} \/ (f.phase = "confirm" /\ ~f.cold)
              => f.wallet \in Signers[i]
        /\ has(f, "result") => f.agreed /\ f.wallet \in Signers[i]

FlowSound == \A i \in Ids : FlowOK(i, flow[i])

IInv == TypeOK /\ OneFlow /\ AuthorizationBound /\ FlowSound

(***************************************************************************)
(* A step of a handler either takes it to its next await or ends it.       *)
(***************************************************************************)
Advances(i) ==
    \E f \in Flows :
        /\ Continue(i, f)
        /\ f.phase \in Awaits
        /\ FlowOK(i, f)
        /\ bound_to(i, f, authorization')
        /\ \/ authorization' = authorization
           \/ f.wallet \in Wallets /\ authorization' = Auth("SIGN_PENDING", i, f.wallet)
        /\ dismiss' \in {dismiss, NoId, i}

Closes(i) ==
    \E f \in Flows :
        /\ Finish(i, f)
        /\ FlowOK(i, at(f, "done"))

-----------------------------------------------------------------------------
(* The helpers on handlers. *)

LEMMA Posting ==
    ASSUME NEW f \in Flows, NEW answer \in Answers
    PROVE  /\ post(f, answer) \in Flows
           /\ post(f, answer).posted # <<>>
           /\ has(post(f, answer), "result") => answer = "result" \/ has(f, "result")
           /\ post(f, answer).phase = f.phase
           /\ post(f, answer).cold = f.cold
           /\ post(f, answer).wallet = f.wallet
           /\ post(f, answer).seed = f.seed
           /\ post(f, answer).agreed = f.agreed
           /\ post(f, answer).dismissed = f.dismissed
<1> DEFINE s == f.posted
<1>1. s \in Seq(Answers)
  BY DEF Flows
<1>2. Append(s, answer) \in Seq(Answers) /\ Append(s, answer) # <<>>
  BY <1>1
<1>3. \A k \in DOMAIN Append(s, answer) :
          Append(s, answer)[k] = answer \/ (k \in DOMAIN s /\ Append(s, answer)[k] = s[k])
  BY <1>1
<1>4. post(f, answer).posted = Append(s, answer)
  BY DEF post, Flows
<1>5. has(post(f, answer), "result") => answer = "result" \/ has(f, "result")
  BY <1>3, <1>4 DEF has
<1> QED
  BY <1>2, <1>4, <1>5 DEF post, Flows

(***************************************************************************)
(* The three ways to end without a result: posting an error, saying        *)
(* nothing after the close button did, and either of them.                 *)
(***************************************************************************)
LEMMA FailEnds ==
    ASSUME NEW i \in Ids, NEW f \in Flows, NEW answer \in {"error", "USER_CANCELLED"},
           f.seed = NoWallet, ~has(f, "result"),
           Finish(i, post(f, answer))
    PROVE  Closes(i)
<1> DEFINE g == post(f, answer)
<1>1. g \in Flows /\ g.posted # <<>> /\ ~has(g, "result") /\ g.seed = NoWallet
  BY Posting DEF Answers
<1>2. at(g, "done").posted = g.posted /\ at(g, "done").seed = NoWallet /\ at(g, "done").phase = "done"
  BY <1>1 DEF at, Flows
<1>3. ~has(at(g, "done"), "result")
  BY <1>1, <1>2 DEF has
<1>4. FlowOK(i, at(g, "done"))
  BY <1>1, <1>2, <1>3 DEF FlowOK, Awaits, Waiting
<1> QED
  BY <1>1, <1>4 DEF Closes

LEMMA QuitEnds ==
    ASSUME NEW i \in Ids, NEW f \in Flows,
           f.seed = NoWallet, ~has(f, "result"), f.posted # <<>>,
           Finish(i, f)
    PROVE  Closes(i)
<1>1. at(f, "done").posted = f.posted /\ at(f, "done").seed = NoWallet /\ at(f, "done").phase = "done"
  BY DEF at, Flows
<1>2. ~has(at(f, "done"), "result")
  BY <1>1 DEF has
<1>3. FlowOK(i, at(f, "done"))
  BY <1>1, <1>2 DEF FlowOK, Awaits, Waiting
<1> QED
  BY <1>3 DEF Closes

LEMMA ThrowEnds ==
    ASSUME NEW i \in Ids, NEW f \in Flows, NEW answer \in {"error", "USER_CANCELLED"},
           f.seed = NoWallet, ~has(f, "result"), f.dismissed => f.posted # <<>>,
           Throw(i, f, answer)
    PROVE  Closes(i)
<1>1. CASE f.dismissed
  BY <1>1, QuitEnds DEF Throw
<1>2. CASE ~f.dismissed
  BY <1>2, FailEnds DEF Throw
<1> QED
  BY <1>1, <1>2

(* What is known of a handler at an await. *)
LEMMA AtAwait ==
    ASSUME IInv, NEW i \in Ids, running(i)
    PROVE  /\ flow[i] \in Flows
           /\ FlowOK(i, flow[i])
           /\ ~has(flow[i], "result")
           /\ flow[i].dismissed => flow[i].posted # <<>>
           /\ flow[i].phase \notin {"push", "frozen"} => flow[i].seed = NoWallet
           /\ bound_to(i, flow[i], authorization)
           /\ local \in Wallets \cup {NoWallet}
BY DEF IInv, TypeOK, FlowSound, FlowOK, AuthorizationBound, running

(***************************************************************************)
(* When a handler f that has posted nothing new may await p, and what      *)
(* becomes of the shared state meanwhile.                                  *)
(***************************************************************************)
MayAwait(i, f, p) ==
    /\ f.posted = flow[i].posted
    /\ f.dismissed => flow[i].dismissed
    /\ f.seed # NoWallet => p \in {"push", "frozen"}
    /\ Type[i] = "sign" =>
        /\ p \notin {"again", "push", "success", "reveal"}
        /\ p = "mint" => f.cold
        /\ p \notin {"digest", "confirm"} => f.agreed
        /\ p \in {"passkey", "frozen"} \/ (p = "confirm" /\ ~f.cold) => f.wallet \in Signers[i]

Shares(i, f, p) ==
    /\ \/ authorization' = authorization
       \/ f.wallet \in Wallets /\ authorization' = Auth("SIGN_PENDING", i, f.wallet)
    /\ authorization'.requestId = i =>
           /\ Type[i] = "sign"
           /\ p \in {"passkey", "frozen"}
           /\ authorization'.walletPublicKey = f.wallet
    /\ dismiss' \in {dismiss, NoId, i}

LEMMA Advancing ==
    ASSUME IInv, NEW i \in Ids, running(i),
           NEW f \in Flows, NEW p \in Awaits,
           MayAwait(i, f, p), Shares(i, f, p), Continue(i, at(f, p))
    PROVE  Advances(i)
<1> DEFINE g == at(f, p)
<1>1. /\ g \in Flows /\ g.phase = p /\ g.cold = f.cold /\ g.wallet = f.wallet /\ g.seed = f.seed
      /\ g.agreed = f.agreed /\ g.dismissed = f.dismissed /\ g.posted = f.posted
  BY DEF at, Flows
<1>2. ~has(g, "result")
  BY <1>1, AtAwait DEF has, MayAwait
<1>3. p # "done"
  BY DEF Awaits, Waiting
<1>4. FlowOK(i, g)
  BY <1>1, <1>2, <1>3, AtAwait DEF FlowOK, MayAwait
<1>5. bound_to(i, g, authorization')
  BY <1>1 DEF bound_to, Shares, MayAwait
<1> QED
  BY <1>1, <1>4, <1>5 DEF Advances, Shares

-----------------------------------------------------------------------------
(* Each action of a handler advances or ends it. *)

LEMMA DigestStep == ASSUME IInv, NEW i \in Ids, Digest(i) PROVE Advances(i) \/ Closes(i)
<1> DEFINE f == going_cold(using(flow[i], local), local = NoWallet)
<1>1. running(i) /\ flow[i].phase = "digest"
  BY DEF Digest, running, Awaits
<1>2. /\ f \in Flows /\ f.phase = "digest" /\ f.wallet = local /\ f.seed = NoWallet
      /\ f.cold = (local = NoWallet) /\ f.posted = flow[i].posted /\ f.dismissed = flow[i].dismissed
  BY <1>1, AtAwait DEF going_cold, using, Flows
<1>3. ~has(f, "result")
  BY <1>1, <1>2, AtAwait DEF has
<1>4. CASE Fail(i, f)
  BY <1>2, <1>3, <1>4, FailEnds DEF Fail
<1>5. CASE Continue(i, at(f, "confirm")) /\ UNCHANGED <<authorization, dismiss>>
           /\ (IF local = NoWallet THEN i \in Previewed ELSE local \in Signers[i])
  <2>1. MayAwait(i, f, "confirm")
    BY <1>1, <1>2, <1>5 DEF MayAwait
  <2>2. Shares(i, f, "confirm")
    BY <1>1, <1>5, AtAwait DEF bound_to, Shares
  <2> QED
    BY <1>1, <1>2, <1>5, <2>1, <2>2, Advancing DEF Awaits
<1> QED
  BY <1>4, <1>5 DEF Digest

LEMMA DeclineStep == ASSUME IInv, NEW i \in Ids, Decline(i) PROVE Closes(i)
<1>1. running(i) /\ flow[i].phase = "confirm"
  BY DEF Decline, running, Awaits
<1> QED
  BY <1>1, AtAwait, FailEnds DEF Decline

LEMMA ConfirmStep == ASSUME IInv, NEW i \in Ids, Confirm(i) PROVE Advances(i)
<1> DEFINE f == with_fresh_busy(agreeing(flow[i]))
           h(c) == going_cold(f, c)
           k(w) == using(f, w)
<1>1. running(i) /\ flow[i].phase = "confirm"
  BY DEF Confirm, running, Awaits
<1>2. /\ f \in Flows /\ f.wallet = flow[i].wallet /\ f.seed = NoWallet /\ f.agreed
      /\ f.cold = flow[i].cold /\ f.posted = flow[i].posted /\ ~f.dismissed
  BY <1>1, AtAwait DEF with_fresh_busy, agreeing, Flows
<1>3. authorization.requestId # i
  BY <1>1, AtAwait DEF bound_to
<1>4. ~f.cold /\ Type[i] = "sign" => f.wallet \in Signers[i] /\ f.wallet \in Wallets
  BY <1>1, <1>2, AtAwait, SignerAssumption DEF FlowOK
<1> HIDE DEF f
<1>5. CASE Continue(i, at(f, "mint")) /\ UNCHANGED authorization /\ dismiss' \in {dismiss, i}
           /\ (Type[i] = "sign" => f.cold)
  <2>1. MayAwait(i, f, "mint") /\ Shares(i, f, "mint")
    BY <1>2, <1>3, <1>5 DEF MayAwait, Shares
  <2> QED
    BY <1>1, <1>2, <1>5, <2>1, Advancing DEF Awaits, Waiting
<1>6. CASE Type[i] = "sign" /\ ~f.cold /\ Continue(i, at(f, "passkey")) /\ busy(i)
           /\ authorization' = Auth("SIGN_PENDING", i, f.wallet)
  <2>1. MayAwait(i, f, "passkey") /\ Shares(i, f, "passkey")
    BY <1>2, <1>4, <1>6 DEF MayAwait, Shares, Auth, busy
  <2> QED
    BY <1>1, <1>2, <1>6, <2>1, Advancing DEF Awaits, Waiting
<1>7. CASE Type[i] = "export" /\ Continue(i, at(h(TRUE), "mint")) /\ UNCHANGED <<authorization, dismiss>>
  <2>1. /\ h(TRUE) \in Flows /\ h(TRUE).seed = NoWallet /\ ~h(TRUE).dismissed
        /\ h(TRUE).posted = flow[i].posted
    BY <1>2 DEF going_cold, Flows
  <2>2. MayAwait(i, h(TRUE), "mint") /\ Shares(i, h(TRUE), "mint")
    BY <1>3, <1>7, <2>1 DEF MayAwait, Shares
  <2> QED
    BY <1>1, <1>7, <2>1, <2>2, Advancing DEF Awaits, Waiting
<1>8. CASE Type[i] = "export" /\ Continue(i, at(k(local), "passkey")) /\ busy(i) /\ UNCHANGED authorization
  <2>1. /\ k(local) \in Flows /\ k(local).seed = NoWallet /\ ~k(local).dismissed
        /\ k(local).posted = flow[i].posted
    BY <1>1, <1>2, AtAwait DEF using, Flows
  <2>2. MayAwait(i, k(local), "passkey") /\ Shares(i, k(local), "passkey")
    BY <1>3, <1>8, <2>1 DEF MayAwait, Shares, busy
  <2> QED
    BY <1>1, <1>8, <2>1, <2>2, Advancing DEF Awaits, Waiting
<1> QED
  BY <1>2, <1>5, <1>6, <1>7, <1>8 DEF Confirm, busy, f

(* A step that leaves the authorization of another request, if any, alone. *)
LEMMA Sharing ==
    ASSUME NEW i \in Ids, NEW f, NEW p,
           authorization.requestId # i, UNCHANGED authorization,
           dismiss' \in {dismiss, NoId, i}
    PROVE  Shares(i, f, p)
BY DEF Shares

LEMMA DismissStep == ASSUME IInv, NEW i \in Ids, Dismiss(i) PROVE Advances(i)
<1> DEFINE d == [flow[i] EXCEPT !.dismissed = TRUE]
           g == post(d, "USER_CANCELLED")
<1>1. running(i) /\ flow[i].phase \in Waiting
  BY DEF Dismiss, running, Awaits
<1>2. /\ d \in Flows /\ d.phase = flow[i].phase /\ d.cold = flow[i].cold /\ d.wallet = flow[i].wallet
      /\ d.seed = flow[i].seed /\ d.agreed = flow[i].agreed /\ d.posted = flow[i].posted
  BY <1>1, AtAwait DEF Flows
<1>3. ~has(d, "result")
  BY <1>1, <1>2, AtAwait DEF has
<1> HIDE DEF d
<1>4. /\ g \in Flows /\ g.posted # <<>> /\ ~has(g, "result")
      /\ g.phase = flow[i].phase /\ g.cold = flow[i].cold /\ g.wallet = flow[i].wallet
      /\ g.seed = flow[i].seed /\ g.agreed = flow[i].agreed
  BY <1>2, <1>3, Posting DEF Answers
<1>5. Continue(i, g) /\ UNCHANGED authorization /\ dismiss' = NoId
  BY DEF Dismiss, Continue, d
<1> HIDE DEF g
<1>6. FlowOK(i, g) /\ bound_to(i, g, authorization')
  BY <1>1, <1>4, <1>5, AtAwait DEF FlowOK, bound_to
<1> QED
  BY <1>1, <1>4, <1>5, <1>6 DEF Advances, Awaits

LEMMA AgainStep == ASSUME IInv, NEW i \in Ids, Again(i) PROVE Advances(i) \/ Closes(i)
<1>1. running(i) /\ flow[i].phase = "again"
  BY DEF Again, running, Awaits
<1>2. Type[i] # "sign" /\ authorization.requestId # i
  BY <1>1, AtAwait DEF FlowOK, bound_to
<1>3. CASE Continue(i, at(flow[i], "confirm")) /\ UNCHANGED authorization /\ dismiss' \in {dismiss, NoId}
  <2>1. MayAwait(i, flow[i], "confirm") /\ Shares(i, flow[i], "confirm")
    BY <1>1, <1>2, <1>3, AtAwait, Sharing DEF MayAwait
  <2> QED
    BY <1>1, <1>3, <2>1, AtAwait, Advancing DEF Awaits
<1>4. CASE Finish(i, post(flow[i], IF Type[i] = "create" THEN "USER_CANCELLED" ELSE "error"))
  BY <1>1, <1>4, AtAwait, FailEnds
<1> QED
  BY <1>3, <1>4 DEF Again

LEMMA MintStep == ASSUME IInv, NEW i \in Ids, Mint(i) PROVE Advances(i) \/ Closes(i)
<1> DEFINE f == flow[i]
<1>1. running(i) /\ f.phase = "mint"
  BY DEF Mint, running, Awaits, Waiting
<1>2. authorization.requestId # i
  BY <1>1, AtAwait DEF bound_to
<1>3. CASE f.cold /\ Continue(i, at(f, "discover")) /\ busy(i) /\ UNCHANGED authorization
  <2>1. MayAwait(i, f, "discover") /\ Shares(i, f, "discover")
    BY <1>1, <1>2, <1>3, AtAwait, Sharing DEF MayAwait, FlowOK, busy, Awaits, Waiting
  <2> QED
    BY <1>1, <1>3, <2>1, AtAwait, Advancing DEF Awaits, Waiting
<1>4. CASE ~f.cold /\ Continue(i, at(f, "passkey")) /\ UNCHANGED <<authorization, dismiss>>
  <2>1. MayAwait(i, f, "passkey") /\ Shares(i, f, "passkey")
    BY <1>1, <1>2, <1>4, AtAwait, Sharing DEF MayAwait, FlowOK
  <2> QED
    BY <1>1, <1>4, <2>1, AtAwait, Advancing DEF Awaits, Waiting
<1>5. CASE Throw(i, f, "error")
  BY <1>1, <1>5, AtAwait, ThrowEnds
<1>6. CASE Fail(i, f)
  BY <1>1, <1>6, AtAwait, FailEnds DEF Fail
<1> QED
  BY <1>3, <1>4, <1>5, <1>6 DEF Mint

LEMMA DiscoverStep == ASSUME IInv, NEW i \in Ids, Discover(i) PROVE Advances(i) \/ Closes(i)
<1> DEFINE f == flow[i]
<1>1. running(i) /\ f.phase = "discover"
  BY DEF Discover, running, Awaits, Waiting
<1>2. authorization.requestId # i
  BY <1>1, AtAwait DEF bound_to
<1>3. CASE f.dismissed /\ Finish(i, f)
  BY <1>1, <1>3, AtAwait, QuitEnds
<1>4. CASE \E answer \in PasskeyErrors : Throw(i, f, answer)
  BY <1>1, <1>4, AtAwait, ThrowEnds DEF PasskeyErrors
<1>5. CASE Type[i] = "unlock" /\ Continue(i, at(f, "again")) /\ dismiss' = NoId /\ UNCHANGED authorization
  <2>1. MayAwait(i, f, "again") /\ Shares(i, f, "again")
    BY <1>1, <1>2, <1>5, AtAwait, Sharing DEF MayAwait
  <2> QED
    BY <1>1, <1>5, <2>1, AtAwait, Advancing DEF Awaits
<1>6. CASE Continue(i, at(f, "restore")) /\ busy(i) /\ UNCHANGED authorization
  <2>1. MayAwait(i, f, "restore") /\ Shares(i, f, "restore")
    BY <1>1, <1>2, <1>6, AtAwait, Sharing DEF MayAwait, FlowOK, busy, Awaits, Waiting
  <2> QED
    BY <1>1, <1>6, <2>1, AtAwait, Advancing DEF Awaits, Waiting
<1> QED
  BY <1>3, <1>4, <1>5, <1>6 DEF Discover

(* A seed decrypted and zeroed leaves the handler as it was. *)
LEMMA SeedUnused ==
    ASSUME NEW f \in Flows, f.seed = NoWallet
    PROVE  scrubbed(decrypted(f)) = f /\ discarded(decrypted(f)) = f /\ discarded(f) = f
<1> DEFINE h == decrypted(f)
<1>1. h = [phase |-> f.phase, cold |-> f.cold, wallet |-> f.wallet, seed |-> f.wallet,
           agreed |-> f.agreed, dismissed |-> f.dismissed, posted |-> f.posted]
  BY DEF decrypted, holding, Flows
<1>2. f = [phase |-> f.phase, cold |-> f.cold, wallet |-> f.wallet, seed |-> NoWallet,
           agreed |-> f.agreed, dismissed |-> f.dismissed, posted |-> f.posted]
  BY DEF Flows
<1>3. scrubbed(h) = f
  BY <1>1, <1>2 DEF scrubbed
<1>4. scrubbed(f) = f
  BY <1>2 DEF scrubbed
<1> QED
  BY <1>3, <1>4 DEF discarded

(***************************************************************************)
(* The passkey answers: with one screen open, the seed of the wallet of a  *)
(* signature, or of an unlock, is decrypted.                               *)
(***************************************************************************)
LEMMA PasskeyStep == ASSUME IInv, NEW i \in Ids, Passkey(i) PROVE Advances(i) \/ Closes(i)
<1> DEFINE f == flow[i]
           h == decrypted(f)
           u(w) == using(f, w)
<1>1. running(i) /\ f.phase = "passkey"
  BY DEF Passkey, running, Awaits, Waiting
<1>2. Type[i] # "sign" => authorization.requestId # i
  BY <1>1, AtAwait DEF bound_to
<1>3. /\ h \in Flows /\ h.wallet = f.wallet /\ h.posted = f.posted
      /\ h.agreed = f.agreed /\ h.dismissed = f.dismissed
  BY <1>1, AtAwait DEF decrypted, holding, Flows
<1>4. CASE \E answer \in PasskeyErrors : Throw(i, f, answer)
  BY <1>1, <1>4, AtAwait, ThrowEnds DEF PasskeyErrors
<1>5. CASE f.dismissed /\ Finish(i, f)
  BY <1>1, <1>5, AtAwait, QuitEnds
<1>6. CASE Type[i] \in {"create", "unlock"} /\ Continue(i, at(f, "again")) /\ UNCHANGED <<authorization, dismiss>>
  <2>1. MayAwait(i, f, "again") /\ Shares(i, f, "again")
    BY <1>1, <1>2, <1>6, AtAwait, Sharing DEF MayAwait
  <2> QED
    BY <1>1, <1>6, <2>1, AtAwait, Advancing DEF Awaits
<1>7. ASSUME NEW w \in Wallets, Type[i] = "create", Continue(i, at(u(w), "push")),
             UNCHANGED <<authorization, dismiss>>
      PROVE  Advances(i)
  <2>1. u(w) \in Flows /\ u(w).posted = f.posted /\ u(w).dismissed = f.dismissed /\ u(w).seed = f.seed
    BY <1>1, AtAwait DEF using, Flows
  <2>2. MayAwait(i, u(w), "push") /\ Shares(i, u(w), "push")
    BY <1>1, <1>2, <1>7, <2>1, AtAwait, Sharing DEF MayAwait
  <2> QED
    BY <1>1, <1>7, <2>1, <2>2, Advancing DEF Awaits, Waiting
<1>8. CASE Type[i] = "unlock" /\ Continue(i, at(h, "push")) /\ UNCHANGED <<authorization, dismiss>>
  <2>1. MayAwait(i, h, "push") /\ Shares(i, h, "push")
    BY <1>1, <1>2, <1>3, <1>8, Sharing DEF MayAwait
  <2> QED
    BY <1>1, <1>3, <1>8, <2>1, Advancing DEF Awaits, Waiting
<1>9. CASE Type[i] = "sign" /\ Continue(i, at(h, "frozen")) /\ UNCHANGED authorization /\ dismiss' = NoId
  <2>1. MayAwait(i, h, "frozen")
    BY <1>1, <1>3, <1>9, AtAwait DEF MayAwait, FlowOK, Awaits, Waiting
  <2>2. Shares(i, h, "frozen")
    BY <1>1, <1>3, <1>9, AtAwait DEF Shares, bound_to
  <2> QED
    BY <1>1, <1>3, <1>9, <2>1, <2>2, Advancing DEF Awaits
<1>10. CASE Type[i] = "export" /\ Continue(i, at(f, "reveal")) /\ UNCHANGED authorization /\ dismiss' = NoId
  <2>1. MayAwait(i, f, "reveal") /\ Shares(i, f, "reveal")
    BY <1>1, <1>2, <1>10, AtAwait, Sharing DEF MayAwait
  <2> QED
    BY <1>1, <1>10, <2>1, AtAwait, Advancing DEF Awaits
<1>11. CASE Fail(i, f)
  BY <1>1, <1>11, AtAwait, FailEnds DEF Fail
<1>12. scrubbed(h) = f /\ discarded(h) = f /\ discarded(f) = f
  BY <1>1, AtAwait, SeedUnused
<1> DEFINE g == IF Type[i] = "create" THEN f ELSE h
<1>13. discarded(g) = f /\ (Type[i] # "create" => g = h /\ scrubbed(g) = f)
  BY <1>12
<1>14. \/ \E answer \in PasskeyErrors : Throw(i, f, answer)
       \/ Type[i] \in {"create", "unlock"} /\ Continue(i, at(f, "again")) /\ UNCHANGED <<authorization, dismiss>>
       \/ f.dismissed /\ Finish(i, discarded(g))
       \/ Fail(i, discarded(g))
       \/ /\ Type[i] = "create" /\ UNCHANGED <<authorization, dismiss>>
          /\ \E w \in Wallets : Continue(i, at(u(w), "push"))
       \/ Type[i] = "unlock" /\ Continue(i, at(g, "push")) /\ UNCHANGED <<authorization, dismiss>>
       \/ Type[i] = "sign" /\ Continue(i, at(g, "frozen")) /\ UNCHANGED authorization /\ dismiss' = NoId
       \/ Type[i] = "export" /\ Continue(i, at(scrubbed(g), "reveal")) /\ UNCHANGED authorization /\ dismiss' = NoId
  BY DEF Passkey, heeds, PasskeyErrors
<1> HIDE DEF g, h
<1> QED
  BY <1>4, <1>5, <1>6, <1>7, <1>8, <1>9, <1>10, <1>11, <1>13, <1>14

LEMMA RestoreStep == ASSUME IInv, NEW i \in Ids, Restore(i) PROVE Advances(i) \/ Closes(i)
<1> DEFINE f == flow[i]
           u(w) == using(f, w)
<1>1. running(i) /\ f.phase = "restore"
  BY DEF Restore, running, Awaits, Waiting
<1>2. authorization.requestId # i
  BY <1>1, AtAwait DEF bound_to
<1>3. CASE Fail(i, f)
  BY <1>1, <1>3, AtAwait, FailEnds DEF Fail
<1>4. CASE Throw(i, f, "error")
  BY <1>1, <1>4, AtAwait, ThrowEnds
<1>5. CASE Type[i] = "unlock" /\ Continue(i, at(f, "again")) /\ dismiss' = NoId /\ UNCHANGED authorization
  <2>1. MayAwait(i, f, "again") /\ Shares(i, f, "again")
    BY <1>1, <1>2, <1>5, AtAwait, Sharing DEF MayAwait
  <2> QED
    BY <1>1, <1>5, <2>1, AtAwait, Advancing DEF Awaits
<1>6. ASSUME NEW w \in Wallets, Continue(i, at(u(w), "unwrap")), UNCHANGED <<authorization, dismiss>>
      PROVE  Advances(i)
  <2>1. /\ u(w) \in Flows /\ u(w).posted = f.posted /\ u(w).dismissed = f.dismissed
        /\ u(w).seed = f.seed /\ u(w).agreed = f.agreed
    BY <1>1, AtAwait DEF using, Flows
  <2>2. MayAwait(i, u(w), "unwrap") /\ Shares(i, u(w), "unwrap")
    BY <1>1, <1>2, <1>6, <2>1, AtAwait, Sharing DEF MayAwait, FlowOK, Awaits, Waiting
  <2> QED
    BY <1>1, <1>6, <2>1, <2>2, Advancing DEF Awaits, Waiting
<1> QED
  BY <1>3, <1>4, <1>5, <1>6 DEF Restore

(* A seed decrypted from a backup signs only if the policy holds for it.   *)
LEMMA UnwrapStep == ASSUME IInv, NEW i \in Ids, Unwrap(i) PROVE Advances(i) \/ Closes(i)
<1> DEFINE f == flow[i]
           h == decrypted(f)
<1>1. running(i) /\ f.phase = "unwrap"
  BY DEF Unwrap, running, Awaits, Waiting
<1>2. authorization.requestId # i
  BY <1>1, AtAwait DEF bound_to
<1>3. /\ h \in Flows /\ h.wallet = f.wallet /\ h.posted = f.posted
      /\ h.agreed = f.agreed /\ h.dismissed = f.dismissed
  BY <1>1, AtAwait DEF decrypted, holding, Flows
<1>4. CASE Throw(i, f, "error")
  BY <1>1, <1>4, AtAwait, ThrowEnds
<1>5. CASE f.dismissed /\ Finish(i, f)
  BY <1>1, <1>5, AtAwait, QuitEnds
<1>6. CASE Fail(i, f)
  BY <1>1, <1>6, AtAwait, FailEnds DEF Fail
<1>7. CASE Type[i] = "unlock" /\ Continue(i, at(f, "push")) /\ UNCHANGED <<authorization, dismiss>>
  <2>1. MayAwait(i, f, "push") /\ Shares(i, f, "push")
    BY <1>1, <1>2, <1>7, AtAwait, Sharing DEF MayAwait
  <2> QED
    BY <1>1, <1>7, <2>1, AtAwait, Advancing DEF Awaits, Waiting
<1>8. CASE /\ Type[i] = "sign" /\ owned(i, f.wallet) /\ Continue(i, at(h, "frozen"))
           /\ authorization' = Auth("SIGN_PENDING", i, f.wallet) /\ dismiss' = NoId
  <2>1. f.wallet \in Signers[i] /\ f.wallet \in Wallets
    BY <1>8, SignerAssumption DEF owned
  <2>2. MayAwait(i, h, "frozen")
    BY <1>1, <1>3, <1>8, <2>1, AtAwait DEF MayAwait, FlowOK, Awaits, Waiting
  <2>3. Shares(i, h, "frozen")
    BY <1>3, <1>8, <2>1 DEF Shares, Auth
  <2> QED
    BY <1>1, <1>3, <1>8, <2>2, <2>3, Advancing DEF Awaits
<1>9. CASE Type[i] = "export" /\ Continue(i, at(f, "reveal")) /\ UNCHANGED authorization /\ dismiss' = NoId
  <2>1. MayAwait(i, f, "reveal") /\ Shares(i, f, "reveal")
    BY <1>1, <1>2, <1>9, AtAwait, Sharing DEF MayAwait
  <2> QED
    BY <1>1, <1>9, <2>1, AtAwait, Advancing DEF Awaits
<1>10. scrubbed(h) = f /\ discarded(h) = f
  BY <1>1, AtAwait, SeedUnused
<1> QED
  BY <1>4, <1>5, <1>6, <1>7, <1>8, <1>9, <1>10 DEF Unwrap

LEMMA PushStep == ASSUME IInv, NEW i \in Ids, Push(i) PROVE Advances(i) \/ Closes(i)
<1> DEFINE f == scrubbed(flow[i])
<1>1. running(i) /\ flow[i].phase = "push" /\ Type[i] # "sign"
  <2>1. flow[i].phase = "push"
    BY DEF Push, scrubbed, IInv, TypeOK, Flows
  <2> QED
    BY <2>1, AtAwait DEF running, Awaits, Waiting, FlowOK
<1>2. /\ f \in Flows /\ f.phase = "push" /\ f.wallet = flow[i].wallet /\ f.seed = NoWallet
      /\ f.posted = flow[i].posted /\ f.dismissed = flow[i].dismissed
  BY <1>1, AtAwait DEF scrubbed, Flows
<1>3. ~has(f, "result") /\ authorization.requestId # i
  BY <1>1, <1>2, AtAwait DEF has, bound_to
<1>4. CASE Fail(i, f)
  BY <1>2, <1>3, <1>4, FailEnds DEF Fail
<1>5. CASE Continue(i, at(f, "success")) /\ UNCHANGED authorization /\ dismiss' \in {dismiss, NoId}
  <2>1. MayAwait(i, f, "success") /\ Shares(i, f, "success")
    BY <1>1, <1>2, <1>3, <1>5, Sharing DEF MayAwait
  <2> QED
    BY <1>1, <1>2, <1>5, <2>1, Advancing DEF Awaits
<1> QED
  BY <1>4, <1>5 DEF Push

LEMMA ResultEnds ==
    ASSUME NEW i \in Ids, NEW f \in Flows,
           f.seed = NoWallet, Type[i] = "sign" => f.agreed /\ f.wallet \in Signers[i],
           Finish(i, post(f, "result"))
    PROVE  Closes(i)
<1> DEFINE g == post(f, "result")
<1>1. g \in Flows /\ g.posted # <<>> /\ g.seed = NoWallet /\ g.agreed = f.agreed /\ g.wallet = f.wallet
  BY Posting DEF Answers
<1>2. /\ at(g, "done").posted = g.posted /\ at(g, "done").seed = NoWallet /\ at(g, "done").phase = "done"
      /\ at(g, "done").agreed = f.agreed /\ at(g, "done").wallet = f.wallet
  BY <1>1 DEF at, Flows
<1>3. FlowOK(i, at(g, "done"))
  BY <1>1, <1>2 DEF FlowOK, Awaits, Waiting
<1> QED
  BY <1>1, <1>3 DEF Closes

LEMMA CloseStep == ASSUME IInv, NEW i \in Ids, Close(i) PROVE Closes(i)
<1>1. running(i) /\ flow[i].phase \in {"success", "reveal"}
  BY DEF Close, running, Awaits
<1>2. Type[i] # "sign"
  BY <1>1, AtAwait DEF FlowOK
<1>3. CASE flow[i].dismissed /\ Finish(i, flow[i])
  BY <1>1, <1>3, AtAwait, QuitEnds
<1>4. CASE Finish(i, post(flow[i], "result"))
  BY <1>1, <1>2, <1>4, AtAwait, ResultEnds
<1> QED
  BY <1>3, <1>4 DEF Close

LEMMA FrozenStep == ASSUME IInv, NEW i \in Ids, Frozen(i) PROVE Closes(i)
<1> DEFINE f == scrubbed(flow[i])
<1>1. running(i) /\ flow[i].phase = "frozen"
  <2>1. flow[i].phase = "frozen"
    BY DEF Frozen, scrubbed, IInv, TypeOK, Flows
  <2> QED
    BY <2>1 DEF running, Awaits
<1>2. /\ f \in Flows /\ f.wallet = flow[i].wallet /\ f.seed = NoWallet
      /\ f.posted = flow[i].posted /\ f.agreed = flow[i].agreed
  BY <1>1, AtAwait DEF scrubbed, Flows
<1>3. ~has(f, "result")
  BY <1>1, <1>2, AtAwait DEF has
<1>4. CASE Finish(i, post(f, "result"))
  <2>1. Type[i] = "sign" => f.agreed /\ f.wallet \in Signers[i]
    BY <1>1, <1>2, AtAwait DEF FlowOK, Awaits
  <2> QED
    BY <1>2, <1>4, <2>1, ResultEnds
<1>5. CASE Fail(i, f)
  BY <1>2, <1>3, <1>5, FailEnds DEF Fail
<1> QED
  BY <1>4, <1>5 DEF Frozen

-----------------------------------------------------------------------------
(* The inductive invariant. *)

LEMMA HandlerStepKinds ==
    ASSUME IInv, NEW i \in Ids, Step(i)
    PROVE  running(i) /\ (Advances(i) \/ Closes(i)) /\ local' \in Wallets \cup {NoWallet}
<1>1. CASE Digest(i)
  BY <1>1, DigestStep DEF Digest, running, Awaits, IInv, TypeOK
<1>2. CASE Decline(i)
  BY <1>2, DeclineStep DEF Decline, running, Awaits, IInv, TypeOK
<1>3. CASE Confirm(i)
  <2>1. running(i) /\ UNCHANGED local
    BY <1>3 DEF Confirm, running, Awaits
  <2> QED
    BY <1>3, <2>1, ConfirmStep DEF IInv, TypeOK
<1>4. CASE Dismiss(i)
  <2>1. running(i) /\ UNCHANGED local
    BY <1>4 DEF Dismiss, running, Awaits
  <2> QED
    BY <1>4, <2>1, DismissStep DEF IInv, TypeOK
<1>5. CASE Again(i)
  BY <1>5, AgainStep DEF Again, running, Awaits, IInv, TypeOK
<1>6. CASE Close(i)
  BY <1>6, CloseStep DEF Close, running, Awaits, IInv, TypeOK
<1>7. CASE Mint(i)
  BY <1>7, MintStep DEF Mint, running, Awaits, Waiting, IInv, TypeOK
<1>8. CASE Passkey(i)
  BY <1>8, PasskeyStep DEF Passkey, running, Awaits, Waiting, IInv, TypeOK
<1>9. CASE Discover(i)
  BY <1>9, DiscoverStep DEF Discover, running, Awaits, Waiting, IInv, TypeOK
<1>10. CASE Restore(i)
  BY <1>10, RestoreStep DEF Restore, running, Awaits, Waiting, IInv, TypeOK
<1>11. CASE Unwrap(i)
  <2>1. running(i)
    BY <1>11 DEF Unwrap, running, Awaits, Waiting
  <2>2. flow[i].wallet \in Wallets \cup {NoWallet}
    BY <2>1, AtAwait DEF Flows
  <2> QED
    BY <1>11, <2>1, <2>2, UnwrapStep DEF Unwrap, IInv, TypeOK
<1>12. CASE Push(i)
  <2>1. scrubbed(flow[i]).phase = flow[i].phase /\ scrubbed(flow[i]).wallet \in Wallets \cup {NoWallet}
    BY DEF scrubbed, IInv, TypeOK, Flows
  <2> QED
    BY <1>12, <2>1, PushStep DEF Push, running, Awaits, Waiting, IInv, TypeOK
<1>13. CASE Frozen(i)
  <2>1. scrubbed(flow[i]).phase = flow[i].phase
    BY DEF scrubbed, IInv, TypeOK, Flows
  <2> QED
    BY <1>13, <2>1, FrozenStep DEF Frozen, running, Awaits, IInv, TypeOK
<1> QED
  BY <1>1, <1>2, <1>3, <1>4, <1>5, <1>6, <1>7, <1>8, <1>9, <1>10, <1>11, <1>12, <1>13 DEF Step

LEMMA AdvancesKeeps ==
    ASSUME IInv, NEW i \in Ids, running(i), Advances(i), local' \in Wallets \cup {NoWallet}
    PROVE  IInv'
<1>1. PICK f \in Flows :
          /\ Continue(i, f)
          /\ f.phase \in Awaits
          /\ FlowOK(i, f)
          /\ bound_to(i, f, authorization')
          /\ \/ authorization' = authorization
             \/ f.wallet \in Wallets /\ authorization' = Auth("SIGN_PENDING", i, f.wallet)
          /\ dismiss' \in {dismiss, NoId, i}
  BY DEF Advances
<1>2. /\ flow \in [Ids -> Flows] /\ flow'[i] = f /\ flow' \in [Ids -> Flows]
      /\ \A j \in Ids \ {i} : flow'[j] = flow[j]
  BY <1>1 DEF Continue, IInv, TypeOK
<1>3. TypeOK'
  BY <1>1, <1>2 DEF Continue, IInv, TypeOK
<1>4. OneFlow'
  <2>1. i = activeRequestId
    BY DEF IInv, OneFlow
  <2>2. \A j \in Ids : running(j)' <=> running(j)
    BY <1>1, <1>2 DEF running
  <2> QED
    BY <1>1, <2>1, <2>2 DEF Continue, IInv, OneFlow
<1>5. AuthorizationBound'
  <2>1. ASSUME NEW j \in Ids \ {i} PROVE bound_to(j, flow'[j], authorization')
    <3>1. bound_to(j, flow[j], authorization)
      BY DEF IInv, AuthorizationBound
    <3>2. CASE authorization' = authorization
      BY <1>2, <3>1, <3>2
    <3>3. CASE authorization' = Auth("SIGN_PENDING", i, f.wallet)
      BY <3>3 DEF Auth, bound_to
    <3> QED
      BY <1>1, <3>2, <3>3
  <2> QED
    BY <1>1, <1>2, <2>1 DEF AuthorizationBound
<1>6. FlowSound'
  BY <1>1, <1>2 DEF IInv, FlowSound
<1> QED
  BY <1>3, <1>4, <1>5, <1>6 DEF IInv

LEMMA ClosesKeeps ==
    ASSUME IInv, NEW i \in Ids, running(i), Closes(i), local' \in Wallets \cup {NoWallet}
    PROVE  IInv'
<1>1. PICK f \in Flows : Finish(i, f) /\ FlowOK(i, at(f, "done"))
  BY DEF Closes
<1>2. at(f, "done") \in Flows /\ at(f, "done").phase = "done"
  BY DEF at, Flows
<1>3. /\ flow'[i] = at(f, "done") /\ flow' \in [Ids -> Flows]
      /\ \A j \in Ids \ {i} : flow'[j] = flow[j]
  BY <1>1, <1>2 DEF Finish, IInv, TypeOK
<1>4. TypeOK'
  BY <1>1, <1>3 DEF Finish, end, left_authorized, IInv, TypeOK
<1>5. OneFlow'
  <2>1. i = activeRequestId
    BY DEF IInv, OneFlow
  <2>2. \A j \in Ids : ~running(j)'
    BY <1>2, <1>3, <2>1 DEF running, Awaits, Waiting, IInv, OneFlow
  <2>3. state' = "IDLE" /\ activeRequestId' = NoId /\ dismiss' = NoId
    BY <1>1 DEF Finish, end
  <2> QED
    BY <2>2, <2>3, SignerAssumption DEF OneFlow, NoId
<1>6. AuthorizationBound'
  BY <1>1, SignerAssumption DEF Finish, end, left_authorized, NoAuth, Auth, NoId, bound_to, AuthorizationBound
<1>7. FlowSound'
  BY <1>1, <1>3 DEF IInv, FlowSound
<1> QED
  BY <1>4, <1>5, <1>6, <1>7 DEF IInv

(* A handler before it runs, or at its first await. *)
LEMMA NewFlow ==
    ASSUME NEW i \in Ids, NEW phase \in {"idle", "digest", "confirm"},
           NEW cold \in BOOLEAN, NEW wallet \in Wallets \cup {NoWallet},
           Type[i] = "sign" => phase # "confirm"
    PROVE  /\ Flow(phase, cold, wallet) \in Flows
           /\ Flow(phase, cold, wallet).phase = phase
           /\ FlowOK(i, Flow(phase, cold, wallet))
<1>1. Flow(phase, cold, wallet) \in Flows
  BY DEF Flow, Flows, Awaits
<1>2. ~has(Flow(phase, cold, wallet), "result")
  BY DEF has, Flow
<1>3. phase # "done"
  OBVIOUS
<1> QED
  BY <1>1, <1>2, <1>3 DEF Flow, FlowOK, Awaits, Waiting

LEMMA Remembered ==
    ASSUME IInv, NEW i \in Ids
    PROVE  remember(i) \in Seq(Ids) /\ Len(remember(i)) <= SEEN_REQUEST_IDS_LIMIT
<1> DEFINE pushed_id == Append(seen, i)
<1>1. seen \in Seq(Ids) /\ Len(seen) <= SEEN_REQUEST_IDS_LIMIT
  BY DEF IInv, TypeOK
<1>2. pushed_id \in Seq(Ids) /\ pushed_id # <<>> /\ Len(pushed_id) = Len(seen) + 1
  BY <1>1
<1>3. Tail(pushed_id) \in Seq(Ids) /\ Len(Tail(pushed_id)) = Len(seen)
  BY <1>1, <1>2
<1>4. Len(seen) \in Nat
  BY <1>1
<1>5. SEEN_REQUEST_IDS_LIMIT \in Nat
  BY SignerAssumption
<1> HIDE DEF pushed_id
<1>6. remember(i) = IF Len(pushed_id) > SEEN_REQUEST_IDS_LIMIT THEN Tail(pushed_id) ELSE pushed_id
  BY DEF remember, pushed_id
<1> QED
  BY <1>1, <1>2, <1>3, <1>4, <1>5, <1>6

LEMMA AcceptKeeps == ASSUME IInv, NEW i \in Ids, Accept(i) PROVE IInv'
<1>1. remember(i) \in Seq(Ids) /\ Len(remember(i)) <= SEEN_REQUEST_IDS_LIMIT
  BY Remembered
<1>2. seen' = remember(i) /\ accepted' \in Seq(Ids) /\ UNCHANGED local
  BY DEF Accept, IInv, TypeOK
<1>3. CASE UNCHANGED <<state, activeRequestId, authorization, dismiss, flow>>
  <2>1. TypeOK'
    BY <1>1, <1>2, <1>3 DEF IInv, TypeOK
  <2>2. OneFlow' /\ AuthorizationBound' /\ FlowSound'
    BY <1>3 DEF IInv, OneFlow, AuthorizationBound, FlowSound, running
  <2> QED
    BY <2>1, <2>2 DEF IInv
<1>4. ASSUME may_begin PROVE \A j \in Ids : ~running(j) /\ authorization.requestId # j
  <2>1. activeRequestId = NoId
    BY <1>4 DEF may_begin, IInv, OneFlow
  <2>2. \A j \in Ids : ~running(j)
    BY <2>1, SignerAssumption DEF IInv, OneFlow, NoId
  <2>3. \A j \in Ids : authorization.requestId = j => running(j)
    BY DEF IInv, AuthorizationBound, bound_to, running, Awaits, Waiting
  <2> QED
    BY <2>2, <2>3
<1>5. ASSUME may_begin, NEW f \in Flows, FlowOK(i, f), flow' = [flow EXCEPT ![i] = f]
      PROVE  /\ flow'[i] = f /\ flow' \in [Ids -> Flows]
             /\ \A j \in Ids \ {i} : flow'[j] = flow[j]
             /\ FlowSound'
  BY <1>5 DEF IInv, TypeOK, FlowSound
<1>6. CASE may_begin /\ flow' = [flow EXCEPT ![i] = post(Flow("done", FALSE, NoWallet), "error")] /\ end
  <2> DEFINE f == post(Flow("done", FALSE, NoWallet), "error")
  <2>1. /\ Flow("done", FALSE, NoWallet) \in Flows /\ ~has(Flow("done", FALSE, NoWallet), "result")
        /\ Flow("done", FALSE, NoWallet).phase = "done" /\ Flow("done", FALSE, NoWallet).seed = NoWallet
    BY DEF Flow, Flows, has
  <2>2. f \in Flows /\ f.posted # <<>> /\ ~has(f, "result") /\ f.phase = "done" /\ f.seed = NoWallet
    BY <2>1, Posting DEF Answers
  <2> HIDE DEF f
  <2>3. FlowOK(i, f)
    BY <2>2 DEF FlowOK, Awaits, Waiting
  <2>4. flow'[i] = f /\ flow' \in [Ids -> Flows] /\ (\A j \in Ids \ {i} : flow'[j] = flow[j]) /\ FlowSound'
    BY <1>5, <1>6, <2>2, <2>3 DEF f
  <2>5. state' = "IDLE" /\ activeRequestId' = NoId /\ dismiss' = NoId /\ authorization' = NoAuth
    BY <1>6 DEF end, left_authorized
  <2>6. TypeOK'
    BY <1>1, <1>2, <2>4, <2>5 DEF IInv, TypeOK
  <2>7. \A j \in Ids : ~running(j)'
    BY <1>4, <1>6, <2>2, <2>4 DEF running, Awaits, Waiting
  <2>8. OneFlow'
    BY <2>5, <2>7, SignerAssumption DEF OneFlow, NoId
  <2>9. AuthorizationBound'
    BY <2>5, SignerAssumption DEF AuthorizationBound, bound_to, NoAuth, Auth, NoId
  <2> QED
    BY <2>4, <2>6, <2>8, <2>9 DEF IInv
<1>7. ASSUME may_begin, begin(i), NEW f \in Flows, FlowOK(i, f), f.phase \in {"digest", "confirm"},
             flow' = [flow EXCEPT ![i] = f], UNCHANGED <<authorization, dismiss>>
      PROVE  IInv'
  <2>1. flow'[i] = f /\ flow' \in [Ids -> Flows] /\ (\A j \in Ids \ {i} : flow'[j] = flow[j]) /\ FlowSound'
    BY <1>5, <1>7
  <2>2. /\ state' = operation[Type[i]] /\ activeRequestId' = i
        /\ state' \in {"AUTH_PENDING", "SIGN_PENDING", "PRIVATE_EXPORT_PENDING"}
    <3>1. state' = operation[Type[i]] /\ activeRequestId' = i
      BY <1>7 DEF begin
    <3>2. Type[i] \in Types
      BY SignerAssumption
    <3> QED
      BY <3>1, <3>2 DEF operation, Types
  <2>3. TypeOK'
    BY <1>1, <1>2, <1>7, <2>1, <2>2 DEF IInv, TypeOK
  <2>4. \A j \in Ids : running(j)' <=> j = i
    BY <1>4, <1>7, <2>1 DEF running, Awaits
  <2>5. dismiss' = NoId
    BY <1>7 DEF may_begin, IInv, OneFlow
  <2>6. OneFlow'
    BY <2>2, <2>4, <2>5, SignerAssumption DEF OneFlow, NoId
  <2>7. AuthorizationBound'
    BY <1>4, <1>7 DEF AuthorizationBound, bound_to
  <2> QED
    BY <2>1, <2>3, <2>6, <2>7 DEF IInv
<1>8. CASE /\ may_begin /\ begin(i) /\ UNCHANGED <<authorization, dismiss>>
           /\ flow' = [flow EXCEPT ![i] =
                  Flow(IF Type[i] = "sign" THEN "digest" ELSE "confirm",
                       Type[i] = "unlock" /\ local = NoWallet,
                       IF Type[i] = "unlock" THEN local ELSE NoWallet)]
  <2> DEFINE p == IF Type[i] = "sign" THEN "digest" ELSE "confirm"
             c == Type[i] = "unlock" /\ local = NoWallet
             w == IF Type[i] = "unlock" THEN local ELSE NoWallet
             f == Flow(p, c, w)
  <2>1. p \in {"digest", "confirm"} /\ c \in BOOLEAN /\ w \in Wallets \cup {NoWallet}
    BY DEF IInv, TypeOK
  <2>2. Type[i] = "sign" => p # "confirm"
    OBVIOUS
  <2> HIDE DEF p, c, w
  <2>3. f \in Flows /\ FlowOK(i, f) /\ f.phase = p
    BY <2>1, <2>2, NewFlow
  <2>4. flow' = [flow EXCEPT ![i] = f]
    BY <1>8 DEF p, c, w
  <2> HIDE DEF f
  <2> QED
    BY <1>7, <1>8, <2>1, <2>3, <2>4
<1> QED
  BY <1>3, <1>6, <1>8 DEF Accept

LEMMA NothingSeen == <<>> \in Seq(Ids) /\ Len(<<>>) <= SEEN_REQUEST_IDS_LIMIT
<1>1. SEEN_REQUEST_IDS_LIMIT \in Nat
  BY SignerAssumption
<1> QED
  BY <1>1

LEMMA NoneRunning ==
          /\ NoFlows \in [Ids -> Flows]
          /\ \A i \in Ids : NoFlows[i].phase = "idle" /\ FlowOK(i, NoFlows[i])
BY NewFlow DEF NoFlows

LEMMA Initially == ASSUME Init PROVE IInv
<1>1. TypeOK
  BY NoneRunning, NothingSeen DEF Init, TypeOK
<1>2. OneFlow
  BY NoneRunning, SignerAssumption DEF Init, OneFlow, running, Awaits, Waiting, NoId
<1>3. AuthorizationBound
  BY SignerAssumption DEF Init, AuthorizationBound, bound_to, NoAuth, Auth, NoId
<1>4. FlowSound
  BY NoneRunning DEF Init, FlowSound
<1> QED
  BY <1>1, <1>2, <1>3, <1>4 DEF IInv

LEMMA ReloadKeeps == ASSUME IInv, Reload PROVE IInv'
<1>1. TypeOK'
  BY NoneRunning, NothingSeen DEF Reload, end, left_authorized, IInv, TypeOK
<1>2. OneFlow'
  BY NoneRunning, SignerAssumption DEF Reload, end, OneFlow, running, Awaits, Waiting, NoId
<1>3. AuthorizationBound'
  BY SignerAssumption DEF Reload, end, left_authorized, AuthorizationBound, bound_to, NoAuth, Auth, NoId
<1>4. FlowSound'
  BY NoneRunning DEF Reload, FlowSound
<1> QED
  BY <1>1, <1>2, <1>3, <1>4 DEF IInv

LEMMA StepKeeps == ASSUME IInv, [Next]_vars PROVE IInv'
<1>1. ASSUME NEW i \in Ids, Accept(i) PROVE IInv'
  BY <1>1, AcceptKeeps
<1>2. ASSUME NEW i \in Ids, Step(i) PROVE IInv'
  BY <1>2, HandlerStepKinds, AdvancesKeeps, ClosesKeeps
<1>3. CASE StorageChanges
  <2>1. TypeOK'
    BY <1>3 DEF StorageChanges, IInv, TypeOK
  <2>2. OneFlow' /\ AuthorizationBound' /\ FlowSound'
    BY <1>3 DEF StorageChanges, IInv, OneFlow, AuthorizationBound, FlowSound, running
  <2> QED
    BY <2>1, <2>2 DEF IInv
<1>4. CASE Reload
  BY <1>4, ReloadKeeps
<1>5. CASE UNCHANGED vars
  <2>1. TypeOK'
    BY <1>5 DEF vars, IInv, TypeOK
  <2>2. OneFlow' /\ AuthorizationBound' /\ FlowSound'
    BY <1>5 DEF vars, IInv, OneFlow, AuthorizationBound, FlowSound, running
  <2> QED
    BY <2>1, <2>2 DEF IInv
<1> QED
  BY <1>1, <1>2, <1>3, <1>4, <1>5 DEF Next

-----------------------------------------------------------------------------
(* Theorems. *)

LEMMA Invariant == Spec => []IInv
BY Initially, StepKeeps, PTL DEF Spec

(* The signer's state has its types, and remembers at most                 *)
(* SEEN_REQUEST_IDS_LIMIT request ids (SignerState).                       *)
THEOREM TypeCorrect == Spec => []TypeOK
<1>1. IInv => TypeOK
  BY DEF IInv
<1> QED
  BY <1>1, Invariant, PTL

(* One flow is active at a time and owns the shared state and the close    *)
(* button, however requests, users and answers interleave (begin, end).    *)
THEOREM OneFlowAtATime == Spec => []OneFlow
<1>1. IInv => OneFlow
  BY DEF IInv
<1> QED
  BY <1>1, Invariant, PTL

(* An authorization is only ever that of the running signature, confirmed  *)
(* and within the policy (authorize, end).                                 *)
THEOREM AuthorizationAlwaysBound == Spec => []AuthorizationBound
<1>1. IInv => AuthorizationBound
  BY DEF IInv
<1> QED
  BY <1>1, Invariant, PTL

(* No transaction is signed without the user's consent, or by a wallet the *)
(* policy refuses for it, restored or not (handleSign).                    *)
THEOREM AlwaysSignedAsAgreed == Spec => []SignedAsAgreed
<1>1. IInv => SignedAsAgreed
  BY DEF IInv, FlowSound, FlowOK, SignedAsAgreed, posted, has
<1> QED
  BY <1>1, Invariant, PTL

(* Every way out of a handler has zeroed the seed it decrypted.            *)
THEOREM SeedsAlwaysScrubbed == Spec => []SeedsScrubbed
<1>1. IInv => SeedsScrubbed
  BY DEF IInv, FlowSound, FlowOK, SeedsScrubbed, running, Awaits, Waiting
<1> QED
  BY <1>1, Invariant, PTL

(* Every way out of a handler has answered the request.                    *)
THEOREM AlwaysEndsAnswered == Spec => []EndsAnswered
<1>1. IInv => EndsAnswered
  BY DEF IInv, FlowSound, FlowOK, EndsAnswered
<1> QED
  BY <1>1, Invariant, PTL

-----------------------------------------------------------------------------
(* The request ids remembered. *)

(***************************************************************************)
(* The ids remembered are the last ones accepted: all of them, or as many  *)
(* as are remembered.                                                      *)
(***************************************************************************)
Remembering ==
    /\ Len(seen) <= Len(accepted)
    /\ Len(seen) = Len(accepted) \/ Len(seen) = SEEN_REQUEST_IDS_LIMIT
    /\ \A j \in 1 .. Len(seen) : seen[j] = accepted[Len(accepted) - Len(seen) + j]

MInv == IInv /\ Remembering /\ DuplicateNeedsEviction

LEMMA AcceptRemembers ==
    ASSUME MInv, NEW i \in Ids, Accept(i)
    PROVE  (Remembering /\ DuplicateNeedsEviction)'
<1> DEFINE n == Len(accepted)
           k == Len(seen)
           L == SEEN_REQUEST_IDS_LIMIT
           pushed_id == Append(seen, i)
<1>1. /\ seen \in Seq(Ids) /\ accepted \in Seq(Ids) /\ n \in Nat /\ k \in Nat /\ L \in Nat /\ L > 0
      /\ k <= L
  <2>1. seen \in Seq(Ids) /\ accepted \in Seq(Ids) /\ Len(seen) <= SEEN_REQUEST_IDS_LIMIT
    BY DEF MInv, IInv, TypeOK
  <2>2. Len(seen) \in Nat /\ Len(accepted) \in Nat
    BY <2>1
  <2>3. SEEN_REQUEST_IDS_LIMIT \in Nat /\ SEEN_REQUEST_IDS_LIMIT # 0
    BY SignerAssumption
  <2>4. QED
    BY <2>1, <2>2, <2>3
<1>2. /\ k <= n /\ (k = n \/ k = L)
      /\ \A j \in 1 .. k : seen[j] = accepted[n - k + j]
  BY DEF MInv, Remembering
<1>3. /\ seen' = IF Len(pushed_id) > L THEN Tail(pushed_id) ELSE pushed_id
      /\ accepted' = Append(accepted, i)
      /\ \A j \in 1 .. k : seen[j] # i
  BY <1>1 DEF Accept, remember
<1>4. /\ Len(pushed_id) = k + 1 /\ pushed_id \in Seq(Ids)
      /\ \A j \in 1 .. k : pushed_id[j] = seen[j]
      /\ pushed_id[k + 1] = i
  BY <1>1
<1>5. /\ Len(accepted') = n + 1
      /\ \A j \in 1 .. n : accepted'[j] = accepted[j]
      /\ accepted'[n + 1] = i
  BY <1>1, <1>3
<1>6. Remembering'
  <2>1. CASE k + 1 > L
    <3>1. k = L
      BY <1>1, <2>1
    <3>2. seen' = Tail(pushed_id)
      BY <1>3, <1>4, <2>1
    <3> HIDE DEF n, k, L, pushed_id
    <3>3. Len(seen') = k /\ \A j \in 1 .. k : seen'[j] = pushed_id[j + 1]
      <4>1. pushed_id # <<>>
        BY <1>1, <1>4
      <4>2. Len(Tail(pushed_id)) = k /\ \A j \in 1 .. k : Tail(pushed_id)[j] = pushed_id[j + 1]
        BY <1>1, <1>4, <4>1
      <4>3. QED
        BY <3>2, <4>2
    <3>4. ASSUME NEW j \in 1 .. k PROVE seen'[j] = accepted'[(n + 1) - k + j]
      <4>1. CASE j = k
        <5>1. (n + 1) - k + j = n + 1
          BY <1>1, <4>1
        <5>2. QED
          BY <1>4, <1>5, <3>3, <4>1, <5>1
      <4>2. CASE j # k
        <5>1. j + 1 \in 1 .. k /\ n - k + (j + 1) = (n + 1) - k + j /\ n - k + (j + 1) \in 1 .. n
          BY <1>1, <1>2, <4>2
        <5>2. seen'[j] = seen[j + 1]
          BY <1>4, <3>3, <5>1
        <5>3. seen[j + 1] = accepted[n - k + (j + 1)]
          BY <1>2, <5>1
        <5>4. QED
          BY <1>5, <5>1, <5>2, <5>3
      <4>3. QED
        BY <4>1, <4>2
    <3>5. k <= n + 1
      BY <1>1, <1>2
    <3>6. QED
      BY <1>5, <3>1, <3>3, <3>4, <3>5 DEF Remembering, L
  <2>2. CASE ~(k + 1 > L)
    <3>1. k = n
      BY <1>1, <1>2, <2>2
    <3>2. seen' = pushed_id
      BY <1>3, <1>4, <2>2
    <3> HIDE DEF n, k, L, pushed_id
    <3>3. Len(seen') = k + 1
      BY <1>4, <3>2
    <3>4. ASSUME NEW j \in 1 .. k + 1 PROVE seen'[j] = accepted'[(n + 1) - (k + 1) + j]
      <4>1. (n + 1) - (k + 1) + j = j /\ n - k + j = j /\ (j # k + 1 => j \in 1 .. k /\ j \in 1 .. n)
        BY <1>1, <3>1
      <4>2. QED
        BY <1>2, <1>4, <1>5, <3>1, <3>2, <4>1
    <3>5. QED
      BY <1>1, <1>5, <3>1, <3>3, <3>4 DEF Remembering
  <2>3. QED
    BY <2>1, <2>2
<1>7. DuplicateNeedsEviction'
  <2>1. DOMAIN accepted' = 1 .. n + 1 /\ DOMAIN accepted = 1 .. n
    BY <1>1, <1>3
  <2> HIDE DEF n, k, L, pushed_id
  <2>2. SUFFICES ASSUME NEW a \in 1 .. n + 1, NEW b \in 1 .. n + 1, a < b, accepted'[a] = accepted'[b]
                 PROVE  b - a > L
    BY <2>1 DEF DuplicateNeedsEviction, L
  <2>3. a \in 1 .. n
    BY <1>1, <2>2
  <2>4. CASE b # n + 1
    <3>1. b \in 1 .. n
      BY <1>1, <2>4
    <3>2. accepted[a] = accepted[b]
      BY <1>5, <2>2, <2>3, <3>1
    <3>3. DuplicateNeedsEviction
      BY DEF MInv
    <3>4. QED
      BY <2>1, <2>2, <2>3, <3>1, <3>2, <3>3 DEF DuplicateNeedsEviction, L
  <2>5. CASE b = n + 1
    <3>1. accepted[a] = i
      BY <1>5, <2>2, <2>3, <2>5
    <3>2. SUFFICES ASSUME ~(b - a > L) PROVE FALSE
      OBVIOUS
    <3>3. a - (n - k) \in 1 .. k /\ n - k + (a - (n - k)) = a
      BY <1>1, <1>2, <2>3, <2>5, <3>2
    <3>4. seen[a - (n - k)] = i
      BY <1>2, <3>1, <3>3
    <3>5. QED
      BY <1>3, <3>3, <3>4
  <2>6. QED
    BY <2>4, <2>5
<1>8. QED
  BY <1>6, <1>7

LEMMA EmptyRemembers ==
    ASSUME seen = <<>>, accepted = <<>>
    PROVE  Remembering /\ DuplicateNeedsEviction
BY DEF Remembering, DuplicateNeedsEviction

LEMMA MemoryKept ==
    ASSUME MInv, [Next]_vars
    PROVE  MInv'
<1>1. IInv /\ IInv'
  BY StepKeeps DEF MInv
<1>2. ASSUME NEW i \in Ids, Accept(i) PROVE MInv'
  BY <1>1, <1>2, AcceptRemembers DEF MInv
<1>3. ASSUME seen' = seen, accepted' = accepted PROVE MInv'
  BY <1>1, <1>3 DEF MInv, Remembering, DuplicateNeedsEviction
<1>4. ASSUME NEW i \in Ids, Step(i) PROVE MInv'
  <2>1. Advances(i) \/ Closes(i)
    BY <1>1, <1>4, HandlerStepKinds
  <2>2. seen' = seen /\ accepted' = accepted
    BY <2>1 DEF Advances, Closes, Continue, Finish
  <2>3. QED
    BY <1>3, <2>2
<1>5. CASE StorageChanges
  BY <1>3, <1>5 DEF StorageChanges
<1>6. CASE Reload
  <2>1. seen' = <<>> /\ accepted' = <<>>
    BY <1>6 DEF Reload
  <2>2. Remembering' /\ DuplicateNeedsEviction'
    BY <2>1 DEF Remembering, DuplicateNeedsEviction
  <2>3. QED
    BY <1>1, <2>2 DEF MInv
<1>7. CASE UNCHANGED vars
  BY <1>3, <1>7 DEF vars
<1>8. QED
  BY <1>2, <1>4, <1>5, <1>6, <1>7 DEF Next

(* An id is accepted again only after as many others as are remembered     *)
(* (checkFreshnessAndReplay, remember), for any limit and any requests.    *)
THEOREM DuplicatesAlwaysEvicted == Spec => []DuplicateNeedsEviction
<1>1. Init => MInv
  <2> SUFFICES ASSUME Init PROVE MInv
    OBVIOUS
  <2>1. IInv
    BY Initially
  <2>2. Remembering /\ DuplicateNeedsEviction
    BY EmptyRemembers DEF Init
  <2>3. QED
    BY <2>1, <2>2 DEF MInv
<1>2. MInv /\ [Next]_vars => MInv'
  BY MemoryKept
<1>3. MInv => DuplicateNeedsEviction
  BY DEF MInv
<1> QED
  BY <1>1, <1>2, <1>3, PTL DEF Spec

-----------------------------------------------------------------------------
(* The set-up: no wallet is lost.                                          *)

(* Keys, and what can be in a storage, a row or a hand. *)
Seeds == Credentials \cup Handlers

Blobs == {wrapNewSeed(seed, c) : seed \in Seeds, c \in Credentials}

(* What is still to do before there is a blob, with one that has no row    *)
(* yet, and with one that has. *)
Early  == {<<"enroll", "push", "write", "tell">>, <<"restore", "write", "push", "tell">>,
           <<"restore", "write", "tell">>}
InHand == {<<"push", "write", "tell">>}
Backed == {<<"open", "push", "write", "tell">>, <<"open", "tell">>, <<"write", "push", "tell">>,
           <<"write", "tell">>, <<"push", "tell">>, <<"tell">>}

HandlerRecords ==
    [on : Phones, op : {"create", "unlock", "unlink"}, steps : Early \cup InHand \cup Backed,
     blob : {NoBlob} \cup Blobs, passkey : {None} \cup Credentials, wants : {None} \cup Seeds,
     heard : BOOLEAN]

-----------------------------------------------------------------------------
(* The inductive invariant *)

SetupTypeOK ==
    /\ storage \in [Phones -> {NoBlob} \cup Blobs]
    /\ made \subseteq Credentials
    /\ rows \in [Credentials -> {NoBlob} \cup Blobs]
    /\ cookie \in [Phones -> {None} \cup Seeds]
    /\ address \in [Phones -> {None} \cup Seeds]
    /\ setup \in [Phones -> [phase : {"closed", "chooser", "username", "lost"},
                             back : {"closed", "chooser", "lost"}]]
    /\ handlers \in [Handlers -> {Unused, Done} \cup HandlerRecords]
    /\ claims \subseteq Items \X Seeds
    /\ authority \in [Items -> {None} \cup Seeds]

RowsOK == \A c \in Credentials : rows[c] # NoBlob => rows[c].credentialId = c

(* A blob whose passkey has a row of the same wallet. *)
backed(rs, blob) ==
    /\ blob \in Blobs
    /\ rs[blob.credentialId] # NoBlob
    /\ rs[blob.credentialId].publicKey = blob.publicKey

has_row(rs, wallet) == \E c \in Credentials : rs[c] # NoBlob /\ rs[c].publicKey = wallet

StorageOK == \A p \in Phones : storage[p] # NoBlob => backed(rows, storage[p])

NamedOK ==
    /\ \A p \in Phones : cookie[p] # None => has_row(rows, cookie[p])
    /\ \A p \in Phones : address[p] # None => has_row(rows, address[p])
    /\ \A i \in Items : authority[i] # None => has_row(rows, authority[i])
    /\ \A claim \in claims : has_row(rows, claim[2])

(* What a handler knows before each step. *)
handlerOK(rs, call) ==
    call \in HandlerRecords =>
        /\ Head(call.steps) = "enroll" => call.passkey \in Credentials
        /\ call.steps \in InHand => call.blob \in Blobs
        /\ call.steps \in Backed => backed(rs, call.blob)

HandlersOK == \A r \in Handlers : handlerOK(rows, handlers[r])

SetupInv == SetupTypeOK /\ RowsOK /\ StorageOK /\ NamedOK /\ HandlersOK

(* A row stays, with its key. *)
RowsGrow ==
    \A c \in Credentials : rows[c] # NoBlob => rows'[c] # NoBlob /\ rows'[c].publicKey = rows[c].publicKey

-----------------------------------------------------------------------------
(* Blobs and steps *)

(* A fresh name comes from what is left. *)
LEMMA NextOf == ASSUME NEW left, left # {} PROVE next_of(left) \in left
BY DEF next_of

(* Every blob names a passkey, opens with it, and is not taken for none.   *)
LEMMA BlobFacts ==
  ASSUME NEW blob \in Blobs
  PROVE  /\ blob.publicKey \in Seeds
         /\ blob.credentialId \in Credentials
         /\ unwraps(prf(blob.credentialId), blob)
         /\ blob # NoBlob
BY SetupAssumption DEF Blobs, wrapNewSeed, encodeWalletBlob, aesGcmEncrypt, aesGcmDecrypts, unwraps,
   NoBlob, buildAad, deriveWrappingKey

(* What is made with a passkey is a blob of that passkey.                  *)
LEMMA WrapFacts ==
  ASSUME NEW seed \in Seeds, NEW c \in Credentials
  PROVE  /\ wrapNewSeed(seed, c) \in Blobs
         /\ wrapNewSeed(seed, c).credentialId = c
         /\ wrapNewSeed(seed, c).publicKey = seed
BY DEF Blobs, wrapNewSeed, encodeWalletBlob

(* What a list of steps begins with, and what it leaves.                   *)
StepsGo(s) ==
    /\ s # <<>>
    /\ s \in InHand \cup Backed => Head(s) # "enroll"
    /\ Head(s) = "enroll" => Tail(s) \in InHand
    /\ Head(s) = "restore" => Tail(s) \in Backed
    /\ Head(s) = "open" => s \in Backed /\ Tail(s) \in InHand \cup Backed
    /\ Head(s) = "write" => s \in Backed /\ Tail(s) \in Backed
    /\ Head(s) = "push" => s \in InHand \cup Backed /\ Tail(s) \in Backed
    /\ Head(s) = "tell" => s \in Backed

(* The blob a step needs is in hand, and the next step has its own.        *)
LEMMA StepsFacts ==
  ASSUME NEW s \in Early \cup InHand \cup Backed
  PROVE  StepsGo(s)
<1>1. StepsGo(<<"enroll", "push", "write", "tell">>)
  BY DEF StepsGo, InHand, Backed
<1>2. StepsGo(<<"restore", "write", "push", "tell">>)
  BY DEF StepsGo, InHand, Backed
<1>3. StepsGo(<<"restore", "write", "tell">>)
  BY DEF StepsGo, InHand, Backed
<1>4. StepsGo(<<"push", "write", "tell">>)
  BY DEF StepsGo, InHand, Backed
<1>5. StepsGo(<<"open", "push", "write", "tell">>)
  BY DEF StepsGo, InHand, Backed
<1>6. StepsGo(<<"open", "tell">>)
  BY DEF StepsGo, InHand, Backed
<1>7. StepsGo(<<"write", "push", "tell">>)
  BY DEF StepsGo, InHand, Backed
<1>8. StepsGo(<<"write", "tell">>)
  BY DEF StepsGo, InHand, Backed
<1>9. StepsGo(<<"push", "tell">>)
  BY DEF StepsGo, InHand, Backed
<1>10. StepsGo(<<"tell">>)
  BY DEF StepsGo, InHand, Backed
<1> QED
  BY <1>1, <1>2, <1>3, <1>4, <1>5, <1>6, <1>7, <1>8, <1>9, <1>10 DEF Early, InHand, Backed

(* Lists that are started with begin as they should.                       *)
LEMMA StartFacts ==
  /\ CreateSteps \in Early /\ CreateSteps \notin InHand \cup Backed
  /\ \A blob : /\ UnlockSteps(blob) \in Early \cup Backed
               /\ UnlockSteps(blob) \notin InHand
               /\ UnlockSteps(blob) \in Backed => blob # NoBlob
               /\ Head(UnlockSteps(blob)) # "enroll"
  /\ \A blob : /\ SignSteps(blob) \in Early \cup Backed
               /\ SignSteps(blob) \notin InHand
               /\ SignSteps(blob) \in Backed => blob # NoBlob
               /\ Head(SignSteps(blob)) # "enroll"
<1>1. CreateSteps \in Early /\ CreateSteps \notin InHand \cup Backed
  BY DEF CreateSteps, Early, InHand, Backed
<1>2. ASSUME NEW blob
      PROVE  /\ UnlockSteps(blob) \in Early \cup Backed
             /\ UnlockSteps(blob) \notin InHand
             /\ UnlockSteps(blob) \in Backed => blob # NoBlob
             /\ Head(UnlockSteps(blob)) # "enroll"
  <2>1. CASE blob = NoBlob
    BY <2>1 DEF UnlockSteps, Early, InHand, Backed
  <2>2. CASE blob # NoBlob
    BY <2>2 DEF UnlockSteps, Early, InHand, Backed
  <2> QED BY <2>1, <2>2
<1>3. ASSUME NEW blob
      PROVE  /\ SignSteps(blob) \in Early \cup Backed
             /\ SignSteps(blob) \notin InHand
             /\ SignSteps(blob) \in Backed => blob # NoBlob
             /\ Head(SignSteps(blob)) # "enroll"
  <2>1. CASE blob = NoBlob
    BY <2>1 DEF SignSteps, Early, InHand, Backed
  <2>2. CASE blob # NoBlob
    BY <2>2 DEF SignSteps, Early, InHand, Backed
  <2> QED BY <2>1, <2>2
<1> QED BY <1>1, <1>2, <1>3

-----------------------------------------------------------------------------
(* What the steps do to the rows and to the handlers *)

(* What is backed up, or has a row, stays so.                              *)
LEMMA GrowKeeps ==
  ASSUME SetupTypeOK, RowsGrow
  PROVE  /\ \A blob : backed(rows, blob) => backed(rows', blob)
         /\ \A wallet : has_row(rows, wallet) => has_row(rows', wallet)
         /\ \A call : handlerOK(rows, call) => handlerOK(rows', call)
<1>1. ASSUME NEW blob, backed(rows, blob) PROVE backed(rows', blob)
  BY <1>1, BlobFacts DEF RowsGrow, backed
<1>2. ASSUME NEW wallet, has_row(rows, wallet) PROVE has_row(rows', wallet)
  BY <1>2 DEF RowsGrow, has_row
<1>3. ASSUME NEW call, handlerOK(rows, call) PROVE handlerOK(rows', call)
  BY <1>1, <1>3 DEF handlerOK
<1> QED BY <1>1, <1>2, <1>3

(* Handlers that have not begun, or are over, hold nothing.                *)
LEMMA RestFacts ==
  /\ Unused \notin HandlerRecords
  /\ Done \notin HandlerRecords
  /\ Unused.heard = FALSE /\ Done.heard = FALSE
  /\ Unused.steps = <<>> /\ Done.steps = <<>>
<1>1. \A call \in HandlerRecords : call.steps # <<>>
  BY StepsFacts DEF HandlerRecords, StepsGo
<1> QED BY <1>1 DEF Unused, Done

(* A handler at a step is one that runs, with the blob the step needs.     *)
LEMMA AtFacts ==
  ASSUME SetupInv, NEW r \in Handlers, NEW step, At(r, step)
  PROVE  /\ handlers[r] \in HandlerRecords
         /\ handlers[r].steps \in Early \cup InHand \cup Backed
         /\ StepsGo(handlers[r].steps)
         /\ Head(handlers[r].steps) = step
         /\ step = "enroll" => handlers[r].passkey \in Credentials
         /\ step = "push" => handlers[r].blob \in Blobs
         /\ step \in {"open", "write", "tell"} => backed(rows, handlers[r].blob)
<1>1. handlers[r].steps # <<>> /\ Head(handlers[r].steps) = step
  BY DEF At
<1>2. handlers[r] \in HandlerRecords
  BY <1>1, RestFacts DEF SetupInv, SetupTypeOK
<1>3. handlers[r].steps \in Early \cup InHand \cup Backed
  BY <1>2 DEF HandlerRecords
<1>4. StepsGo(handlers[r].steps)
  BY <1>3, StepsFacts
<1>5. handlerOK(rows, handlers[r])
  BY DEF SetupInv, HandlersOK
<1> QED BY <1>1, <1>2, <1>3, <1>4, <1>5 DEF StepsGo, handlerOK, backed

(* A handler that begins knows what its first step needs.                  *)
LEMMA StartsOK ==
  ASSUME SetupInv, NEW p \in Phones, NEW op \in {"create", "unlock", "unlink"}, NEW steps,
         NEW passkey \in {None} \cup Credentials, NEW wants \in {None} \cup Seeds,
         Starts(p, op, steps, passkey, wants), UNCHANGED rows,
         \/ op = "create" /\ steps = CreateSteps /\ passkey \in Credentials
         \/ op # "create" /\ steps \in {UnlockSteps(storage[p]), SignSteps(storage[p])}
  PROVE  handlers' \in [Handlers -> {Unused, Done} \cup HandlerRecords] /\ HandlersOK'
<1> DEFINE unused == {r \in Handlers : handlers[r] = Unused}
           blob == IF op = "create" THEN NoBlob ELSE storage[p]
           call == Handler(p, op, steps, blob, passkey, wants)
<1>1. unused # {} /\ handlers' = [handlers EXCEPT ![next_of(unused)] = call]
  BY DEF Starts
<1>2. next_of(unused) \in Handlers
  BY <1>1, NextOf
<1>3. /\ steps \in Early \cup Backed
      /\ steps \notin InHand
      /\ steps \in Backed => blob = storage[p] /\ storage[p] # NoBlob
      /\ Head(steps) = "enroll" => passkey \in Credentials
  BY StartFacts
<1>4. blob \in {NoBlob} \cup Blobs
  BY DEF SetupInv, SetupTypeOK
<1>5. call \in HandlerRecords
  BY <1>3, <1>4 DEF Handler, HandlerRecords
<1>6. call.steps = steps /\ call.blob = blob /\ call.passkey = passkey
  BY DEF Handler
<1>7. handlerOK(rows, call)
  BY <1>3, <1>6 DEF handlerOK, SetupInv, StorageOK
<1>8. handlers \in [Handlers -> {Unused, Done} \cup HandlerRecords] /\ HandlersOK
  BY DEF SetupInv, SetupTypeOK
<1> HIDE DEF call, unused
<1> QED BY <1>1, <1>2, <1>5, <1>7, <1>8 DEF HandlersOK

(* A handler that goes on has the blob its next step needs.                *)
LEMMA ProceedsOK ==
  ASSUME SetupInv, RowsGrow, NEW r \in Handlers, NEW step, At(r, step), NEW blob, Proceeds(r, blob),
         \/ step = "enroll" /\ blob \in Blobs
         \/ step \in {"open", "restore", "push", "write"} /\ backed(rows', blob)
  PROVE  handlers' \in [Handlers -> {Unused, Done} \cup HandlerRecords] /\ HandlersOK'
<1>1. /\ handlers[r] \in HandlerRecords
      /\ StepsGo(handlers[r].steps)
      /\ Head(handlers[r].steps) = step
  BY AtFacts
<1> DEFINE call == [handlers[r] EXCEPT !.steps = Tail(@), !.blob = blob]
<1>2. handlers' = [handlers EXCEPT ![r] = call]
  BY DEF Proceeds, SetupInv, SetupTypeOK
<1>3. Tail(handlers[r].steps) \in InHand \cup Backed /\ blob \in Blobs
  BY <1>1 DEF StepsGo, backed
<1>4. call \in HandlerRecords /\ call.steps = Tail(handlers[r].steps) /\ call.blob = blob
  BY <1>1, <1>3 DEF HandlerRecords
<1>5. Head(call.steps) # "enroll"
  BY <1>3, <1>4, StepsFacts DEF StepsGo
<1>6. step = "enroll" => call.steps \notin Backed
  BY <1>1, <1>4 DEF StepsGo, InHand, Backed
<1>7. handlerOK(rows', call)
  BY <1>3, <1>4, <1>5, <1>6 DEF handlerOK
<1>8. \A q \in Handlers : handlerOK(rows', handlers[q])
  BY GrowKeeps DEF SetupInv, HandlersOK
<1>9. handlers \in [Handlers -> {Unused, Done} \cup HandlerRecords]
  BY DEF SetupInv, SetupTypeOK
<1> HIDE DEF call
<1> QED BY <1>2, <1>4, <1>7, <1>8, <1>9 DEF HandlersOK

(* A handler that is over knows nothing any more.                          *)
LEMMA OverOK ==
  ASSUME SetupInv, RowsGrow, NEW r \in Handlers, Over(r)
  PROVE  handlers' \in [Handlers -> {Unused, Done} \cup HandlerRecords] /\ HandlersOK'
<1>1. \A q \in Handlers : handlerOK(rows', handlers[q])
  BY GrowKeeps DEF SetupInv, HandlersOK
<1>2. handlerOK(rows', Done)
  BY RestFacts DEF handlerOK
<1> QED BY <1>1, <1>2 DEF Over, SetupInv, SetupTypeOK, HandlersOK

(* A failure leaves the handler over and the sheet in one of its phases.   *)
LEMMA FailsOK ==
  ASSUME SetupInv, RowsGrow, NEW r \in Handlers, handlers[r] \in HandlerRecords,
         NEW lost \in BOOLEAN, Fails(r, lost)
  PROVE  /\ handlers' \in [Handlers -> {Unused, Done} \cup HandlerRecords] /\ HandlersOK'
         /\ setup' \in [Phones -> [phase : {"closed", "chooser", "username", "lost"},
                                   back : {"closed", "chooser", "lost"}]]
<1>1. Over(r)
  BY DEF Fails
<1>2. setup' \in [Phones -> [phase : {"closed", "chooser", "username", "lost"},
                              back : {"closed", "chooser", "lost"}]]
  BY DEF Fails, SetupInv, SetupTypeOK, HandlerRecords, promptLostPasskey
<1> QED BY <1>1, <1>2, OverOK

-----------------------------------------------------------------------------
(* At first the rows are those of the wallets made before.                 *)
LEMMA InitOK == SetupInit => SetupInv
<1> SUFFICES ASSUME SetupInit PROVE SetupInv
  OBVIOUS
<1>1. \A c \in Earlier : /\ wrapNewSeed(c, c) \in Blobs
                         /\ wrapNewSeed(c, c).credentialId = c
                         /\ wrapNewSeed(c, c).publicKey = c
                         /\ wrapNewSeed(c, c) # NoBlob
  BY WrapFacts, BlobFacts, SetupAssumption DEF Seeds
<1>2. SetupTypeOK
  BY <1>1, SetupAssumption DEF SetupInit, SetupTypeOK, Closed
<1>3. RowsOK
  BY <1>1 DEF SetupInit, RowsOK
<1>4. StorageOK
  BY <1>1, SetupAssumption DEF SetupInit, StorageOK, backed
<1>5. NamedOK
  BY DEF SetupInit, NamedOK
<1>6. HandlersOK
  BY RestFacts DEF SetupInit, HandlersOK, handlerOK
<1> QED BY <1>2, <1>3, <1>4, <1>5, <1>6 DEF SetupInv

(* A step that leaves the rows alone lets them grow.                       *)
LEMMA SameRows == ASSUME UNCHANGED rows PROVE RowsGrow
BY DEF RowsGrow

(* The sheet of the app changes nothing that is kept, but may start a      *)
(* handler or make a passkey.                                              *)
LEMMA SheetsKeep == ASSUME SetupInv, NEW p \in Phones, Sheets(p) PROVE SetupInv'
<1>1. CASE Login(p) \/ ChooseCreate(p) \/ GoBack(p) \/ CancelSetup(p)
  <2>1. UNCHANGED <<storage, rows, cookie, made, address, claims, authority, handlers>>
    BY <1>1 DEF Login, ChooseCreate, GoBack, CancelSetup, Outside, stores, chain
  <2>2. setup' \in [Phones -> [phase : {"closed", "chooser", "username", "lost"},
                              back : {"closed", "chooser", "lost"}]]
    BY <1>1 DEF Login, ChooseCreate, GoBack, CancelSetup, To, Shows, SetupInv, SetupTypeOK
  <2> QED BY <2>1, <2>2 DEF SetupInv, SetupTypeOK, RowsOK, StorageOK, NamedOK, HandlersOK
<1>2. CASE ChooseUnlock(p)
  <2>1. /\ UNCHANGED <<storage, rows, cookie, made, address, claims, authority>>
        /\ Starts(p, "unlock", UnlockSteps(storage[p]), None, None)
    BY <1>2 DEF ChooseUnlock, Outside, stores, chain
  <2>2. setup' \in [Phones -> [phase : {"closed", "chooser", "username", "lost"},
                              back : {"closed", "chooser", "lost"}]]
    BY <1>2 DEF ChooseUnlock, To, SetupInv, SetupTypeOK
  <2>3. handlers' \in [Handlers -> {Unused, Done} \cup HandlerRecords] /\ HandlersOK'
    BY <2>1, StartsOK
  <2> QED BY <2>1, <2>2, <2>3 DEF SetupInv, SetupTypeOK, RowsOK, StorageOK, NamedOK
<1>3. CASE Register(p)
  <2>1. registerOwnerPasskey \in Credentials
    BY <1>3, NextOf DEF Register, registerOwnerPasskey
  <2>2. UNCHANGED <<storage, rows, cookie, address, claims, authority>> /\ made' \subseteq Credentials
    BY <1>3, <2>1 DEF Register, stores, chain, SetupInv, SetupTypeOK
  <2>3. setup' \in [Phones -> [phase : {"closed", "chooser", "username", "lost"},
                              back : {"closed", "chooser", "lost"}]]
    BY <1>3 DEF Register, To, SetupInv, SetupTypeOK
  <2>4. handlers' \in [Handlers -> {Unused, Done} \cup HandlerRecords] /\ HandlersOK'
    <3>1. CASE Starts(p, "create", CreateSteps, registerOwnerPasskey, None)
      BY <2>1, <2>2, <3>1, StartsOK
    <3>2. CASE UNCHANGED handlers
      BY <2>2, <3>2 DEF SetupInv, SetupTypeOK, HandlersOK
    <3> QED BY <1>3, <3>1, <3>2 DEF Register
  <2> QED BY <2>2, <2>3, <2>4 DEF SetupInv, SetupTypeOK, RowsOK, StorageOK, NamedOK
<1> QED BY <1>1, <1>2, <1>3 DEF Sheets

(* The steps of a handler, one by one.                                     *)
LEMMA HandlerKeeps == ASSUME SetupInv, NEW r \in Handlers, HandlerStep(r) PROVE SetupInv'
<1> DEFINE call == handlers[r]
<1>1. CASE Enroll(r)
  <2>1. /\ At(r, "enroll")
        /\ Proceeds(r, wrapNewSeed(r, call.passkey))
        /\ UNCHANGED <<storage, rows, cookie, made, address, claims, authority, setup>>
    BY <1>1 DEF Enroll, Outside, stores, chain
  <2>2. wrapNewSeed(r, call.passkey) \in Blobs
    BY <2>1, AtFacts, WrapFacts DEF Seeds
  <2>3. handlers' \in [Handlers -> {Unused, Done} \cup HandlerRecords] /\ HandlersOK'
    BY <2>1, <2>2, ProceedsOK, SameRows
  <2> QED BY <2>1, <2>3 DEF SetupInv, SetupTypeOK, RowsOK, StorageOK, NamedOK
<1>2. CASE OpenLocal(r)
  <2>1. /\ At(r, "open")
        /\ Proceeds(r, call.blob)
        /\ UNCHANGED <<storage, rows, cookie, made, address, claims, authority, setup>>
    BY <1>2 DEF OpenLocal, Outside, stores, chain
  <2>2. backed(rows, call.blob)
    BY <2>1, AtFacts
  <2>3. handlers' \in [Handlers -> {Unused, Done} \cup HandlerRecords] /\ HandlersOK'
    BY <2>1, <2>2, ProceedsOK, SameRows
  <2> QED BY <2>1, <2>3 DEF SetupInv, SetupTypeOK, RowsOK, StorageOK, NamedOK
<1>3. ASSUME NEW c \in Credentials, FetchBack(r, c) PROVE SetupInv'
  <2>1. /\ At(r, "restore")
        /\ Proceeds(r, rows[c])
        /\ rows[c] # NoBlob /\ rows[c].credentialId = c
        /\ UNCHANGED <<storage, rows, cookie, made, address, claims, authority, setup>>
    BY <1>3 DEF FetchBack, Outside, stores, chain
  <2>2. backed(rows, rows[c])
    BY <2>1 DEF backed, SetupInv, SetupTypeOK
  <2>3. handlers' \in [Handlers -> {Unused, Done} \cup HandlerRecords] /\ HandlersOK'
    BY <2>1, <2>2, ProceedsOK, SameRows
  <2> QED BY <2>1, <2>3 DEF SetupInv, SetupTypeOK, RowsOK, StorageOK, NamedOK
<1>4. CASE BackUp(r)
  <2> DEFINE blob == call.blob
  <2>1. /\ At(r, "push")
        /\ takes(blob, call.op = "create")
        /\ rows' = [rows EXCEPT ![blob.credentialId] = blob]
        /\ UNCHANGED <<storage, made, address, claims, authority>>
    BY <1>4 DEF BackUp, chain
  <2>2. /\ call \in HandlerRecords /\ call.on \in Phones
        /\ blob \in Blobs /\ blob.credentialId \in Credentials /\ blob.publicKey \in Seeds
        /\ blob # NoBlob
    BY <2>1, AtFacts, BlobFacts DEF HandlerRecords
  <2>3. rows' \in [Credentials -> {NoBlob} \cup Blobs] /\ RowsOK'
    BY <2>1, <2>2 DEF SetupInv, SetupTypeOK, RowsOK
  <2>4. RowsGrow
    BY <2>1, <2>2 DEF takes, RowsGrow, SetupInv, SetupTypeOK
  <2>5. backed(rows', blob) /\ has_row(rows', blob.publicKey)
    BY <2>1, <2>2 DEF backed, has_row, SetupInv, SetupTypeOK
  <2>6. /\ cookie' \in [Phones -> {None} \cup Seeds]
        /\ \A p \in Phones : cookie'[p] # None => has_row(rows', cookie'[p])
    <3>1. \/ cookie' = [cookie EXCEPT ![call.on] = blob.publicKey]
          \/ UNCHANGED cookie
      BY <1>4 DEF BackUp
    <3>2. \A p \in Phones : cookie[p] # None => has_row(rows', cookie[p])
      BY <2>4, GrowKeeps DEF SetupInv, NamedOK
    <3> QED BY <2>2, <2>5, <3>1, <3>2 DEF SetupInv, SetupTypeOK
  <2>7. /\ handlers' \in [Handlers -> {Unused, Done} \cup HandlerRecords] /\ HandlersOK'
        /\ setup' \in [Phones -> [phase : {"closed", "chooser", "username", "lost"},
                                  back : {"closed", "chooser", "lost"}]]
    <3>1. CASE Proceeds(r, blob) /\ UNCHANGED setup
      BY <2>1, <2>4, <2>5, <3>1, ProceedsOK DEF SetupInv, SetupTypeOK
    <3>2. CASE Fails(r, FALSE)
      BY <2>2, <2>4, <3>2, FailsOK
    <3> QED BY <1>4, <3>1, <3>2 DEF BackUp
  <2>8. StorageOK'
    BY <2>1, <2>4, GrowKeeps DEF SetupInv, StorageOK
  <2>9. NamedOK'
    BY <2>1, <2>4, <2>6, GrowKeeps DEF SetupInv, NamedOK
  <2> QED BY <2>1, <2>3, <2>6, <2>7, <2>8, <2>9 DEF SetupInv, SetupTypeOK
<1>5. CASE Keep(r)
  <2>1. /\ At(r, "write")
        /\ storage' = [storage EXCEPT ![call.on] = call.blob]
        /\ Proceeds(r, call.blob)
        /\ UNCHANGED <<rows, cookie, made, address, claims, authority, setup>>
    BY <1>5 DEF Keep, chain
  <2>2. call.on \in Phones /\ backed(rows, call.blob) /\ call.blob \in Blobs
    BY <2>1, AtFacts DEF HandlerRecords, backed
  <2>3. handlers' \in [Handlers -> {Unused, Done} \cup HandlerRecords] /\ HandlersOK'
    BY <2>1, <2>2, ProceedsOK, SameRows
  <2>4. storage' \in [Phones -> {NoBlob} \cup Blobs] /\ StorageOK'
    BY <2>1, <2>2 DEF SetupInv, SetupTypeOK, StorageOK
  <2> QED BY <2>1, <2>3, <2>4 DEF SetupInv, SetupTypeOK, RowsOK, NamedOK
<1>6. CASE NotKept(r)
  <2>1. /\ At(r, "write")
        /\ \E left \in {storage[call.on], NoBlob} : storage' = [storage EXCEPT ![call.on] = left]
        /\ Fails(r, FALSE)
        /\ UNCHANGED <<rows, cookie, made, address, claims, authority>>
    BY <1>6 DEF NotKept, chain
  <2>2. call \in HandlerRecords /\ call.on \in Phones
    BY <2>1, AtFacts DEF HandlerRecords
  <2>3. /\ handlers' \in [Handlers -> {Unused, Done} \cup HandlerRecords] /\ HandlersOK'
        /\ setup' \in [Phones -> [phase : {"closed", "chooser", "username", "lost"},
                                  back : {"closed", "chooser", "lost"}]]
    BY <2>1, <2>2, FailsOK, SameRows
  <2>4. storage' \in [Phones -> {NoBlob} \cup Blobs] /\ StorageOK'
    BY <2>1, <2>2 DEF SetupInv, SetupTypeOK, StorageOK
  <2> QED BY <2>1, <2>3, <2>4 DEF SetupInv, SetupTypeOK, RowsOK, NamedOK
<1>7. CASE Tell(r)
  <2>1. /\ At(r, "tell")
        /\ Over(r)
        /\ UNCHANGED <<storage, rows, cookie, made, setup, claims>>
    BY <1>7 DEF Tell, stores
  <2>2. call.on \in Phones /\ backed(rows, call.blob)
    BY <2>1, AtFacts DEF HandlerRecords
  <2>3. call.blob.publicKey \in Seeds /\ has_row(rows, call.blob.publicKey)
    BY <2>2, BlobFacts DEF backed, has_row
  <2>4. handlers' \in [Handlers -> {Unused, Done} \cup HandlerRecords] /\ HandlersOK'
    BY <2>1, OverOK, SameRows
  <2>5. /\ address' \in [Phones -> {None} \cup Seeds]
        /\ \A p \in Phones : address'[p] # None => has_row(rows, address'[p])
    BY <1>7, <2>2, <2>3 DEF Tell, SetupInv, SetupTypeOK, NamedOK
  <2>6. /\ authority' \in [Items -> {None} \cup Seeds]
        /\ \A i \in Items : authority'[i] \in {None, authority[i]}
    BY <1>7 DEF Tell, SetupInv, SetupTypeOK
  <2>7. NamedOK'
    BY <2>1, <2>5, <2>6 DEF SetupInv, NamedOK
  <2> QED BY <2>1, <2>4, <2>5, <2>6, <2>7 DEF SetupInv, SetupTypeOK, RowsOK, StorageOK
<1>8. CASE ApiFails(r) \/ CeremonyFails(r)
  <2>1. UNCHANGED <<storage, rows, cookie, made, address, claims, authority>>
    BY <1>8 DEF ApiFails, CeremonyFails, Outside, stores, chain
  <2>2. PICK step : At(r, step)
    BY <1>8 DEF ApiFails, CeremonyFails
  <2>3. PICK lost \in BOOLEAN : Fails(r, lost)
    BY <1>8 DEF ApiFails, CeremonyFails, At
  <2>4. /\ handlers' \in [Handlers -> {Unused, Done} \cup HandlerRecords] /\ HandlersOK'
        /\ setup' \in [Phones -> [phase : {"closed", "chooser", "username", "lost"},
                                  back : {"closed", "chooser", "lost"}]]
    BY <2>1, <2>2, <2>3, AtFacts, FailsOK, SameRows
  <2> QED BY <2>1, <2>4 DEF SetupInv, SetupTypeOK, RowsOK, StorageOK, NamedOK
<1>9. CASE Abandon(r)
  <2>1. UNCHANGED <<storage, rows, cookie, made, address, claims, authority, setup>>
    BY <1>9 DEF Abandon, Outside, stores, chain
  <2>2. handlers' \in [Handlers -> {Unused, Done} \cup HandlerRecords] /\ HandlersOK'
    <3>1. CASE Over(r)
      BY <2>1, <3>1, OverOK, SameRows
    <3>2. CASE handlers' = [handlers EXCEPT ![r].heard = FALSE]
      <4>1. call \in HandlerRecords
        BY <1>9, RestFacts DEF Abandon, SetupInv, SetupTypeOK
      <4> DEFINE unheard == [call EXCEPT !.heard = FALSE]
      <4>2. /\ unheard \in HandlerRecords
            /\ unheard.steps = call.steps /\ unheard.blob = call.blob
            /\ unheard.passkey = call.passkey
        BY <4>1 DEF HandlerRecords
      <4>3. handlerOK(rows, unheard)
        BY <4>1, <4>2 DEF handlerOK, SetupInv, HandlersOK
      <4>4. handlers' = [handlers EXCEPT ![r] = unheard]
        BY <3>2 DEF SetupInv, SetupTypeOK
      <4> HIDE DEF unheard
      <4> QED BY <2>1, <4>2, <4>3, <4>4 DEF SetupInv, SetupTypeOK, HandlersOK
    <3> QED BY <1>9, <3>1, <3>2 DEF Abandon
  <2> QED BY <2>1, <2>2 DEF SetupInv, SetupTypeOK, RowsOK, StorageOK, NamedOK
<1> QED BY <1>1, <1>2, <1>3, <1>4, <1>5, <1>6, <1>7, <1>8, <1>9 DEF HandlerStep

(* Sessions end, are fetched, and storages are cleared.                    *)
LEMMA PhoneKeeps == ASSUME SetupInv, NEW p \in Phones, PhoneChanges(p) PROVE SetupInv'
<1>1. UNCHANGED <<rows, made, setup, handlers, claims, authority>>
  BY DEF PhoneChanges, Logout, FetchSession, LoseStorage, stores, chain
<1>2. /\ storage' \in [Phones -> {NoBlob} \cup Blobs]
      /\ \A q \in Phones : storage'[q] \in {NoBlob, storage[q]}
  BY DEF PhoneChanges, Logout, FetchSession, LoseStorage, stores, SetupInv, SetupTypeOK
<1>3. /\ cookie' \in [Phones -> {None} \cup Seeds]
      /\ \A q \in Phones : cookie'[q] \in {None, cookie[q]}
  BY DEF PhoneChanges, Logout, FetchSession, LoseStorage, stores, SetupInv, SetupTypeOK
<1>4. /\ address' \in [Phones -> {None} \cup Seeds]
      /\ \A q \in Phones : address'[q] \in {None, cookie[q], address[q]}
  BY DEF PhoneChanges, Logout, FetchSession, LoseStorage, stores, SetupInv, SetupTypeOK
<1> QED BY <1>1, <1>2, <1>3, <1>4 DEF SetupInv, SetupTypeOK, RowsOK, StorageOK, NamedOK, HandlersOK

(* Claims carry a wallet that was shown, and the chain takes it.           *)
LEMMA ClaimsKeep ==
  ASSUME SetupInv,
         \/ \E p \in Phones, i \in Items : Claim(p, i) \/ Unlink(p, i)
         \/ \E claim \in claims : ClaimEnds(claim)
  PROVE  SetupInv'
<1>1. ASSUME NEW p \in Phones, NEW i \in Items, Claim(p, i) PROVE SetupInv'
  <2>1. /\ UNCHANGED <<storage, rows, cookie, made, address, setup, handlers, authority>>
        /\ claims' = claims \cup {<<i, address[p]>>}
        /\ address[p] # None
    BY <1>1 DEF Claim, may_claim, stores
  <2>2. address[p] \in Seeds /\ has_row(rows, address[p])
    BY <2>1 DEF SetupInv, SetupTypeOK, NamedOK
  <2> QED BY <2>1, <2>2 DEF SetupInv, SetupTypeOK, RowsOK, StorageOK, NamedOK, HandlersOK
<1>2. ASSUME NEW p \in Phones, NEW i \in Items, Unlink(p, i) PROVE SetupInv'
  <2>1. /\ UNCHANGED <<storage, rows, cookie, made, address, claims, authority, setup>>
        /\ Starts(p, "unlink", SignSteps(storage[p]), None, address[p])
    BY <1>2 DEF Unlink, Outside, stores, chain
  <2>2. handlers' \in [Handlers -> {Unused, Done} \cup HandlerRecords] /\ HandlersOK'
    BY <2>1, StartsOK DEF SetupInv, SetupTypeOK
  <2> QED BY <2>1, <2>2 DEF SetupInv, SetupTypeOK, RowsOK, StorageOK, NamedOK
<1>3. ASSUME NEW claim \in claims, ClaimEnds(claim) PROVE SetupInv'
  <2>1. /\ UNCHANGED <<storage, rows, cookie, made, address, setup, handlers>>
        /\ claims' = claims \ {claim}
        /\ authority' = [authority EXCEPT ![claim[1]] = claim[2]] \/ UNCHANGED authority
    BY <1>3 DEF ClaimEnds, stores
  <2>2. claim[1] \in Items /\ claim[2] \in Seeds /\ has_row(rows, claim[2])
    BY DEF SetupInv, SetupTypeOK, NamedOK
  <2>3. /\ authority' \in [Items -> {None} \cup Seeds]
        /\ \A i \in Items : authority'[i] # None => has_row(rows, authority'[i])
    BY <2>1, <2>2 DEF SetupInv, SetupTypeOK, NamedOK
  <2> QED BY <2>1, <2>3 DEF SetupInv, SetupTypeOK, RowsOK, StorageOK, NamedOK, HandlersOK
<1> QED BY <1>1, <1>2, <1>3

(* Every step keeps the invariant.                                         *)
LEMMA NextKeeps == SetupInv /\ [SetupNext]_owning => SetupInv'
<1> SUFFICES ASSUME SetupInv, [SetupNext]_owning PROVE SetupInv'
  OBVIOUS
<1>1. CASE SetupNext
  BY <1>1, SheetsKeep, PhoneKeeps, HandlerKeeps, ClaimsKeep DEF SetupNext
<1>2. CASE UNCHANGED owning
  BY <1>2 DEF owning, SetupInv, SetupTypeOK, RowsOK, StorageOK, NamedOK, HandlersOK
<1> QED BY <1>1, <1>2

(* A row restores its wallet; what is backed up opens and is taken.        *)
LEMMA InvSurvives == SetupInv => WalletsSurvive
<1> SUFFICES ASSUME SetupInv PROVE WalletsSurvive
  OBVIOUS
<1>1. ASSUME NEW wallet, has_row(rows, wallet) PROVE restorable(wallet)
  <2>1. PICK c \in Credentials : rows[c] # NoBlob /\ rows[c].publicKey = wallet
    BY <1>1 DEF has_row
  <2>2. rows[c] \in Blobs /\ rows[c].credentialId = c
    BY <2>1 DEF SetupInv, SetupTypeOK, RowsOK
  <2>3. unwraps(prf(c), rows[c])
    BY <2>2, BlobFacts
  <2> QED BY <2>1, <2>2, <2>3 DEF restorable
<1>2. OwnersRestorable
  BY <1>1 DEF OwnersRestorable, SetupInv, NamedOK
<1>3. KeptIsBackedUp
  BY BlobFacts DEF KeptIsBackedUp, SetupInv, StorageOK, backed, takes
<1> QED BY <1>2, <1>3 DEF WalletsSurvive

(* No wallet that anybody knows of is lost, whatever fails, is dismissed   *)
(* or cleared, in whichever order its blob is made, pushed, stored and     *)
(* told: it can be had back from the backup with its passkey, and what a   *)
(* phone keeps still opens and is still taken (WalletsSurvive).            *)
THEOREM WalletsAlwaysSurvive == SetupSpec => []WalletsSurvive
<1>1. SetupInv /\ [SetupNext]_owning => SetupInv'
  BY NextKeeps
<1> QED BY <1>1, InitOK, InvSurvives, PTL DEF SetupSpec


-----------------------------------------------------------------------------
(* The review of a transaction. *)

\* What is picked is what is at the places.
LEMMA Picked ==
    ASSUME NEW s, IsSeq(s), NEW places
    PROVE  /\ IsSeq(picked(s, places))
           /\ ToSet(picked(s, places)) = {s[n] : n \in DOMAIN s \cap places}
<1> DEFINE ss == [n \in DOMAIN s |-> IF n \in places THEN <<s[n]>> ELSE << >>]
<1>1. Len(s) \in Nat /\ DOMAIN s = 1..Len(s)
  BY SeqPlaces
<1>2. ss = [n \in 1..Len(s) |-> ss[n]]
  BY <1>1
<1>3. \A n \in DOMAIN s : ss[n] = IF n \in places THEN <<s[n]>> ELSE << >>
  OBVIOUS
<1>4. picked(s, places) = FlattenSeq(ss)
  BY DEF picked
<1> HIDE DEF ss
<1>5. IsSeq(ss) /\ DOMAIN ss = 1..Len(s)
  BY <1>1, <1>2, NumberedSeq
<1>6. ASSUME NEW n \in DOMAIN s
      PROVE  IsSeq(ss[n]) /\ ToSet(ss[n]) = IF n \in places THEN {s[n]} ELSE {}
  BY <1>3, TupleSeqs
<1>7. IsSeq(FlattenSeq(ss)) /\ ToSet(FlattenSeq(ss)) = UNION {ToSet(ss[i]) : i \in DOMAIN ss}
  BY <1>1, <1>5, <1>6, FlattenedSeqs
<1>8. UNION {ToSet(ss[i]) : i \in DOMAIN ss} = {s[n] : n \in DOMAIN s \cap places}
  BY <1>1, <1>5, <1>6
<1> QED  BY <1>4, <1>7, <1>8

\* The lines with a label, and nothing else.
LEMMA Labelled ==
    ASSUME NEW lines, IsSeq(lines), NEW labels
    PROVE  /\ IsSeq(labelled(lines, labels))
           /\ ToSet(labelled(lines, labels)) = {r \in ToSet(lines) : r.label \in labels}
<1> DEFINE P == {n \in DOMAIN lines : lines[n].label \in labels}
<1>1. labelled(lines, labels) = picked(lines, P)
  BY DEF labelled
<1>2. IsSeq(picked(lines, P)) /\ ToSet(picked(lines, P)) = {lines[n] : n \in DOMAIN lines \cap P}
  BY Picked
<1>3. ToSet(lines) = {lines[n] : n \in DOMAIN lines}
  BY SeqPlaces
<1>4. {lines[n] : n \in DOMAIN lines \cap P} = {r \in ToSet(lines) : r.label \in labels}
  BY <1>3
<1> QED  BY <1>1, <1>2, <1>4

\* The first row that says where to.
LEMMA FirstTo ==
    ASSUME NEW lines, IsSeq(lines)
    PROVE  first_of(lines, LAMBDA r : r.label = "To")
           = FirstAt(lines, {i \in DOMAIN lines : lines[i].label = "To"})
<1> DEFINE S == {i \in DOMAIN lines : lines[i].label = "To"}
<1>1. DOMAIN lines = 1..Len(lines) /\ DOMAIN lines \subseteq Nat
  BY SeqPlaces
<1>2. S # {} => Min(S) \in S /\ Min(S) # 0
  <2>1. S # {} => Min(S) \in S
    BY <1>1, MinOfSome
  <2> QED  BY <1>1, <2>1
<1>3. SelectInSeq(lines, LAMBDA r : r.label = "To") = IF S # {} THEN Min(S) ELSE 0
  BY <1>1 DEF SelectInSeq
<1> QED  BY <1>2, <1>3 DEF first_of, FirstAt

\* The first call that sends.
LEMMA FirstSend ==
    ASSUME NEW all, IsSeq(all)
    PROVE  first_of(all, LAMBDA c : c.title[1] = "Send")
           = FirstAt(all, {i \in DOMAIN all : all[i].title[1] = "Send"})
<1> DEFINE S == {i \in DOMAIN all : all[i].title[1] = "Send"}
<1>1. DOMAIN all = 1..Len(all) /\ DOMAIN all \subseteq Nat
  BY SeqPlaces
<1>2. S # {} => Min(S) \in S /\ Min(S) # 0
  <2>1. S # {} => Min(S) \in S
    BY <1>1, MinOfSome
  <2> QED  BY <1>1, <2>1
<1>3. SelectInSeq(all, LAMBDA c : c.title[1] = "Send") = IF S # {} THEN Min(S) ELSE 0
  BY <1>1 DEF SelectInSeq
<1> QED  BY <1>2, <1>3 DEF first_of, FirstAt

\* The first instruction that names an authority.
LEMMA FirstNamed ==
    ASSUME NEW s, IsSeq(s)
    PROVE  first_of(s, LAMBDA ix : ix.authority # "none")
           = FirstAt(s, {i \in DOMAIN s : s[i].authority # "none"})
<1> DEFINE S == {i \in DOMAIN s : s[i].authority # "none"}
<1>1. DOMAIN s = 1..Len(s) /\ DOMAIN s \subseteq Nat
  BY SeqPlaces
<1>2. S # {} => Min(S) \in S /\ Min(S) # 0
  <2>1. S # {} => Min(S) \in S
    BY <1>1, MinOfSome
  <2> QED  BY <1>1, <2>1
<1>3. SelectInSeq(s, LAMBDA ix : ix.authority # "none") = IF S # {} THEN Min(S) ELSE 0
  BY <1>1 DEF SelectInSeq
<1> QED  BY <1>2, <1>3 DEF first_of, FirstAt

\* The gravest kind of instruction there is.
LEMMA FirstGrave ==
    ASSUME NEW s
    PROVE  riskCallout(s) = FirstAt(Gravest, {i \in 1..5 : Gravest[i] \in kinds(s)})
<1> DEFINE S == {i \in 1..5 : Gravest[i] \in kinds(s)}
<1>1. Len(Gravest) = 5
  BY DEF Gravest
<1>2. S # {} => Min(S) \in S /\ Min(S) # 0
  <2>1. S \subseteq Nat /\ 0 \notin S
    OBVIOUS
  <2>2. S # {} => Min(S) \in S
    BY <2>1, MinOfSome
  <2> QED  BY <2>1, <2>2
<1>3. SelectInSeq(Gravest, LAMBDA k : k \in kinds(s)) = IF S # {} THEN Min(S) ELSE 0
  BY <1>1 DEF SelectInSeq
<1>4. riskCallout(s) = first_of(Gravest, LAMBDA k : k \in kinds(s))
  BY DEF riskCallout
<1> HIDE DEF S
<1> QED  BY <1>2, <1>3, <1>4 DEF first_of, FirstAt, S

-----------------------------------------------------------------------------
(* Amounts: what is printed is read back. *)

\* One more digit of a scaled number.
LEMMA Regroup ==
    ASSUME NEW a \in Nat, NEW r \in Nat, NEW p \in Nat
    PROVE  (10 * a + r) * p = a * (10 * p) + r * p
BY SMT

\* Products are natural numbers.
LEMMA TimesTyped ==
    ASSUME NEW a \in Nat, NEW b \in Nat
    PROVE  a * b \in Nat
BY SMT

(* What the digits up to the n-th say. *)
upto(raw, d, n) == (raw \div pow10[d - n]) * pow10[d - n]

\* The powers of ten.
LEMMA TenPowers ==
    /\ pow10[0] = 1
    /\ \A n \in Nat : /\ pow10[n] \in Nat /\ pow10[n] > 0
                      /\ pow10[n + 1] = 10 * pow10[n]
<1>1. 10 \in Nat /\ 10 > 0
  OBVIOUS
<1> QED  BY <1>1, PowersPositive DEF pow10

\* One more digit adds what it stands for.
LEMMA DigitAdds ==
    ASSUME NEW raw \in Nat, NEW d \in Nat, NEW n \in 1..d
    PROVE  /\ digit(raw, d, n) \in 0..9
           /\ upto(raw, d, n - 1) \in Nat
           /\ digit(raw, d, n) * pow10[d - n] \in Nat
           /\ upto(raw, d, n) = upto(raw, d, n - 1) + digit(raw, d, n) * pow10[d - n]
<1> DEFINE e == d - n
           p == pow10[e]
           x == raw \div p
<1>1. e \in Nat /\ d - (n - 1) = e + 1
  OBVIOUS
<1>2. p \in Nat /\ p > 0 /\ pow10[e + 1] = 10 * p
  BY <1>1, TenPowers
<1>3. digit(raw, d, n) = x % 10 /\ upto(raw, d, n) = x * p
      /\ upto(raw, d, n - 1) = (raw \div (10 * p)) * (10 * p)
  BY <1>1, <1>2 DEF digit, upto
<1> HIDE DEF p, e
<1>4. x \in Nat /\ (x \div 10) = raw \div (10 * p)
  <2>1. x \in Nat
    BY <1>2, QuotientOf
  <2>2. (raw \div p) \div 10 = raw \div (10 * p)
    BY <1>2, QuotientTwice
  <2> QED  BY <2>1, <2>2
<1> HIDE DEF x
<1> DEFINE a == x \div 10
           r == x % 10
<1>5. a \in Nat /\ r \in Nat /\ r < 10 /\ x = 10 * a + r
  BY <1>4
<1> HIDE DEF a, r
<1>6. x * p = a * (10 * p) + r * p
  BY <1>2, <1>5, Regroup
<1>7. a * (10 * p) \in Nat /\ r * p \in Nat
  <2>1. 10 * p \in Nat
    BY <1>2
  <2> QED  BY <1>2, <1>5, <2>1, TimesTyped
<1>8. digit(raw, d, n) = r /\ upto(raw, d, n - 1) = a * (10 * p) /\ upto(raw, d, n) = x * p
  BY <1>3, <1>4 DEF a, r
<1>9. r \in 0..9
  BY <1>5
<1>10. digit(raw, d, n) * pow10[d - n] = r * p
  BY <1>8 DEF p, e
<1> QED  BY <1>6, <1>7, <1>8, <1>9, <1>10

\* No digit says the whole units, all of them the amount.
LEMMA UptoEnds ==
    ASSUME NEW raw \in Nat, NEW d \in Nat
    PROVE  /\ upto(raw, d, 0) = (raw \div pow10[d]) * pow10[d]
           /\ upto(raw, d, d) = raw
           /\ upto(raw, d, 0) \in Nat
<1>1. d - 0 = d /\ d - d = 0
  OBVIOUS
<1>2. upto(raw, d, 0) = (raw \div pow10[d]) * pow10[d]
  BY <1>1 DEF upto
<1>3. upto(raw, d, d) = (raw \div 1) * 1
  BY <1>1, TenPowers DEF upto
<1>4. raw \div 1 = raw
  OBVIOUS
<1>5. pow10[d] \in Nat /\ pow10[d] > 0
  BY TenPowers
<1>6. raw \div pow10[d] \in Nat
  BY <1>5, QuotientOf
<1>7. (raw \div pow10[d]) * pow10[d] \in Nat
  BY <1>5, <1>6, TimesTyped
<1> QED  BY <1>2, <1>3, <1>4, <1>7

\* Zeros at the end say nothing.
LEMMA ZerosSayNothing ==
    ASSUME NEW raw \in Nat, NEW d \in Nat, NEW m \in 0..d,
           \A n \in m + 1..d : digit(raw, d, n) = 0
    PROVE  upto(raw, d, m) = raw
<1> DEFINE Good == {k \in Nat : m + k <= d => upto(raw, d, m + k) = upto(raw, d, m)}
<1>1. 0 \in Good
  <2>1. m + 0 = m
    OBVIOUS
  <2> QED  BY <2>1
<1>2. ASSUME NEW k \in Good PROVE k + 1 \in Good
  <2>1. k \in Nat /\ m \in Nat /\ k + 1 \in Nat
    BY <1>2
  <2>2. SUFFICES ASSUME m + (k + 1) <= d PROVE upto(raw, d, m + (k + 1)) = upto(raw, d, m)
    BY <2>1
  <2> DEFINE n == m + (k + 1)
  <2>3. n \in 1..d /\ n \in m + 1..d /\ n - 1 = m + k /\ m + k <= d
    BY <2>1, <2>2
  <2>4. upto(raw, d, m + k) = upto(raw, d, m)
    BY <1>2, <2>3
  <2> HIDE DEF n, Good
  <2>5. digit(raw, d, n) = 0
    BY <2>3
  <2>6. upto(raw, d, n - 1) \in Nat /\ upto(raw, d, n) = upto(raw, d, n - 1) + digit(raw, d, n) * pow10[d - n]
    BY <2>3, DigitAdds
  <2>7. d - n \in Nat
    BY <2>3
  <2>8. pow10[d - n] \in Nat
    BY <2>7, TenPowers
  <2>9. upto(raw, d, n) = upto(raw, d, n - 1)
    BY <2>5, <2>6, <2>8
  <2> QED  BY <2>3, <2>4, <2>9 DEF n
<1>3. Good \subseteq Nat
  OBVIOUS
<1> HIDE DEF Good
<1>4. Good = Nat
  BY <1>1, <1>2, <1>3, Inductive
<1>5. d - m \in Nat /\ m + (d - m) = d
  OBVIOUS
<1>6. upto(raw, d, d) = upto(raw, d, m)
  BY <1>4, <1>5 DEF Good
<1> QED  BY <1>6, UptoEnds

\* The digits that are kept are the first ones.
LEMMA TrimmedIs ==
    ASSUME NEW d \in Nat, NEW g, g = [n \in 1..d |-> g[n]], \A n \in 1..d : g[n] \in 0..9
    PROVE  \E m \in 0..d : /\ trimmed(g) = [n \in 1..m |-> g[n]]
                           /\ \A n \in m + 1..d : g[n] = 0
<1> DEFINE kept == {n \in DOMAIN g : \E k \in n..Len(g) : g[k] # 0}
           T == {n \in 1..d : g[n] # 0}
<1>1. DOMAIN g = 1..d /\ Len(g) = d
  BY NumberedSeq
<1>2. trimmed(g) = [n \in kept |-> g[n]]
  BY DEF trimmed
<1>3. CASE T = {}
  <2>1. \A n \in 1..d : g[n] = 0
    BY <1>3
  <2>2. kept = 1..0
    BY <1>1, <2>1
  <2>3. 0 \in 0..d /\ \A n \in 0 + 1..d : g[n] = 0
    BY <2>1
  <2> QED  BY <1>2, <2>2, <2>3
<1>4. CASE T # {}
  <2>1. T \in SUBSET (1..d)
    OBVIOUS
  <2>2. Max(T) \in T /\ \A i \in T : i <= Max(T)
    BY <1>4, <2>1, MaxOfFinite
  <2> DEFINE m == Max(T)
  <2>3. m \in 1..d /\ g[m] # 0 /\ \A i \in 1..d : g[i] # 0 => i <= m
    BY <2>2
  <2> HIDE DEF m, T
  <2>4. \A n \in m + 1..d : g[n] = 0
    BY <2>3
  <2>5. kept = 1..m
    <3>1. ASSUME NEW n \in 1..m PROVE n \in kept
      <4>1. n \in 1..d /\ m \in n..d
        BY <2>3, <3>1
      <4> QED  BY <1>1, <2>3, <4>1
    <3>2. ASSUME NEW n \in kept PROVE n \in 1..m
      <4>1. PICK k \in n..d : g[k] # 0
        BY <1>1, <3>2
      <4>2. n \in 1..d /\ k \in 1..d /\ n <= k
        BY <1>1, <3>2, <4>1
      <4>3. k <= m
        BY <2>3, <4>1, <4>2
      <4> QED  BY <2>3, <4>2, <4>3
    <3> HIDE DEF kept
    <3> QED  BY <3>1, <3>2
  <2>6. m \in 0..d
    BY <2>3
  <2> QED  BY <1>2, <2>4, <2>5, <2>6
<1> QED  BY <1>3, <1>4

(* What a reader adds up, and the sums so far. *)
addends(w, m) == w = [n \in 1..m |-> w[n]] /\ \A n \in 1..m : w[n] \in Nat

adds_up(p, w, m) == p = [n \in 0..m |-> IF n = 0 THEN 0 ELSE p[n - 1] + w[n]]

\* There are such sums.
LEMMA ReaderSums ==
    ASSUME NEW m \in Nat, NEW w, addends(w, m)
    PROVE  \E p : adds_up(p, w, m)
<1>1. w \in Seq(Nat) /\ Len(w) = m
  BY DEF addends
<1>2. PICK p : sums_up(p, w)
  BY <1>1, SumsExist
<1>3. p \in [0..m -> Nat] /\ p[0] = 0 /\ \A i \in 1..m : p[i] = p[i - 1] + w[i]
  BY <1>1, <1>2 DEF sums_up
<1>4. p = [n \in 0..m |-> p[n]] /\ \A n \in 0..m : p[n] \in Nat
  BY <1>3
<1>5. ASSUME NEW n \in 0..m PROVE p[n] = IF n = 0 THEN 0 ELSE p[n - 1] + w[n]
  BY <1>3
<1> QED  BY <1>4, <1>5 DEF adds_up

\* A function that sums up the first digits says what they say.
LEMMA SumOfDigits ==
    ASSUME NEW raw \in Nat, NEW d \in Nat, NEW m \in 0..d, NEW w,
           \A n \in 1..m : w[n] = digit(raw, d, n) * pow10[d - n],
           NEW p, adds_up(p, w, m)
    PROVE  upto(raw, d, 0) + p[m] = upto(raw, d, m)
<1>0. p[0] = 0 /\ \A n \in 1..m : p[n] = p[n - 1] + w[n]
  <2>1. \A n \in 0..m : p[n] = IF n = 0 THEN 0 ELSE p[n - 1] + w[n]
    BY DEF adds_up
  <2> QED  BY <2>1
<1> DEFINE Good == {k \in Nat : k <= m => p[k] \in Nat /\ upto(raw, d, 0) + p[k] = upto(raw, d, k)}
<1>1. 0 \in Good
  <2>1. upto(raw, d, 0) \in Nat
    BY UptoEnds
  <2> QED  BY <1>0, <2>1
<1>2. ASSUME NEW k \in Good PROVE k + 1 \in Good
  <2>1. k \in Nat /\ k + 1 \in Nat
    BY <1>2
  <2>2. SUFFICES ASSUME k + 1 <= m PROVE p[k + 1] \in Nat /\ upto(raw, d, 0) + p[k + 1] = upto(raw, d, k + 1)
    BY <2>1
  <2> DEFINE n == k + 1
  <2>3. n \in 1..m /\ n \in 1..d /\ n - 1 = k /\ k \in 0..m
    BY <2>1, <2>2
  <2>4. p[k] \in Nat /\ upto(raw, d, 0) + p[k] = upto(raw, d, k)
    BY <1>2, <2>3
  <2> HIDE DEF n, Good
  <2>5. p[n] = p[k] + w[n] /\ w[n] = digit(raw, d, n) * pow10[d - n]
    BY <1>0, <2>3
  <2>6. /\ digit(raw, d, n) * pow10[d - n] \in Nat
        /\ upto(raw, d, n) = upto(raw, d, k) + digit(raw, d, n) * pow10[d - n]
    BY <2>3, DigitAdds
  <2>7. upto(raw, d, 0) \in Nat
    BY UptoEnds
  <2>8. p[n] \in Nat /\ upto(raw, d, 0) + p[n] = upto(raw, d, n)
    BY <2>4, <2>5, <2>6, <2>7
  <2> QED  BY <2>8 DEF n
<1>3. Good \subseteq Nat
  OBVIOUS
<1> HIDE DEF Good
<1>4. Good = Nat
  BY <1>1, <1>2, <1>3, Inductive
<1>5. m \in Nat /\ m <= m
  OBVIOUS
<1> QED  BY <1>4, <1>5 DEF Good

\* The text of an amount is read back as the amount.
LEMMA AmountRead ==
    ASSUME NEW raw \in Nat, NEW d \in Nat, NEW text,
           text[2] = raw \div pow10[d], text[3] = fraction(raw, d)
    PROVE  reads(text, d) = raw
<1> DEFINE g == [n \in 1..d |-> digit(raw, d, n)]
<1>1. g = [n \in 1..d |-> g[n]] /\ \A n \in 1..d : g[n] = digit(raw, d, n)
  OBVIOUS
<1>2. fraction(raw, d) = trimmed(g)
  BY DEF fraction
<1> HIDE DEF g
<1>3. \A n \in 1..d : g[n] \in 0..9
  BY <1>1, DigitAdds
<1>4. PICK m \in 0..d : /\ trimmed(g) = [n \in 1..m |-> g[n]]
                        /\ \A n \in m + 1..d : g[n] = 0
  BY <1>1, <1>3, TrimmedIs
<1>5. m \in Nat /\ \A n \in 1..m : n \in 1..d
  OBVIOUS
<1>6. upto(raw, d, m) = raw
  <2>1. \A n \in m + 1..d : n \in 1..d
    BY <1>5
  <2>2. \A n \in m + 1..d : digit(raw, d, n) = 0
    BY <1>1, <1>4, <2>1
  <2> QED  BY <2>2, ZerosSayNothing
<1> DEFINE f == text[3]
           w == [n \in 1..m |-> digit(raw, d, n) * pow10[d - n]]
           part == CHOOSE h : h = [n \in 0..m |-> IF n = 0 THEN 0 ELSE h[n - 1] + w[n]]
<1>7. f = [n \in 1..m |-> digit(raw, d, n)] /\ Len(f) = m
  <2>1. f = [n \in 1..m |-> digit(raw, d, n)]
    BY <1>1, <1>2, <1>4, <1>5
  <2>2. f = [n \in 1..m |-> f[n]]
    BY <2>1
  <2> HIDE DEF f
  <2>3. Len(f) = m
    BY <1>5, <2>2, NumberedSeq
  <2> QED  BY <2>1, <2>3
<1>8. w = [n \in 1..m |-> w[n]] /\ \A n \in 1..m : w[n] = digit(raw, d, n) * pow10[d - n]
  OBVIOUS
<1>9. addends(w, m)
  <2>1. \A n \in 1..m : w[n] \in Nat
    BY <1>5, <1>8, DigitAdds
  <2> QED  BY <1>8, <2>1 DEF addends
<1>10. reads(text, d) = text[2] * pow10[d] + part[m]
  <2> DEFINE P == CHOOSE h : h = [n \in 0..Len(f) |-> IF n = 0 THEN 0 ELSE h[n - 1] + f[n] * pow10[d - n]]
  <2>1. reads(text, d) = text[2] * pow10[d] + P[Len(f)]
    BY DEF reads
  <2>2. \A h : [n \in 0..Len(f) |-> IF n = 0 THEN 0 ELSE h[n - 1] + f[n] * pow10[d - n]]
               = [n \in 0..m |-> IF n = 0 THEN 0 ELSE h[n - 1] + w[n]]
    <3>1. ASSUME NEW n \in 1..m PROVE f[n] * pow10[d - n] = w[n]
      BY <1>7, <1>8
    <3> HIDE DEF w, f
    <3> QED  BY <1>7, <3>1
  <2>3. P = part
    BY <2>2
  <2> HIDE DEF P, part, f, w
  <2> QED  BY <1>7, <2>1, <2>3
<1>11. adds_up(part, w, m)
  <2>1. part = CHOOSE h : adds_up(h, w, m)
    BY DEF adds_up
  <2> HIDE DEF w, part
  <2>2. \E p : adds_up(p, w, m)
    BY <1>5, <1>9, ReaderSums
  <2> QED  BY <2>1, <2>2
<1> HIDE DEF part, w, f
<1>13. upto(raw, d, 0) + part[m] = upto(raw, d, m)
  BY <1>8, <1>11, SumOfDigits
<1>14. upto(raw, d, 0) = text[2] * pow10[d]
  BY UptoEnds
<1> QED  BY <1>6, <1>10, <1>13, <1>14

-----------------------------------------------------------------------------
(* What is summarized of a transaction. *)

(* What begins with an amount. *)
tells(a, raw, d) ==
    /\ IsSeq(a) /\ Len(a) >= 3
    /\ a[1] = "units" /\ a[2] = raw \div pow10[d] /\ a[3] = fraction(raw, d)

\* An amount as it is printed, alone or before a unit.
LEMMA UnitsTell ==
    ASSUME NEW raw, NEW d
    PROVE  /\ tells(formatUnits(raw, d), raw, d)
           /\ \A rest : IsSeq(rest) => tells(formatUnits(raw, d) \o rest, raw, d)
<1> DEFINE a == formatUnits(raw, d)
           q == raw \div pow10[d]
           f == fraction(raw, d)
<1>1. a = <<"units", q, f>>
  BY DEF formatUnits
<1> HIDE DEF q, f, a
<1>2. IsSeq(a) /\ Len(a) = 3 /\ a[1] = "units" /\ a[2] = q /\ a[3] = f
  BY <1>1, TupleSeqs
<1>3. ASSUME NEW rest, IsSeq(rest) PROVE tells(a \o rest, raw, d)
  <2> DEFINE t == a \o rest
  <2>1. /\ IsSeq(t) /\ Len(t) = Len(a) + Len(rest)
        /\ \A i \in 1..Len(a) : t[i] = a[i]
    <3>1. IsSeq(a) /\ IsSeq(rest)
      BY <1>2, <1>3
    <3> QED  BY <3>1, JoinedSeqs
  <2>2. Len(rest) \in Nat
    BY <1>3, SeqPlaces
  <2> HIDE DEF t
  <2>3. Len(t) >= 3 /\ t[1] = a[1] /\ t[2] = a[2] /\ t[3] = a[3]
    BY <1>2, <2>1, <2>2
  <2>4. tells(t, raw, d)
    BY <1>2, <2>1, <2>3 DEF tells, q, f
  <2> QED  BY <2>4 DEF t
<1>4. tells(a, raw, d)
  BY <1>2 DEF tells, q, f
<1> QED  BY <1>3, <1>4 DEF a

(* A title from which its reader takes the amount that is sent. *)
announces(title, raw, d) ==
    title[1] = "Send" /\ title[2] = "units" /\ reads(Tail(title), d) = raw

(* The title of a transfer. *)
sends(title, a, k) == title = <<"Send">> \o a \o <<k>>

\* Such a title tells its amount.
LEMMA SendTells ==
    ASSUME NEW raw \in Nat, NEW d \in Nat, NEW a, tells(a, raw, d), NEW k, NEW title,
           sends(title, a, k)
    PROVE  announces(title, raw, d)
<1> DEFINE b == <<"Send">> \o a
<1>1. IsSeq(<<"Send">>) /\ Len(<<"Send">>) = 1 /\ IsSeq(<<k>>) /\ Len(<<k>>) = 1
  BY TupleSeqs
<1>2. IsSeq(a) /\ Len(a) \in Nat /\ Len(a) >= 3 /\ a[1] = "units"
  BY SeqPlaces DEF tells
<1>3. /\ IsSeq(b) /\ Len(b) = 1 + Len(a) /\ b[1] = "Send"
      /\ \A i \in 1..Len(a) : b[1 + i] = a[i]
  <2> DEFINE s == <<"Send">>
  <2>1. IsSeq(s) /\ Len(s) = 1 /\ s[1] = "Send"
    BY <1>1
  <2> HIDE DEF s
  <2>2. /\ IsSeq(s \o a) /\ Len(s \o a) = Len(s) + Len(a)
        /\ \A i \in 1..Len(s) : (s \o a)[i] = s[i]
        /\ \A i \in 1..Len(a) : (s \o a)[Len(s) + i] = a[i]
    <3>1. IsSeq(s) /\ IsSeq(a)
      BY <1>2, <2>1
    <3> QED  BY <3>1, JoinedSeqs
  <2>3. b = s \o a
    BY DEF s
  <2> HIDE DEF b
  <2> QED  BY <2>1, <2>2, <2>3
<1>4. title = b \o <<k>>
  BY DEF sends
<1> HIDE DEF b
<1>5. /\ IsSeq(title) /\ Len(title) = Len(b) + 1
      /\ \A i \in 1..Len(b) : title[i] = b[i]
  <2> DEFINE z == <<k>>
  <2>1. IsSeq(z) /\ Len(z) = 1
    BY <1>1
  <2>2. title = b \o z
    BY <1>4
  <2> HIDE DEF z
  <2>3. /\ IsSeq(b \o z) /\ Len(b \o z) = Len(b) + Len(z)
        /\ \A i \in 1..Len(b) : (b \o z)[i] = b[i]
    <3>1. IsSeq(b) /\ IsSeq(z)
      BY <1>3, <2>1
    <3> QED  BY <3>1, JoinedSeqs
  <2> QED  BY <2>1, <2>2, <2>3
<1>6. /\ title[1] = "Send" /\ title[2] = a[1] /\ title[3] = a[2] /\ title[4] = a[3]
      /\ Len(title) >= 5 /\ Len(title) \in Nat
  <2>1. Len(b) >= 4 /\ Len(b) \in Nat
    BY <1>2, <1>3
  <2>2. title[1] = b[1] /\ title[2] = b[2] /\ title[3] = b[3] /\ title[4] = b[4]
    BY <1>5, <2>1
  <2>3. b[1 + 1] = a[1] /\ b[1 + 2] = a[2] /\ b[1 + 3] = a[3]
    BY <1>2, <1>3
  <2>4. 1 + 1 = 2 /\ 1 + 2 = 3 /\ 1 + 3 = 4
    OBVIOUS
  <2> QED  BY <1>3, <1>5, <2>1, <2>2, <2>3, <2>4
<1>7. Tail(title)[2] = title[3] /\ Tail(title)[3] = title[4]
  <2> DEFINE X == ToSet(title)
  <2>1. title \in Seq(X) /\ Len(title) >= 5 /\ Len(title) \in Nat
    BY <1>5, <1>6 DEF IsSeq
  <2> HIDE DEF X
  <2>2. title # << >>
    BY <2>1
  <2>3. \A i \in 1..Len(title) - 1 : Tail(title)[i] = title[i + 1]
    BY <2>1, <2>2
  <2>4. 2 \in 1..Len(title) - 1 /\ 3 \in 1..Len(title) - 1 /\ 2 + 1 = 3 /\ 3 + 1 = 4
    BY <2>1
  <2> QED  BY <2>3, <2>4
<1>8. Tail(title)[2] = raw \div pow10[d] /\ Tail(title)[3] = fraction(raw, d)
  BY <1>6, <1>7 DEF tells
<1>9. reads(Tail(title), d) = raw
  BY <1>8, AmountRead
<1> QED  BY <1>2, <1>6, <1>9 DEF announces

(* The title of a call. *)
titles(title, program, accounts, data) ==
    title = describeInnerInstruction(program, accounts, data).title

sol_data(data) == data.disc = 2 /\ data.len >= 12 /\ data.amount \in Nat

token_data(accounts, data) ==
    /\ data.disc = 12 /\ data.len >= 10 /\ data.amount \in Nat /\ data.decimals \in Nat
    /\ IsSeq(accounts) /\ Len(accounts) >= 3

\* A transfer of the system program tells its amount.
LEMMA SystemSends ==
    ASSUME NEW accounts, NEW data, sol_data(data), NEW title, titles(title, "System", accounts, data)
    PROVE  announces(title, data.amount, SolDecimals)
<1>1. sends(title, formatUnits(data.amount, SolDecimals), "SOL")
  BY DEF describeInnerInstruction, system_call, sends, titles, sol_data
<1>2. tells(formatUnits(data.amount, SolDecimals), data.amount, SolDecimals)
  BY UnitsTell
<1>3. SolDecimals \in Nat /\ data.amount \in Nat
  BY ReviewAssumption DEF sol_data
<1> QED  BY <1>1, <1>2, <1>3, SendTells

(* The decimals a transfer of tokens is printed with. *)
token_decimals(mint, data) ==
    IF mint \in DOMAIN KnownMints THEN KnownMints[mint].decimals ELSE data.decimals

\* A transfer of tokens tells its amount, in the decimals of its mint.
LEMMA TokenSends ==
    ASSUME NEW kind, kind \in {"Token", "Token-2022"}, NEW accounts, NEW data, token_data(accounts, data),
           NEW title, titles(title, kind, accounts, data)
    PROVE  announces(title, data.amount, token_decimals(accounts[2], data))
<1> DEFINE d == token_decimals(accounts[2], data)
           a == formatTokenAmount(data.amount, accounts[2], data.decimals)
           l == Len(accounts)
<1>0. data.amount \in Nat /\ data.decimals \in Nat
  BY DEF token_data
<1>1. 2 \in DOMAIN accounts
  <2>1. DOMAIN accounts = 1..l /\ l \in Nat /\ l >= 3
    BY SeqPlaces DEF token_data
  <2> HIDE DEF l
  <2> QED  BY <2>1
<1>2. sends(title, a, kind)
  <2>1. describeInnerInstruction(kind, accounts, data) = token_call(kind, accounts, data)
    BY DEF describeInnerInstruction
  <2>2. token_call(kind, accounts, data).title = <<"Send">> \o a \o <<kind>>
    BY <1>1 DEF token_call, token_data
  <2> QED  BY <2>1, <2>2 DEF sends, titles
<1>3. tells(a, data.amount, d) /\ d \in Nat
  <2>1. CASE accounts[2] \in DOMAIN KnownMints
    <3>1. a = formatUnits(data.amount, d) \o <<KnownMints[accounts[2]].symbol>>
      BY <2>1 DEF formatTokenAmount, token_decimals
    <3>2. d \in Nat
      BY <2>1, ReviewAssumption DEF token_decimals
    <3>3. IsSeq(<<KnownMints[accounts[2]].symbol>>)
      BY TupleSeqs
    <3> QED  BY <3>1, <3>2, <3>3, UnitsTell
  <2>2. CASE accounts[2] \notin DOMAIN KnownMints
    <3>1. a = formatUnits(data.amount, d) \o <<"mint", Ends[accounts[2]]>>
      BY <2>2 DEF formatTokenAmount, token_decimals
    <3>2. IsSeq(<<"mint", Ends[accounts[2]]>>)
      BY TupleSeqs
    <3>3. d \in Nat
      BY <1>0, <2>2 DEF token_decimals
    <3> QED  BY <3>1, <3>2, <3>3, UnitsTell
  <2> QED  BY <2>1, <2>2
<1> HIDE DEF a, d
<1>4. announces(title, data.amount, d)
  BY <1>0, <1>2, <1>3, SendTells
<1> QED  BY <1>4 DEF d

\* The first accounts, by their numbers, are lines.
LEMMA NamedAre ==
    ASSUME NEW accounts, IsSeq(accounts), NEW most \in Nat
    PROVE  IsSeq(named_accounts(accounts, most))
<1> DEFINE n == IF Len(accounts) < most THEN Len(accounts) ELSE most
           f == named_accounts(accounts, most)
<1>1. Len(accounts) \in Nat
  BY SeqPlaces
<1>2. n \in Nat
  BY <1>1
<1>3. f = [i \in 1..n |-> f[i]]
  BY DEF named_accounts
<1> HIDE DEF n, f
<1>4. IsSeq(f)
  BY <1>2, <1>3, NumberedSeq
<1> QED  BY <1>4 DEF f

\* The lines of a call are a sequence.
LEMMA CallRows ==
    ASSUME NEW program, NEW accounts, IsSeq(accounts), NEW data
    PROVE  IsSeq(describeInnerInstruction(program, accounts, data).details)
<1>1. \A title, as, x : IsSeq(Opaque(title, as, x).details)
  BY TupleSeqs DEF Opaque
<1>2. IsSeq(system_call(accounts, data).details)
  <2>1. CASE data.disc = 2 /\ data.len >= 12
    BY <2>1, TupleSeqs DEF system_call
  <2>2. CASE ~(data.disc = 2 /\ data.len >= 12)
    BY <1>1, <2>2 DEF system_call
  <2> QED  BY <2>1, <2>2
<1>3. \A kind : IsSeq(token_call(kind, accounts, data).details)
  <2> TAKE kind
  <2>1. CASE data.disc = 12 /\ data.len >= 10
    BY <2>1, TupleSeqs DEF token_call
  <2>2. CASE ~(data.disc = 12 /\ data.len >= 10) /\ data.disc = 3 /\ data.len >= 9
    BY <2>2, TupleSeqs DEF token_call
  <2>3. CASE ~(data.disc = 12 /\ data.len >= 10) /\ ~(data.disc = 3 /\ data.len >= 9)
    BY <1>1, <2>3 DEF token_call
  <2> QED  BY <2>1, <2>2, <2>3
<1>4. IsSeq(named_accounts(accounts, 3)) /\ IsSeq(named_accounts(accounts, 4))
  BY NamedAre
<1> DEFINE call == describeInnerInstruction(program, accounts, data)
<1>5. CASE program = "System"
  BY <1>2, <1>5 DEF describeInnerInstruction
<1>6. CASE program = "Memo"
  BY <1>6, TupleSeqs DEF describeInnerInstruction
<1>7. CASE program \in {"Token", "Token-2022"}
  BY <1>3, <1>7 DEF describeInnerInstruction
<1>8. CASE program = "ATA"
  BY <1>8, TupleSeqs DEF describeInnerInstruction
<1>9. CASE program = "Metadata"
  BY <1>4, <1>9 DEF describeInnerInstruction
<1>10. CASE program = "Core"
  BY <1>4, <1>10 DEF describeInnerInstruction
<1>11. CASE program = "Bubblegum"
  BY <1>1, <1>11 DEF describeInnerInstruction
<1>12. CASE program \notin {"System", "Memo", "Token", "Token-2022", "ATA", "Metadata", "Core", "Bubblegum"}
  BY <1>1, <1>12 DEF describeInnerInstruction
<1> QED  BY <1>5, <1>6, <1>7, <1>8, <1>9, <1>10, <1>11, <1>12

\* What is decoded holds sequences.
LEMMA DecodedSequences ==
    ASSUME NEW ix \in Decoded
    PROVE  /\ IsSeq(ix.inner) /\ IsSeq(ix.remaining)
           /\ IsSeq(ix.policy.mints) /\ IsSeq(ix.policy.programs)
           /\ \A n \in DOMAIN ix.inner : ix.inner[n] \in InnerCall /\ IsSeq(ix.inner[n].accounts)
<1>1. /\ SeqOver(ix.inner, InnerCall) /\ SeqOver(ix.remaining, Addresses)
      /\ ix.policy \in PolicyArgs
  BY DEF Decoded, SeqOver
<1>2. /\ SeqOver(ix.policy.mints, [mint : Addresses, cap : Nat, window : Nat])
      /\ SeqOver(ix.policy.programs, [program : Addresses, access : STRING])
  <2> DEFINE p == ix.policy
  <2>1. p \in PolicyArgs
    BY <1>1
  <2> HIDE DEF p
  <2>2. /\ SeqOver(p.mints, [mint : Addresses, cap : Nat, window : Nat])
        /\ SeqOver(p.programs, [program : Addresses, access : STRING])
    BY <2>1 DEF PolicyArgs, SeqOver
  <2> QED  BY <2>2 DEF p
<1>3. IsSeq(ix.inner) /\ IsSeq(ix.remaining)
  BY <1>1, SeqOfSet
<1>4. IsSeq(ix.policy.mints) /\ IsSeq(ix.policy.programs)
  BY <1>2, SeqOfSet
<1>5. ASSUME NEW n \in DOMAIN ix.inner PROVE ix.inner[n] \in InnerCall /\ IsSeq(ix.inner[n].accounts)
  <2> DEFINE c == ix.inner[n]
             l == ix.inner
  <2>1. l \in Seq(InnerCall) /\ n \in DOMAIN l
    BY <1>1, <1>5 DEF SeqOver
  <2> HIDE DEF l
  <2>2. l[n] \in InnerCall
    BY <2>1
  <2>3. c \in InnerCall
    BY <2>2 DEF l
  <2> HIDE DEF c
  <2>4. SeqOver(c.accounts, Nat)
    BY <2>3 DEF InnerCall, SeqOver
  <2>5. IsSeq(c.accounts)
    BY <2>4, SeqOfSet
  <2> QED  BY <2>3, <2>5 DEF c
<1> QED  BY <1>3, <1>4, <1>5

accounts_of(ix, call) == [i \in DOMAIN call.accounts |-> ix.remaining[call.accounts[i]]]

\* Each call of an instruction is described, in order.
LEMMA SummarizedCalls ==
    ASSUME NEW ix \in Decoded
    PROVE  /\ IsSeq(summarizeInner(ix)) /\ DOMAIN summarizeInner(ix) = DOMAIN ix.inner
           /\ \A n \in DOMAIN ix.inner :
                 /\ IsSeq(accounts_of(ix, ix.inner[n]))
                 /\ Len(accounts_of(ix, ix.inner[n])) = Len(ix.inner[n].accounts)
                 /\ summarizeInner(ix)[n]
                       = describeInnerInstruction(ix.remaining[ix.inner[n].program],
                                                  accounts_of(ix, ix.inner[n]), ix.inner[n].data)
                 /\ IsSeq(summarizeInner(ix)[n].details)
<1> DEFINE f == summarizeInner(ix)
           n0 == Len(ix.inner)
<1>1. n0 \in Nat /\ DOMAIN ix.inner = 1..n0
  BY DecodedSequences, SeqPlaces
<1>2. /\ f = [n \in 1..n0 |-> f[n]]
      /\ \A n \in DOMAIN ix.inner :
            f[n] = describeInnerInstruction(ix.remaining[ix.inner[n].program],
                                            accounts_of(ix, ix.inner[n]), ix.inner[n].data)
  BY <1>1 DEF summarizeInner, accounts_of
<1> HIDE DEF f, n0
<1>3. IsSeq(f) /\ DOMAIN f = 1..n0
  BY <1>1, <1>2, NumberedSeq
<1>4. ASSUME NEW n \in DOMAIN ix.inner
      PROVE  /\ IsSeq(accounts_of(ix, ix.inner[n]))
             /\ Len(accounts_of(ix, ix.inner[n])) = Len(ix.inner[n].accounts)
             /\ IsSeq(f[n].details)
  <2> DEFINE call == ix.inner[n]
             a == accounts_of(ix, call)
             m == Len(call.accounts)
  <2>1. m \in Nat /\ DOMAIN call.accounts = 1..m
    BY <1>4, DecodedSequences, SeqPlaces
  <2>2. a = [i \in 1..m |-> a[i]]
    BY <2>1 DEF accounts_of
  <2> HIDE DEF a, m
  <2>3. IsSeq(a) /\ Len(a) = m
    BY <2>1, <2>2, NumberedSeq
  <2>4. f[n] = describeInnerInstruction(ix.remaining[ix.inner[n].program], a, ix.inner[n].data)
    BY <1>2, <1>4 DEF a
  <2>5. IsSeq(f[n].details)
    BY <2>3, <2>4, CallRows
  <2> QED  BY <2>3, <2>5 DEF a, m
<1> QED  BY <1>1, <1>2, <1>3, <1>4 DEF f

\* The details of an instruction are lines.
LEMMA DetailsAre ==
    ASSUME NEW ix \in Decoded
    PROVE  IsSeq(details_of(ix))
<1> DEFINE policy == ix.policy
           a == IF policy.sol = <<>> THEN <<Line("SOL limit", <<"None">>)>>
                ELSE <<Line("SOL limit", formatUnits(policy.sol[1].cap, SolDecimals)),
                       Line("SOL window", windowPhrase(policy.sol[1].window))>>
           mints == [n \in DOMAIN policy.mints |-> cap_rows(policy.mints, n)]
           programs == [n \in DOMAIN policy.programs |-> program_rows(policy.programs, n)]
           b == IF policy.mints = <<>> THEN <<Line("Token limits", <<"None">>)>> ELSE FlattenSeq(mints)
           c == IF policy.programs = <<>> THEN <<Line("Programs", <<"Baseline only">>)>>
                ELSE FlattenSeq(programs)
<1>1. IsSeq(policy.mints) /\ IsSeq(policy.programs)
  BY DecodedSequences
<1>2. describeWalletPolicy(policy) = a \o b \o c
  BY DEF describeWalletPolicy
<1>3. IsSeq(a)
  BY TupleSeqs
<1>4. IsSeq(b)
  <2>1. mints = [n \in DOMAIN policy.mints |-> mints[n]]
    OBVIOUS
  <2>2. \A n \in DOMAIN policy.mints : IsSeq(mints[n])
    BY TupleSeqs DEF cap_rows
  <2> HIDE DEF mints, policy
  <2>3. IsSeq(FlattenSeq(mints))
    BY <1>1, <2>1, <2>2, FlattenedEach
  <2> QED  BY <2>3, TupleSeqs
<1>5. IsSeq(c)
  <2>1. programs = [n \in DOMAIN policy.programs |-> programs[n]]
    OBVIOUS
  <2>2. \A n \in DOMAIN policy.programs : IsSeq(programs[n])
    BY TupleSeqs DEF program_rows
  <2> HIDE DEF programs, policy
  <2>3. IsSeq(FlattenSeq(programs))
    BY <1>1, <2>1, <2>2, FlattenedEach
  <2> QED  BY <2>3, TupleSeqs
<1> HIDE DEF a, b, c
<1>6. IsSeq(a \o b \o c)
  BY <1>3, <1>4, <1>5, JoinedThree
<1>7. IsSeq(describeWalletPolicy(ix.policy))
  BY <1>2, <1>6
<1> QED  BY <1>7, TupleSeqs DEF details_of

-----------------------------------------------------------------------------
(* The summaries of a transaction and its calls. *)

summarized(s, ixs) ==
    /\ IsSeq(s) /\ DOMAIN s = DOMAIN ixs /\ IsSeq(ixs)
    /\ \A n \in DOMAIN ixs : ixs[n] \in Decoded /\ s[n] = parseInstruction(ixs[n])

\* Each instruction of a transaction is summarized, in order.
LEMMA SummariesAre ==
    ASSUME NEW t \in Transactions
    PROVE  summarized(summaries(t), t.instructions)
<1> DEFINE ixs == t.instructions
           s == summaries(t)
<1>1. SeqOver(ixs, Decoded) /\ ixs \in Seq(Decoded)
  BY TransactionsAssumption DEF SeqOver
<1>2. s = [n \in DOMAIN ixs |-> s[n]] /\ \A n \in DOMAIN ixs : s[n] = parseInstruction(ixs[n])
  BY DEF summaries
<1> HIDE DEF ixs, s
<1>3. IsSeq(ixs)
  BY <1>1, SeqOfSet
<1>4. Len(ixs) \in Nat /\ DOMAIN ixs = 1..Len(ixs)
  BY <1>3, SeqPlaces
<1>5. s = [n \in 1..Len(ixs) |-> s[n]]
  BY <1>2, <1>4
<1>6. IsSeq(s) /\ DOMAIN s = DOMAIN ixs
  BY <1>4, <1>5, NumberedSeq
<1>7. \A n \in DOMAIN ixs : ixs[n] \in Decoded
  BY <1>1
<1>8. summarized(s, ixs)
  BY <1>2, <1>3, <1>6, <1>7 DEF summarized
<1> QED  BY <1>8 DEF s, ixs

\* What the summary of an instruction says.
LEMMA SummaryIs ==
    ASSUME NEW ix \in Decoded
    PROVE  /\ parseInstruction(ix).kind = ix.kind
           /\ parseInstruction(ix).authority = IF ix.kind \in {"SetAuthority", "Execute"} THEN "none"
                                               ELSE ix.authority
           /\ parseInstruction(ix).inner = IF ix.kind \in Spends THEN summarizeInner(ix) ELSE << >>
           /\ parseInstruction(ix).details = details_of(ix)
           /\ IsSeq(parseInstruction(ix).inner) /\ IsSeq(parseInstruction(ix).details)
           /\ \A n \in DOMAIN parseInstruction(ix).inner : IsSeq(parseInstruction(ix).inner[n].details)
<1>1. /\ parseInstruction(ix).kind = ix.kind
      /\ parseInstruction(ix).authority = IF ix.kind \in {"SetAuthority", "Execute"} THEN "none"
                                          ELSE ix.authority
      /\ parseInstruction(ix).inner = IF ix.kind \in Spends THEN summarizeInner(ix) ELSE << >>
      /\ parseInstruction(ix).details = details_of(ix)
  BY DEF parseInstruction
<1>2. IsSeq(summarizeInner(ix)) /\ \A n \in DOMAIN summarizeInner(ix) : IsSeq(summarizeInner(ix)[n].details)
  BY SummarizedCalls
<1>3. IsSeq(<< >>) /\ DOMAIN << >> = {}
  BY TupleSeqs
<1> DEFINE e == parseInstruction(ix).inner
<1>4. e = summarizeInner(ix) \/ e = << >>
  BY <1>1
<1>5. IsSeq(e) /\ \A n \in DOMAIN e : IsSeq(e[n].details)
  <2> HIDE DEF e
  <2>1. CASE e = summarizeInner(ix)
    BY <1>2, <2>1
  <2>2. CASE e = << >>
    BY <1>3, <2>2
  <2> QED  BY <1>4, <2>1, <2>2
<1>6. IsSeq(details_of(ix))
  BY DetailsAre
<1> QED  BY <1>1, <1>5, <1>6

\* The calls are those of all instructions.
LEMMA CallsAre ==
    ASSUME NEW s, NEW ixs, summarized(s, ixs)
    PROVE  /\ IsSeq(calls(s)) /\ ToSet(calls(s)) = UNION {ToSet(s[n].inner) : n \in DOMAIN s}
           /\ \A k \in DOMAIN calls(s) : IsSeq(calls(s)[k].details)
<1> DEFINE ss == [n \in DOMAIN s |-> s[n].inner]
<1>1. /\ IsSeq(s) /\ DOMAIN s = DOMAIN ixs
      /\ \A n \in DOMAIN s : ixs[n] \in Decoded /\ s[n] = parseInstruction(ixs[n])
  BY DEF summarized
<1>2. \A n \in DOMAIN s : IsSeq(s[n].inner) /\ \A k \in DOMAIN s[n].inner : IsSeq(s[n].inner[k].details)
  BY <1>1, SummaryIs
<1>3. ss = [n \in DOMAIN s |-> ss[n]] /\ \A n \in DOMAIN s : ss[n] = s[n].inner
  OBVIOUS
<1>4. calls(s) = FlattenSeq(ss)
  BY DEF calls
<1> HIDE DEF ss
<1>5. \A n \in DOMAIN s : IsSeq(ss[n])
  BY <1>2, <1>3
<1>6. IsSeq(FlattenSeq(ss)) /\ ToSet(FlattenSeq(ss)) = UNION {ToSet(ss[n]) : n \in DOMAIN s}
  BY <1>1, <1>3, <1>5, FlattenedEach
<1>7. IsSeq(calls(s)) /\ ToSet(calls(s)) = UNION {ToSet(s[n].inner) : n \in DOMAIN s}
  BY <1>3, <1>4, <1>6
<1>8. ASSUME NEW k \in DOMAIN calls(s) PROVE IsSeq(calls(s)[k].details)
  <2>1. calls(s)[k] \in ToSet(calls(s))
    BY <1>7, <1>8, SeqPlaces
  <2>2. PICK n \in DOMAIN s : calls(s)[k] \in ToSet(s[n].inner)
    BY <1>7, <2>1
  <2>3. ToSet(s[n].inner) = {s[n].inner[i] : i \in DOMAIN s[n].inner}
    BY <1>2, SeqPlaces
  <2>4. PICK i \in DOMAIN s[n].inner : calls(s)[k] = s[n].inner[i]
    BY <2>2, <2>3
  <2> QED  BY <1>2, <2>4
<1> QED  BY <1>7, <1>8

-----------------------------------------------------------------------------
(* The lines of the sheet. *)

\* The first lines are lines.
LEMMA FirstRows ==
    ASSUME NEW lines, IsSeq(lines)
    PROVE  IsSeq(first_rows(lines))
<1> DEFINE n == IF Len(lines) < 4 THEN Len(lines) ELSE 4
           f == SubSeq(lines, 1, n)
<1>1. Len(lines) \in Nat
  BY SeqPlaces
<1>2. n \in Nat
  BY <1>1
<1>3. first_rows(lines) = f
  BY DEF first_rows
<1> HIDE DEF n
<1>4. f = [i \in 1..n |-> f[i]]
  BY <1>2
<1> HIDE DEF f
<1>5. IsSeq(f)
  BY <1>2, <1>4, NumberedSeq
<1> QED  BY <1>3, <1>5

\* The first lines of the sheet: of the only call, or one for each call.
LEMMA PrimaryIs ==
    ASSUME NEW s, NEW ixs, summarized(s, ixs)
    PROVE  /\ IsSeq(primaryRows(s))
           /\ Len(calls(s)) = 1 =>
                 ToSet(primaryRows(s)) = {r \in ToSet(calls(s)[1].details) : r.label \in {"To", "From", "Text"}}
           /\ Len(calls(s)) > 1 =>
                 /\ DOMAIN primaryRows(s) = DOMAIN calls(s)
                 /\ \A n \in DOMAIN calls(s) : primaryRows(s)[n] = action_row(calls(s), n)
<1> DEFINE all == calls(s)
           lines == primaryRows(s)
<1>1. IsSeq(all) /\ \A k \in DOMAIN all : IsSeq(all[k].details)
  BY CallsAre
<1>2. Len(all) \in Nat /\ DOMAIN all = 1..Len(all)
  BY <1>1, SeqPlaces
<1>3. CASE Len(all) = 1
  <2>1. lines = labelled(all[1].details, {"To", "From", "Text"})
    BY <1>3 DEF primaryRows
  <2>2. IsSeq(all[1].details)
    BY <1>1, <1>2, <1>3
  <2>3. /\ IsSeq(labelled(all[1].details, {"To", "From", "Text"}))
        /\ ToSet(labelled(all[1].details, {"To", "From", "Text"}))
              = {r \in ToSet(all[1].details) : r.label \in {"To", "From", "Text"}}
    BY <2>2, Labelled
  <2> QED  BY <1>3, <2>1, <2>3
<1>4. CASE Len(all) > 1
  <2>1. lines = [n \in DOMAIN all |-> action_row(all, n)]
    BY <1>2, <1>4 DEF primaryRows
  <2>2. lines = [n \in 1..Len(all) |-> lines[n]] /\ \A n \in DOMAIN all : lines[n] = action_row(all, n)
    BY <1>2, <2>1
  <2> HIDE DEF lines, all
  <2>3. IsSeq(lines) /\ DOMAIN lines = 1..Len(all)
    BY <1>2, <2>2, NumberedSeq
  <2>4. DOMAIN lines = DOMAIN all /\ Len(all) # 1
    BY <1>2, <1>4, <2>3
  <2> QED  BY <2>2, <2>3, <2>4 DEF lines, all
<1>5. CASE Len(all) # 1 /\ ~(Len(all) > 1)
  <2> DEFINE ss == [n \in DOMAIN s |-> first_rows(s[n].details)]
  <2>1. lines = FlattenSeq(ss)
    BY <1>5 DEF primaryRows
  <2>2. ss = [n \in DOMAIN s |-> ss[n]] /\ \A n \in DOMAIN s : ss[n] = first_rows(s[n].details)
    OBVIOUS
  <2>3. IsSeq(s) /\ \A n \in DOMAIN s : IsSeq(s[n].details)
    BY SummaryIs DEF summarized
  <2> HIDE DEF ss
  <2>4. \A n \in DOMAIN s : IsSeq(ss[n])
    BY <2>2, <2>3, FirstRows
  <2>5. IsSeq(FlattenSeq(ss))
    BY <2>2, <2>3, <2>4, FlattenedEach
  <2> QED  BY <1>5, <2>1, <2>5
<1> QED  BY <1>3, <1>4, <1>5

\* The rest is what is not among the first lines.
LEMMA RestIs ==
    ASSUME NEW ix, IsSeq(ix.details), NEW primary
    PROVE  /\ IsSeq(rest_of(ix, primary))
           /\ ToSet(rest_of(ix, primary)) = ToSet(ix.details) \ ToSet(primary)
<1> DEFINE lines == ix.details
           P == {n \in DOMAIN ix.details : ix.details[n] \notin ToSet(primary)}
<1>1. rest_of(ix, primary) = picked(lines, P)
  BY DEF rest_of
<1>2. IsSeq(picked(lines, P)) /\ ToSet(picked(lines, P)) = {lines[n] : n \in DOMAIN lines \cap P}
  BY Picked
<1>3. ToSet(lines) = {lines[n] : n \in DOMAIN lines}
  BY SeqPlaces
<1>4. {lines[n] : n \in DOMAIN lines \cap P} = ToSet(ix.details) \ ToSet(primary)
  <2>1. DOMAIN lines \cap P = {n \in DOMAIN lines : lines[n] \notin ToSet(primary)}
    OBVIOUS
  <2> HIDE DEF P
  <2> QED  BY <1>3, <2>1
<1> QED  BY <1>1, <1>2, <1>4

\* The lines of mints and owners are lines.
LEMMA MintRowsAre ==
    ASSUME NEW ix, IsSeq(ix.inner), \A n \in DOMAIN ix.inner : IsSeq(ix.inner[n].details)
    PROVE  IsSeq(mint_rows(ix))
<1> DEFINE s == ix.inner
           ss == [n \in DOMAIN s |-> labelled(s[n].details, {"Mint", "Owner"})]
<1>1. mint_rows(ix) = FlattenSeq(ss)
  BY DEF mint_rows
<1>2. ss = [n \in DOMAIN s |-> ss[n]] /\ \A n \in DOMAIN s : ss[n] = labelled(s[n].details, {"Mint", "Owner"})
  OBVIOUS
<1>3. IsSeq(s) /\ \A n \in DOMAIN s : IsSeq(s[n].details)
  OBVIOUS
<1> HIDE DEF ss, s
<1>4. \A n \in DOMAIN s : IsSeq(ss[n])
  BY <1>2, <1>3, Labelled
<1>5. IsSeq(FlattenSeq(ss))
  BY <1>2, <1>3, <1>4, FlattenedEach
<1> QED  BY <1>1, <1>5

\* What is not in the first lines is behind the details.
LEMMA AdvancedHolds ==
    ASSUME NEW sum, NEW ixs, summarized(sum.instructions, ixs), NEW primary
    PROVE  \A n \in DOMAIN ixs : ToSet(details_of(ixs[n])) \ ToSet(primary)
                                   \subseteq ToSet(advancedRows(sum, primary))
<1> DEFINE s == sum.instructions
           step(n) == IF Len(s) > 1 THEN <<[label |-> "Step", nr |-> n, value |-> <<s[n].kind>>]>> ELSE <<>>
           ss == [n \in DOMAIN s |-> step(n) \o rest_of(s[n], primary) \o mint_rows(s[n])]
           head == <<Line("Wallet", <<"address", sum.wallet>>)>>
           fee == IF sum.config = <<>> THEN <<>>
                  ELSE <<Line("Priority fee", formatUnits(sum.config[1], SolDecimals))>>
<1>1. advancedRows(sum, primary) = head \o FlattenSeq(ss) \o fee
  BY DEF advancedRows
<1>2. IsSeq(head) /\ IsSeq(fee)
  BY TupleSeqs
<1>3. ss = [n \in DOMAIN s |-> ss[n]]
      /\ \A n \in DOMAIN s : ss[n] = step(n) \o rest_of(s[n], primary) \o mint_rows(s[n])
  OBVIOUS
<1>4. \A n \in DOMAIN s : IsSeq(step(n))
  BY TupleSeqs
<1>5. IsSeq(s) /\ DOMAIN s = DOMAIN ixs /\ \A n \in DOMAIN s : ixs[n] \in Decoded /\ s[n] = parseInstruction(ixs[n])
  BY DEF summarized
<1> HIDE DEF s, step, ss, head, fee
<1>6. \A n \in DOMAIN s : /\ IsSeq(s[n].details) /\ s[n].details = details_of(ixs[n])
                          /\ IsSeq(s[n].inner) /\ \A k \in DOMAIN s[n].inner : IsSeq(s[n].inner[k].details)
  BY <1>5, SummaryIs
<1>7. ASSUME NEW n \in DOMAIN s
      PROVE  IsSeq(ss[n]) /\ ToSet(rest_of(s[n], primary)) \subseteq ToSet(ss[n])
  <2> DEFINE a == step(n)
             b == rest_of(s[n], primary)
             c == mint_rows(s[n])
  <2>1. IsSeq(a)
    BY <1>4, <1>7
  <2>2. IsSeq(b)
    BY <1>6, <1>7, RestIs
  <2>3. IsSeq(c)
    BY <1>6, <1>7, MintRowsAre
  <2>4. ss[n] = a \o b \o c
    BY <1>3, <1>7
  <2> HIDE DEF a, b, c
  <2>5. IsSeq(a \o b \o c) /\ ToSet(a \o b \o c) = ToSet(a) \cup ToSet(b) \cup ToSet(c)
    BY <2>1, <2>2, <2>3, JoinedThree
  <2>6. IsSeq(ss[n]) /\ ToSet(b) \subseteq ToSet(ss[n])
    BY <2>4, <2>5
  <2> QED  BY <2>6 DEF b
<1>8. IsSeq(FlattenSeq(ss)) /\ ToSet(FlattenSeq(ss)) = UNION {ToSet(ss[n]) : n \in DOMAIN s}
  BY <1>3, <1>5, <1>7, FlattenedEach
<1> DEFINE body == FlattenSeq(ss)
<1>9. IsSeq(body) /\ ToSet(body) = UNION {ToSet(ss[n]) : n \in DOMAIN s}
      /\ advancedRows(sum, primary) = head \o body \o fee
  BY <1>1, <1>8
<1> HIDE DEF body
<1>10. ToSet(head \o body \o fee) = ToSet(head) \cup ToSet(body) \cup ToSet(fee)
  BY <1>2, <1>9, JoinedThree
<1>11. ToSet(body) \subseteq ToSet(advancedRows(sum, primary))
  BY <1>9, <1>10
<1>12. ASSUME NEW n \in DOMAIN ixs
       PROVE  ToSet(details_of(ixs[n])) \ ToSet(primary) \subseteq ToSet(advancedRows(sum, primary))
  <2>1. n \in DOMAIN s
    BY <1>5, <1>12
  <2>2. ToSet(rest_of(s[n], primary)) = ToSet(s[n].details) \ ToSet(primary)
    BY <1>6, <2>1, RestIs
  <2>3. ToSet(rest_of(s[n], primary)) \subseteq ToSet(body)
    BY <1>7, <1>9, <2>1
  <2>4. s[n].details = details_of(ixs[n])
    BY <1>6, <2>1
  <2> QED  BY <1>11, <2>2, <2>3, <2>4
<1> QED  BY <1>12

\* The row that says where a call goes.
LEMMA PlaceOf ==
    ASSUME NEW call, IsSeq(call.details)
    PROVE  \/ pickToSubtitle(call) = << >>
           \/ \E r \in ToSet(call.details) : r.label = "To" /\ pickToSubtitle(call) = <<r>>
<1> DEFINE lines == call.details
           S == {i \in DOMAIN lines : lines[i].label = "To"}
<1>1. pickToSubtitle(call) = FirstAt(lines, S)
  BY FirstTo DEF pickToSubtitle
<1>2. /\ S = {} => FirstAt(lines, S) = << >>
      /\ S # {} => \E n \in S : FirstAt(lines, S) = <<lines[n]>>
  BY FirstAtIs
<1>3. ToSet(lines) = {lines[n] : n \in DOMAIN lines}
  BY SeqPlaces
<1> QED  BY <1>1, <1>2, <1>3

(* What of the sheet is read here. *)
told(sum) ==
    /\ sheet.hero = confirmHero(sum.instructions)
    /\ sheet.primary = primaryRows(sum.instructions)
    /\ sheet.advanced = advancedRows(sum, primaryRows(sum.instructions))
    /\ sheet.callout = riskCallout(sum.instructions)
    /\ sheet.risk = classifySignRisk(sum.instructions)

\* What the sheet of a policy tells.
LEMMA SheetIs == ASSUME NEW sum, sheet = Sheet(sum) PROVE told(sum)
BY DEF Sheet, told

\* Where each call goes is on the sheet.
LEMMA PlacesTold ==
    ASSUME NEW sum, told(sum), NEW ixs, summarized(sum.instructions, ixs),
           NEW n \in DOMAIN calls(sum.instructions)
    PROVE  values(pickToSubtitle(calls(sum.instructions)[n])) \subseteq places_shown
<1> DEFINE s == sum.instructions
           all == calls(s)
           lines == primaryRows(s)
<1>1. IsSeq(all) /\ \A k \in DOMAIN all : IsSeq(all[k].details)
  BY CallsAre
<1> DEFINE many == Len(all)
<1>2. many \in Nat /\ DOMAIN all = 1..many /\ n \in 1..many
  BY <1>1, SeqPlaces
<1>3. sheet.primary = lines
  BY DEF told
<1>4. CASE Len(all) = 1
  <2>1. n = 1
    BY <1>2, <1>4
  <2>2. ToSet(lines) = {r \in ToSet(all[1].details) : r.label \in {"To", "From", "Text"}}
    BY <1>4, PrimaryIs
  <2>3. IsSeq(all[1].details)
    BY <1>1, <1>2, <1>4
  <2> DEFINE to == pickToSubtitle(all[1])
  <2>4. to = << >> \/ \E r \in ToSet(all[1].details) : r.label = "To" /\ to = <<r>>
    BY <2>3, PlaceOf
  <2>5. ToSet(to) = {} \/ \E r \in ToSet(lines) : r.label = "To" /\ ToSet(to) = {r}
    <3> HIDE DEF to
    <3>1. CASE to = << >>
      BY <3>1, TupleSeqs
    <3>2. CASE \E r \in ToSet(all[1].details) : r.label = "To" /\ to = <<r>>
      <4>1. PICK r \in ToSet(all[1].details) : r.label = "To" /\ to = <<r>>
        BY <3>2
      <4>2. r \in ToSet(lines)
        BY <2>2, <4>1
      <4> QED  BY <4>1, <4>2, TupleSeqs
    <3> QED  BY <2>4, <3>1, <3>2
  <2> HIDE DEF to, lines
  <2>6. values(to) \subseteq places_shown
    BY <1>3, <2>5 DEF values, places_shown
  <2> QED  BY <2>1, <2>6 DEF to
<1>5. CASE Len(all) # 1
  <2>1. Len(all) > 1
    <3>1. many \in Nat /\ n \in 1..many /\ many # 1
      BY <1>2, <1>5
    <3> HIDE DEF many
    <3>2. many > 1
      BY <3>1
    <3> QED  BY <3>2 DEF many
  <2>2. DOMAIN lines = DOMAIN all /\ lines[n] = action_row(all, n) /\ IsSeq(lines)
    BY <2>1, PrimaryIs
  <2>3. lines[n].label = "Action" /\ lines[n].value = pickToSubtitle(all[n])
    BY <2>2 DEF action_row
  <2>4. lines[n] \in ToSet(lines)
    BY <2>2, SeqPlaces
  <2> QED  BY <1>3, <2>3, <2>4 DEF places_shown
<1> QED  BY <1>4, <1>5

\* The title of a transfer tells its amount.
LEMMA TransferTitle ==
    ASSUME NEW ix \in Decoded, NEW i \in DOMAIN ix.inner, NEW call, call = ix.inner[i], is_transfer(ix, call),
           NEW title, title = summarizeInner(ix)[i].title
    PROVE  announces(title, call.data.amount, decimals_of(ix, call))
<1> DEFINE as == accounts_of(ix, call)
           p == ix.remaining[call.program]
           x == call.data
<1>1. /\ IsSeq(as) /\ Len(as) = Len(call.accounts)
      /\ titles(title, p, as, x)
  BY SummarizedCalls DEF titles
<1>2. call \in InnerCall /\ IsSeq(call.accounts)
  BY DecodedSequences
<1>3. x.amount \in Nat /\ x.decimals \in Nat
  BY <1>2 DEF InnerCall
<1>4. Len(call.accounts) \in Nat /\ DOMAIN call.accounts = 1..Len(call.accounts)
  BY <1>2, SeqPlaces
<1>5. 2 \in DOMAIN call.accounts => as[2] = ix.remaining[call.accounts[2]]
  BY DEF accounts_of
<1>6. \/ p = "System" /\ x.disc = 2 /\ x.len >= 12
      \/ p \in {"Token", "Token-2022"} /\ x.disc = 12 /\ x.len >= 10 /\ Len(call.accounts) >= 3
  BY DEF is_transfer
<1>7. decimals_of(ix, call) = IF p = "System" THEN SolDecimals
                              ELSE IF ix.remaining[call.accounts[2]] \in DOMAIN KnownMints
                                   THEN KnownMints[ix.remaining[call.accounts[2]]].decimals ELSE x.decimals
  BY DEF decimals_of
<1> HIDE DEF as, p, x
<1>8. CASE p = "System" /\ x.disc = 2 /\ x.len >= 12
  <2>1. decimals_of(ix, call) = SolDecimals /\ titles(title, "System", as, x)
    BY <1>1, <1>7, <1>8
  <2>2. sol_data(x)
    BY <1>3, <1>8 DEF sol_data
  <2>3. announces(title, x.amount, SolDecimals)
    BY <2>1, <2>2, SystemSends
  <2> QED  BY <2>1, <2>3 DEF x
<1>9. CASE p \in {"Token", "Token-2022"} /\ x.disc = 12 /\ x.len >= 10 /\ Len(call.accounts) >= 3
  <2> DEFINE l == Len(call.accounts)
  <2>0. l \in Nat /\ l >= 3 /\ DOMAIN call.accounts = 1..l
    BY <1>4, <1>9
  <2> HIDE DEF l
  <2>1. as[2] = ix.remaining[call.accounts[2]]
    <3>1. 2 \in 1..l
      BY <2>0
    <3> QED  BY <1>5, <2>0, <3>1
  <2>2. p # "System"
    BY <1>9
  <2>3. decimals_of(ix, call) = token_decimals(as[2], x)
    BY <1>7, <2>1, <2>2 DEF token_decimals
  <2>4. token_data(as, x)
    BY <1>1, <1>3, <1>9 DEF token_data
  <2>5. p \in {"Token", "Token-2022"} /\ titles(title, p, as, x)
    BY <1>1, <1>9
  <2>6. announces(title, x.amount, token_decimals(as[2], x))
    BY <2>4, <2>5, TokenSends
  <2> QED  BY <2>3, <2>6 DEF x
<1> QED  BY <1>6, <1>8, <1>9

\* The title of a call that sends is on the sheet, of three calls or fewer.
LEMMA TitlesTold ==
    ASSUME NEW sum, told(sum), NEW ixs, summarized(sum.instructions, ixs),
           Len(calls(sum.instructions)) <= 3,
           NEW c \in ToSet(calls(sum.instructions)), c.title[1] = "Send"
    PROVE  c.title \in titles_shown
<1> DEFINE s == sum.instructions
           all == calls(s)
           many == Len(all)
           S == {i \in DOMAIN all : all[i].title[1] = "Send"}
           lines == primaryRows(s)
<1>1. IsSeq(all)
  BY CallsAre
<1>2. many \in Nat /\ DOMAIN all = 1..many /\ many <= 3 /\ ToSet(all) = {all[i] : i \in DOMAIN all}
  BY <1>1, SeqPlaces
<1>3. PICK k \in DOMAIN all : c = all[k]
  BY <1>2
<1>4. k \in S
  BY <1>3
<1>5. PICK m \in S : FirstAt(all, S) = <<all[m]>>
  BY <1>1, <1>4, FirstAtIs
<1>6. confirmHero(s).titles = <<all[m].title>>
  <2> DEFINE send == first_of(calls(s), LAMBDA e : e.title[1] = "Send")
  <2>1. send = <<all[m]>>
    BY <1>1, <1>5, FirstSend
  <2>2. confirmHero(s) = [titles |-> <<send[1].title>>, to |-> pickToSubtitle(send[1])]
    BY <2>1 DEF confirmHero
  <2> HIDE DEF send, all
  <2> QED  BY <2>1, <2>2
<1>7. sheet.hero = confirmHero(s) /\ sheet.primary = lines
  BY DEF told
<1>8. CASE many = 1
  <2>1. k = 1 /\ m = 1
    <3>1. k \in 1..1 /\ m \in 1..1
      BY <1>2, <1>8
    <3> QED  BY <3>1
  <2>2. sheet.hero.titles = <<c.title>>
    BY <1>3, <1>6, <1>7, <2>1
  <2>3. ToSet(<<c.title>>) = {c.title}
    BY TupleSeqs
  <2> QED  BY <2>2, <2>3 DEF titles_shown
<1>9. CASE many # 1
  <2>1. many > 1
    <3>1. k \in 1..many
      BY <1>2
    <3> HIDE DEF many
    <3> QED  BY <1>2, <1>9, <3>1
  <2>2. DOMAIN lines = DOMAIN all /\ lines[k] = action_row(all, k)
    BY <2>1, PrimaryIs
  <2>3. lines[k].label = "Action" /\ lines[k].title = c.title
    BY <1>2, <1>3, <2>2 DEF action_row
  <2> QED  BY <1>7, <2>2, <2>3 DEF titles_shown
<1> QED  BY <1>8, <1>9

\* The amount of every transfer can be read from the sheet.
LEMMA TransfersTold ==
    ASSUME NEW sum, told(sum), tx \in Transactions, sum.instructions = summaries(tx),
           Len(calls(summaries(tx))) <= 3, NEW t \in transfers, is_transfer(t[1], t[2])
    PROVE  \E title \in titles_shown :
              /\ title[1] = "Send" /\ title[2] = "units"
              /\ reads(Tail(title), decimals_of(t[1], t[2])) = t[2].data.amount
<1> DEFINE s == summaries(tx)
           ixs == tx.instructions
<1>1. summarized(s, ixs)
  BY SummariesAre
<1>A. PICK n \in DOMAIN ixs : /\ ixs[n].kind \in Spends
                               /\ \E i \in DOMAIN ixs[n].inner : t = <<ixs[n], ixs[n].inner[i]>>
  BY DEF transfers
<1>2. PICK i \in DOMAIN ixs[n].inner : t = <<ixs[n], ixs[n].inner[i]>>
  BY <1>A
<1> DEFINE ix == ixs[n]
           call == ix.inner[i]
           c == summarizeInner(ix)[i]
<1>3. ix \in Decoded /\ s[n] = parseInstruction(ix) /\ DOMAIN s = DOMAIN ixs /\ i \in DOMAIN ix.inner
  BY <1>1, <1>2, <1>A DEF summarized
<1>4. t[1] = ix /\ t[2] = call
  BY <1>2
<1>5. c \in ToSet(calls(s))
  <2>1. s[n].inner = summarizeInner(ix)
    BY <1>A, <1>3, SummaryIs
  <2>2. IsSeq(summarizeInner(ix)) /\ i \in DOMAIN summarizeInner(ix)
    BY <1>3, SummarizedCalls
  <2>3. c \in ToSet(summarizeInner(ix))
    BY <2>2, SeqPlaces
  <2>4. ToSet(calls(s)) = UNION {ToSet(s[j].inner) : j \in DOMAIN s}
    BY <1>1, CallsAre
  <2> QED  BY <1>A, <1>3, <2>1, <2>3, <2>4
<1> HIDE DEF ix, call, c, s
<1>6. is_transfer(ix, call)
  BY <1>4
<1>7. announces(c.title, call.data.amount, decimals_of(ix, call))
  BY <1>3, <1>6, TransferTitle DEF call, c
<1>8. c.title \in titles_shown
  <2>1. summarized(sum.instructions, ixs) /\ Len(calls(sum.instructions)) <= 3
        /\ c \in ToSet(calls(sum.instructions))
    BY <1>1, <1>5 DEF s
  <2>2. c.title[1] = "Send"
    BY <1>7 DEF announces
  <2> HIDE DEF ixs
  <2> QED  BY <2>1, <2>2, TitlesTold
<1> QED  BY <1>4, <1>7, <1>8 DEF announces

\* The warning and the risk fit each other.
LEMMA CalloutTold ==
    ASSUME NEW sum, told(sum), tx \in Transactions, sum.instructions = summaries(tx)
    PROVE  CalloutFits
<1> DEFINE s == summaries(tx)
           K == kinds(s)
           S == {i \in 1..5 : Gravest[i] \in K}
<1>1. summarized(s, tx.instructions)
  BY SummariesAre
<1>2. sheet.callout = FirstAt(Gravest, S) /\ sheet.risk = classifySignRisk(s)
  BY FirstGrave DEF told
<1>3. \A n \in DOMAIN tx.instructions : tx.instructions[n].kind \in K
  BY <1>1, SummaryIs DEF summarized, kinds
<1>4. /\ Gravest[1] = "ClearAuthority" /\ Gravest[2] = "ClearWalletPolicy" /\ Gravest[3] = "SetWalletPolicy"
      /\ Gravest[4] = "ExecuteWithAuthority" /\ Gravest[5] = "ExecuteWithAuthorityUsingPolicies"
      /\ IsSeq(Gravest) /\ DOMAIN Gravest = 1..5
  <2>1. SeqOver(Gravest, {"ClearAuthority", "ClearWalletPolicy", "SetWalletPolicy",
                       "ExecuteWithAuthority", "ExecuteWithAuthorityUsingPolicies"})
    BY DEF Gravest, SeqOver
  <2>2. IsSeq(Gravest)
    BY <2>1, SeqOfSet
  <2> QED  BY <2>2 DEF Gravest
<1>5. Spends \cap K = {} <=> ownerSpendRisk(s) = "none"
  <2> DEFINE spends == {n \in DOMAIN s : s[n].kind \in Spends}
  <2>1. spends = {} <=> Spends \cap K = {}
    BY DEF kinds
  <2>2. spends = {} => ownerSpendRisk(s) = "none"
    BY DEF ownerSpendRisk
  <2>3. spends # {} => ownerSpendRisk(s) \in {"critical", "elevated"}
    BY DEF ownerSpendRisk
  <2> QED  BY <2>1, <2>2, <2>3
<1>6. ownerSpendRisk(s) \in {"none", "critical", "elevated"}
  BY DEF ownerSpendRisk
<1>7. /\ S = {} => FirstAt(Gravest, S) = << >>
      /\ S # {} => \E n \in S : FirstAt(Gravest, S) = <<Gravest[n]>> /\ \A i \in S : n <= i
  <2>1. S \subseteq DOMAIN Gravest
    BY <1>4
  <2> HIDE DEF S
  <2> QED  BY <1>4, <2>1, FirstAtIs
<1>8. S = {} <=> K \cap {"ClearAuthority", "ClearWalletPolicy", "SetWalletPolicy"} = {} /\ Spends \cap K = {}
  BY <1>4 DEF Spends
<1>9. classifySignRisk(s) = "normal"
        <=> K \cap {"ClearAuthority", "ClearWalletPolicy", "SetWalletPolicy"} = {} /\ ownerSpendRisk(s) = "none"
  <2> HIDE DEF K
  <2>1. classifySignRisk(s)
          = IF ownerSpendRisk(s) = "critical" \/ \E k \in K : isCriticalInstruction(k) THEN "critical"
            ELSE IF ownerSpendRisk(s) = "elevated" \/ \E k \in K : isElevatedInstruction(k) THEN "elevated"
            ELSE "normal"
    BY DEF classifySignRisk, K
  <2>2. (\E k \in K : isCriticalInstruction(k)) <=> K \cap {"ClearAuthority", "ClearWalletPolicy"} # {}
    BY DEF isCriticalInstruction
  <2>3. (\E k \in K : isElevatedInstruction(k)) <=> "SetWalletPolicy" \in K
    BY DEF isElevatedInstruction
  <2> QED  BY <1>6, <2>1, <2>2, <2>3
<1>10. sheet.callout = << >> <=> sheet.risk = "normal"
  <2>1. \A x : <<x>> # << >>
    OBVIOUS
  <2>2. sheet.callout = << >> <=> S = {}
    BY <1>2, <1>7, <2>1
  <2> QED  BY <1>2, <1>5, <1>8, <1>9, <2>2
<1>11. ASSUME NEW n \in DOMAIN tx.instructions, isCriticalInstruction(tx.instructions[n].kind)
       PROVE  sheet.risk = "critical" /\ isCriticalInstruction(sheet.callout[1])
  <2> DEFINE k == tx.instructions[n].kind
  <2>1. k \in K /\ k \in {"ClearAuthority", "ClearWalletPolicy"}
    BY <1>3, <1>11 DEF isCriticalInstruction
  <2>2. sheet.risk = "critical"
    BY <1>2, <1>11, <2>1 DEF classifySignRisk
  <2>3. 1 \in S \/ 2 \in S
    BY <1>4, <2>1
  <2>4. PICK m \in S : FirstAt(Gravest, S) = <<Gravest[m]>> /\ \A i \in S : m <= i
    BY <1>7, <2>3
  <2>5. m \in {1, 2}
    <3>1. m \in 1..5 /\ m <= 2
      BY <2>3, <2>4
    <3> QED  BY <3>1
  <2>6. sheet.callout[1] = Gravest[m]
    BY <1>2, <2>4
  <2> QED  BY <1>4, <2>2, <2>5, <2>6 DEF isCriticalInstruction
<1> QED  BY <1>10, <1>11 DEF CalloutFits

\* No detail of an instruction is left out.
LEMMA DetailsTold ==
    ASSUME NEW sum, told(sum), tx \in Transactions, sum.instructions = summaries(tx),
           NEW n \in DOMAIN tx.instructions
    PROVE  ToSet(details_of(tx.instructions[n])) \subseteq ToSet(sheet.primary) \cup ToSet(sheet.advanced)
<1> DEFINE primary == primaryRows(sum.instructions)
           ixs == tx.instructions
<1>1. sheet.primary = primary /\ sheet.advanced = advancedRows(sum, primary)
  BY DEF told
<1>2. summarized(sum.instructions, ixs)
  BY SummariesAre
<1> HIDE DEF primary
<1>3. ToSet(details_of(ixs[n])) \ ToSet(primary) \subseteq ToSet(advancedRows(sum, primary))
  BY <1>2, AdvancedHolds
<1> QED  BY <1>1, <1>3

\* The sheet of a transaction tells of it in full.
LEMMA Told ==
    ASSUME NEW sum, sheet = Sheet(sum), tx \in Transactions, sum.instructions = summaries(tx)
    PROVE  ToldInFull
<1>1. told(sum)
  BY SheetIs
<1>2. summarized(summaries(tx), tx.instructions)
  BY SummariesAre
<1>3. Len(calls(summaries(tx))) <= 3 =>
         \A t \in {p \in transfers : is_transfer(p[1], p[2])} :
            \E title \in titles_shown :
               /\ title[1] = "Send" /\ title[2] = "units"
               /\ reads(Tail(title), decimals_of(t[1], t[2])) = t[2].data.amount
  BY <1>1, TransfersTold
<1>4. \A n \in DOMAIN calls(summaries(tx)) :
         values(pickToSubtitle(calls(summaries(tx))[n])) \subseteq places_shown
  BY <1>1, <1>2, PlacesTold
<1>5. \A n \in DOMAIN tx.instructions :
         ToSet(details_of(tx.instructions[n])) \subseteq ToSet(sheet.primary) \cup ToSet(sheet.advanced)
  BY <1>1, DetailsTold
<1>6. CalloutFits
  BY <1>1, CalloutTold
<1> QED  BY <1>3, <1>4, <1>5, <1>6 DEF ToldInFull

-----------------------------------------------------------------------------
(* What is reviewed is what is signed. *)

(* The sheet is that of the transaction, drawn for the wallet at hand or   *)
(* for none.                                                               *)
DrawnFor ==
    signer # "none" /\ evaluates(tx, signer) /\ sheet = Sheet(evaluatePolicy(tx, signer))

Drawn == sheet = Sheet(previewPolicy(tx)) \/ DrawnFor

ReviewInv ==
    /\ tx \in Transactions
    /\ asked \in {"new", "shown", "agreed", "signed", "refused"}
    /\ signer \in Owners \cup {"none"}
    /\ asked = "new" => signer = "none" /\ sheet = NoSheet
    /\ asked \notin {"new", "refused"} \/ sheet # NoSheet => Drawn
    /\ asked \in {"shown", "agreed"} /\ signer # "none" => DrawnFor
    /\ asked = "signed" => evaluates(tx, signer)

\* It holds at first.
LEMMA ReviewStarts == ReviewInit => ReviewInv
BY DEF ReviewInit, ReviewInv

\* Every step keeps it.
LEMMA ReviewKeeps == ReviewInv /\ [ReviewNext]_review => ReviewInv'
<1> SUFFICES ASSUME ReviewInv, [ReviewNext]_review PROVE ReviewInv'
  OBVIOUS
<1>0. \A w \in Owners : w # "none"
  BY ReviewAssumption
<1>1. CASE ReviewCold
  BY <1>1 DEF ReviewCold, Ask, Refuse, ReviewInv, Drawn
<1>2. CASE AnswerSheet
  BY <1>2 DEF AnswerSheet, ReviewInv, Drawn, DrawnFor
<1>3. ASSUME NEW w \in Owners, ReviewWarm(w) PROVE ReviewInv'
  <2>1. tx' = tx /\ tx \in Transactions /\ signer' = w /\ sheet = NoSheet
    BY <1>3 DEF ReviewWarm, ReviewInv
  <2>2. CASE evaluates(tx, w)
    <3>1. asked' = "shown" /\ sheet' = Sheet(evaluatePolicy(tx, w))
      BY <1>3, <2>2 DEF ReviewWarm, Ask
    <3>2. DrawnFor' /\ Drawn'
      BY <1>0, <2>1, <2>2, <3>1 DEF Drawn, DrawnFor
    <3> QED  BY <2>1, <3>1, <3>2 DEF ReviewInv
  <2>3. CASE ~evaluates(tx, w)
    <3>1. asked' = "refused" /\ sheet' = sheet
      BY <1>3, <2>3 DEF ReviewWarm, Refuse
    <3> QED  BY <2>1, <3>1 DEF ReviewInv
  <2> QED  BY <2>2, <2>3
<1>4. ASSUME NEW w \in Owners, SignWith(w) PROVE ReviewInv'
  <2>1. /\ tx' = tx /\ tx \in Transactions /\ sheet' = sheet /\ signer' = w /\ w # "none"
        /\ asked = "agreed" /\ signer \in {"none", w}
        /\ asked' = IF signer = w \/ evaluates(tx, w) THEN "signed" ELSE "refused"
    BY <1>0, <1>4 DEF SignWith, ReviewInv
  <2>2. Drawn /\ (signer = w => DrawnFor)
    BY <2>1 DEF ReviewInv
  <2>3. signer = w => evaluates(tx, w)
    BY <2>2 DEF DrawnFor
  <2>4. Drawn'
    <3>1. CASE signer = w
      BY <2>1, <2>2, <3>1 DEF Drawn, DrawnFor
    <3>2. CASE signer = "none"
      BY <2>1, <2>2, <3>2 DEF Drawn, DrawnFor
    <3> QED  BY <2>1, <3>1, <3>2
  <2> QED  BY <2>1, <2>3, <2>4 DEF ReviewInv
<1>5. CASE UNCHANGED review
  BY <1>5 DEF review, ReviewInv, Drawn, DrawnFor
<1> QED  BY <1>1, <1>2, <1>3, <1>4, <1>5 DEF ReviewNext

\* A sheet that is drawn tells of the transaction in full.
LEMMA DrawnTells == ASSUME ReviewInv, Drawn PROVE ToldInFull
<1>1. tx \in Transactions
  BY DEF ReviewInv
<1>2. previewPolicy(tx).instructions = summaries(tx)
  BY DEF previewPolicy
<1>3. evaluatePolicy(tx, signer).instructions = summaries(tx)
  BY DEF evaluatePolicy, previewPolicy
<1>4. CASE sheet = Sheet(previewPolicy(tx))
  BY <1>1, <1>2, <1>4, Told
<1>5. CASE sheet = Sheet(evaluatePolicy(tx, signer))
  BY <1>1, <1>3, <1>5, Told
<1> QED  BY <1>4, <1>5 DEF Drawn, DrawnFor

\* What is signed is what was shown.
LEMMA SignedShown == ASSUME ReviewInv, asked = "signed" PROVE SignedAsShown
<1> DEFINE ixs == tx.instructions
           s == summaries(tx)
           named == {ixs[n].authority : n \in {k \in DOMAIN ixs : ixs[k].kind # "Execute"}}
           S == {i \in DOMAIN s : s[i].authority # "none"}
<1>1. tx \in Transactions /\ evaluates(tx, signer) /\ Drawn
  BY DEF ReviewInv
<1>2. summarized(s, ixs)
  BY <1>1, SummariesAre
<1>3. IsSeq(s) /\ DOMAIN s = DOMAIN ixs
  BY <1>2 DEF summarized
<1>4. ASSUME NEW n \in DOMAIN ixs
      PROVE  /\ ixs[n].kind # "SetAuthority" /\ ixs[n].authority # "none"
             /\ s[n].authority = IF ixs[n].kind = "Execute" THEN "none" ELSE ixs[n].authority
             /\ s[n].authority \in {"none", signer}
  <2>1. ixs[n] \in Decoded /\ s[n] = parseInstruction(ixs[n])
    BY <1>2, <1>4 DEF summarized
  <2>2. ixs[n].kind # "SetAuthority" /\ s[n].authority \in {"none", signer}
    BY <1>1, <1>4 DEF evaluates, previewable
  <2>3. ixs[n].authority \in Addresses
    BY <2>1 DEF Decoded
  <2>4. ixs[n].authority # "none"
    BY <2>3, ReviewAssumption
  <2>5. s[n].authority = IF ixs[n].kind \in {"SetAuthority", "Execute"} THEN "none" ELSE ixs[n].authority
    BY <2>1, SummaryIs
  <2> QED  BY <2>2, <2>4, <2>5
<1>5. signer \in tx.signers
  BY <1>1 DEF evaluates
<1>6. named \subseteq {signer}
  BY <1>4
<1>7. named # {} => S # {}
  BY <1>3, <1>4
<1>8. S # {} => first_authority(s) = signer
  <2>1. SUFFICES ASSUME S # {} PROVE first_authority(s) = signer
    OBVIOUS
  <2> DEFINE with == first_of(s, LAMBDA ix : ix.authority # "none")
  <2>2. with = FirstAt(s, S)
    BY <1>3, FirstNamed
  <2>3. PICK n \in S : FirstAt(s, S) = <<s[n]>>
    BY <1>3, <2>1, FirstAtIs
  <2>4. s[n].authority = signer
    BY <1>3, <1>4
  <2>5. with = <<s[n]>> /\ with # << >>
    BY <2>2, <2>3
  <2>6. first_authority(s) = IF with = << >> THEN "none" ELSE with[1].authority
    BY DEF first_authority
  <2> HIDE DEF with
  <2> QED  BY <2>4, <2>5, <2>6
<1>9. first_authority(s) = signer => previewPolicy(tx) = evaluatePolicy(tx, signer)
  BY DEF previewPolicy, evaluatePolicy
<1>10. named # {} => sheet = Sheet(evaluatePolicy(tx, signer))
  <2> HIDE DEF named, S
  <2> QED  BY <1>1, <1>7, <1>8, <1>9 DEF Drawn, DrawnFor
<1> QED  BY <1>5, <1>6, <1>10 DEF SignedAsShown

(* The sheet tells of everything that is signed, and what is signed is     *)
(* what it told, also when the wallet came back only after the user had    *)
(* agreed: each amount is read back from its digits, each destination is   *)
(* named, no fact of an instruction is left out, and the warning fits      *)
(* (confirmHero, primaryRows, advancedRows, formatUnits, handleSign).      *)
THEOREM AlwaysSheetTells == ReviewSpec => []SheetTells
<1>1. ReviewInv => SheetTells
  <2> SUFFICES ASSUME ReviewInv PROVE SheetTells
    OBVIOUS
  <2>1. sheet # NoSheet => ToldInFull
    BY DrawnTells DEF ReviewInv
  <2>2. asked = "signed" => SignedAsShown
    BY SignedShown
  <2> QED  BY <2>1, <2>2 DEF SheetTells
<1> QED  BY <1>1, ReviewStarts, ReviewKeeps, PTL DEF ReviewSpec
=============================================================================
