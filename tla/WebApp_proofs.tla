---------------------------- MODULE WebApp_proofs ----------------------------
(***************************************************************************)
(* Proofs about the web app.                                               *)
(*                                                                         *)
(* Its transactions, for any runs and any number of attempts: SpendsOnce,  *)
(* from an invariant that relates a run's phase to the attempts it has     *)
(* sent and to the verdicts on them, and ShownIsTrue, from one that says   *)
(* what the cache, the snapshot and the chain have to do with one another  *)
(* while a single patch waits for its verdict.  What the cache may count   *)
(* too early is what landed ahead of its answer, and nothing else.         *)
(*                                                                         *)
(* Its panel for the policy, for any policies, tokens, amounts and number  *)
(* of saves: PanelInv says of an open form, and of a save it has called,   *)
(* that they hold what the policy of the chain has wherever their user     *)
(* changed nothing, so long as no other policy was written; and of a patch *)
(* that it was computed from the view it replaced.  A form holds caps as   *)
(* text: that the text of a cap reads as that cap (RoundTrip) needs the    *)
(* powers of ten, a recursive function whose equations FoldFacts derives.  *)
(*                                                                         *)
(* Its pages that pay, for any wallets, assets and number of payments:     *)
(* PagesInv relates the form, the stage, the sheet, the decision it waits  *)
(* for and the abort controller to the payments: what is under way pays    *)
(* what the form holds but for what its user edited since (FormIsPaid),    *)
(* and as long as no form was reset while it was busy, one thing at a      *)
(* time is under way and the form says so (OneAtATime).                    *)
(*                                                                         *)
(* And a tap, for any messages, policies and slots: TapInv keeps the       *)
(* compiled message and the challenge from one await to the next.  What a  *)
(* compiled message lists (ListsAll) is a fold over its mentions; the      *)
(* roles the runtime gives, the program's calls and the preview follow     *)
(* from that list naming every account once.  The search over the sysvar   *)
(* is right by the length of what is left to search (FindsBetween).  A     *)
(* saved policy means what it says because the number a slice of bytes     *)
(* writes is the one with those digits (Positional, of FoldFacts), and it  *)
(* can be read back because validation and decoding count the same memory, *)
(* list by list (Allocates).                                               *)
(***************************************************************************)
EXTENDS AppTransactions, PolicyPanel, PaymentPages, TapPipeline, FoldFacts

RunPhases  == {"idle", "tapping", "asking", "signing", "sending", "taken", "sent", "unsent", "gone"}
RunType == [mode : {"policy", "authority"}, phase : RunPhases, n : 1 .. MaxAttempts]
Shown   == [Txs -> Nat] \cup {NotLoaded}

TypeOK ==
    /\ query \in {"balance", "collectibles", "activity", "policy"}
    /\ run \in [Runs -> RunType]
    /\ chain \in [Txs -> {"none", "inflight", "landed", "dead"}]
    /\ verdict \in [Txs -> {"none", "waiting", "ok", "error", "gone"}]
    /\ truth \in [Txs -> Nat]
    /\ cache \in Shown
    /\ pending \in SUBSET Txs
    /\ snap \in [Txs -> [value : Shown, pending : SUBSET Txs]]
    /\ fetch \in [value : Shown, current : BOOLEAN, going : BOOLEAN]
    /\ calm \in BOOLEAN
    /\ lost \in SUBSET Runs

-----------------------------------------------------------------------------
(* What a run has sent.                                                    *)

unsent(r) == run[r].phase \notin {"taken", "sent", "unsent", "gone"}

\* Only a mutation tries again, and only a send is approved.
Attempts ==
    \A r \in Runs :
        /\ run[r].phase = "idle" => run[r].n = 1
        /\ run[r].phase = "asking" => ~mutation
        /\ run[r].phase \in {"tapping", "asking"} /\ ~mutation => run[r].n = 1

\* Nothing is sent ahead of the current attempt, nor by it before it has
\* ended; an earlier one only if it lost the answer.
AttemptsSent ==
    \A r \in Runs : \A k \in 1 .. MaxAttempts :
        chain[<<r, k>>] # "none" =>
            /\ k <= run[r].n
            /\ k = run[r].n => ~unsent(r)
            /\ ~mutation \/ r \notin lost => k = run[r].n
            /\ r \notin lost => run[r].phase \in {"taken", "sent", "gone"}

\* Only the last attempt of a run is patched, and only when it is answered.
Answers ==
    \A r \in Runs : \A k \in 1 .. MaxAttempts :
        verdict[<<r, k>>] # "none" => run[r].phase = "sent" /\ k = run[r].n

-----------------------------------------------------------------------------
LEMMA RunKept ==
    ASSUME TypeOK, NEW r \in Runs, NEW mode \in {"policy", "authority"},
           NEW ph \in RunPhases, NEW n \in 1 .. MaxAttempts,
           run' = [run EXCEPT ![r] = Run(mode, ph, n)]
    PROVE  run' \in [Runs -> RunType]
<1>1. Run(mode, ph, n) \in RunType
  BY DEF Run, RunType
<1> QED  BY <1>1 DEF TypeOK

LEMMA CurrentTx ==
    ASSUME TypeOK, NEW r \in Runs
    PROVE  /\ current(r) \in Txs
           /\ run[r].mode \in {"policy", "authority"}
           /\ run[r].n \in 1 .. MaxAttempts
           /\ run[r].phase \in RunPhases
<1>1. run[r] \in RunType
  BY DEF TypeOK
<1> QED  BY <1>1 DEF current, Txs, RunType

LEMMA JustType ==
    ASSUME NEW t \in Txs
    PROVE  Just(t) \in [Txs -> Nat] /\ \A u \in Txs : Just(t)[u] = IF u = t THEN 1 ELSE 0
  BY DEF Just, Nothing

\* What a transaction does to what is shown.
LEMMA EffectType ==
    ASSUME TypeOK, NEW t \in Txs, NEW value \in [Txs -> Nat]
    PROVE  /\ effect(value, t) \in [Txs -> Nat]
           /\ query = "policy" => effect(value, t) = Just(t)
           /\ query # "policy" =>
                 \A u \in Txs : effect(value, t)[u] =
                     IF u # t THEN value[u] ELSE IF query = "balance" THEN value[t] + 1 ELSE 1
<1>1. Just(t) \in [Txs -> Nat]
  BY JustType
<1>2. CASE query = "policy"
  BY <1>1, <1>2 DEF effect
<1>3. CASE query = "balance"
  <2>1. effect(value, t) = [value EXCEPT ![t] = @ + 1]
    BY <1>3 DEF effect
  <2> QED  BY <1>3, <2>1
<1>4. CASE query \in {"collectibles", "activity"}
  <2>1. effect(value, t) = [value EXCEPT ![t] = 1]
    BY <1>4 DEF effect
  <2> QED  BY <1>4, <2>1
<1> QED  BY <1>2, <1>3, <1>4 DEF TypeOK

LEMMA InitType == AppInit => TypeOK
<1> SUFFICES ASSUME AppInit PROVE TypeOK
  OBVIOUS
<1>1. Run("policy", "idle", 1) \in RunType
  BY AttemptsAssumption DEF Run, RunPhases, RunType
<1>2. run \in [Runs -> RunType]
  BY <1>1 DEF AppInit
<1>3. NoSnap \in [value : Shown, pending : SUBSET Txs]
  BY DEF NoSnap, Shown
<1>4. NoFetch \in [value : Shown, current : BOOLEAN, going : BOOLEAN]
  BY DEF NoFetch, Shown
<1>5. Nothing \in [Txs -> Nat]
  BY DEF Nothing
<1> QED  BY <1>2, <1>3, <1>4, <1>5 DEF AppInit, TypeOK, Shown

\* What a run becomes after a failed attempt.
LEMMA NextAttempt ==
    ASSUME TypeOK, NEW r \in Runs, NEW retry \in BOOLEAN, next_attempt(r, retry)
    PROVE  \/ /\ retry /\ run[r].n + 1 \in 1 .. MaxAttempts
              /\ run' = [run EXCEPT ![r] = Run(run[r].mode, first_phase(run[r].mode), run[r].n + 1)]
           \/ run' = [run EXCEPT ![r] = Run(run[r].mode, "unsent", run[r].n)]
<1>1. run[r].n \in 1 .. MaxAttempts
  BY CurrentTx
<1>2. CASE retry /\ run[r].n < MaxAttempts
  BY <1>1, <1>2, AttemptsAssumption DEF next_attempt
<1>3. CASE ~(retry /\ run[r].n < MaxAttempts)
  BY <1>1, <1>3, AttemptsAssumption DEF next_attempt
<1> QED  BY <1>2, <1>3

-----------------------------------------------------------------------------
(* Types are kept.                                                         *)

LEMMA TypeKept ==
    ASSUME TypeOK, Attempts, [AppNext]_app
    PROVE  TypeOK'
<1> USE DEF RunPhases
<1>1. ASSUME NEW r \in Runs, Start(r) PROVE TypeOK'
  <2>1. PICK mode \in {"policy", "authority"} :
            run' = [run EXCEPT ![r] = Run(mode, first_phase(mode), 1)]
    BY <1>1 DEF Start
  <2>2. first_phase(mode) \in RunPhases /\ 1 \in 1 .. MaxAttempts
    BY AttemptsAssumption DEF first_phase
  <2>3. run' \in [Runs -> RunType]
    BY <2>1, <2>2, RunKept
  <2> QED  BY <1>1, <2>3 DEF Start, TypeOK, page, Shown
<1>2. ASSUME NEW r \in Runs, NEW retry \in BOOLEAN, next_attempt(r, retry)
      PROVE  run' \in [Runs -> RunType]
  <2>1. first_phase(run[r].mode) \in RunPhases /\ "unsent" \in RunPhases
    BY DEF first_phase
  <2> QED  BY <1>2, <2>1, NextAttempt, CurrentTx, RunKept
<1>3. ASSUME NEW r \in Runs, NEW ph \in RunPhases, goto(r, ph)
      PROVE  run' \in [Runs -> RunType]
  BY <1>3, CurrentTx, RunKept DEF goto
<1>4. ASSUME NEW r \in Runs, NEW network \in BOOLEAN, failed_attempt(r, network)
      PROVE  run' \in [Runs -> RunType]
  BY <1>4, <1>2 DEF failed_attempt, mutation
<1>5. ASSUME NEW r \in Runs, AttemptFails(r) \/ SendRefused(r) PROVE TypeOK'
  <2>1. run' \in [Runs -> RunType]
    BY <1>5, <1>4 DEF AttemptFails, SendRefused
  <2> QED  BY <1>5, <2>1 DEF AttemptFails, SendRefused, TypeOK, page, Shown
<1>6. ASSUME NEW r \in Runs, PolicyDenies(r) PROVE TypeOK'
  <2>1. run' \in [Runs -> RunType]
    BY <1>6, <1>3 DEF PolicyDenies
  <2> QED  BY <1>6, <2>1 DEF PolicyDenies, TypeOK, page, Shown
<1>7. ASSUME NEW r \in Runs, Signed(r) PROVE TypeOK'
  <2>1. run' \in [Runs -> RunType]
    BY <1>7, <1>3 DEF Signed
  <2> QED  BY <1>7, <2>1 DEF Signed, TypeOK, page, Shown
<1>8. ASSUME NEW r \in Runs, AnswerLost(r) PROVE TypeOK'
  <2>1. run' \in [Runs -> RunType]
    BY <1>8, <1>4 DEF AnswerLost
  <2>2. calm' \in BOOLEAN /\ lost' \in SUBSET Runs
    BY <1>8 DEF AnswerLost, TypeOK
  <2> QED  BY <1>8, <2>1, <2>2 DEF AnswerLost, TypeOK, page, Shown
<1>9. ASSUME NEW t \in Txs, Die(t) PROVE TypeOK'
  BY <1>9 DEF Die, TypeOK, page, Shown
<1>10. ASSUME NEW t \in Txs, Land(t) PROVE TypeOK'
  <2>1. truth' \in [Txs -> Nat] /\ chain' \in [Txs -> {"none", "inflight", "landed", "dead"}]
    BY <1>10, EffectType DEF Land, TypeOK
  <2>2. fetch' \in [value : Shown, current : BOOLEAN, going : BOOLEAN] /\ calm' \in BOOLEAN
    BY <1>10 DEF Land, TypeOK
  <2> QED  BY <1>10, <2>1, <2>2 DEF Land, TypeOK, page, Shown
<1>11. NoSnap \in [value : Shown, pending : SUBSET Txs]
  BY DEF NoSnap, Shown
<1>12. NoFetch \in [value : Shown, current : BOOLEAN, going : BOOLEAN]
  BY DEF NoFetch, Shown
<1>13. ASSUME NEW t \in Txs, Confirmed(t) PROVE TypeOK'
  BY <1>13, <1>11 DEF Confirmed, TypeOK, Shown
<1>14. ASSUME NEW t \in Txs, Rejected(t) PROVE TypeOK'
  <2>1. snap[t] \in [value : Shown, pending : SUBSET Txs]
    BY DEF TypeOK
  <2>2. cache' \in Shown /\ pending' \in SUBSET Txs
    BY <1>14, <2>1 DEF Rejected, restored, TypeOK
  <2>3. verdict' \in [Txs -> {"none", "waiting", "ok", "error", "gone"}]
        /\ snap' \in [Txs -> [value : Shown, pending : SUBSET Txs]] /\ calm' \in BOOLEAN
    BY <1>14, <1>11 DEF Rejected, TypeOK
  <2> QED  BY <1>14, <2>2, <2>3 DEF Rejected, TypeOK, Shown
<1>15. CASE FetchStart
  <2>1. PICK missed : fetch' = [value |-> [t \in Txs |-> IF t \in missed THEN 0 ELSE truth[t]],
                                going |-> TRUE, current |-> missed = {} /\ unsettled = {}]
    BY <1>15 DEF FetchStart
  <2>2. [t \in Txs |-> IF t \in missed THEN 0 ELSE truth[t]] \in [Txs -> Nat]
    BY DEF TypeOK
  <2>3. fetch' \in [value : Shown, current : BOOLEAN, going : BOOLEAN]
    BY <2>1, <2>2 DEF Shown
  <2> QED  BY <1>15, <2>3 DEF FetchStart, TypeOK, page, Shown
<1>16. CASE FetchDone
  <2>1. fetch.value \in Shown /\ fetch.current \in BOOLEAN
    BY DEF TypeOK
  <2> QED  BY <1>16, <2>1, <1>12 DEF FetchDone, TypeOK, Shown
<1>17. CASE Reload
  <2>1. ASSUME NEW r \in Runs
        PROVE  run'[r] \in RunType
    <3>1. run[r] \in RunType
      BY DEF TypeOK
    <3> QED  BY <1>17, <3>1 DEF Reload, Run, RunType
  <2>2. run' \in [Runs -> RunType]
    BY <1>17, <2>1 DEF Reload
  <2>3. verdict' \in [Txs -> {"none", "waiting", "ok", "error", "gone"}]
    BY <1>17 DEF Reload, TypeOK
  <2>4. cache' \in Shown /\ calm' \in BOOLEAN
    BY <1>17 DEF Reload, TypeOK, Shown, persisted
  <2>5. snap' \in [Txs -> [value : Shown, pending : SUBSET Txs]]
    BY <1>17, <1>11 DEF Reload
  <2> QED  BY <1>17, <2>2, <2>3, <2>4, <2>5, <1>12 DEF Reload, TypeOK, Shown
<1>18. ASSUME NEW r \in Runs, Decide(r) PROVE TypeOK'
  <2>1. run[r].n = 1 /\ run[r].n + 1 \in 1 .. MaxAttempts
    BY <1>18, AttemptsAssumption DEF Decide, Attempts
  <2>2. run' \in [Runs -> RunType]
    BY <1>18, <2>1, <1>3, RunKept DEF Decide
  <2> QED  BY <1>18, <2>2 DEF Decide, TypeOK, page, Shown
<1>19. ASSUME NEW r \in Runs, Taken(r) PROVE TypeOK'
  <2>1. chain' \in [Txs -> {"none", "inflight", "landed", "dead"}]
    BY <1>19 DEF Taken, TypeOK
  <2>2. run' \in [Runs -> RunType]
    BY <1>19, <1>3 DEF Taken
  <2> QED  BY <1>19, <2>1, <2>2 DEF Taken, TypeOK, page, Shown
<1>20. ASSUME NEW r \in Runs, Answered(r) PROVE TypeOK'
  <2> DEFINE t == current(r)
  <2>1. t \in Txs
    BY CurrentTx
  <2>2. verdict' \in [Txs -> {"none", "waiting", "ok", "error", "gone"}]
    BY <1>20 DEF Answered, TypeOK
  <2>3. patched(t) \in Shown
    BY <2>1, EffectType, JustType DEF patched, Shown, TypeOK
  <2>4. snapshot(t) \in [value : Shown, pending : SUBSET Txs]
    BY DEF snapshot, TypeOK
  <2>5. cache' \in Shown /\ snap' \in [Txs -> [value : Shown, pending : SUBSET Txs]]
    BY <1>20, <2>3, <2>4 DEF Answered, TypeOK
  <2>6. pending' \in SUBSET Txs /\ calm' \in BOOLEAN
    BY <1>20, <2>1 DEF Answered, TypeOK
  <2>7. fetch' \in [value : Shown, current : BOOLEAN, going : BOOLEAN]
    BY <1>20 DEF Answered, TypeOK
  <2>8. run' \in [Runs -> RunType]
    BY <1>20, <1>3 DEF Answered
  <2> QED  BY <1>20, <2>2, <2>5, <2>6, <2>7, <2>8 DEF Answered, TypeOK, Shown
<1>21. CASE UNCHANGED app
  BY <1>21 DEF app, page, TypeOK, Shown
<1> QED  BY <1>1, <1>5, <1>6, <1>7, <1>8, <1>9, <1>10, <1>13, <1>14, <1>15, <1>16,
            <1>17, <1>18, <1>19, <1>20, <1>21 DEF AppNext

-----------------------------------------------------------------------------
(* What a run has sent.                                                    *)

LEMMA AttemptsKept ==
    ASSUME TypeOK, Attempts, [AppNext]_app
    PROVE  Attempts'
<1> USE DEF Attempts, mutation, Run
<1>1. ASSUME NEW r \in Runs, Start(r) PROVE Attempts'
  BY <1>1 DEF Start, first_phase, TypeOK
<1>2. ASSUME NEW r \in Runs, NEW network \in BOOLEAN, failed_attempt(r, network), UNCHANGED query
      PROVE  Attempts'
  <2>1. (network /\ mutation) \in BOOLEAN /\ next_attempt(r, network /\ mutation)
    BY <1>2 DEF failed_attempt
  <2>2. CASE run' = [run EXCEPT ![r] = Run(run[r].mode, "unsent", run[r].n)]
    BY <1>2, <2>2 DEF TypeOK
  <2>3. CASE /\ network /\ mutation
             /\ run' = [run EXCEPT ![r] = Run(run[r].mode, first_phase(run[r].mode), run[r].n + 1)]
    BY <1>2, <2>3 DEF TypeOK, first_phase
  <2> QED  BY <2>1, <2>2, <2>3, NextAttempt
<1>3. ASSUME NEW r \in Runs, PolicyDenies(r) \/ Signed(r) PROVE Attempts'
  BY <1>3 DEF PolicyDenies, Signed, goto, TypeOK
<1>4. ASSUME NEW r \in Runs, Decide(r) PROVE Attempts'
  BY <1>4 DEF Decide, goto, TypeOK
<1>5. ASSUME NEW r \in Runs, Taken(r) \/ Answered(r) PROVE Attempts'
  BY <1>5 DEF Taken, Answered, goto, TypeOK
<1>6. ASSUME NEW r \in Runs, AttemptFails(r) \/ AnswerLost(r) \/ SendRefused(r) PROVE Attempts'
  <2>1. UNCHANGED query /\ \E network \in BOOLEAN : failed_attempt(r, network)
    BY <1>6 DEF AttemptFails, AnswerLost, SendRefused
  <2> QED  BY <2>1, <1>2
<1>7. CASE UNCHANGED <<query, run>>
  BY <1>7
<1>8. ASSUME NEW t \in Txs, Land(t) \/ Die(t) \/ Confirmed(t) \/ Rejected(t) PROVE Attempts'
  BY <1>8, <1>7 DEF Land, Die, Confirmed, Rejected
<1>9. CASE FetchStart \/ FetchDone \/ UNCHANGED app
  BY <1>9, <1>7 DEF FetchStart, FetchDone, app
<1>10. CASE Reload
  BY <1>10 DEF Reload, TypeOK
<1> QED  BY <1>1, <1>3, <1>4, <1>5, <1>6, <1>8, <1>9, <1>10 DEF AppNext

\* A run that sends nothing in a step, and stays at an attempt it has not
\* sent, moves to a later one, or ends.
LEMMA SentKept ==
    ASSUME TypeOK, Attempts, AttemptsSent, [AppNext]_app
    PROVE  AttemptsSent'
<1> USE DEF mutation, unsent, Run
<1>1. ASSUME NEW r \in Runs, Start(r) PROVE AttemptsSent'
  <2>1. run[r].phase = "idle" /\ run[r].n = 1
    BY <1>1 DEF Start, Attempts
  <2> QED  BY <1>1, <2>1 DEF Start, AttemptsSent, TypeOK, first_phase
<1>2. ASSUME NEW r \in Runs, run[r].phase \in {"tapping", "asking", "signing", "sending"},
             NEW k \in 1 .. MaxAttempts, chain[<<r, k>>] # "none"
      PROVE  mutation /\ r \in lost /\ k < run[r].n
  <2>1. k <= run[r].n /\ k # run[r].n /\ mutation /\ r \in lost
    BY <1>2 DEF AttemptsSent
  <2> QED  BY <2>1, CurrentTx
<1>3. ASSUME NEW r \in Runs, run[r].phase \in {"tapping", "asking", "signing", "sending"},
             NEW mode, NEW ph, NEW n \in Nat, n >= run[r].n,
             run' = [run EXCEPT ![r] = Run(mode, ph, n)], UNCHANGED <<query, chain, lost>>
      PROVE  AttemptsSent'
  <2>1. ASSUME NEW s \in Runs, NEW k \in 1 .. MaxAttempts, chain'[<<s, k>>] # "none"
        PROVE  /\ k <= run'[s].n
               /\ k = run'[s].n => run'[s].phase \in {"taken", "sent", "unsent", "gone"}
               /\ ~mutation' \/ s \notin lost' => k = run'[s].n
               /\ s \notin lost' => run'[s].phase \in {"taken", "sent", "gone"}
    <3>1. CASE s = r
      <4>1. mutation /\ r \in lost /\ k < run[r].n
        BY <1>2, <1>3, <2>1, <3>1
      <4>2. run'[r].n = n
        BY <1>3 DEF TypeOK
      <4> QED  BY <4>1, <4>2, <1>3, <3>1, CurrentTx
    <3>2. CASE s # r
      BY <1>3, <2>1, <3>2 DEF AttemptsSent, TypeOK
    <3> QED  BY <3>1, <3>2
  <2> QED  BY <2>1 DEF AttemptsSent
<1>4. ASSUME NEW r \in Runs, PolicyDenies(r) \/ Signed(r) \/ Decide(r) PROVE AttemptsSent'
  <2>1. run[r].n \in Nat /\ run[r].n + 1 >= run[r].n /\ run[r].n + 1 \in Nat /\ run[r].n >= run[r].n
    BY CurrentTx
  <2>2. /\ run[r].phase \in {"tapping", "asking", "signing", "sending"}
        /\ UNCHANGED <<query, chain, lost>>
    BY <1>4 DEF PolicyDenies, Signed, Decide
  <2>3. ASSUME NEW ph, goto(r, ph) PROVE AttemptsSent'
    <3>1. run' = [run EXCEPT ![r] = Run(run[r].mode, ph, run[r].n)]
      BY <2>3 DEF goto
    <3> HIDE DEF Run
    <3> QED  BY <1>3, <2>1, <2>2, <3>1
  <2>4. CASE run' = [run EXCEPT ![r] = Run("authority", "signing", run[r].n + 1)]
    <3> HIDE DEF Run
    <3> QED  BY <1>3, <2>1, <2>2, <2>4
  <2>5. (\E ph : goto(r, ph)) \/ run' = [run EXCEPT ![r] = Run("authority", "signing", run[r].n + 1)]
    BY <1>4 DEF PolicyDenies, Signed, Decide
  <2> QED  BY <2>3, <2>4, <2>5
<1>5. ASSUME NEW r \in Runs, AttemptFails(r) \/ SendRefused(r) PROVE AttemptsSent'
  <2>1. run[r].n \in Nat /\ run[r].n + 1 >= run[r].n /\ run[r].n + 1 \in Nat /\ run[r].n >= run[r].n
    BY CurrentTx
  <2>2. PICK network \in BOOLEAN : next_attempt(r, network)
    <3>1. PICK network \in BOOLEAN : next_attempt(r, network /\ mutation)
      BY <1>5 DEF AttemptFails, SendRefused, failed_attempt
    <3>2. (network /\ mutation) \in BOOLEAN
      OBVIOUS
    <3> QED  BY <3>1, <3>2
  <2>3. /\ run[r].phase \in {"tapping", "asking", "signing", "sending"}
        /\ UNCHANGED <<query, chain, lost>>
    BY <1>5 DEF AttemptFails, SendRefused
  <2> HIDE DEF Run
  <2>4. \/ run' = [run EXCEPT ![r] = Run(run[r].mode, first_phase(run[r].mode), run[r].n + 1)]
        \/ run' = [run EXCEPT ![r] = Run(run[r].mode, "unsent", run[r].n)]
    BY <2>2, NextAttempt
  <2> QED  BY <1>3, <2>1, <2>3, <2>4
<1>6. ASSUME NEW r \in Runs, Taken(r) PROVE AttemptsSent'
  <2>1. run[r].phase \in {"tapping", "sending"}
    BY <1>6 DEF Taken, submitting
  <2>2. chain' = [chain EXCEPT ![<<r, run[r].n>>] = "inflight"] /\ UNCHANGED <<query, lost>>
        /\ run' = [run EXCEPT ![r] = Run(run[r].mode, "taken", run[r].n)]
    BY <1>6 DEF Taken, goto, current
  <2>3. ASSUME NEW s \in Runs, NEW k \in 1 .. MaxAttempts, chain'[<<s, k>>] # "none"
        PROVE  /\ k <= run'[s].n
               /\ k = run'[s].n => run'[s].phase \in {"taken", "sent", "unsent", "gone"}
               /\ ~mutation' \/ s \notin lost' => k = run'[s].n
               /\ s \notin lost' => run'[s].phase \in {"taken", "sent", "gone"}
    <3>1. CASE s = r
      <4>1. k = run[r].n \/ chain[<<r, k>>] # "none"
        BY <2>2, <2>3, <3>1 DEF TypeOK, Txs
      <4>2. run'[r].n = run[r].n /\ run'[r].phase = "taken"
        BY <2>2 DEF TypeOK
      <4>3. k = run[r].n \/ (mutation /\ r \in lost /\ k < run[r].n)
        BY <4>1, <2>1, <1>2
      <4> QED  BY <4>2, <4>3, <2>2, <3>1, CurrentTx
    <3>2. CASE s # r
      BY <2>2, <2>3, <3>2 DEF AttemptsSent, TypeOK, Txs
    <3> QED  BY <3>1, <3>2
  <2> QED  BY <2>3 DEF AttemptsSent
<1>7. ASSUME NEW r \in Runs, AnswerLost(r) PROVE AttemptsSent'
  <2>1. run[r].phase = "taken" /\ UNCHANGED <<query, chain>>
        /\ lost' = lost \cup {r} /\ next_attempt(r, mutation)
    BY <1>7 DEF AnswerLost, failed_attempt
  <2>2. \/ mutation /\ run' = [run EXCEPT ![r] = Run(run[r].mode, first_phase(run[r].mode), run[r].n + 1)]
        \/ run' = [run EXCEPT ![r] = Run(run[r].mode, "unsent", run[r].n)]
    BY <2>1, NextAttempt
  <2>3. ASSUME NEW s \in Runs, NEW k \in 1 .. MaxAttempts, chain'[<<s, k>>] # "none"
        PROVE  /\ k <= run'[s].n
               /\ k = run'[s].n => run'[s].phase \in {"taken", "sent", "unsent", "gone"}
               /\ ~mutation' \/ s \notin lost' => k = run'[s].n
               /\ s \notin lost' => run'[s].phase \in {"taken", "sent", "gone"}
    <3>1. CASE s = r
      <4>1. k <= run[r].n /\ (~mutation => k = run[r].n)
        BY <2>1, <2>3, <3>1 DEF AttemptsSent
      <4>2. \/ mutation /\ run'[r].n = run[r].n + 1
            \/ run'[r].n = run[r].n /\ run'[r].phase = "unsent"
        BY <2>2 DEF TypeOK
      <4> QED  BY <4>1, <4>2, <2>1, <3>1, CurrentTx
    <3>2. CASE s # r
      BY <2>1, <2>2, <2>3, <3>2 DEF AttemptsSent, TypeOK, Txs
    <3> QED  BY <3>1, <3>2
  <2> QED  BY <2>3 DEF AttemptsSent
<1>13. ASSUME NEW r \in Runs, Answered(r) PROVE AttemptsSent'
  <2>1. run[r].phase = "taken" /\ UNCHANGED <<query, chain, lost>>
        /\ run' = [run EXCEPT ![r] = Run(run[r].mode, "sent", run[r].n)]
    BY <1>13 DEF Answered, goto
  <2> QED  BY <2>1 DEF AttemptsSent, TypeOK
<1>8. ASSUME NEW t \in Txs, Land(t) \/ Die(t) PROVE AttemptsSent'
  <2>1. chain[t] # "none" /\ UNCHANGED <<query, run, lost>>
        /\ \E fate \in {"landed", "dead"} : chain' = [chain EXCEPT ![t] = fate]
    BY <1>8 DEF Land, Die
  <2> QED  BY <2>1 DEF AttemptsSent, TypeOK
<1>9. CASE UNCHANGED <<query, run, chain, lost>>
  BY <1>9 DEF AttemptsSent
<1>10. ASSUME NEW t \in Txs, Confirmed(t) \/ Rejected(t) PROVE AttemptsSent'
  BY <1>9, <1>10 DEF Confirmed, Rejected
<1>11. CASE FetchStart \/ FetchDone \/ UNCHANGED app
  BY <1>9, <1>11 DEF FetchStart, FetchDone, app
<1>12. CASE Reload
  <2>1. ASSUME NEW r \in Runs
        PROVE  /\ run'[r].n = run[r].n
               /\ run[r].phase \in {"taken", "sent", "gone"} => run'[r].phase \in {"sent", "gone"}
               /\ run[r].phase \in {"taken", "sent", "unsent", "gone"} =>
                     run'[r].phase \in {"sent", "unsent", "gone"}
    BY <1>12 DEF Reload, TypeOK
  <2> QED  BY <1>12, <2>1 DEF Reload, AttemptsSent
<1> QED  BY <1>1, <1>4, <1>5, <1>6, <1>7, <1>8, <1>10, <1>11, <1>12, <1>13 DEF AppNext

-----------------------------------------------------------------------------
(* What has been answered.                                                 *)

LEMMA AnswersKept ==
    ASSUME TypeOK, AttemptsSent, Answers, [AppNext]_app
    PROVE  Answers'
<1> USE DEF Run
<1>1. ASSUME NEW r \in Runs, run[r].phase # "sent", UNCHANGED verdict,
             \A s \in Runs \ {r} : run'[s] = run[s]
      PROVE  Answers'
  BY <1>1 DEF Answers
<1>2. ASSUME NEW r \in Runs, UNCHANGED verdict,
             Start(r) \/ AttemptFails(r) \/ PolicyDenies(r) \/ Decide(r) \/ Signed(r)
             \/ Taken(r) \/ AnswerLost(r) \/ SendRefused(r)
      PROVE  Answers'
  <2>1. run[r].phase # "sent"
    BY <1>2 DEF Start, AttemptFails, PolicyDenies, Decide, Signed, Taken, AnswerLost,
                SendRefused, submitting
  <2>2. \E to : run' = [run EXCEPT ![r] = to]
    BY <1>2 DEF Start, AttemptFails, PolicyDenies, Decide, Signed, Taken, AnswerLost,
                SendRefused, goto, failed_attempt, next_attempt
  <2>3. \A s \in Runs \ {r} : run'[s] = run[s]
    BY <2>2 DEF TypeOK
  <2> QED  BY <1>1, <1>2, <2>1, <2>3
<1>3. ASSUME NEW r \in Runs, Answered(r) PROVE Answers'
  <2>1. /\ run[r].phase = "taken"
        /\ verdict' = [verdict EXCEPT ![<<r, run[r].n>>] = "waiting"]
        /\ run' = [run EXCEPT ![r] = Run(run[r].mode, "sent", run[r].n)]
    BY <1>3 DEF Answered, goto, current
  <2>2. ASSUME NEW s \in Runs, NEW k \in 1 .. MaxAttempts, verdict'[<<s, k>>] # "none"
        PROVE  run'[s].phase = "sent" /\ k = run'[s].n
    <3>1. CASE s = r
      BY <2>1, <2>2, <3>1 DEF Answers, TypeOK, Txs
    <3>2. CASE s # r
      BY <2>1, <2>2, <3>2 DEF Answers, TypeOK, Txs
    <3> QED  BY <3>1, <3>2
  <2> QED  BY <2>2 DEF Answers
<1>4. ASSUME NEW t \in Txs, UNCHANGED run, verdict[t] = "waiting",
             NEW v, verdict' = [verdict EXCEPT ![t] = v]
      PROVE  Answers'
  BY <1>4 DEF Answers, TypeOK
<1>5. ASSUME NEW t \in Txs, Confirmed(t) \/ Rejected(t) PROVE Answers'
  BY <1>4, <1>5 DEF Confirmed, Rejected
<1>6. CASE UNCHANGED <<run, verdict>>
  BY <1>6 DEF Answers
<1>7. ASSUME NEW t \in Txs, Land(t) \/ Die(t) PROVE Answers'
  BY <1>6, <1>7 DEF Land, Die
<1>8. CASE FetchStart \/ FetchDone \/ UNCHANGED app
  BY <1>6, <1>8 DEF FetchStart, FetchDone, app
<1>9. CASE Reload
  <2>1. ASSUME NEW r \in Runs, run[r].phase = "sent" PROVE run'[r] = run[r]
    BY <1>9, <2>1 DEF Reload
  <2>2. ASSUME NEW t \in Txs, verdict'[t] # "none" PROVE verdict[t] # "none"
    BY <1>9, <2>2 DEF Reload, unsettled
  <2> QED  BY <2>1, <2>2 DEF Answers, Txs
<1>10. ASSUME NEW r \in Runs,
              Start(r) \/ AttemptFails(r) \/ PolicyDenies(r) \/ Decide(r) \/ Signed(r)
              \/ Taken(r) \/ AnswerLost(r) \/ SendRefused(r)
       PROVE  Answers'
  <2>1. UNCHANGED verdict
    BY <1>10 DEF Start, AttemptFails, PolicyDenies, Decide, Signed, Taken, AnswerLost, SendRefused
  <2> QED  BY <1>2, <1>10, <2>1
<1> QED  BY <1>3, <1>5, <1>7, <1>8, <1>9, <1>10 DEF AppNext

RunsOK == Attempts /\ AttemptsSent /\ Answers

LEMMA InitRuns == AppInit => RunsOK
  BY AttemptsAssumption DEF AppInit, RunsOK, Attempts, AttemptsSent, Answers, Run, Txs

\* Nothing but types and what each run has sent: runWalletTransaction and the
\* retried mutations.
THEOREM RunsCorrect == AppSpec => [](TypeOK /\ RunsOK)
<1>1. AppInit => TypeOK /\ RunsOK
  BY InitType, InitRuns
<1>2. TypeOK /\ RunsOK /\ [AppNext]_app => (TypeOK /\ RunsOK)'
  BY TypeKept, AttemptsKept, SentKept, AnswersKept DEF RunsOK
<1> QED  BY <1>1, <1>2, PTL DEF AppSpec

LEMMA SentOnce == TypeOK /\ RunsOK => SpendsOnce
  BY DEF SpendsOnce, RunsOK, AttemptsSent, unsent, mutation

\* A send is sent once, through denial, approval and both ways of signing; a
\* mutation twice only after a lost answer (runWalletTransaction,
\* shouldRetryQuery).
THEOREM SpendsOnceHolds == AppSpec => []SpendsOnce
  BY RunsCorrect, SentOnce, PTL

-----------------------------------------------------------------------------
(* What the page shows.                                                    *)

\* Landed, and not yet answered.
ahead == {t \in taken : chain[t] = "landed"}

\* What is shown is the truth but for what landed ahead of its answer: a
\* fetch may have met that, or not.
agrees(value) ==
    IF query = "policy" THEN ahead = {} => value = truth
    ELSE \A u \in Txs \ ahead : value[u] = truth[u]

\* The chain has every transaction once, and the policy of the last only.
Counts ==
    query # "policy" => \A t \in Txs : truth[t] = IF chain[t] = "landed" THEN 1 ELSE 0

\* A fetch that is current read what the chain still says, and no patch waits
\* for its verdict.
Fetched == fetch.current => unsettled = {} /\ fetch.value = truth

\* Only the activity has rows.
Rows == query # "activity" => pending = {} /\ \A t \in Txs : snap[t].pending = {}

patch_of(value, t) ==
    IF value # NotLoaded THEN effect(value, t)
    ELSE IF portfolio THEN NotLoaded ELSE Just(t)

\* A patch whose transaction has not landed can be taken back; from then on
\* the cache agrees with the chain.
Watched(t) ==
    /\ unsettled = {t}
    /\ snap[t].pending = {}
    /\ pending \subseteq {t}
    /\ query = "activity" => snap[t].value # NotLoaded
    /\ chain[t] # "landed" => /\ snap[t].value # NotLoaded => agrees(snap[t].value)
                              /\ cache = patch_of(snap[t].value, t)
    /\ chain[t] = "landed" /\ cache # NotLoaded => agrees(cache)

Settled == cache # NotLoaded => agrees(cache) /\ pending = {}

\* While the query is reliable at most one patch waits for its verdict.
Patched ==
    calm => /\ \A t \in unsettled : Watched(t)
            /\ unsettled = {} => Settled

PageOK == Counts /\ Fetched /\ Rows /\ Patched

LEMMA InitPage == AppInit => PageOK
<1> SUFFICES ASSUME AppInit PROVE PageOK
  OBVIOUS
<1>1. unsettled = {}
  BY DEF AppInit, unsettled
<1>2. ~fetch.current /\ pending = {} /\ \A t \in Txs : snap[t].pending = {}
  BY DEF AppInit, NoFetch, NoSnap
<1>3. cache # NotLoaded => agrees(cache)
  BY DEF AppInit, agrees
<1>4. Counts
  BY DEF AppInit, Counts, Nothing
<1> QED  BY <1>1, <1>2, <1>3, <1>4 DEF PageOK, Fetched, Rows, Patched, Settled

\* Functions that agree everywhere are equal.
LEMMA SameShown ==
    ASSUME NEW f \in [Txs -> Nat], NEW g \in [Txs -> Nat], \A t \in Txs : f[t] = g[t]
    PROVE  f = g
  OBVIOUS

LEMMA Settles ==
    ASSUME TypeOK, NEW t \in Txs, NEW v, v # "waiting", verdict' = [verdict EXCEPT ![t] = v]
    PROVE  unsettled' = unsettled \ {t}
  BY DEF TypeOK, unsettled

LEMMA Unsettles ==
    ASSUME TypeOK, NEW t \in Txs, verdict' = [verdict EXCEPT ![t] = "waiting"]
    PROVE  unsettled' = unsettled \cup {t}
  BY DEF TypeOK, unsettled

\* What is taken has no verdict yet, and what waits for one is not taken.
LEMMA TakenOrPatched ==
    ASSUME TypeOK, RunsOK
    PROVE  taken \subseteq Txs /\ unsettled \subseteq Txs /\ taken \cap unsettled = {}
<1>1. unsettled \subseteq Txs
  BY DEF unsettled
<1>2. ASSUME NEW r \in Runs, run[r].phase = "taken"
      PROVE  current(r) \in Txs /\ current(r) \notin unsettled
  <2>1. current(r) \in Txs /\ run[r].n \in 1 .. MaxAttempts
    BY CurrentTx
  <2>2. verdict[<<r, run[r].n>>] = "none"
    BY <1>2, <2>1 DEF RunsOK, Answers
  <2> QED  BY <2>1, <2>2 DEF unsettled, current
<1> QED  BY <1>1, <1>2 DEF taken

\* A run that is not between the RPC and its answer, before a step or after
\* it, leaves what is ahead of its answer alone.
LEMMA AheadStays ==
    ASSUME TypeOK, NEW r \in Runs, NEW to, run' = [run EXCEPT ![r] = to],
           run[r].phase # "taken", to.phase # "taken", UNCHANGED chain
    PROVE  ahead' = ahead
<1>1. run'[r] = to /\ \A s \in Runs \ {r} : run'[s] = run[s]
  BY DEF TypeOK
<1>2. \A s \in Runs : /\ run'[s].phase = "taken" <=> run[s].phase = "taken"
                      /\ run[s].phase = "taken" => run'[s].n = run[s].n
  BY <1>1
<1>3. taken' = taken
  BY <1>2 DEF taken, current
<1> QED  BY <1>3 DEF ahead

\* What leaves the page, the verdicts and what has landed alone leaves the
\* page as it should be.
LEMMA PageStays ==
    ASSUME TypeOK, PageOK, UNCHANGED <<query, verdict, truth, cache, pending, snap, fetch, calm>>,
           \A t \in Txs : (chain[t] = "landed") = (chain'[t] = "landed"), ahead' = ahead
    PROVE  PageOK'
<1>1. unsettled' = unsettled /\ unsettled \subseteq Txs
  BY DEF unsettled
<1>2. Counts' /\ Fetched' /\ Rows'
  BY <1>1 DEF PageOK, Counts, Fetched, Rows
<1>3. Settled' = Settled
  BY <1>1 DEF Settled, agrees
<1>4. ASSUME NEW t \in unsettled, Watched(t) PROVE Watched(t)'
  <2>1. \A value : patch_of(value, t)' = patch_of(value, t)
    BY DEF patch_of, effect, portfolio
  <2>2. patch_of(snap[t].value, t)' = patch_of(snap[t].value, t)
    BY DEF patch_of, effect, portfolio
  <2>3. agrees(snap[t].value)' = agrees(snap[t].value) /\ agrees(cache)' = agrees(cache)
    BY DEF agrees
  <2>4. (chain'[t] = "landed") = (chain[t] = "landed")
    BY <1>1
  <2> QED  BY <1>1, <1>4, <2>2, <2>3, <2>4 DEF Watched
<1>5. Patched'
  BY <1>1, <1>3, <1>4 DEF PageOK, Patched
<1> QED  BY <1>2, <1>5 DEF PageOK

\* The steps of a run before its transaction is taken.
LEMMA RunSteps ==
    ASSUME TypeOK, PageOK, NEW r \in Runs,
           Start(r) \/ AttemptFails(r) \/ PolicyDenies(r) \/ Decide(r) \/ Signed(r) \/ SendRefused(r)
    PROVE  PageOK'
<1>1. run[r].phase # "taken" /\ UNCHANGED <<query, chain, verdict, truth, cache, pending, snap, fetch, calm>>
  BY DEF Start, AttemptFails, PolicyDenies, Decide, Signed, SendRefused, page
<1>2. \E mode, ph, n : ph # "taken" /\ run' = [run EXCEPT ![r] = Run(mode, ph, n)]
  <2>1. CASE Start(r)
    BY <2>1 DEF Start, first_phase
  <2>2. CASE PolicyDenies(r) \/ Decide(r) \/ Signed(r)
    BY <2>2 DEF PolicyDenies, Decide, Signed, goto
  <2>3. CASE AttemptFails(r) \/ SendRefused(r)
    <3>1. PICK retry \in BOOLEAN : next_attempt(r, retry)
      <4>1. PICK network \in BOOLEAN : next_attempt(r, network /\ mutation)
        BY <2>3 DEF AttemptFails, SendRefused, failed_attempt
      <4>2. (network /\ mutation) \in BOOLEAN
        OBVIOUS
      <4> QED  BY <4>1, <4>2
    <3>2. first_phase(run[r].mode) # "taken"
      BY DEF first_phase
    <3> QED  BY <3>1, <3>2, NextAttempt
  <2> QED  BY <2>1, <2>2, <2>3
<1>3. PICK mode, ph, n : ph # "taken" /\ run' = [run EXCEPT ![r] = Run(mode, ph, n)]
  BY <1>2
<1>4. Run(mode, ph, n).phase # "taken"
  BY <1>3 DEF Run
<1>5. ahead' = ahead
  BY <1>1, <1>3, <1>4, AheadStays
<1> QED  BY <1>1, <1>5, PageStays

LEMMA TakenKept ==
    ASSUME TypeOK, RunsOK, PageOK, NEW r \in Runs, Taken(r)
    PROVE  PageOK'
<1>1. /\ run[r].phase \in {"tapping", "sending"} /\ run[r].n \in 1 .. MaxAttempts
      /\ current(r) \in Txs
  BY CurrentTx DEF Taken, submitting
<1>2. chain[current(r)] = "none"
  BY <1>1 DEF RunsOK, AttemptsSent, unsent, current
<1>3. /\ chain' = [chain EXCEPT ![current(r)] = "inflight"]
      /\ run' = [run EXCEPT ![r] = Run(run[r].mode, "taken", run[r].n)]
      /\ UNCHANGED <<query, verdict, truth, cache, pending, snap, fetch, calm>>
  BY DEF Taken, goto, page
<1>4. \A t \in Txs : (chain[t] = "landed") = (chain'[t] = "landed")
  BY <1>1, <1>2, <1>3 DEF TypeOK
<1>5. /\ run'[r].phase = "taken" /\ run'[r].n = run[r].n
      /\ \A s \in Runs \ {r} : run'[s] = run[s]
  BY <1>3 DEF TypeOK, Run
<1>6. taken' = taken \cup {current(r)}
  BY <1>1, <1>5 DEF taken, current
<1>7. ahead' = ahead
  <2>1. chain'[current(r)] # "landed"
    BY <1>1, <1>2, <1>4
  <2>2. taken \subseteq Txs
    BY TakenOrPatched
  <2> QED  BY <1>4, <1>6, <2>1, <2>2 DEF ahead
<1> QED  BY <1>3, <1>4, <1>7, PageStays

LEMMA AnswerLostKept ==
    ASSUME TypeOK, RunsOK, PageOK, NEW r \in Runs, AnswerLost(r)
    PROVE  PageOK'
<1>1. /\ run[r].phase = "taken" /\ current(r) \in Txs
      /\ UNCHANGED <<query, chain, verdict, truth, cache, pending, snap, fetch>>
      /\ calm' = (calm /\ chain[current(r)] # "landed")
  BY CurrentTx DEF AnswerLost, page
<1>2. CASE chain[current(r)] = "landed"
  <2>1. ~calm' /\ unsettled' = unsettled
    BY <1>1, <1>2 DEF unsettled
  <2>2. Patched'
    BY <2>1 DEF Patched
  <2> QED  BY <1>1, <2>1, <2>2 DEF PageOK, Counts, Fetched, Rows
<1>3. CASE chain[current(r)] # "landed"
  <2>1. PICK to : run' = [run EXCEPT ![r] = to] /\ to.phase # "taken"
    <3>1. (TRUE /\ mutation) \in BOOLEAN /\ next_attempt(r, TRUE /\ mutation)
      BY DEF AnswerLost, failed_attempt
    <3>2. /\ Run(run[r].mode, first_phase(run[r].mode), run[r].n + 1).phase # "taken"
          /\ Run(run[r].mode, "unsent", run[r].n).phase # "taken"
      BY DEF Run, first_phase
    <3> QED  BY <3>1, <3>2, NextAttempt
  <2>2. run'[r].phase # "taken" /\ \A s \in Runs \ {r} : run'[s] = run[s]
    BY <2>1 DEF TypeOK
  <2>3. taken \ {current(r)} = taken'
    BY <1>1, <2>2 DEF taken, current
  <2>4. ahead' = ahead
    BY <1>1, <1>3, <2>3 DEF ahead
  <2>5. calm' = calm
    BY <1>1, <1>3 DEF TypeOK
  <2> QED  BY <1>1, <2>4, <2>5, PageStays
<1> QED  BY <1>2, <1>3

\* What agreed with the chain still does once a transaction has landed ahead
\* of its answer, and what has just been patched with one does once that has
\* landed.
LEMMA LandAgrees ==
    ASSUME TypeOK, NEW t \in Txs, NEW value \in [Txs -> Nat], agrees(value),
           UNCHANGED query, truth' = effect(truth, t)
    PROVE  /\ ahead' = ahead \cup {t} => agrees(value)'
           /\ ahead' = ahead /\ t \notin ahead => agrees(effect(value, t))'
<1>1. truth \in [Txs -> Nat]
  BY DEF TypeOK
<1>2. CASE query = "policy"
  <2>1. truth' = Just(t) /\ effect(value, t) = Just(t)
    BY <1>1, <1>2, EffectType
  <2>2. effect(value, t)' = effect(value, t)
    BY <1>2 DEF effect
  <2> QED  BY <1>2, <2>1 DEF agrees, effect
<1>3. CASE query # "policy"
  <2>1. \A u \in Txs \ ahead : value[u] = truth[u]
    BY <1>3 DEF agrees
  <2>2. \A u \in Txs : truth'[u] =
            IF u # t THEN truth[u] ELSE IF query = "balance" THEN truth[t] + 1 ELSE 1
    BY <1>1, <1>3, EffectType
  <2>3. \A u \in Txs : effect(value, t)[u] =
            IF u # t THEN value[u] ELSE IF query = "balance" THEN value[t] + 1 ELSE 1
    BY <1>3, EffectType
  <2>4. ahead' = ahead \cup {t} => \A u \in Txs \ ahead' : value[u] = truth'[u]
    BY <2>1, <2>2
  <2>5. t \notin ahead => \A u \in Txs \ ahead : effect(value, t)[u] = truth'[u]
    BY <2>1, <2>2, <2>3
  <2>6. effect(value, t)' = effect(value, t)
    BY DEF effect
  <2> QED  BY <1>3, <2>4, <2>5, <2>6 DEF agrees, effect
<1> QED  BY <1>2, <1>3

\* Likewise an answer, of what has landed and has not overtaken its patch.
LEMMA AnswerAgrees ==
    ASSUME TypeOK, NEW t \in Txs, Counts, chain[t] = "landed", ~overtaken(t),
           cache # NotLoaded, agrees(cache), UNCHANGED <<query, truth>>, ahead' = ahead \ {t}
    PROVE  /\ query = "policy" => truth = Just(t)
           /\ query # "policy" => \A u \in Txs \ ahead' : effect(cache, t)[u] = truth[u]
<1>1. truth \in [Txs -> Nat] /\ cache \in [Txs -> Nat]
  BY DEF TypeOK, Shown
<1>2. query = "policy" => truth = Just(t)
  BY DEF overtaken
<1>3. ASSUME query # "policy", NEW u \in Txs \ ahead' PROVE effect(cache, t)[u] = truth[u]
  <2>1. effect(cache, t)[u] = IF u # t THEN cache[u] ELSE IF query = "balance" THEN cache[t] + 1 ELSE 1
    BY <1>1, <1>3, EffectType
  <2>2. CASE u # t
    BY <1>3, <2>1, <2>2 DEF agrees
  <2>3. CASE u = t
    <3>1. truth[t] = 1
      BY <1>3 DEF Counts
    <3>2. query = "balance" => cache[t] = 0
      BY <1>1 DEF overtaken
    <3> QED  BY <2>1, <2>3, <3>1, <3>2
  <2> QED  BY <2>2, <2>3
<1> QED  BY <1>2, <1>3

LEMMA LandKept ==
    ASSUME TypeOK, RunsOK, PageOK, NEW t \in Txs, Land(t)
    PROVE  PageOK'
<1>1. /\ UNCHANGED <<query, run, verdict, cache, pending, snap>> /\ chain[t] = "inflight"
      /\ chain' = [chain EXCEPT ![t] = "landed"] /\ truth' = effect(truth, t)
      /\ ~fetch'.current /\ calm' = (calm /\ t \in under_way)
  BY DEF Land, page, TypeOK
<1>2. unsettled' = unsettled /\ taken' = taken /\ taken \subseteq Txs /\ taken \cap unsettled = {}
  BY <1>1, TakenOrPatched DEF unsettled, taken, current
<1>3. truth \in [Txs -> Nat] /\ t \notin ahead
  BY <1>1 DEF TypeOK, ahead
<1>4. Counts'
  <2>1. ASSUME query # "policy", NEW u \in Txs
        PROVE  truth'[u] = IF chain'[u] = "landed" THEN 1 ELSE 0
    <3>1. truth'[u] = IF u # t THEN truth[u] ELSE IF query = "balance" THEN truth[t] + 1 ELSE 1
      BY <1>1, <1>3, <2>1, EffectType
    <3>2. \A w \in Txs : truth[w] = IF chain[w] = "landed" THEN 1 ELSE 0
      BY <2>1 DEF PageOK, Counts
    <3>3. truth[t] = 0
      BY <1>1, <3>2
    <3>4. chain'[u] = IF u = t THEN "landed" ELSE chain[u]
      BY <1>1 DEF TypeOK
    <3> QED  BY <3>1, <3>2, <3>3, <3>4
  <2> QED  BY <1>1, <2>1 DEF Counts
<1>5. Fetched' /\ Rows'
  BY <1>1, <1>2 DEF PageOK, Fetched, Rows
<1>6. ahead' = IF t \in taken THEN ahead \cup {t} ELSE ahead
  BY <1>1, <1>2 DEF ahead, TypeOK
<1>7. CASE t \in taken /\ calm'
  <2>1. calm /\ ahead' = ahead \cup {t} /\ t \notin unsettled
    BY <1>1, <1>2, <1>6, <1>7
  <2>2. ASSUME NEW value \in [Txs -> Nat], agrees(value) PROVE agrees(value)'
    BY <1>1, <2>1, <2>2, LandAgrees
  <2>3. cache # NotLoaded /\ agrees(cache) => agrees(cache)'
    <3>1. cache # NotLoaded => cache \in [Txs -> Nat]
      BY DEF TypeOK, Shown
    <3> QED  BY <1>1, <2>2, <3>1 DEF agrees
  <2>4. Settled => Settled'
    BY <1>1, <2>3 DEF Settled
  <2>5. ASSUME NEW u \in unsettled, Watched(u) PROVE Watched(u)'
    <3>1. u # t /\ u \in Txs
      BY <1>2, <2>1, TakenOrPatched
    <3>2. chain'[u] = chain[u]
      BY <1>1, <3>1 DEF TypeOK
    <3>3. snap[u].value # NotLoaded /\ agrees(snap[u].value) => agrees(snap[u].value)'
      <4>1. snap[u] \in [value : Shown, pending : SUBSET Txs]
        BY <3>1 DEF TypeOK
      <4>2. snap[u].value # NotLoaded => snap[u].value \in [Txs -> Nat]
        BY <4>1 DEF Shown
      <4> QED  BY <1>1, <2>2, <4>2 DEF agrees
    <3>4. patch_of(snap[u].value, u)' = patch_of(snap[u].value, u)
      BY <1>1 DEF patch_of, effect, portfolio
    <3> QED  BY <1>1, <1>2, <2>3, <2>5, <3>2, <3>3, <3>4 DEF Watched
  <2> QED  BY <1>2, <1>4, <1>5, <2>1, <2>4, <2>5 DEF PageOK, Patched
<1>8. CASE t \in unsettled /\ calm'
  <2>1. calm /\ ahead' = ahead /\ Watched(t) /\ chain[t] # "landed" /\ chain'[t] = "landed"
    BY <1>1, <1>2, <1>6, <1>8 DEF PageOK, Patched, TypeOK
  <2>2. unsettled = {t} /\ cache = patch_of(snap[t].value, t)
        /\ (snap[t].value # NotLoaded => agrees(snap[t].value))
        /\ snap[t].pending = {} /\ pending \subseteq {t} /\ (query = "activity" => snap[t].value # NotLoaded)
    BY <2>1 DEF Watched
  <2>3. cache # NotLoaded => agrees(cache)'
    <3>1. CASE snap[t].value # NotLoaded
      <4>1. snap[t] \in [value : Shown, pending : SUBSET Txs]
        BY DEF TypeOK
      <4>2. snap[t].value \in [Txs -> Nat]
        BY <3>1, <4>1 DEF Shown
      <4>3. agrees(effect(snap[t].value, t))'
        <5> DEFINE value == snap[t].value
        <5>1. value \in [Txs -> Nat] /\ agrees(value)
          BY <2>2, <3>1, <4>2
        <5>2. value' = value
          BY <1>1
        <5> HIDE DEF value
        <5>3. agrees(effect(value, t))'
          BY <1>1, <1>3, <2>1, <5>1, <5>2, LandAgrees
        <5> QED  BY <5>3 DEF value
      <4>4. cache' = effect(snap[t].value, t)'
        BY <1>1, <2>2, <3>1 DEF patch_of, effect
      <4> QED  BY <4>3, <4>4 DEF agrees
    <3>2. CASE snap[t].value = NotLoaded /\ portfolio
      BY <2>2, <3>2 DEF patch_of
    <3>3. CASE snap[t].value = NotLoaded /\ ~portfolio
      <4>1. query = "policy"
        BY <2>2, <3>3 DEF portfolio, TypeOK
      <4>2. truth' = Just(t) /\ cache' = Just(t)
        BY <1>1, <1>3, <2>2, <3>3, <4>1, EffectType DEF patch_of
      <4> QED  BY <1>1, <4>1, <4>2 DEF agrees
    <3> QED  BY <3>1, <3>2, <3>3
  <2>4. Watched(t)'
    BY <1>1, <1>2, <2>1, <2>2, <2>3 DEF Watched
  <2> QED  BY <1>2, <1>4, <1>5, <1>8, <2>2, <2>4 DEF PageOK, Patched
<1>9. CASE ~calm'
  BY <1>4, <1>5, <1>9 DEF PageOK, Patched
<1> QED  BY <1>1, <1>7, <1>8, <1>9 DEF under_way

LEMMA ConfirmedKept ==
    ASSUME TypeOK, PageOK, NEW t \in Txs, Confirmed(t)
    PROVE  PageOK'
<1>1. unsettled' = unsettled \ {t} /\ t \in unsettled /\ chain[t] = "landed"
  BY Settles DEF Confirmed, unsettled
<1>2. UNCHANGED <<query, run, truth, cache, fetch, calm, chain>> /\ pending' = pending \ {t}
      /\ snap' = [snap EXCEPT ![t] = NoSnap]
  BY DEF Confirmed
<1>3. Counts' /\ Fetched' /\ Rows'
  BY <1>1, <1>2 DEF PageOK, Counts, Fetched, Rows, NoSnap, TypeOK
<1>4. agrees(cache)' = agrees(cache)
  BY <1>2 DEF agrees, ahead, taken, current
<1>5. ASSUME calm' PROVE unsettled' = {} /\ Settled'
  BY <1>1, <1>2, <1>4, <1>5 DEF PageOK, Patched, Watched, Settled
<1> QED  BY <1>3, <1>5 DEF PageOK, Patched

LEMMA RejectedKept ==
    ASSUME TypeOK, PageOK, NEW t \in Txs, Rejected(t)
    PROVE  PageOK'
<1>1. unsettled' = unsettled \ {t} /\ t \in unsettled
  BY Settles DEF Rejected, unsettled
<1>2. /\ UNCHANGED <<query, run, truth, fetch, chain>> /\ pending' = snap[t].pending
      /\ cache' = restored(t) /\ snap' = [snap EXCEPT ![t] = NoSnap]
      /\ calm' = (calm /\ chain[t] # "landed")
  BY DEF Rejected
<1>3. Counts' /\ Fetched' /\ Rows'
  BY <1>1, <1>2 DEF PageOK, Counts, Fetched, Rows, NoSnap, TypeOK
<1>4. ahead' = ahead
  BY <1>2 DEF ahead, taken, current
<1>5. ASSUME calm' PROVE unsettled' = {} /\ Settled'
  <2>1. Watched(t) /\ chain[t] # "landed"
    BY <1>1, <1>2, <1>5 DEF PageOK, Patched
  <2>2. cache' # NotLoaded => cache' = snap[t].value
    BY <1>2, <2>1 DEF restored, Watched, patch_of
  <2>3. cache' # NotLoaded => agrees(snap[t].value)
    BY <2>1, <2>2 DEF Watched
  <2> QED  BY <1>1, <1>2, <1>4, <2>1, <2>2, <2>3 DEF Watched, Settled, agrees
<1> QED  BY <1>3, <1>5 DEF PageOK, Patched

LEMMA FetchStartKept ==
    ASSUME TypeOK, PageOK, FetchStart
    PROVE  PageOK'
<1>1. /\ unsettled' = unsettled /\ ahead' = ahead
      /\ UNCHANGED <<query, chain, truth, cache, pending, snap, calm, verdict>>
  BY DEF FetchStart, unsettled, page, ahead, taken, current
<1>2. Fetched'
  <2>1. PICK missed : fetch' = [value |-> [t \in Txs |-> IF t \in missed THEN 0 ELSE truth[t]],
                                going |-> TRUE, current |-> missed = {} /\ unsettled = {}]
    BY DEF FetchStart
  <2>2. missed = {} => [t \in Txs |-> IF t \in missed THEN 0 ELSE truth[t]] = truth
    BY DEF TypeOK
  <2> QED  BY <1>1, <2>1, <2>2 DEF Fetched
<1>3. Counts' /\ Rows' /\ Settled' = Settled
  BY <1>1 DEF PageOK, Counts, Rows, Settled, agrees
<1>4. ASSUME NEW t \in unsettled, Watched(t) PROVE Watched(t)'
  <2>1. patch_of(snap[t].value, t)' = patch_of(snap[t].value, t)
    BY <1>1 DEF patch_of, effect, portfolio
  <2>2. agrees(snap[t].value)' = agrees(snap[t].value) /\ agrees(cache)' = agrees(cache)
    BY <1>1 DEF agrees
  <2> QED  BY <1>1, <1>4, <2>1, <2>2 DEF Watched
<1> QED  BY <1>1, <1>2, <1>3, <1>4 DEF PageOK, Patched

LEMMA FetchDoneKept ==
    ASSUME TypeOK, PageOK, FetchDone
    PROVE  PageOK'
<1>1. /\ unsettled' = unsettled /\ UNCHANGED <<query, run, chain, truth, snap>> /\ pending' = {}
      /\ cache' = fetch.value /\ calm' = fetch.current /\ ~fetch'.current
  BY DEF FetchDone, unsettled, NoFetch
<1>2. Counts' /\ Fetched' /\ Rows'
  BY <1>1 DEF PageOK, Counts, Fetched, Rows
<1>3. calm' => unsettled' = {} /\ cache' = truth'
  BY <1>1 DEF PageOK, Fetched
<1>4. calm' => Settled'
  BY <1>1, <1>3 DEF Settled, agrees
<1> QED  BY <1>2, <1>3, <1>4 DEF PageOK, Patched

LEMMA ReloadKept ==
    ASSUME TypeOK, PageOK, Reload
    PROVE  PageOK'
<1>1. /\ UNCHANGED <<query, chain, truth>> /\ pending' = {} /\ ~fetch'.current
      /\ \A t \in Txs : snap'[t].pending = {}
  BY DEF Reload, NoFetch, NoSnap
<1>2. unsettled' = {}
  BY DEF Reload, unsettled
<1>3. taken' = {}
  <2>1. ASSUME NEW r \in Runs PROVE run'[r].phase # "taken"
    BY DEF Reload, Run
  <2> QED  BY <2>1 DEF taken
<1>4. Counts' /\ Fetched' /\ Rows'
  BY <1>1, <1>2 DEF PageOK, Counts, Fetched, Rows
<1>5. ahead' = {}
  BY <1>3 DEF ahead
<1>6. ASSUME calm', cache' # NotLoaded PROVE agrees(cache)'
  <2>1. cache' = cache /\ calm /\ under_way = {}
    BY <1>6 DEF Reload
  <2>2. ahead = {} /\ unsettled = {}
    BY <2>1 DEF under_way, ahead
  <2> QED  BY <1>1, <1>5, <1>6, <2>1, <2>2 DEF PageOK, Patched, Settled, agrees
<1> QED  BY <1>1, <1>2, <1>4, <1>6 DEF PageOK, Patched, Settled

LEMMA AnsweredKept ==
    ASSUME TypeOK, RunsOK, PageOK, NEW r \in Runs, Answered(r)
    PROVE  PageOK'
<1>1. PICK t \in Txs : t = current(r)
  BY CurrentTx
<1>2. /\ run[r].phase = "taken" /\ UNCHANGED <<query, chain, truth>> /\ ~fetch'.current
      /\ cache' = patched(t) /\ snap' = [snap EXCEPT ![t] = snapshot(t)]
      /\ pending' = IF query = "activity" THEN pending \cup {t} ELSE pending
  BY <1>1 DEF Answered, TypeOK
<1>3. unsettled' = unsettled \cup {t}
  BY <1>1, Unsettles DEF Answered
<1>4. calm' => /\ calm /\ unsettled = {} /\ ~overtaken(t)
               /\ query = "activity" => cache # NotLoaded
  BY <1>1 DEF Answered
<1>5. snap'[t].pending = pending /\ snap'[t].value = cache
  BY <1>2 DEF snapshot, TypeOK
<1>6. Counts' /\ Fetched' /\ Rows'
  BY <1>2, <1>3, <1>5 DEF PageOK, Counts, Fetched, Rows, TypeOK
<1>7. ahead' = ahead \ {t}
  <2>1. run'[r].phase = "sent" /\ \A s \in Runs \ {r} : run'[s] = run[s]
    BY DEF Answered, goto, TypeOK, Run
  <2>2. taken' = taken \ {t}
    BY <1>1, <1>2, <2>1 DEF taken, current
  <2> QED  BY <1>2, <2>2 DEF ahead
<1>8. ASSUME calm' PROVE Watched(t)'
  <2>1. unsettled' = {t} /\ Settled /\ ~overtaken(t) /\ (query = "activity" => cache # NotLoaded)
    BY <1>3, <1>4, <1>8 DEF PageOK, Patched
  <2>2. pending = {}
    BY <2>1 DEF PageOK, Rows, Settled
  <2>3. cache' = patch_of(snap[t].value, t)'
    <3>1. CASE cache = NotLoaded
      BY <1>2, <1>5, <3>1 DEF patched, patch_of, portfolio, Just, Nothing
    <3>2. CASE cache # NotLoaded
      <4>1. cache' = effect(cache, t)
        BY <1>2, <3>2 DEF patched
      <4>2. effect(snap[t].value, t)' = effect(cache, t)
        <5>1. CASE query = "policy"
          BY <1>2, <5>1 DEF effect, Just, Nothing
        <5>2. CASE query = "balance"
          BY <1>2, <1>5, <5>2 DEF effect
        <5>3. CASE query \notin {"policy", "balance"}
          BY <1>2, <1>5, <5>3 DEF effect
        <5> QED  BY <5>1, <5>2, <5>3
      <4> QED  BY <1>5, <3>2, <4>1, <4>2 DEF patch_of
    <3> QED  BY <3>1, <3>2
  <2>4. chain'[t] # "landed" /\ cache # NotLoaded => agrees(snap[t].value)'
    <3>1. chain[t] # "landed" => ahead' = ahead
      BY <1>2, <1>7 DEF ahead
    <3> QED  BY <1>2, <1>5, <2>1, <3>1 DEF Settled, agrees
  <2>5. chain'[t] = "landed" /\ cache' # NotLoaded => agrees(cache)'
    <3>1. SUFFICES ASSUME chain[t] = "landed", cache' # NotLoaded PROVE agrees(cache)'
      BY <1>2
    <3>2. CASE cache # NotLoaded
      <4>1. Counts /\ agrees(cache)
        BY <2>1, <3>2 DEF PageOK, Settled
      <4>2. /\ query = "policy" => truth = Just(t)
            /\ query # "policy" => \A u \in Txs \ ahead' : effect(cache, t)[u] = truth[u]
        BY <1>2, <1>7, <2>1, <3>1, <3>2, <4>1, AnswerAgrees
      <4>3. cache' = effect(cache, t)
        BY <1>2, <3>2 DEF patched
      <4>4. query = "policy" => cache' = Just(t)
        BY <4>3 DEF effect
      <4> QED  BY <1>2, <4>2, <4>3, <4>4 DEF agrees
    <3>3. CASE cache = NotLoaded
      <4>1. query = "policy" /\ cache' = Just(t)
        BY <1>2, <2>1, <3>1, <3>3 DEF patched, portfolio, TypeOK
      <4>2. truth = Just(t)
        BY <2>1, <3>1, <4>1 DEF overtaken
      <4> QED  BY <1>2, <4>1, <4>2 DEF agrees
    <3> QED  BY <3>2, <3>3
  <2> QED  BY <1>2, <1>5, <2>1, <2>2, <2>3, <2>4, <2>5 DEF Watched
<1>9. Patched'
  BY <1>3, <1>4, <1>8 DEF Patched
<1> QED  BY <1>6, <1>9 DEF PageOK

LEMMA PageKept ==
    ASSUME TypeOK, RunsOK, PageOK, [AppNext]_app
    PROVE  PageOK'
<1>1. ASSUME NEW t \in Txs, Die(t) PROVE PageOK'
  <2>1. \A u \in Txs : (chain[u] = "landed") = (chain'[u] = "landed")
    BY <1>1 DEF Die, TypeOK
  <2>2. ahead' = ahead
    <3>1. taken' = taken /\ taken \subseteq Txs
      BY <1>1, TakenOrPatched DEF Die, taken, current
    <3> QED  BY <2>1, <3>1 DEF ahead
  <2> QED  BY <1>1, <2>1, <2>2, PageStays DEF Die, page
<1>2. CASE UNCHANGED app
  <2>1. ahead' = ahead
    BY <1>2 DEF app, ahead, taken, current
  <2> QED  BY <1>2, <2>1, PageStays DEF app, page
<1> QED  BY <1>1, <1>2, RunSteps, TakenKept, AnsweredKept, AnswerLostKept, LandKept,
            ConfirmedKept, RejectedKept, FetchStartKept, FetchDoneKept, ReloadKept DEF AppNext

\* With nothing under way, nothing is ahead of its answer either.
LEMMA PageIsTrue == TypeOK /\ PageOK => ShownIsTrue
<1> SUFFICES ASSUME TypeOK, PageOK, calm, under_way = {}, cache # NotLoaded
             PROVE  cache = truth /\ (query = "activity" => pending = {})
  BY DEF ShownIsTrue
<1>1. unsettled = {} /\ ahead = {}
  BY DEF under_way, ahead
<1>2. agrees(cache) /\ pending = {}
  BY <1>1 DEF PageOK, Patched, Settled
<1>3. cache \in [Txs -> Nat] /\ truth \in [Txs -> Nat]
  BY DEF TypeOK, Shown
<1> QED  BY <1>1, <1>2, <1>3, SameShown DEF agrees

\* When nothing is under way the query shows what the chain says, every
\* transaction once, unless one of the things that calm records has made it
\* unreliable: setQueryData, the rollbacks and the confirmations of
\* mutations.ts and wallet-transaction.ts, and the time between the RPC and
\* its answer.
THEOREM ShownIsTrueHolds == AppSpec => []ShownIsTrue
<1>1. AppInit => PageOK
  BY InitPage
<1>2. TypeOK /\ RunsOK /\ PageOK /\ [AppNext]_app => PageOK'
  BY PageKept
<1>3. AppSpec => []PageOK
  BY <1>1, <1>2, RunsCorrect, PTL DEF AppSpec
<1> QED  BY <1>3, RunsCorrect, PageIsTrue, PTL

-----------------------------------------------------------------------------
(* The powers of ten. *)

LEMMA PowersOfTen ==
  /\ pow10[0] = 1
  /\ \A n \in Nat : pow10[n] \in Nat /\ pow10[n] > 0
  BY PowersPositive DEF pow10

LEMMA Divides ==
  ASSUME NEW q \in Nat, q > 0, NEW raw \in Nat, raw % q = 0
  PROVE  raw \div q \in Nat /\ (raw \div q) * q = raw
BY SMT

(* What a field shows of an amount is read as that amount. *)
LEMMA RoundTrip ==
  ASSUME NEW raw \in Nat, NEW d \in Nat
  PROVE  /\ formatTokenAmount(raw, d) \in [kind : {"number"}, digits : Nat, scale : Nat]
         /\ uiAmountToRaw(formatTokenAmount(raw, d), d) = raw
<1> DEFINE S == {s \in 0..d : raw % pow10[d - s] = 0}
           scale == CHOOSE s \in 0..d :
                        /\ raw % pow10[d - s] = 0
                        /\ \A t \in 0..s - 1 : raw % pow10[d - t] # 0
<1>1. \E s \in 0..d : raw % pow10[d - s] = 0 /\ \A t \in 0..s - 1 : raw % pow10[d - t] # 0
  <2>1. S \subseteq Nat
    OBVIOUS
  <2>2. d \in S
    <3>1. d - d = 0 /\ raw % 1 = 0 /\ d \in 0..d
      BY SMT
    <3>2. QED
      BY <3>1, PowersOfTen
  <2>3. PICK s \in S : \A t \in S : s <= t
    <3> HIDE DEF S
    <3>1. QED
      BY <2>1, <2>2, LeastNumber
  <2>4. \A t \in 0..s - 1 : t \in 0..d /\ ~(s <= t)
    BY SMT
  <2>5. QED
    BY <2>3, <2>4
<1>2. scale \in 0..d /\ raw % pow10[d - scale] = 0
  BY <1>1
<1>3. formatTokenAmount(raw, d) = Number(raw \div pow10[d - scale], scale)
  BY DEF formatTokenAmount
<1> HIDE DEF scale
<1>4. d - scale \in Nat /\ scale \in Nat
  BY <1>2
<1>5. pow10[d - scale] \in Nat /\ pow10[d - scale] > 0
  BY <1>4, PowersOfTen
<1>6. /\ raw \div pow10[d - scale] \in Nat
      /\ (raw \div pow10[d - scale]) * pow10[d - scale] = raw
  BY <1>2, <1>5, Divides
<1>7. QED
  BY <1>3, <1>4, <1>6 DEF Number, uiAmountToRaw

-----------------------------------------------------------------------------
(* The invariant. *)

Texts == {[kind |-> k, digits |-> 0, scale |-> 0] : k \in {"blank", "dot"}}
         \cup [kind : {"number"}, digits : Nat, scale : Nat]
Drafts == [decimals : {Unlisted} \cup Nat, text : Texts, window : Nat, raw : Nat]
CapViews == [cap : Nat, remaining : Int, last_reset : Int, window_seconds : Nat]
Terms == [cap : Nat, window : Nat]

record(r, fields) == r = [f \in fields |-> r[f]]

view_ok(v) ==
    /\ record(v, {"status", "caps", "permissions"})
    /\ v.caps \in [DOMAIN v.caps -> CapViews]

args_ok(args) ==
    /\ args.kind \in {"set", "clear"}
    /\ args.caps \in [DOMAIN args.caps -> Terms]

form_ok(e) ==
    /\ record(e, {"open", "drafts", "programs", "confirm", "program", "busy", "touched", "basis"})
    /\ e.open = TRUE
    /\ e.drafts \in [DOMAIN e.drafts -> Drafts]
    /\ e.programs = [p \in DOMAIN e.programs |->
                        [kind |-> e.programs[p].kind, access |-> e.programs[p].access]]
    /\ e.basis \in Int

CallPhases == {"signing", "taken", "landed", "inflight", "unheard"}

mutation_ok(m) ==
    /\ record(m, {"phase", "args", "basis", "touched", "snap", "patch"})
    /\ m.phase \in CallPhases
    /\ args_ok(m.args)
    /\ m.basis \in Int

PanelTypeOK ==
    /\ view_ok(stored) /\ stored.status \in {"none", "open", "active"}
    /\ view_ok(shown)
    /\ writes \in Nat /\ now \in Nat
    /\ IF editor.open THEN form_ok(editor) ELSE editor = StatusView(editor.started)
    /\ save = [s \in Saves |-> save[s]]
    /\ \A s \in Saves : save[s] \in {Idle, Done} \/ mutation_ok(save[s])

(* What is not in `touched` stands in a form, or in a save, as in the      *)
(* policy v.                                                               *)
drafts_kept(e, v) ==
    \A a \in Assets \ e.touched :
        /\ a \in DOMAIN e.drafts <=> a \in DOMAIN v.caps
        /\ a \in DOMAIN e.drafts /\ draft_fits(e.drafts[a]) =>
               draft_args(e.drafts[a]) = [cap |-> v.caps[a].cap, window |-> v.caps[a].window_seconds]

programs_kept(e, v) ==
    \A p \in PanelPrograms \ e.touched :
        /\ p \in DOMAIN e.programs <=> p \in DOMAIN v.permissions
        /\ p \in DOMAIN e.programs => programAccessArg(e.programs[p]) = v.permissions[p]

args_kept(m, v) ==
    /\ \A a \in Assets \ m.touched :
          /\ a \in DOMAIN m.args.caps <=> a \in DOMAIN v.caps
          /\ a \in DOMAIN m.args.caps =>
                 m.args.caps[a] = [cap |-> v.caps[a].cap, window |-> v.caps[a].window_seconds]
    /\ \A p \in PanelPrograms \ m.touched :
          /\ p \in DOMAIN m.args.permissions <=> p \in DOMAIN v.permissions
          /\ p \in DOMAIN m.args.permissions => m.args.permissions[p] = v.permissions[p]

editor_keeps(e, v, n) ==
    e.open =>
        /\ e.basis <= n
        /\ e.confirm = "switch" => e.program \in e.touched
        /\ e.basis = n => drafts_kept(e, v) /\ programs_kept(e, v)

save_keeps(m, v, n) ==
    m.phase \in CallPhases \ {"landed"} =>
        /\ m.basis <= n
        /\ m.args.kind = "clear" => Assets \cup PanelPrograms \subseteq m.touched
        /\ m.basis = n => args_kept(m, v)

(* The patch of a save, computed from a view at some time. *)
foretold(args, view, t) ==
    IF args.kind = "clear" THEN Open_
    ELSE [status |-> policy_status(args.caps, args.permissions),
          caps |-> [a \in DOMAIN args.caps |->
                      LET prev == asset_cap(view.caps, a)
                          next == args.caps[a]
                      IN  IF prev.cap = next.cap /\ prev.window_seconds = next.window THEN prev
                          ELSE [cap |-> next.cap, remaining |-> next.cap, last_reset |-> t,
                                window_seconds |-> next.window]],
          permissions |-> args.permissions]

patch_ok(m) == m.phase = "inflight" => view_ok(m.snap) /\ \E t \in Nat : m.patch = foretold(m.args, m.snap, t)

PanelInv ==
    /\ PanelTypeOK
    /\ editor_keeps(editor, stored, writes)
    /\ \A s \in Saves : save_keeps(save[s], stored, writes) /\ patch_ok(save[s])
-----------------------------------------------------------------------------
LEMMA PowerTyped == \A n \in Nat : \A k \in Nat : k * pow10[n] \in Nat
<1>1. \A n \in Nat : pow10[n] \in Nat
  BY PowersOfTen
<1>2. \A x \in Nat, y \in Nat : x * y \in Nat
  BY SMT
<1>3. QED
  BY <1>1, <1>2

(* A draft that fits stands for terms. *)
LEMMA DraftArgsTyped ==
  ASSUME NEW d \in Drafts, draft_fits(d)
  PROVE  draft_args(d) \in Terms
<1>1. CASE d.decimals = Unlisted
  BY <1>1 DEF draft_args, Drafts, Terms
<1>2. CASE d.decimals # Unlisted
  <2>1. d.decimals \in Nat /\ d.text \in Texts /\ amount_fits(d.text, d.decimals)
    BY <1>2 DEF Drafts, draft_fits
  <2>2. d.text.digits \in Nat /\ d.text.scale \in Nat /\ d.text.scale <= d.decimals
    BY <2>1 DEF Texts, amount_fits
  <2>3. d.decimals - d.text.scale \in Nat
    BY <2>1, <2>2
  <2>4. uiAmountToRaw(d.text, d.decimals) \in Nat
    BY <2>2, <2>3, PowerTyped DEF uiAmountToRaw
  <2>5. QED
    BY <1>2, <2>4 DEF draft_args, Drafts, Terms
<1>3. QED
  BY <1>1, <1>2

(* A draft of a cap stands for that cap. *)
LEMMA DraftOfCap ==
  ASSUME NEW d \in {Unlisted} \cup Nat, NEW cap \in Nat, NEW window \in Nat
  PROVE  /\ draft_of(d, cap, window) \in Drafts
         /\ draft_args(draft_of(d, cap, window)) = [cap |-> cap, window |-> window]
<1>1. CASE d = Unlisted
  <2>1. Blank \in Texts
    BY DEF Blank, Texts
  <2>2. QED
    BY <1>1, <2>1 DEF draft_of, Draft, draft_args, Drafts
<1>2. CASE d # Unlisted
  <2>1. d \in Nat
    BY <1>2
  <2>2. formatTokenAmount(cap, d) \in Texts /\ uiAmountToRaw(formatTokenAmount(cap, d), d) = cap
    BY <2>1, RoundTrip DEF Texts
  <2>3. QED
    BY <1>2, <2>1, <2>2 DEF draft_of, Draft, draft_args, Drafts
<1>3. QED
  BY <1>1, <1>2

LEMMA DecimalsTyped == \A a : decimals_of(a) \in {Unlisted} \cup Nat
<1>1. SolDecimals \in Nat /\ Decimals \in [DOMAIN Decimals -> Nat]
  BY PanelAssumption
<1>2. \A a \in DOMAIN catalog : catalog[a] \in Nat
  BY <1>1 DEF catalog
<1>3. QED
  BY <1>1, <1>2 DEF decimals_of

LEMMA AccessKinds ==
  \A x : programAccessArg([kind |-> accessKind(x), access |-> x]) = x
BY DEF programAccessArg, accessKind

(* The form as it is mounted. *)
LEMMA InitialForm ==
  view_ok(shown) /\ view_ok(stored) /\ writes \in Nat
  => initialForm.open /\ form_ok(initialForm) /\ editor_keeps(initialForm, stored, writes)
<1> SUFFICES ASSUME view_ok(shown), view_ok(stored), writes \in Nat
             PROVE  initialForm.open /\ form_ok(initialForm) /\ editor_keeps(initialForm, stored, writes)
  OBVIOUS
<1> DEFINE e == initialForm
           draft(a) == draft_of(decimals_of(a), shown.caps[a].cap, shown.caps[a].window_seconds)
<1>1. /\ e.open = TRUE /\ e.confirm = "none" /\ e.touched = {}
      /\ e.drafts = [a \in DOMAIN shown.caps |-> draft(a)]
      /\ e.programs = [p \in DOMAIN shown.permissions |->
                          [kind |-> accessKind(shown.permissions[p]), access |-> shown.permissions[p]]]
      /\ e.basis = IF terms(shown) = terms(fetched) THEN writes ELSE -1
      /\ record(e, {"open", "drafts", "programs", "confirm", "program", "busy", "touched", "basis"})
  BY DEF initialForm, record
<1>2. \A a \in DOMAIN shown.caps : shown.caps[a].cap \in Nat /\ shown.caps[a].window_seconds \in Nat
  BY DEF view_ok, CapViews
<1>3. \A a \in DOMAIN shown.caps :
          /\ draft(a) \in Drafts
          /\ draft_args(draft(a)) = [cap |-> shown.caps[a].cap, window |-> shown.caps[a].window_seconds]
  BY <1>2, DecimalsTyped, DraftOfCap
<1> HIDE DEF e, draft
<1>4. form_ok(e)
  <2>1. e.drafts \in [DOMAIN e.drafts -> Drafts]
    BY <1>1, <1>3
  <2>2. e.programs = [p \in DOMAIN e.programs |-> [kind |-> e.programs[p].kind, access |-> e.programs[p].access]]
    BY <1>1
  <2>3. e.basis \in Int
    BY <1>1
  <2>4. QED
    BY <1>1, <2>1, <2>2, <2>3 DEF form_ok
<1>5. ASSUME e.basis = writes PROVE drafts_kept(e, stored) /\ programs_kept(e, stored)
  <2>1. terms(shown) = terms(fetched)
    BY <1>1, <1>5
  <2>2. fetched.caps = stored.caps /\ fetched.permissions = stored.permissions
    BY DEF fetched, view_ok, record
  <2>3. /\ [a \in DOMAIN shown.caps |-> <<shown.caps[a].cap, shown.caps[a].window_seconds>>]
            = [a \in DOMAIN stored.caps |-> <<stored.caps[a].cap, stored.caps[a].window_seconds>>]
        /\ shown.permissions = stored.permissions
    BY <2>1, <2>2 DEF terms
  <2>4. DOMAIN shown.caps = DOMAIN stored.caps
    BY <2>3
  <2>5. ASSUME NEW a \in DOMAIN shown.caps
        PROVE  shown.caps[a].cap = stored.caps[a].cap /\ shown.caps[a].window_seconds = stored.caps[a].window_seconds
    <3>1. <<shown.caps[a].cap, shown.caps[a].window_seconds>> = <<stored.caps[a].cap, stored.caps[a].window_seconds>>
      BY <2>3, <2>4
    <3>2. QED
      BY <3>1
  <2>6. drafts_kept(e, stored)
    BY <1>1, <1>3, <2>4, <2>5 DEF drafts_kept
  <2>7. programs_kept(e, stored)
    BY <1>1, <2>3, AccessKinds DEF programs_kept
  <2>8. QED
    BY <2>6, <2>7
<1>6. editor_keeps(e, stored, writes)
  BY <1>1, <1>5 DEF editor_keeps
<1>7. QED
  BY <1>1, <1>4, <1>6 DEF e

-----------------------------------------------------------------------------
(* Steps. *)

editor_ok(e) == IF e.open THEN form_ok(e) ELSE e = StatusView(e.started)

(* Only the editor changes. *)
LEMMA EditorStep ==
  ASSUME PanelInv, stored' = stored, writes' = writes, now' = now, view_ok(shown'), save' = save,
         editor_ok(editor'), editor_keeps(editor', stored, writes)
  PROVE  PanelInv'
BY DEF PanelInv, PanelTypeOK, editor_ok

(* So does the one call of a mutation. *)
LEMMA SaveStep ==
  ASSUME PanelInv, stored' = stored, writes' = writes, now' = now, view_ok(shown'),
         NEW s \in Saves, NEW m, save' = [save EXCEPT ![s] = m],
         m \in {Idle, Done} \/ mutation_ok(m), save_keeps(m, stored, writes), patch_ok(m),
         editor_ok(editor'), editor_keeps(editor', stored, writes)
  PROVE  PanelInv'
<1>1. save = [t \in Saves |-> save[t]]
  BY DEF PanelInv, PanelTypeOK
<1>2. save' = [t \in Saves |-> IF t = s THEN m ELSE save[t]]
  BY <1>1
<1>3. save' = [t \in Saves |-> save'[t]]
  BY <1>2
<1>4. \A t \in Saves : save'[t] = IF t = s THEN m ELSE save[t]
  BY <1>2
<1>5. PanelTypeOK'
  BY <1>3, <1>4 DEF PanelInv, PanelTypeOK, editor_ok
<1>6. \A t \in Saves : save_keeps(save[t], stored, writes)' /\ patch_ok(save[t])'
  BY <1>4 DEF PanelInv
<1>7. QED
  BY <1>5, <1>6 DEF PanelInv

(* Fields of a form replaced. *)
LEMMA NewDrafts ==
  ASSUME NEW e, form_ok(e), NEW x, NEW w, w = [e EXCEPT !.drafts = x], x \in [DOMAIN x -> Drafts]
  PROVE  /\ form_ok(w) /\ w.drafts = x /\ w.programs = e.programs /\ w.confirm = e.confirm
         /\ w.program = e.program /\ w.busy = e.busy /\ w.touched = e.touched /\ w.basis = e.basis
BY DEF form_ok, record

LEMMA NewPrograms ==
  ASSUME NEW e, form_ok(e), NEW x, NEW w, w = [e EXCEPT !.programs = x],
         x = [p \in DOMAIN x |-> [kind |-> x[p].kind, access |-> x[p].access]]
  PROVE  /\ form_ok(w) /\ w.drafts = e.drafts /\ w.programs = x /\ w.confirm = e.confirm
         /\ w.program = e.program /\ w.busy = e.busy /\ w.touched = e.touched /\ w.basis = e.basis
BY DEF form_ok, record

LEMMA NewDialog ==
  ASSUME NEW e, form_ok(e), NEW x, NEW y, NEW w, w = [e EXCEPT !.confirm = x, !.program = y]
  PROVE  /\ form_ok(w) /\ w.drafts = e.drafts /\ w.programs = e.programs /\ w.confirm = x
         /\ w.program = y /\ w.busy = e.busy /\ w.touched = e.touched /\ w.basis = e.basis
BY DEF form_ok, record

LEMMA NewConfirm ==
  ASSUME NEW e, form_ok(e), NEW x, NEW w, w = [e EXCEPT !.confirm = x]
  PROVE  /\ form_ok(w) /\ w.drafts = e.drafts /\ w.programs = e.programs /\ w.confirm = x
         /\ w.program = e.program /\ w.busy = e.busy /\ w.touched = e.touched /\ w.basis = e.basis
BY DEF form_ok, record

LEMMA NewProgram ==
  ASSUME NEW e, form_ok(e), NEW x, NEW w, w = [e EXCEPT !.program = x]
  PROVE  /\ form_ok(w) /\ w.drafts = e.drafts /\ w.programs = e.programs /\ w.confirm = e.confirm
         /\ w.program = x /\ w.busy = e.busy /\ w.touched = e.touched /\ w.basis = e.basis
BY DEF form_ok, record

LEMMA NewBusy ==
  ASSUME NEW e, form_ok(e), NEW x, NEW w, w = [e EXCEPT !.busy = x]
  PROVE  /\ form_ok(w) /\ w.drafts = e.drafts /\ w.programs = e.programs /\ w.confirm = e.confirm
         /\ w.program = e.program /\ w.busy = x /\ w.touched = e.touched /\ w.basis = e.basis
BY DEF form_ok, record

LEMMA NewTouched ==
  ASSUME NEW e, form_ok(e), NEW x, NEW w, w = [e EXCEPT !.touched = @ \cup x]
  PROVE  /\ form_ok(w) /\ w.drafts = e.drafts /\ w.programs = e.programs /\ w.confirm = e.confirm
         /\ w.program = e.program /\ w.busy = e.busy /\ w.touched = e.touched \cup x /\ w.basis = e.basis
BY DEF form_ok, record

(* A change of the form by its user. *)
LEMMA EditStep ==
  ASSUME PanelInv, editor.open, NEW new, NEW what, Edit(new, what),
         form_ok(new), new.basis = editor.basis, new.touched = editor.touched,
         new.confirm = "switch" => new.program \in editor.touched \cup what,
         \A a : a \notin what =>
            /\ a \in DOMAIN new.drafts <=> a \in DOMAIN editor.drafts
            /\ a \in DOMAIN new.drafts => new.drafts[a] = editor.drafts[a],
         \A p : p \notin what =>
            /\ p \in DOMAIN new.programs <=> p \in DOMAIN editor.programs
            /\ p \in DOMAIN new.programs => new.programs[p] = editor.programs[p]
  PROVE  PanelInv'
<1>1. /\ stored' = stored /\ writes' = writes /\ now' = now /\ shown' = shown /\ save' = save
      /\ editor' = [new EXCEPT !.touched = @ \cup what]
  BY DEF Edit, account
<1> DEFINE e == editor'
<1>2. e = [new EXCEPT !.touched = @ \cup what]
  BY <1>1
<1> HIDE DEF e
<1>3. /\ form_ok(e) /\ e.drafts = new.drafts /\ e.programs = new.programs /\ e.confirm = new.confirm
      /\ e.program = new.program /\ e.touched = editor.touched \cup what /\ e.basis = editor.basis
  BY <1>2, NewTouched
<1>4. e.open = TRUE
  BY <1>3 DEF form_ok
<1>5. editor_keeps(editor, stored, writes) /\ view_ok(shown)
  BY DEF PanelInv, PanelTypeOK
<1>6. ASSUME e.basis = writes PROVE drafts_kept(e, stored) /\ programs_kept(e, stored)
  <2>1. drafts_kept(editor, stored) /\ programs_kept(editor, stored)
    BY <1>3, <1>5, <1>6 DEF editor_keeps
  <2>2. drafts_kept(e, stored)
    BY <1>3, <2>1 DEF drafts_kept
  <2>3. programs_kept(e, stored)
    BY <1>3, <2>1 DEF programs_kept
  <2>4. QED
    BY <2>2, <2>3
<1>7. editor_keeps(e, stored, writes)
  BY <1>3, <1>5, <1>6 DEF editor_keeps
<1>8. editor_ok(e)
  BY <1>3, <1>4 DEF editor_ok
<1>9. QED
  BY <1>1, <1>5, <1>7, <1>8, EditorStep DEF e

LEMMA OpenForm ==
  ASSUME PanelInv, editor.open
  PROVE  /\ form_ok(editor)
         /\ editor.drafts \in [DOMAIN editor.drafts -> Drafts]
         /\ editor.programs = [p \in DOMAIN editor.programs |->
                                  [kind |-> editor.programs[p].kind, access |-> editor.programs[p].access]]
         /\ editor.basis \in Int
BY DEF PanelInv, PanelTypeOK, form_ok

(* The form with other drafts, and with other programs. *)
LEMMA DraftsStep ==
  ASSUME PanelInv, editing, NEW drafts, NEW what, Edit([editor EXCEPT !.drafts = drafts], what),
         drafts \in [DOMAIN drafts -> Drafts],
         \A x : x \notin what =>
            /\ x \in DOMAIN drafts <=> x \in DOMAIN editor.drafts
            /\ x \in DOMAIN drafts => drafts[x] = editor.drafts[x]
  PROVE  PanelInv'
<1> DEFINE new == [editor EXCEPT !.drafts = drafts]
<1>1. editor.open /\ editor.confirm = "none" /\ form_ok(editor)
  BY OpenForm DEF editing
<1>2. Edit(new, what) /\ new = [editor EXCEPT !.drafts = drafts]
  OBVIOUS
<1> HIDE DEF new
<1>3. /\ form_ok(new) /\ new.drafts = drafts /\ new.programs = editor.programs /\ new.confirm = editor.confirm
      /\ new.touched = editor.touched /\ new.basis = editor.basis
  BY <1>1, <1>2, NewDrafts
<1>4. QED
  BY <1>1, <1>2, <1>3, EditStep

LEMMA ProgramsStep ==
  ASSUME PanelInv, editing, NEW programs, NEW what, Edit([editor EXCEPT !.programs = programs], what),
         programs = [p \in DOMAIN programs |-> [kind |-> programs[p].kind, access |-> programs[p].access]],
         \A x : x \notin what =>
            /\ x \in DOMAIN programs <=> x \in DOMAIN editor.programs
            /\ x \in DOMAIN programs => programs[x] = editor.programs[x]
  PROVE  PanelInv'
<1> DEFINE new == [editor EXCEPT !.programs = programs]
<1>1. editor.open /\ editor.confirm = "none" /\ form_ok(editor)
  BY OpenForm DEF editing
<1>2. Edit(new, what) /\ new = [editor EXCEPT !.programs = programs]
  OBVIOUS
<1> HIDE DEF new
<1>3. /\ form_ok(new) /\ new.drafts = editor.drafts /\ new.programs = programs /\ new.confirm = editor.confirm
      /\ new.touched = editor.touched /\ new.basis = editor.basis
  BY <1>1, <1>2, NewPrograms
<1>4. QED
  BY <1>1, <1>2, <1>3, EditStep

-----------------------------------------------------------------------------
(* What the user does in the form. *)

LEMMA OpenStep == ASSUME PanelInv, OpenEditor PROVE PanelInv'
<1>1. /\ stored' = stored /\ writes' = writes /\ now' = now /\ shown' = shown /\ save' = save
      /\ editor' = initialForm
  BY DEF OpenEditor, account
<1>2. view_ok(shown) /\ view_ok(stored) /\ writes \in Nat
  BY DEF PanelInv, PanelTypeOK
<1>3. initialForm.open /\ form_ok(initialForm) /\ editor_keeps(initialForm, stored, writes)
  BY <1>2, InitialForm
<1>4. editor_ok(initialForm)
  BY <1>3 DEF editor_ok
<1>5. QED
  BY <1>1, <1>2, <1>3, <1>4, EditorStep

(* The editor is closed. *)
LEMMA ClosedOK ==
  ASSUME NEW started
  PROVE  editor_ok(StatusView(started)) /\ editor_keeps(StatusView(started), stored, writes)
BY DEF editor_ok, editor_keeps, StatusView

LEMMA CloseStep == ASSUME PanelInv, CloseEditor PROVE PanelInv'
<1>1. /\ stored' = stored /\ writes' = writes /\ now' = now /\ shown' = shown /\ save' = save
      /\ editor' = StatusView({})
  BY DEF CloseEditor, account, NoForm
<1>2. view_ok(shown)
  BY DEF PanelInv, PanelTypeOK
<1>3. QED
  BY <1>1, <1>2, ClosedOK, EditorStep

LEMMA AmountStep ==
  ASSUME PanelInv, NEW a, NEW text \in Typed, ChangeAmount(a, text)
  PROVE  PanelInv'
<1>1. editing /\ a \in DOMAIN editor.drafts
  BY DEF ChangeAmount
<1>2. form_ok(editor) /\ editor.drafts \in [DOMAIN editor.drafts -> Drafts]
  BY <1>1, OpenForm DEF editing
<1> DEFINE x == [editor.drafts EXCEPT ![a].text = text]
<1>3. Edit([editor EXCEPT !.drafts = x], {a})
  BY <1>2 DEF ChangeAmount, form_ok, record
<1>4. text \in Texts
  BY PanelAssumption DEF Texts
<1>5. x \in [DOMAIN x -> Drafts] /\ DOMAIN x = DOMAIN editor.drafts
  BY <1>2, <1>4 DEF Drafts
<1>6. \A b : b # a /\ b \in DOMAIN editor.drafts => x[b] = editor.drafts[b]
  BY <1>2
<1> HIDE DEF x
<1>7. QED
  BY <1>1, <1>3, <1>5, <1>6, DraftsStep

LEMMA WindowStep ==
  ASSUME PanelInv, NEW a, NEW w \in PanelWindows, ChangeWindow(a, w)
  PROVE  PanelInv'
<1>1. editing /\ a \in DOMAIN editor.drafts
  BY DEF ChangeWindow
<1>2. form_ok(editor) /\ editor.drafts \in [DOMAIN editor.drafts -> Drafts]
  BY <1>1, OpenForm DEF editing
<1> DEFINE x == [editor.drafts EXCEPT ![a].window = w]
<1>3. Edit([editor EXCEPT !.drafts = x], {a})
  BY <1>2 DEF ChangeWindow, form_ok, record
<1>4. w \in Nat
  BY PanelAssumption
<1>5. x \in [DOMAIN x -> Drafts] /\ DOMAIN x = DOMAIN editor.drafts
  BY <1>2, <1>4 DEF Drafts
<1>6. \A b : b # a /\ b \in DOMAIN editor.drafts => x[b] = editor.drafts[b]
  BY <1>2
<1> HIDE DEF x
<1>7. QED
  BY <1>1, <1>3, <1>5, <1>6, DraftsStep

LEMMA RemoveDraftStep ==
  ASSUME PanelInv, NEW a, RemoveDraft(a)
  PROVE  PanelInv'
<1>1. editing
  BY DEF RemoveDraft
<1>2. form_ok(editor) /\ editor.drafts \in [DOMAIN editor.drafts -> Drafts]
  BY <1>1, OpenForm DEF editing
<1> DEFINE x == without(editor.drafts, a)
<1>3. Edit([editor EXCEPT !.drafts = x], {a})
  BY <1>2 DEF RemoveDraft, form_ok, record
<1>4. x \in [DOMAIN x -> Drafts] /\ DOMAIN x = DOMAIN editor.drafts \ {a}
  BY <1>2 DEF without
<1>5. \A b : b # a /\ b \in DOMAIN editor.drafts => x[b] = editor.drafts[b]
  BY <1>2 DEF without
<1> HIDE DEF x
<1>6. QED
  BY <1>1, <1>3, <1>4, <1>5, DraftsStep

LEMMA AddTokenStep ==
  ASSUME PanelInv, NEW a, AddToken(a)
  PROVE  PanelInv'
<1>1. editing
  BY DEF AddToken
<1>2. form_ok(editor) /\ editor.drafts \in [DOMAIN editor.drafts -> Drafts]
  BY <1>1, OpenForm DEF editing
<1> DEFINE d == Draft(decimals_of(a), Blank, DefaultWindow, 0)
           x == with(editor.drafts, a, d)
<1>3. Edit([editor EXCEPT !.drafts = x], {a})
  BY <1>2 DEF AddToken, form_ok, record
<1>4. d \in Drafts
  <2>1. DefaultWindow \in Nat
    BY PanelAssumption
  <2>2. Blank \in Texts
    BY DEF Blank, Texts
  <2>3. QED
    BY <2>1, <2>2, DecimalsTyped DEF Draft, Drafts
<1> HIDE DEF d
<1>5. x \in [DOMAIN x -> Drafts] /\ DOMAIN x = DOMAIN editor.drafts \cup {a}
  BY <1>2, <1>4 DEF with
<1>6. \A b : b # a /\ b \in DOMAIN editor.drafts => x[b] = editor.drafts[b]
  BY <1>2 DEF with
<1> HIDE DEF x
<1>7. QED
  BY <1>1, <1>3, <1>5, <1>6, DraftsStep

LEMMA PresetStep ==
  ASSUME PanelInv, NEW preset \in Presets, ApplyPreset(preset)
  PROVE  PanelInv'
<1>1. editing /\ DOMAIN editor.drafts = {}
  BY DEF ApplyPreset
<1>2. form_ok(editor)
  BY <1>1, OpenForm DEF editing
<1> DEFINE d(a) == IF decimals_of(a) = Unlisted THEN PresetDecimals ELSE decimals_of(a)
           draft(a) == draft_of(d(a), preset[a].cap, preset[a].window)
           x == [a \in DOMAIN preset |-> draft(a)]
<1>3. Edit([editor EXCEPT !.drafts = x], DOMAIN preset)
  BY <1>2 DEF ApplyPreset, form_ok, record
<1>4. \A a \in DOMAIN preset : draft(a) \in Drafts
  <2>1. PresetDecimals \in Nat /\ preset \in [DOMAIN preset -> [cap : Nat, window : Nat]]
    BY PanelAssumption
  <2>2. \A a \in DOMAIN preset : preset[a].cap \in Nat /\ preset[a].window \in Nat
    BY <2>1
  <2>3. \A a : d(a) \in {Unlisted} \cup Nat
    BY <2>1, DecimalsTyped
  <2> HIDE DEF d
  <2>4. QED
    BY <2>2, <2>3, DraftOfCap
<1> HIDE DEF draft
<1>5. x \in [DOMAIN x -> Drafts] /\ DOMAIN x = DOMAIN preset
  BY <1>4
<1> HIDE DEF x
<1>6. QED
  BY <1>1, <1>3, <1>5, DraftsStep

LEMMA AddProgramStep ==
  ASSUME PanelInv, NEW p, AddProgram(p)
  PROVE  PanelInv'
<1>1. editing
  BY DEF AddProgram
<1>2. /\ form_ok(editor)
      /\ editor.programs = [q \in DOMAIN editor.programs |->
                               [kind |-> editor.programs[q].kind, access |-> editor.programs[q].access]]
  BY <1>1, OpenForm DEF editing
<1> DEFINE x == with(editor.programs, p, [kind |-> "deny", access |-> NoSave])
<1>3. Edit([editor EXCEPT !.programs = x], {p})
  BY <1>2 DEF AddProgram, form_ok, record
<1>4. DOMAIN x = DOMAIN editor.programs \cup {p}
  BY DEF with
<1>5. \A q : q # p /\ q \in DOMAIN editor.programs => x[q] = editor.programs[q]
  BY DEF with
<1>6. x[p] = [kind |-> "deny", access |-> NoSave]
  BY DEF with
<1>7. x = [q \in DOMAIN x |-> x[q]]
  BY DEF with
<1> HIDE DEF x
<1>8. \A q \in DOMAIN editor.programs :
         editor.programs[q] = [kind |-> editor.programs[q].kind, access |-> editor.programs[q].access]
  BY <1>2
<1>9. \A q \in DOMAIN x : x[q] = [kind |-> x[q].kind, access |-> x[q].access]
  BY <1>4, <1>5, <1>6, <1>8
<1>10. x = [q \in DOMAIN x |-> [kind |-> x[q].kind, access |-> x[q].access]]
  BY <1>7, <1>9
<1>11. QED
  BY <1>1, <1>3, <1>4, <1>5, <1>10, ProgramsStep

LEMMA DenyStep ==
  ASSUME PanelInv, NEW p, DenyProgram(p)
  PROVE  PanelInv'
<1>1. editing /\ p \in DOMAIN editor.programs
  BY DEF DenyProgram
<1>2. /\ form_ok(editor)
      /\ editor.programs = [q \in DOMAIN editor.programs |->
                               [kind |-> editor.programs[q].kind, access |-> editor.programs[q].access]]
  BY <1>1, OpenForm DEF editing
<1> DEFINE x == [editor.programs EXCEPT ![p].kind = "deny"]
<1>3. Edit([editor EXCEPT !.programs = x], {p})
  BY <1>2 DEF DenyProgram, form_ok, record
<1>4. \A q \in DOMAIN editor.programs :
         editor.programs[q] = [kind |-> editor.programs[q].kind, access |-> editor.programs[q].access]
  BY <1>2
<1>5. /\ DOMAIN x = DOMAIN editor.programs
      /\ \A q \in DOMAIN editor.programs : q # p => x[q] = editor.programs[q]
      /\ x[p] = [editor.programs[p] EXCEPT !.kind = "deny"]
      /\ x = [q \in DOMAIN x |-> x[q]]
  BY <1>1
<1>6. x[p] = [kind |-> x[p].kind, access |-> x[p].access]
  BY <1>1, <1>4, <1>5
<1> HIDE DEF x
<1>7. \A q \in DOMAIN x : x[q] = [kind |-> x[q].kind, access |-> x[q].access]
  BY <1>4, <1>5, <1>6
<1>8. x = [q \in DOMAIN x |-> [kind |-> x[q].kind, access |-> x[q].access]]
  BY <1>5, <1>7
<1>9. QED
  BY <1>1, <1>3, <1>5, <1>8, ProgramsStep

LEMMA RemoveProgramStep ==
  ASSUME PanelInv, NEW p, RemoveProgram(p)
  PROVE  PanelInv'
<1>1. editing
  BY DEF RemoveProgram
<1>2. /\ form_ok(editor)
      /\ editor.programs = [q \in DOMAIN editor.programs |->
                               [kind |-> editor.programs[q].kind, access |-> editor.programs[q].access]]
  BY <1>1, OpenForm DEF editing
<1> DEFINE x == without(editor.programs, p)
<1>3. Edit([editor EXCEPT !.programs = x], {p})
  BY <1>2 DEF RemoveProgram, form_ok, record
<1>4. /\ DOMAIN x = DOMAIN editor.programs \ {p}
      /\ \A q \in DOMAIN x : x[q] = editor.programs[q]
      /\ x = [q \in DOMAIN x |-> x[q]]
  BY DEF without
<1> HIDE DEF x
<1>5. x = [q \in DOMAIN x |-> [kind |-> x[q].kind, access |-> x[q].access]]
  BY <1>2, <1>4
<1>6. QED
  BY <1>1, <1>3, <1>4, <1>5, ProgramsStep

(* Asking, or asking no more, touches nothing else of a form. *)
asking(e, c, p) == [e EXCEPT !.confirm = c, !.program = p]

LEMMA AskedForm ==
  ASSUME NEW e, form_ok(e), NEW c, NEW p
  PROVE  LET new == asking(e, c, p) IN
         /\ form_ok(new) /\ new.drafts = e.drafts /\ new.programs = e.programs
         /\ new.confirm = c /\ new.program = p /\ new.touched = e.touched /\ new.basis = e.basis
<1> DEFINE new == asking(e, c, p)
           F == {"open", "drafts", "programs", "confirm", "program", "busy", "touched", "basis"}
<1>1. DOMAIN e = F
  BY DEF form_ok, record
<1>2. record(new, F)
  BY <1>1 DEF record, asking
<1>3. /\ new.open = e.open /\ new.drafts = e.drafts /\ new.programs = e.programs
      /\ new.confirm = c /\ new.program = p /\ new.touched = e.touched /\ new.basis = e.basis
  BY <1>1 DEF asking
<1> HIDE DEF new
<1>4. form_ok(new)
  BY <1>2, <1>3 DEF form_ok
<1> QED  BY <1>3, <1>4 DEF new

(* The dialog that asks before a program is allowed. *)
LEMMA AllowStep ==
  ASSUME PanelInv, NEW p, AllowProgram(p)
  PROVE  PanelInv'
<1> DEFINE new == [editor EXCEPT !.confirm = "switch", !.program = p]
<1>1. editor.open /\ Edit(new, {p}) /\ form_ok(editor)
  BY OpenForm DEF AllowProgram, editing
<1>2. new = asking(editor, "switch", p)
  BY DEF asking
<1> HIDE DEF new
<1>3. /\ form_ok(new) /\ new.drafts = editor.drafts /\ new.programs = editor.programs
      /\ new.program = p /\ new.touched = editor.touched /\ new.basis = editor.basis
  BY <1>1, <1>2, AskedForm
<1>4. QED
  BY <1>1, <1>3, EditStep

(* A form with the drafts and programs of the editor keeps what it keeps. *)
LEMMA SameForm ==
  ASSUME PanelInv, editor.open, NEW e, form_ok(e), e.drafts = editor.drafts, e.programs = editor.programs,
         e.touched = editor.touched, e.basis = editor.basis, e.confirm # "switch" \/ e = editor
  PROVE  editor_ok(e) /\ editor_keeps(e, stored, writes)
<1>1. e.open
  BY DEF form_ok
<1>2. editor_keeps(editor, stored, writes)
  BY DEF PanelInv
<1>3. QED
  BY <1>1, <1>2 DEF editor_ok, editor_keeps, drafts_kept, programs_kept

LEMMA DismissStep == ASSUME PanelInv, DismissConfirm PROVE PanelInv'
<1> DEFINE new == [editor EXCEPT !.confirm = "none", !.program = NoSave]
<1>1. /\ stored' = stored /\ writes' = writes /\ now' = now /\ shown' = shown /\ save' = save
      /\ editor' = new /\ form_ok(editor) /\ editor.open /\ view_ok(shown)
  BY OpenForm DEF DismissConfirm, account, PanelInv, PanelTypeOK
<1>2. new = asking(editor, "none", NoSave)
  BY DEF asking
<1> HIDE DEF new
<1>3. /\ form_ok(new) /\ new.drafts = editor.drafts /\ new.programs = editor.programs
      /\ new.confirm = "none" /\ new.touched = editor.touched /\ new.basis = editor.basis
  BY <1>1, <1>2, AskedForm
<1>4. editor_ok(new) /\ editor_keeps(new, stored, writes)
  BY <1>1, <1>3, SameForm
<1>5. QED
  BY <1>1, <1>4, EditorStep

(* A mutation, newly called. *)
LEMMA NewMutation ==
  ASSUME NEW args, args_ok(args), NEW basis \in Int, NEW touched,
         NEW m, m = Mutation(args, basis, touched)
  PROVE  /\ mutation_ok(m) /\ patch_ok(m)
         /\ m.phase = "signing" /\ m.args = args /\ m.basis = basis /\ m.touched = touched
BY DEF Mutation, mutation_ok, patch_ok, record, CallPhases

(* What the form passes is what its drafts and programs stand for. *)
LEMMA FormArgs ==
  ASSUME PanelInv, editor.open, \A a \in DOMAIN editor.drafts : draft_fits(editor.drafts[a])
  PROVE  /\ args_ok(form_args) /\ form_args.kind = "set"
         /\ form_args.caps = [a \in DOMAIN editor.drafts |-> draft_args(editor.drafts[a])]
         /\ form_args.permissions = [p \in DOMAIN editor.programs |-> programAccessArg(editor.programs[p])]
<1>1. /\ form_args.kind = "set"
      /\ form_args.caps = [a \in DOMAIN editor.drafts |-> draft_args(editor.drafts[a])]
      /\ form_args.permissions = [p \in DOMAIN editor.programs |-> programAccessArg(editor.programs[p])]
  BY DEF form_args, Args
<1>2. \A a \in DOMAIN editor.drafts : editor.drafts[a] \in Drafts
  BY OpenForm
<1>3. \A a \in DOMAIN editor.drafts : draft_args(editor.drafts[a]) \in Terms
  BY <1>2, DraftArgsTyped
<1>4. args_ok(form_args)
  BY <1>1, <1>3 DEF args_ok
<1>5. QED
  BY <1>1, <1>4

(* The save that is called, or the form as it was with an error at a field. *)
LEMMA CommitStep ==
  ASSUME PanelInv, editor.open, NEW s \in Saves, NEW new, commitSave(s, new),
         form_ok(new), new.drafts = editor.drafts, new.programs = editor.programs,
         new.touched = editor.touched, new.basis = editor.basis, new.confirm # "switch",
         stored' = stored, writes' = writes, now' = now, shown' = shown
  PROVE  PanelInv'
<1>1. view_ok(shown) /\ editor_keeps(editor, stored, writes)
  BY DEF PanelInv, PanelTypeOK
<1>2. CASE \A a \in DOMAIN editor.drafts : draft_fits(editor.drafts[a])
  <2> DEFINE m == Mutation(form_args, editor.basis, editor.touched)
             e == [new EXCEPT !.busy = s]
  <2>1. save' = [save EXCEPT ![s] = m] /\ editor' = e
    BY <1>2 DEF commitSave
  <2>2. m = Mutation(form_args, editor.basis, editor.touched) /\ e = [new EXCEPT !.busy = s]
    OBVIOUS
  <2> HIDE DEF m, e
  <2>3. /\ args_ok(form_args) /\ form_args.kind = "set"
        /\ form_args.caps = [a \in DOMAIN editor.drafts |-> draft_args(editor.drafts[a])]
        /\ form_args.permissions = [p \in DOMAIN editor.programs |-> programAccessArg(editor.programs[p])]
    BY <1>2, FormArgs
  <2>4. editor.basis \in Int
    BY OpenForm
  <2>5. /\ mutation_ok(m) /\ patch_ok(m)
        /\ m.args = form_args /\ m.basis = editor.basis /\ m.touched = editor.touched
    BY <2>2, <2>3, <2>4, NewMutation
  <2>6. ASSUME m.basis = writes PROVE args_kept(m, stored)
    <3>1. drafts_kept(editor, stored) /\ programs_kept(editor, stored)
      BY <1>1, <2>5, <2>6 DEF editor_keeps
    <3>2. \A a \in Assets \ m.touched :
              /\ a \in DOMAIN m.args.caps <=> a \in DOMAIN stored.caps
              /\ a \in DOMAIN m.args.caps =>
                     m.args.caps[a] = [cap |-> stored.caps[a].cap, window |-> stored.caps[a].window_seconds]
      BY <1>2, <2>3, <2>5, <3>1 DEF drafts_kept
    <3>3. \A p \in PanelPrograms \ m.touched :
              /\ p \in DOMAIN m.args.permissions <=> p \in DOMAIN stored.permissions
              /\ p \in DOMAIN m.args.permissions => m.args.permissions[p] = stored.permissions[p]
      BY <2>3, <2>5, <3>1 DEF programs_kept
    <3>4. QED
      BY <3>2, <3>3 DEF args_kept
  <2>7. save_keeps(m, stored, writes)
    BY <1>1, <2>3, <2>5, <2>6 DEF save_keeps, editor_keeps
  <2>8. /\ form_ok(e) /\ e.drafts = editor.drafts /\ e.programs = editor.programs
        /\ e.touched = editor.touched /\ e.basis = editor.basis /\ e.confirm # "switch"
    BY <2>2, NewBusy
  <2>9. editor_ok(e) /\ editor_keeps(e, stored, writes)
    BY <2>8, SameForm
  <2>10. QED
    BY <1>1, <2>1, <2>5, <2>7, <2>9, SaveStep
<1>3. CASE ~\A a \in DOMAIN editor.drafts : draft_fits(editor.drafts[a])
  <2>1. editor' = new /\ save' = save
    BY <1>3 DEF commitSave
  <2>2. editor_ok(new) /\ editor_keeps(new, stored, writes)
    BY SameForm
  <2>3. QED
    BY <1>1, <2>1, <2>2, EditorStep
<1>4. QED
  BY <1>2, <1>3

LEMMA SaveCallStep == ASSUME PanelInv, NEW s \in Saves, Save(s) PROVE PanelInv'
<1>1. /\ stored' = stored /\ writes' = writes /\ now' = now /\ shown' = shown
      /\ editor.open /\ editor.confirm = "none" /\ form_ok(editor) /\ view_ok(shown)
  BY OpenForm DEF Save, editing, account, PanelInv, PanelTypeOK
<1>2. CASE editor' = [editor EXCEPT !.confirm = "save"] /\ save' = save
  <2> DEFINE e == [editor EXCEPT !.confirm = "save"]
  <2>1. e = [editor EXCEPT !.confirm = "save"] /\ editor' = e
    BY <1>2
  <2> HIDE DEF e
  <2>2. /\ form_ok(e) /\ e.drafts = editor.drafts /\ e.programs = editor.programs
        /\ e.confirm = "save" /\ e.touched = editor.touched /\ e.basis = editor.basis
    BY <1>1, <2>1, NewConfirm
  <2>3. editor_ok(e) /\ editor_keeps(e, stored, writes)
    BY <1>1, <2>2, SameForm
  <2>4. QED
    BY <1>1, <1>2, <2>1, <2>3, EditorStep
<1>3. CASE commitSave(s, editor)
  BY <1>1, <1>3, CommitStep
<1>4. QED
  BY <1>2, <1>3 DEF Save

LEMMA ConfirmStep == ASSUME PanelInv, NEW s \in Saves, confirmAllowDanger(s) PROVE PanelInv'
<1> DEFINE closed == [editor EXCEPT !.confirm = "none", !.program = NoSave]
<1>1. /\ stored' = stored /\ writes' = writes /\ now' = now /\ shown' = shown
      /\ editor.open /\ form_ok(editor) /\ view_ok(shown) /\ editor_keeps(editor, stored, writes)
  BY OpenForm DEF confirmAllowDanger, account, PanelInv, PanelTypeOK
<1>2. \/ /\ editor.confirm = "switch"
         /\ editor' = [closed EXCEPT !.programs[editor.program].kind = "allow"]
         /\ save' = save
      \/ commitSave(s, closed)
  BY DEF confirmAllowDanger
<1>3. closed = [editor EXCEPT !.confirm = "none", !.program = NoSave]
  OBVIOUS
<1> HIDE DEF closed
<1>4. /\ form_ok(closed) /\ closed.drafts = editor.drafts /\ closed.programs = editor.programs
      /\ closed.confirm = "none" /\ closed.touched = editor.touched /\ closed.basis = editor.basis
  <2> DEFINE asked == [editor EXCEPT !.confirm = "none"]
  <2>1. form_ok(editor)
    BY <1>1
  <2>2. closed = [asked EXCEPT !.program = NoSave]
    BY <1>3
  <2>3. asked = [editor EXCEPT !.confirm = "none"]
    OBVIOUS
  <2> HIDE DEF asked
  <2>4. /\ form_ok(asked) /\ asked.drafts = editor.drafts /\ asked.programs = editor.programs
        /\ asked.confirm = "none" /\ asked.touched = editor.touched /\ asked.basis = editor.basis
    BY <2>1, <2>3, NewConfirm
  <2> QED  BY <2>2, <2>4, NewProgram
<1>5. CASE /\ editor.confirm = "switch"
           /\ editor' = [closed EXCEPT !.programs[editor.program].kind = "allow"]
           /\ save' = save
  <2> DEFINE x == [editor.programs EXCEPT ![editor.program].kind = "allow"]
             e == [closed EXCEPT !.programs = x]
  <2>1. editor' = e
    BY <1>4, <1>5 DEF form_ok, record
  <2>2. /\ editor.programs = [q \in DOMAIN editor.programs |-> editor.programs[q]]
        /\ \A q \in DOMAIN editor.programs :
               editor.programs[q] = [kind |-> editor.programs[q].kind, access |-> editor.programs[q].access]
    BY <1>1, OpenForm
  <2>3. /\ DOMAIN x = DOMAIN editor.programs
        /\ \A q \in DOMAIN editor.programs : q # editor.program => x[q] = editor.programs[q]
        /\ editor.program \in DOMAIN editor.programs =>
               x[editor.program] = [editor.programs[editor.program] EXCEPT !.kind = "allow"]
        /\ x = [q \in DOMAIN x |-> x[q]]
    BY <2>2
  <2>4. e = [closed EXCEPT !.programs = x]
    OBVIOUS
  <2> HIDE DEF x, e
  <2>5. \A q \in DOMAIN x : x[q] = [kind |-> x[q].kind, access |-> x[q].access]
    <3>1. ASSUME editor.program \in DOMAIN editor.programs
          PROVE  x[editor.program] = [kind |-> x[editor.program].kind, access |-> x[editor.program].access]
      <4> DEFINE r == editor.programs[editor.program]
      <4>1. r = [kind |-> r.kind, access |-> r.access]
        BY <2>2, <3>1
      <4>2. x[editor.program] = [r EXCEPT !.kind = "allow"]
        BY <2>3, <3>1
      <4> HIDE DEF r
      <4>3. QED
        BY <4>1, <4>2
    <3>2. QED
      BY <2>2, <2>3, <3>1
  <2>6. x = [q \in DOMAIN x |-> [kind |-> x[q].kind, access |-> x[q].access]]
    BY <2>3, <2>5
  <2>7. /\ form_ok(e) /\ e.drafts = editor.drafts /\ e.programs = x
        /\ e.confirm = "none" /\ e.touched = editor.touched /\ e.basis = editor.basis
    BY <1>4, <2>4, <2>6, NewPrograms
  <2>8. editor.program \in editor.touched
    BY <1>1, <1>5 DEF editor_keeps
  <2>9. e.basis = writes => drafts_kept(e, stored) /\ programs_kept(e, stored)
    <3>1. e.basis = writes => drafts_kept(editor, stored) /\ programs_kept(editor, stored)
      BY <1>1, <2>7 DEF editor_keeps
    <3>2. drafts_kept(editor, stored) => drafts_kept(e, stored)
      BY <2>7 DEF drafts_kept
    <3>3. programs_kept(editor, stored) => programs_kept(e, stored)
      BY <2>3, <2>7, <2>8 DEF programs_kept
    <3>4. QED
      BY <3>1, <3>2, <3>3
  <2>10. editor_keeps(e, stored, writes)
    BY <1>1, <2>7, <2>9 DEF editor_keeps
  <2>11. editor_ok(e)
    BY <2>7 DEF editor_ok, form_ok
  <2>12. QED
    BY <1>1, <1>5, <2>1, <2>10, <2>11, EditorStep
<1>6. CASE commitSave(s, closed)
  BY <1>1, <1>4, <1>6, CommitStep
<1>7. QED
  BY <1>2, <1>5, <1>6

(* Restore and Turn off. *)
LEMMA StatusStep ==
  ASSUME PanelInv, NEW s \in Saves, NEW args \in {Everyday, TurnOff}, FromStatusView(s, args)
  PROVE  PanelInv'
<1> DEFINE m == Mutation(args, writes, Assets \cup PanelPrograms)
<1>1. /\ stored' = stored /\ writes' = writes /\ now' = now /\ shown' = shown
      /\ save' = [save EXCEPT ![s] = m]
      /\ editor' = StatusView(editor.started \cup {s}) /\ view_ok(shown) /\ writes \in Int
  BY DEF FromStatusView, account, PanelInv, PanelTypeOK
<1>2. args_ok(args)
  <2>1. <<>> \in [DOMAIN <<>> -> Terms]
    OBVIOUS
  <2>2. args.kind \in {"set", "clear"} /\ args.caps = <<>>
    BY DEF Everyday, TurnOff, Args
  <2>3. QED
    BY <2>1, <2>2 DEF args_ok
<1>3. m = Mutation(args, writes, Assets \cup PanelPrograms)
  OBVIOUS
<1> HIDE DEF m
<1>4. /\ mutation_ok(m) /\ patch_ok(m)
      /\ m.args = args /\ m.basis = writes /\ m.touched = Assets \cup PanelPrograms
  BY <1>1, <1>2, <1>3, NewMutation
<1>5. args_kept(m, stored)
  BY <1>4 DEF args_kept
<1>6. save_keeps(m, stored, writes)
  BY <1>1, <1>4, <1>5 DEF save_keeps
<1>7. QED
  BY <1>1, <1>4, <1>6, ClosedOK, SaveStep

LEMMA InactiveTyped == InactiveCap \in CapViews
BY DEF InactiveCap, CapViews

LEMMA AssetCapTyped ==
  ASSUME NEW v, view_ok(v)
  PROVE  \A a : asset_cap(v.caps, a) \in CapViews
BY InactiveTyped DEF asset_cap, view_ok

(* A mutation that is under way. *)
LEMMA CallUnderWay ==
  ASSUME PanelInv, NEW s \in Saves, save[s].phase \in CallPhases
  PROVE  /\ mutation_ok(save[s]) /\ args_ok(save[s].args) /\ save[s].basis \in Int
         /\ save[s].phase = "inflight" => view_ok(save[s].snap)
<1>1. save[s] \notin {Idle, Done}
  BY DEF Idle, Done, CallPhases
<1>2. QED
  BY <1>1 DEF PanelInv, PanelTypeOK, mutation_ok, patch_ok, CallPhases

(* A call goes on, with what it was called with. *)
LEMMA NewPhase ==
  ASSUME NEW m, mutation_ok(m), NEW ph \in {"taken", "landed", "unheard"},
         NEW n, n = [m EXCEPT !.phase = ph],
         ph # "landed" => save_keeps(m, stored, writes) /\ m.phase \in CallPhases \ {"landed"}
  PROVE  mutation_ok(n) /\ save_keeps(n, stored, writes) /\ patch_ok(n) /\ n.phase = ph
<1>1. /\ mutation_ok(n) /\ n.phase = ph /\ n.args = m.args /\ n.basis = m.basis
      /\ n.touched = m.touched
  BY DEF mutation_ok, record, CallPhases
<1>2. save_keeps(n, stored, writes)
  BY <1>1 DEF save_keeps, args_kept, CallPhases
<1>3. patch_ok(n)
  BY <1>1 DEF patch_ok
<1>4. QED
  BY <1>1, <1>2, <1>3

(* A step of one call keeps it, and every other, in shape. *)
LEMMA CallKeeps ==
  ASSUME PanelInv, NEW s \in Saves, save[s].phase \in CallPhases \ {"landed"}
  PROVE  mutation_ok(save[s]) /\ save_keeps(save[s], stored, writes)
BY CallUnderWay DEF PanelInv, CallPhases

LEMMA TakenStep == ASSUME PanelInv, NEW s \in Saves, SaveTaken(s) PROVE PanelInv'
<1> DEFINE m == [save[s] EXCEPT !.phase = "taken"]
<1>1. /\ stored' = stored /\ writes' = writes /\ now' = now /\ shown' = shown /\ editor' = editor
      /\ save[s].phase = "signing" /\ save' = [save EXCEPT ![s] = m] /\ view_ok(shown)
      /\ editor_ok(editor) /\ editor_keeps(editor, stored, writes)
  BY DEF SaveTaken, account, PanelInv, PanelTypeOK, editor_ok
<1>2. mutation_ok(save[s]) /\ save_keeps(save[s], stored, writes)
  BY <1>1, CallKeeps DEF CallPhases
<1>3. mutation_ok(m) /\ save_keeps(m, stored, writes) /\ patch_ok(m)
  BY <1>1, <1>2, NewPhase DEF CallPhases
<1> HIDE DEF m
<1>4. QED
  BY <1>1, <1>3, SaveStep

LEMMA PatchOk ==
  ASSUME NEW args, args_ok(args), NEW v, view_ok(v), NEW t \in Nat
  PROVE  view_ok(foretold(args, v, t))
<1> DEFINE cap(a) == LET prev == asset_cap(v.caps, a)
                         next == args.caps[a]
                     IN  IF prev.cap = next.cap /\ prev.window_seconds = next.window THEN prev
                         ELSE [cap |-> next.cap, remaining |-> next.cap, last_reset |-> t,
                               window_seconds |-> next.window]
           w == foretold(args, v, t)
<1>1. \A a \in DOMAIN args.caps : cap(a) \in CapViews
  <2>1. \A a \in DOMAIN args.caps : args.caps[a].cap \in Nat /\ args.caps[a].window \in Nat
    BY DEF args_ok, Terms
  <2>2. \A a : asset_cap(v.caps, a) \in CapViews
    BY AssetCapTyped
  <2>3. QED
    BY <2>1, <2>2 DEF CapViews
<1>2. CASE args.kind = "clear"
  <2>1. <<>> \in [DOMAIN <<>> -> CapViews]
    OBVIOUS
  <2>2. w = [status |-> "open", caps |-> <<>>, permissions |-> <<>>]
    BY <1>2 DEF foretold, Open_, None_
  <2> HIDE DEF w
  <2>3. record(w, {"status", "caps", "permissions"}) /\ w.caps = <<>>
    BY <2>2 DEF record
  <2>4. QED
    BY <2>1, <2>3 DEF view_ok, w
<1>3. CASE args.kind # "clear"
  <2>1. w = [status |-> policy_status(args.caps, args.permissions),
             caps |-> [a \in DOMAIN args.caps |-> cap(a)], permissions |-> args.permissions]
    BY <1>3 DEF foretold
  <2> HIDE DEF w, cap
  <2>2. record(w, {"status", "caps", "permissions"}) /\ w.caps = [a \in DOMAIN args.caps |-> cap(a)]
    BY <2>1 DEF record
  <2>3. w.caps \in [DOMAIN w.caps -> CapViews]
    BY <1>1, <2>2
  <2>4. QED
    BY <2>2, <2>3 DEF view_ok, w
<1>4. QED
  BY <1>2, <1>3

LEMMA PatchIsForetold ==
  ASSUME NEW args
  PROVE  buildOptimisticWalletPolicyView(args) = foretold(args, shown, now)
BY DEF buildOptimisticWalletPolicyView, optimisticCapView, foretold

LEMMA OverOK == Done \in {Idle, Done} /\ save_keeps(Done, stored, writes) /\ patch_ok(Done)
BY DEF Done, save_keeps, patch_ok, CallPhases

(* Only fields that nothing is kept of change. *)
LEMMA BroadcastStep == ASSUME PanelInv, NEW s \in Saves, Broadcast(s) PROVE PanelInv'
<1> DEFINE patch == buildOptimisticWalletPolicyView(save[s].args)
           m == [save[s] EXCEPT !.phase = "inflight", !.snap = shown, !.patch = patch]
<1>1. /\ stored' = stored /\ writes' = writes /\ now' = now /\ shown' = patch
      /\ save[s].phase \in {"taken", "landed"}
      /\ editor' = IF editor.open /\ editor.busy = s THEN NoForm ELSE editor
      /\ save = [t \in Saves |-> save[t]]
  BY DEF Broadcast, account, PanelInv, PanelTypeOK
<1>2. save' = [save EXCEPT ![s] = IF save[s].phase = "landed" THEN Done ELSE m]
  BY <1>1 DEF Broadcast
<1>3. /\ view_ok(shown) /\ now \in Nat /\ editor_ok(editor) /\ editor_keeps(editor, stored, writes)
      /\ save_keeps(save[s], stored, writes)
  BY DEF PanelInv, PanelTypeOK, editor_ok
<1>4. mutation_ok(save[s]) /\ args_ok(save[s].args)
  BY <1>1, CallUnderWay DEF CallPhases
<1>5. patch = foretold(save[s].args, shown, now)
  BY PatchIsForetold
<1>6. view_ok(patch)
  BY <1>3, <1>4, <1>5, PatchOk
<1> HIDE DEF patch
<1>7. /\ mutation_ok(m) /\ m.phase = "inflight" /\ m.args = save[s].args /\ m.basis = save[s].basis
      /\ m.touched = save[s].touched /\ m.snap = shown /\ m.patch = patch
  BY <1>4 DEF mutation_ok, record, CallPhases
<1> HIDE DEF m
<1>8. save[s].phase = "taken" => save_keeps(m, stored, writes)
  BY <1>3, <1>7 DEF save_keeps, args_kept, CallPhases
<1>9. patch_ok(m)
  BY <1>3, <1>5, <1>7 DEF patch_ok
<1>10. editor_ok(editor') /\ editor_keeps(editor', stored, writes)
  BY <1>1, <1>3, ClosedOK DEF NoForm
<1>11. CASE save[s].phase = "landed"
  BY <1>1, <1>2, <1>6, <1>10, <1>11, OverOK, SaveStep
<1>12. CASE save[s].phase = "taken"
  BY <1>1, <1>2, <1>6, <1>7, <1>8, <1>9, <1>10, <1>12, SaveStep
<1>13. QED
  BY <1>1, <1>11, <1>12

LEMMA FailStep == ASSUME PanelInv, NEW s \in Saves, SaveFails(s) PROVE PanelInv'
<1> DEFINE e == [editor EXCEPT !.busy = NoSave]
           m == [save[s] EXCEPT !.phase = "unheard"]
<1>1. /\ stored' = stored /\ writes' = writes /\ now' = now /\ shown' = shown
      /\ save' = [save EXCEPT ![s] = IF save[s].phase = "taken" THEN m ELSE Done]
      /\ editor' = IF editor.open /\ editor.busy = s THEN e ELSE editor
      /\ view_ok(shown) /\ editor_ok(editor) /\ editor_keeps(editor, stored, writes)
  BY DEF SaveFails, account, PanelInv, PanelTypeOK, editor_ok
<1>2. e = [editor EXCEPT !.busy = NoSave]
  OBVIOUS
<1> HIDE DEF e
<1>3. ASSUME editor.open PROVE editor_ok(e) /\ editor_keeps(e, stored, writes)
  <2>1. form_ok(editor)
    BY <1>3, OpenForm
  <2>2. /\ form_ok(e) /\ e.drafts = editor.drafts /\ e.programs = editor.programs /\ e.confirm = editor.confirm
        /\ e.program = editor.program /\ e.touched = editor.touched /\ e.basis = editor.basis
    BY <1>2, <2>1, NewBusy
  <2>3. editor_ok(e)
    BY <2>2 DEF editor_ok, form_ok
  <2>4. editor_keeps(e, stored, writes)
    BY <1>1, <1>3, <2>2 DEF editor_keeps, drafts_kept, programs_kept
  <2>5. QED
    BY <2>3, <2>4
<1>4. editor_ok(editor') /\ editor_keeps(editor', stored, writes)
  BY <1>1, <1>3
<1>5. CASE save[s].phase = "taken"
  <2>1. mutation_ok(save[s]) /\ save_keeps(save[s], stored, writes)
    BY <1>5, CallKeeps DEF CallPhases
  <2>2. mutation_ok(m) /\ save_keeps(m, stored, writes) /\ patch_ok(m)
    BY <1>5, <2>1, NewPhase DEF CallPhases
  <2> HIDE DEF m
  <2>3. QED
    BY <1>1, <1>4, <1>5, <2>2, SaveStep
<1>6. CASE save[s].phase # "taken"
  <2>1. save' = [save EXCEPT ![s] = Done]
    BY <1>1, <1>6
  <2> HIDE DEF m
  <2>2. QED
    BY <1>1, <1>4, <2>1, OverOK, SaveStep
<1>7. QED
  BY <1>5, <1>6

LEMMA DieStep == ASSUME PanelInv, NEW s \in Saves, SaveDies(s) PROVE PanelInv'
<1>1. /\ stored' = stored /\ writes' = writes /\ now' = now /\ shown' = save[s].snap
      /\ save' = [save EXCEPT ![s] = Done] /\ editor' = editor /\ save[s].phase = "inflight"
      /\ editor_ok(editor) /\ editor_keeps(editor, stored, writes)
  BY DEF SaveDies, account, PanelInv, PanelTypeOK, editor_ok
<1>2. view_ok(save[s].snap)
  BY <1>1, CallUnderWay DEF CallPhases
<1>3. QED
  BY <1>1, <1>2, OverOK, SaveStep

-----------------------------------------------------------------------------
(* What the program writes. *)

LEMMA Remainder == \A t \in Nat, w \in Nat : w > 0 => t % w \in Nat
BY SMT

LEMMA NewCapTyped ==
  ASSUME NEW cap \in Nat, NEW window \in Nat, NEW t \in Nat
  PROVE  new_spend_cap(cap, window, t) \in CapViews
<1>1. align_to_window(t, window) \in Int
  BY Remainder DEF align_to_window
<1>2. QED
  BY <1>1 DEF new_spend_cap, CapViews

LEMMA WrittenOk ==
  ASSUME PanelInv, NEW args, args.kind \in {"set", "clear"},
         args.kind = "set" => args.caps \in [DOMAIN args.caps -> Terms]
  PROVE  view_ok(written(args)) /\ written(args).status \in {"none", "open", "active"}
<1> DEFINE cap(a) == preserve_spend_cap(new_spend_cap(args.caps[a].cap, args.caps[a].window, now),
                                        asset_cap(stored.caps, a))
           w == written(args)
<1>1. CASE args.kind = "clear"
  <2>1. <<>> \in [DOMAIN <<>> -> CapViews]
    OBVIOUS
  <2>2. w = [status |-> "open", caps |-> <<>>, permissions |-> <<>>]
    BY <1>1 DEF written, Open_, None_
  <2> HIDE DEF w
  <2>3. record(w, {"status", "caps", "permissions"}) /\ w.caps = <<>> /\ w.status = "open"
    BY <2>2 DEF record
  <2>4. QED
    BY <2>1, <2>3 DEF view_ok, w
<1>2. CASE args.kind = "set"
  <2>1. now \in Nat /\ view_ok(stored)
    BY DEF PanelInv, PanelTypeOK
  <2>2. \A a \in DOMAIN args.caps : args.caps[a].cap \in Nat /\ args.caps[a].window \in Nat
    BY <1>2 DEF Terms
  <2>3. \A a \in DOMAIN args.caps : cap(a) \in CapViews
    BY <2>1, <2>2, NewCapTyped, AssetCapTyped DEF preserve_spend_cap
  <2>4. w = [status |-> "active", caps |-> [a \in DOMAIN args.caps |-> cap(a)],
             permissions |-> args.permissions]
    BY <1>2 DEF written
  <2> HIDE DEF w, cap
  <2>5. /\ record(w, {"status", "caps", "permissions"}) /\ w.status = "active"
        /\ w.caps = [a \in DOMAIN args.caps |-> cap(a)]
    BY <2>4 DEF record
  <2>6. w.caps \in [DOMAIN w.caps -> CapViews]
    BY <2>3, <2>5
  <2>7. QED
    BY <2>5, <2>6 DEF view_ok, w
<1>3. QED
  BY <1>1, <1>2

(* The call of a policy that is written, or of another, goes on. *)
goes_on(t) == save'[t] \in {save[t], Done} \/ (save'[t].phase = "landed" /\ mutation_ok(save'[t]))

(* Once a policy is written, nothing was opened on the one before it. *)
LEMMA WriteStep ==
  ASSUME PanelInv, view_ok(stored'), stored'.status \in {"none", "open", "active"},
         writes' = writes + 1, now' = now, shown' = shown, editor' = editor,
         save' = [t \in Saves |-> save'[t]],
         \A t \in Saves : goes_on(t)
  PROVE  PanelInv'
<1>1. PanelTypeOK'
  BY DEF PanelInv, PanelTypeOK, goes_on
<1>2. writes \in Nat /\ (editor.open => editor.basis \in Int)
  BY OpenForm DEF PanelInv, PanelTypeOK
<1>3. editor_keeps(editor, stored, writes)'
  <2>1. editor_keeps(editor, stored, writes)
    BY DEF PanelInv
  <2>2. editor.open => editor.basis <= writes + 1 /\ editor.basis # writes + 1
    BY <1>2, <2>1 DEF editor_keeps
  <2>3. QED
    BY <2>1, <2>2 DEF editor_keeps
<1>4. ASSUME NEW t \in Saves PROVE save_keeps(save[t], stored, writes)' /\ patch_ok(save[t])'
  <2>1. CASE save'[t] = Done
    BY <2>1 DEF Done, save_keeps, patch_ok, CallPhases
  <2>2. CASE save'[t] = save[t]
    <3>1. save_keeps(save[t], stored, writes) /\ patch_ok(save[t])
      BY DEF PanelInv
    <3>2. ASSUME save[t].phase \in CallPhases \ {"landed"}
          PROVE  save[t].basis <= writes + 1 /\ save[t].basis # writes + 1
      <4>1. save[t].basis \in Int /\ save[t].basis <= writes
        BY <3>1, <3>2, CallUnderWay DEF save_keeps
      <4>2. QED
        BY <1>2, <4>1
    <3>3. QED
      BY <2>2, <3>1, <3>2 DEF save_keeps, patch_ok
  <2>3. CASE save'[t].phase = "landed"
    BY <2>3 DEF save_keeps, patch_ok
  <2>4. QED
    BY <2>1, <2>2, <2>3 DEF goes_on
<1>5. QED
  BY <1>1, <1>3, <1>4 DEF PanelInv

LEMMA LandStep == ASSUME PanelInv, NEW s \in Saves, SaveLands(s) PROVE PanelInv'
<1> DEFINE m == [save[s] EXCEPT !.phase = "landed"]
<1>1. /\ stored' = written(save[s].args) /\ writes' = writes + 1 /\ now' = now /\ shown' = shown
      /\ editor' = editor /\ save' = [save EXCEPT ![s] = IF save[s].phase = "taken" THEN m ELSE Done]
      /\ save[s].phase \in {"taken", "inflight", "unheard"}
      /\ save = [t \in Saves |-> save[t]]
  BY DEF SaveLands, may_land, PanelInv, PanelTypeOK
<1>2. args_ok(save[s].args) /\ mutation_ok(save[s])
  BY <1>1, CallUnderWay DEF CallPhases
<1>3. view_ok(written(save[s].args)) /\ written(save[s].args).status \in {"none", "open", "active"}
  BY <1>2, WrittenOk DEF args_ok
<1>4. m.phase = "landed" /\ mutation_ok(m)
  BY <1>2, NewPhase
<1> HIDE DEF m
<1>5. save' = [t \in Saves |-> IF t # s THEN save[t] ELSE IF save[s].phase = "taken" THEN m ELSE Done]
  BY <1>1
<1>6. /\ save' = [t \in Saves |-> save'[t]]
      /\ \A t \in Saves : goes_on(t)
  BY <1>4, <1>5 DEF goes_on
<1>7. QED
  BY <1>1, <1>3, <1>4, <1>6, WriteStep

LEMMA OtherStep ==
  ASSUME PanelInv, NEW args \in OtherPolicies \cup {TurnOff}, OtherDevice(args)
  PROVE  PanelInv'
<1>1. /\ stored' = written(args) /\ writes' = writes + 1 /\ now' = now /\ shown' = shown
      /\ editor' = editor /\ save' = save /\ save = [t \in Saves |-> save[t]]
  BY DEF OtherDevice, PanelInv, PanelTypeOK
<1>2. args.kind \in {"set", "clear"} /\ (args.kind = "set" => args.caps \in [DOMAIN args.caps -> Terms])
  BY PanelAssumption DEF TurnOff, Args, Terms
<1>3. view_ok(written(args)) /\ written(args).status \in {"none", "open", "active"}
  BY <1>2, WrittenOk
<1>4. QED
  BY <1>1, <1>3, WriteStep DEF goes_on

LEMMA UnlinkedStep == ASSUME PanelInv, Unlinked PROVE PanelInv'
<1>1. /\ stored' = None_ /\ writes' = writes + 1 /\ now' = now /\ shown' = shown
      /\ editor' = editor /\ save' = save /\ save = [t \in Saves |-> save[t]]
  BY DEF Unlinked, PanelInv, PanelTypeOK
<1>2. <<>> \in [DOMAIN <<>> -> CapViews]
  OBVIOUS
<1>3. view_ok(None_) /\ None_.status = "none"
  BY <1>2 DEF None_, view_ok, record
<1>4. QED
  BY <1>1, <1>3, WriteStep DEF goes_on

(* What a tap draws on a cap leaves its terms. *)
LEMMA ChargeTyped ==
  ASSUME NEW c \in CapViews, NEW n \in Nat, NEW t \in Nat
  PROVE  charge_cap(c, n, t) \in CapViews
         /\ charge_cap(c, n, t).cap = c.cap /\ charge_cap(c, n, t).window_seconds = c.window_seconds
<1>1. \A x \in Int, w \in Nat : w > 0 => (x \div w) * w \in Int
  BY SMT
<1>2. /\ refill(c, t) \in CapViews
      /\ refill(c, t).cap = c.cap /\ refill(c, t).window_seconds = c.window_seconds
  <2>1. c.cap \in Nat /\ c.remaining \in Int /\ c.last_reset \in Int /\ c.window_seconds \in Nat
    BY DEF CapViews
  <2>2. t - c.last_reset \in Int
    BY <2>1
  <2>3. c.window_seconds > 0 => ((t - c.last_reset) \div c.window_seconds) * c.window_seconds \in Int
    BY <1>1, <2>1, <2>2
  <2>4. CASE c.window_seconds > 0 /\ t - c.last_reset >= c.window_seconds
    <3> DEFINE k == ((t - c.last_reset) \div c.window_seconds) * c.window_seconds
    <3>1. k \in Int
      BY <2>3, <2>4
    <3>2. refill(c, t) = [cap |-> c.cap, remaining |-> c.cap, last_reset |-> c.last_reset + k,
                          window_seconds |-> c.window_seconds]
      BY <2>4 DEF refill
    <3> HIDE DEF k
    <3>3. QED
      BY <2>1, <3>1, <3>2 DEF CapViews
  <2>5. CASE ~(c.window_seconds > 0 /\ t - c.last_reset >= c.window_seconds)
    BY <2>5 DEF refill
  <2>6. QED
    BY <2>4, <2>5
<1>3. QED
  BY <1>2 DEF charge_cap, CapViews

LEMMA TapStep == ASSUME PanelInv, NEW a, TapSpends(a) PROVE PanelInv'
<1>1. /\ writes' = writes /\ now' = now /\ shown' = shown /\ editor' = editor /\ save' = save
      /\ stored.status = "active" /\ a \in DOMAIN stored.caps
      /\ view_ok(stored) /\ now \in Nat
  BY DEF TapSpends, PanelInv, PanelTypeOK
<1>2. PICK n \in Charges : stored' = [stored EXCEPT !.caps[a] = charge_cap(@, n, now)]
  BY DEF TapSpends
<1> DEFINE x == [stored.caps EXCEPT ![a] = charge_cap(stored.caps[a], n, now)]
<1>3. n \in Nat
  BY PanelAssumption
<1>4. stored.caps[a] \in CapViews
  BY <1>1 DEF view_ok
<1>5. /\ charge_cap(stored.caps[a], n, now) \in CapViews
      /\ charge_cap(stored.caps[a], n, now).cap = stored.caps[a].cap
      /\ charge_cap(stored.caps[a], n, now).window_seconds = stored.caps[a].window_seconds
  BY <1>1, <1>3, <1>4, ChargeTyped
<1>6. stored' = [stored EXCEPT !.caps = x]
  BY <1>1, <1>2 DEF view_ok, record
<1>7. /\ x \in [DOMAIN x -> CapViews] /\ DOMAIN x = DOMAIN stored.caps
      /\ \A b \in DOMAIN x :
             x[b].cap = stored.caps[b].cap /\ x[b].window_seconds = stored.caps[b].window_seconds
  BY <1>1, <1>5 DEF view_ok
<1> HIDE DEF x
<1>8. /\ record(stored', {"status", "caps", "permissions"}) /\ stored'.status = stored.status
      /\ stored'.caps = x /\ stored'.permissions = stored.permissions
  BY <1>1, <1>6 DEF view_ok, record
<1>9. view_ok(stored')
  BY <1>7, <1>8 DEF view_ok
<1>10. PanelTypeOK'
  BY <1>1, <1>8, <1>9 DEF PanelInv, PanelTypeOK
<1>11. editor_keeps(editor, stored, writes)'
  <2>1. editor_keeps(editor, stored, writes)
    BY DEF PanelInv
  <2>2. drafts_kept(editor, stored) => drafts_kept(editor, stored')
    BY <1>7, <1>8 DEF drafts_kept
  <2>3. programs_kept(editor, stored) => programs_kept(editor, stored')
    BY <1>8 DEF programs_kept
  <2>4. QED
    BY <1>1, <2>1, <2>2, <2>3 DEF editor_keeps
<1>12. ASSUME NEW t \in Saves PROVE save_keeps(save[t], stored, writes)' /\ patch_ok(save[t])'
  <2>1. save_keeps(save[t], stored, writes) /\ patch_ok(save[t])
    BY DEF PanelInv
  <2>2. args_kept(save[t], stored) => args_kept(save[t], stored')
    BY <1>7, <1>8 DEF args_kept
  <2>3. QED
    BY <1>1, <2>1, <2>2 DEF save_keeps, patch_ok
<1>13. QED
  BY <1>10, <1>11, <1>12 DEF PanelInv

-----------------------------------------------------------------------------
(* What the page fetches. *)

LEMMA FetchedOk ==
  view_ok(stored) => view_ok(fetched) /\ fetched.caps = stored.caps /\ fetched.permissions = stored.permissions
BY DEF fetched, view_ok, record

LEMMA RefetchStep == ASSUME PanelInv, Refetch PROVE PanelInv'
<1>1. /\ stored' = stored /\ writes' = writes /\ now' = now /\ shown' = fetched
      /\ editor' = editor /\ save' = save /\ view_ok(stored)
      /\ editor_ok(editor) /\ editor_keeps(editor, stored, writes)
  BY DEF Refetch, account, PanelInv, PanelTypeOK, editor_ok
<1>2. view_ok(fetched)
  BY <1>1, FetchedOk
<1>3. QED
  BY <1>1, <1>2, EditorStep

LEMMA TokensStep == ASSUME PanelInv, RefetchTokens PROVE PanelInv'
<1>1. /\ stored' = stored /\ writes' = writes /\ now' = now /\ shown' = shown /\ save' = save
      /\ editor' = IF editor.open THEN initialForm' ELSE editor
      /\ view_ok(stored) /\ view_ok(shown) /\ writes \in Nat
      /\ editor_ok(editor) /\ editor_keeps(editor, stored, writes)
  BY DEF RefetchTokens, account, PanelInv, PanelTypeOK, editor_ok
<1>2. (view_ok(shown) /\ view_ok(stored) /\ writes \in Nat
       => initialForm.open /\ form_ok(initialForm) /\ editor_keeps(initialForm, stored, writes))'
  BY InitialForm, PTL
<1>3. view_ok(shown') /\ view_ok(stored') /\ writes' \in Nat
  BY <1>1
<1>4. initialForm'.open /\ form_ok(initialForm') /\ editor_keeps(initialForm', stored, writes)
  BY <1>1, <1>2, <1>3
<1> DEFINE e == editor'
<1>5. e = IF editor.open THEN initialForm' ELSE editor
  BY <1>1
<1> HIDE DEF e
<1>6. editor_ok(e) /\ editor_keeps(e, stored, writes)
  BY <1>1, <1>4, <1>5 DEF editor_ok
<1>7. QED
  BY <1>1, <1>6, EditorStep DEF e

LEMMA PanelTickStep == ASSUME PanelInv, PanelTick PROVE PanelInv'
BY DEF PanelInv, PanelTypeOK, PanelTick

LEMMA PanelStutter == ASSUME PanelInv, UNCHANGED panel PROVE PanelInv'
BY DEF PanelInv, PanelTypeOK, panel, account

LEMMA FirstPolicyTyped ==
  ASSUME NEW v, FirstPolicyOK(v)
  PROVE  view_ok(v) /\ v.status \in {"none", "open", "active"}
<1>1. \A a \in DOMAIN v.caps : v.caps[a] \in CapViews
  BY DEF FirstPolicyOK, SpendCap, CapViews
<1>2. v.caps \in [DOMAIN v.caps -> CapViews]
  BY <1>1 DEF FirstPolicyOK
<1>3. QED
  BY <1>2 DEF FirstPolicyOK, view_ok, record

LEMMA PanelStarts == PanelInit => PanelInv
<1> SUFFICES ASSUME PanelInit PROVE PanelInv
  OBVIOUS
<1>1. view_ok(stored) /\ stored.status \in {"none", "open", "active"}
  BY PanelAssumption, FirstPolicyTyped DEF PanelInit
<1>2. view_ok(shown)
  BY <1>1, FetchedOk DEF PanelInit
<1>3. editor_ok(editor) /\ editor_keeps(editor, stored, writes)
  BY ClosedOK DEF PanelInit, NoForm
<1>4. /\ writes \in Nat /\ now \in Nat /\ save = [s \in Saves |-> save[s]]
      /\ \A s \in Saves : save[s] = Idle
  BY DEF PanelInit
<1>5. \A s \in Saves : save_keeps(save[s], stored, writes) /\ patch_ok(save[s])
  BY <1>4 DEF Idle, save_keeps, patch_ok, CallPhases
<1>6. PanelTypeOK
  BY <1>1, <1>2, <1>3, <1>4 DEF PanelTypeOK, editor_ok
<1>7. QED
  BY <1>3, <1>5, <1>6 DEF PanelInv

LEMMA PanelSteps == PanelInv /\ [PanelNext]_panel => PanelInv'
<1> SUFFICES ASSUME PanelInv, [PanelNext]_panel PROVE PanelInv'
  OBVIOUS
<1>1. CASE OpenEditor
  BY <1>1, OpenStep
<1>2. CASE CloseEditor
  BY <1>2, CloseStep
<1>3. CASE DismissConfirm
  BY <1>3, DismissStep
<1>4. ASSUME NEW a \in Assets, RemoveDraft(a) PROVE PanelInv'
  BY <1>4, RemoveDraftStep
<1>5. ASSUME NEW a \in Assets, AddToken(a) PROVE PanelInv'
  BY <1>5, AddTokenStep
<1>6. ASSUME NEW a \in Assets, TapSpends(a) PROVE PanelInv'
  BY <1>6, TapStep
<1>7. ASSUME NEW a \in Assets, NEW text \in Typed, ChangeAmount(a, text) PROVE PanelInv'
  BY <1>7, AmountStep
<1>8. ASSUME NEW a \in Assets, NEW w \in PanelWindows, ChangeWindow(a, w) PROVE PanelInv'
  BY <1>8, WindowStep
<1>9. ASSUME NEW preset \in Presets, ApplyPreset(preset) PROVE PanelInv'
  BY <1>9, PresetStep
<1>10. ASSUME NEW p \in PanelPrograms, AddProgram(p) PROVE PanelInv'
  BY <1>10, AddProgramStep
<1>11. ASSUME NEW p \in PanelPrograms, DenyProgram(p) PROVE PanelInv'
  BY <1>11, DenyStep
<1>12. ASSUME NEW p \in PanelPrograms, AllowProgram(p) PROVE PanelInv'
  BY <1>12, AllowStep
<1>13. ASSUME NEW p \in PanelPrograms, RemoveProgram(p) PROVE PanelInv'
  BY <1>13, RemoveProgramStep
<1>14. ASSUME NEW s \in Saves, Save(s) PROVE PanelInv'
  BY <1>14, SaveCallStep
<1>15. ASSUME NEW s \in Saves, confirmAllowDanger(s) PROVE PanelInv'
  BY <1>15, ConfirmStep
<1>16. ASSUME NEW s \in Saves, NEW args \in {Everyday, TurnOff}, FromStatusView(s, args) PROVE PanelInv'
  BY <1>16, StatusStep
<1>17. ASSUME NEW s \in Saves, Broadcast(s) PROVE PanelInv'
  BY <1>17, BroadcastStep
<1>18. ASSUME NEW s \in Saves, SaveFails(s) PROVE PanelInv'
  BY <1>18, FailStep
<1>19. ASSUME NEW s \in Saves, SaveLands(s) PROVE PanelInv'
  BY <1>19, LandStep
<1>20. ASSUME NEW s \in Saves, SaveDies(s) PROVE PanelInv'
  BY <1>20, DieStep
<1>21. CASE Refetch
  BY <1>21, RefetchStep
<1>22. CASE RefetchTokens
  BY <1>22, TokensStep
<1>23. CASE PanelTick
  BY <1>23, PanelTickStep
<1>24. CASE Unlinked
  BY <1>24, UnlinkedStep
<1>25. ASSUME NEW args \in OtherPolicies \cup {TurnOff}, OtherDevice(args) PROVE PanelInv'
  BY <1>25, OtherStep
<1>26. CASE UNCHANGED panel
  BY <1>26, PanelStutter
<1>27. ASSUME NEW s \in Saves, SaveTaken(s) PROVE PanelInv'
  BY <1>27, TakenStep
<1>28. QED
  BY <1>1, <1>2, <1>3, <1>4, <1>5, <1>6, <1>7, <1>8, <1>9, <1>10, <1>11, <1>12, <1>13, <1>14,
     <1>15, <1>16, <1>17, <1>18, <1>19, <1>20, <1>21, <1>22, <1>23, <1>24, <1>25, <1>26, <1>27
  DEF PanelNext

\* Every form, save and patch of the panel is what PanelInv says: the reducer of
\* policy-limit-editor.tsx, the mutations of mutations.ts and the program's
\* set_wallet_policy, in any order with taps and other devices.
THEOREM PanelCorrect == PanelSpec => []PanelInv
BY PanelStarts, PanelSteps, PTL DEF PanelSpec

-----------------------------------------------------------------------------
(* The properties. *)

\* The optimistic view is the policy that lands on the view it was computed from
\* (buildOptimisticWalletPolicyView, preserve_spend_cap).
THEOREM AlwaysPatchForetells == PanelSpec => []PatchForetells
<1>1. PanelInv => PatchForetells
  <2> SUFFICES ASSUME PanelInv, NEW s \in Saves, save[s].phase = "inflight",
                      accepted(save[s].args), save[s].snap = fetched
               PROVE  LET after == written(save[s].args)
                          patch == save[s].patch
                      IN  /\ patch.status = IF after.status = "active"
                                            THEN policy_status(after.caps, after.permissions)
                                            ELSE after.status
                          /\ patch.permissions = after.permissions
                          /\ DOMAIN patch.caps = DOMAIN after.caps
                          /\ \A a \in DOMAIN after.caps : same_but_anchor(patch.caps[a], after.caps[a])
    BY DEF PatchForetells
  <2> DEFINE args == save[s].args
             after == written(args)
             patch == save[s].patch
  <2>1. PICK t \in Nat : patch = foretold(args, fetched, t)
    BY DEF PanelInv, patch_ok
  <2>2. view_ok(stored) /\ now \in Nat
    BY DEF PanelInv, PanelTypeOK
  <2>3. fetched.caps = stored.caps
    BY <2>2, FetchedOk
  <2>4. args_ok(args)
    BY CallUnderWay DEF CallPhases
  <2> HIDE DEF args
  <2>5. CASE args.kind = "clear"
    <3>1. patch = Open_ /\ after = Open_
      BY <2>1, <2>5 DEF foretold, written
    <3>2. Open_.status = "open" /\ Open_.caps = <<>>
      BY DEF Open_, None_
    <3>3. QED
      BY <3>1, <3>2 DEF args
  <2>6. CASE args.kind = "set"
    <3> DEFINE prev(a) == asset_cap(stored.caps, a)
               next(a) == args.caps[a]
               same(a) == prev(a).cap = next(a).cap /\ prev(a).window_seconds = next(a).window
               foreseen(a) == IF same(a) THEN prev(a)
                              ELSE [cap |-> next(a).cap, remaining |-> next(a).cap, last_reset |-> t,
                                    window_seconds |-> next(a).window]
               kept(a) == preserve_spend_cap(new_spend_cap(next(a).cap, next(a).window, now), prev(a))
    <3>1. /\ patch.status = policy_status(args.caps, args.permissions)
          /\ patch.caps = [a \in DOMAIN args.caps |-> foreseen(a)]
          /\ patch.permissions = args.permissions
      BY <2>1, <2>3, <2>6 DEF foretold
    <3>2. /\ after.status = "active" /\ after.permissions = args.permissions
          /\ after.caps = [a \in DOMAIN args.caps |-> kept(a)]
      BY <2>6 DEF written
    <3>3. ASSUME NEW a \in DOMAIN args.caps PROVE same_but_anchor(foreseen(a), kept(a))
      <4>1. next(a).cap \in Nat
        BY <2>4 DEF args_ok, Terms
      <4>2. CASE same(a)
        <5>1. foreseen(a) = prev(a) /\ kept(a) = prev(a)
          BY <4>2 DEF preserve_spend_cap, new_spend_cap
        <5>2. QED
          BY <5>1 DEF same_but_anchor
      <4>3. CASE ~same(a)
        <5>1. kept(a) = new_spend_cap(next(a).cap, next(a).window, now)
          BY <4>3 DEF preserve_spend_cap, new_spend_cap
        <5>2. /\ foreseen(a).cap = next(a).cap /\ foreseen(a).remaining = next(a).cap
              /\ foreseen(a).window_seconds = next(a).window
          BY <4>3
        <5>3. /\ kept(a).cap = next(a).cap /\ kept(a).remaining = next(a).cap
              /\ kept(a).window_seconds = next(a).window
          BY <5>1 DEF new_spend_cap
        <5>4. ~(next(a).cap < next(a).cap)
          BY <4>1
        <5> HIDE DEF foreseen, kept, next
        <5>5. QED
          BY <5>2, <5>3, <5>4 DEF same_but_anchor
      <4>4. QED
        BY <4>2, <4>3
    <3> HIDE DEF foreseen, kept, patch, after
    <3>4. /\ DOMAIN patch.caps = DOMAIN after.caps
          /\ policy_status(after.caps, after.permissions) = policy_status(args.caps, args.permissions)
      BY <3>1, <3>2 DEF policy_status
    <3>5. \A a \in DOMAIN after.caps : same_but_anchor(patch.caps[a], after.caps[a])
      BY <3>1, <3>2, <3>3
    <3>6. QED
      BY <3>1, <3>2, <3>4, <3>5 DEF after, patch, args
  <2>7. QED
    BY <2>4, <2>5, <2>6 DEF args_ok
<1>2. QED
  BY <1>1, PanelCorrect, PTL

(* The row of a program, by the overrides of the programs in it. *)
LEMMA RowOf ==
  ASSUME NEW S
  PROVE  /\ row(S) \in {"allow", "custom", "deny"}
         /\ row(S) = "deny" => \E q \in S \cap DOMAIN shown.permissions : shown.permissions[q] = "Denied"
         /\ row(S) = "custom" =>
                \E q \in S \cap DOMAIN shown.permissions :
                    shown.permissions[q] \notin {"Denied", "AllInstructions"}
         /\ row(S) # "deny" => \A q \in S \cap DOMAIN shown.permissions : shown.permissions[q] # "Denied"
         /\ row(S) = "allow" =>
                \A q \in S \cap DOMAIN shown.permissions : shown.permissions[q] = "AllInstructions"
BY DEF row, kinds, accessKind

\* PermissionMatrix never shows more than check_instruction allows.
THEOREM AlwaysMatrixIsSafe == PanelSpec => []MatrixIsSafe
<1>1. PanelInv => MatrixIsSafe
  <2> SUFFICES ASSUME PanelInv, shown = fetched, NEW p \in PanelPrograms
               PROVE  /\ PermissionMatrix(p) = "allow" => reach(p) = "all"
                      /\ PermissionMatrix(p) = "custom" => \E q \in row_of(p) : reach(q) = "some"
                      /\ PermissionMatrix(p) = "custom" => reach(p) # "nothing"
                      /\ PermissionMatrix(p) = "deny" => \E q \in row_of(p) : reach(q) = "nothing"
    BY DEF MatrixIsSafe
  <2>1. p \in row_of(p)
    BY DEF row_of
  <2>2. view_ok(stored) /\ stored.status \in {"none", "open", "active"}
    BY DEF PanelInv, PanelTypeOK
  <2>3. /\ shown.permissions = stored.permissions /\ shown.caps = stored.caps
        /\ shown.status = IF stored.status = "active"
                          THEN policy_status(stored.caps, stored.permissions) ELSE stored.status
    BY <2>2, FetchedOk DEF fetched, view_ok, record
  <2>4. CASE stored.status = "none"
    <3>1. PermissionMatrix(p) = "deny" /\ reach(p) = "nothing"
      BY <2>3, <2>4 DEF PermissionMatrix, reach
    <3>2. QED
      BY <2>1, <3>1
  <2>5. CASE stored.status = "open"
    <3>1. PermissionMatrix(p) = "allow" /\ reach(p) = "all"
      BY <2>3, <2>5 DEF PermissionMatrix, reach
    <3>2. QED
      BY <3>1
  <2>6. CASE stored.status = "active" /\ shown.status = "standard"
    <3>1. DOMAIN stored.permissions = {}
      BY <2>3, <2>6 DEF policy_status
    <3>2. PermissionMatrix(p) = IF p \in UNION Capabilities THEN "allow" ELSE "deny"
      BY <2>6 DEF PermissionMatrix
    <3>3. reach(p) = IF p \in UNION Capabilities THEN "all" ELSE "nothing"
      BY <2>6, <3>1 DEF reach
    <3>4. QED
      BY <2>1, <3>2, <3>3
  <2>7. CASE stored.status = "active" /\ shown.status = "limited"
    <3>1. PermissionMatrix(p) = IF p \in DOMAIN stored.permissions \cup UNION Capabilities
                                THEN row(row_of(p)) ELSE "deny"
      BY <2>3, <2>7 DEF PermissionMatrix
    <3>2. \A q : reach(q) = IF q \notin DOMAIN stored.permissions
                            THEN IF q \in UNION Capabilities THEN "all" ELSE "nothing"
                            ELSE IF stored.permissions[q] = "AllInstructions" THEN "all"
                            ELSE IF stored.permissions[q] = "Denied" THEN "nothing" ELSE "some"
      BY <2>7 DEF reach
    <3>3. CASE p \notin DOMAIN stored.permissions \cup UNION Capabilities
      BY <2>1, <3>1, <3>2, <3>3
    <3>4. CASE p \in DOMAIN stored.permissions \cup UNION Capabilities
      <4>1. PermissionMatrix(p) = row(row_of(p))
        BY <3>1, <3>4
      <4>2. CASE row(row_of(p)) = "allow"
        BY <2>1, <2>3, <3>2, <3>4, <4>1, <4>2, RowOf
      <4>3. CASE row(row_of(p)) = "custom"
        <5>1. PICK q \in row_of(p) \cap DOMAIN shown.permissions :
                     shown.permissions[q] \notin {"Denied", "AllInstructions"}
          BY <4>3, RowOf
        <5>2. reach(q) = "some"
          BY <2>3, <3>2, <5>1
        <5>3. reach(p) # "nothing"
          BY <2>1, <2>3, <3>2, <3>4, <4>3, RowOf
        <5>4. QED
          BY <4>1, <4>3, <5>1, <5>2, <5>3
      <4>4. CASE row(row_of(p)) = "deny"
        <5>1. PICK q \in row_of(p) \cap DOMAIN shown.permissions : shown.permissions[q] = "Denied"
          BY <4>4, RowOf
        <5>2. reach(q) = "nothing"
          BY <2>3, <3>2, <5>1
        <5>3. QED
          BY <4>1, <4>4, <5>1, <5>2
      <4>5. QED
        BY <4>2, <4>3, <4>4, RowOf
    <3>5. QED
      BY <3>3, <3>4
  <2>8. stored.status = "active" => shown.status \in {"standard", "limited"}
    BY <2>3 DEF policy_status
  <2>9. QED
    BY <2>2, <2>4, <2>5, <2>6, <2>7, <2>8
<1>2. QED
  BY <1>1, PanelCorrect, PTL

(* Only a save that lands goes on and changes the policy. *)
LEMMA LandsOrNot ==
  ASSUME [PanelNext]_panel, stored' # stored, NEW s \in Saves, save'[s] # save[s]
  PROVE  \E t \in Saves : SaveLands(t)
<1>1. save' # save
  OBVIOUS
<1>2. QED
  BY <1>1 DEF PanelNext, panel, account, OpenEditor, CloseEditor, DismissConfirm, RemoveDraft, AddToken,
              TapSpends, ChangeAmount, ChangeWindow, ApplyPreset, AddProgram, DenyProgram, AllowProgram,
              RemoveProgram, Save, confirmAllowDanger, FromStatusView, SaveTaken, Broadcast, SaveFails, SaveDies,
              Refetch, RefetchTokens, PanelTick, Unlinked, OtherDevice, Edit

\* A save keeps the caps and permissions its user did not touch: initialForm,
\* formatTokenAmount and uiAmountToRaw, form_args, preserve_spend_cap.
THEOREM AlwaysUntouchedKept == PanelSpec => UntouchedKept
<1> DEFINE Kept ==
      \A s \in Saves :
          /\ may_land(s) /\ stored' # stored /\ save'[s] # save[s]
          /\ save[s].basis = writes
          => /\ \A a \in Assets \ save[s].touched :
                   asset_cap(stored'.caps, a) = asset_cap(stored.caps, a)
             /\ \A p \in PanelPrograms \ save[s].touched :
                   /\ p \in DOMAIN stored'.permissions <=> p \in DOMAIN stored.permissions
                   /\ p \in DOMAIN stored.permissions =>
                          stored'.permissions[p] = stored.permissions[p]
<1>1. PanelInv /\ [PanelNext]_panel => [Kept]_panel
  <2> SUFFICES ASSUME PanelInv, [PanelNext]_panel, NEW s \in Saves,
                      may_land(s), stored' # stored, save'[s] # save[s],
                      save[s].basis = writes
               PROVE  /\ \A a \in Assets \ save[s].touched :
                             asset_cap(stored'.caps, a) = asset_cap(stored.caps, a)
                      /\ \A p \in PanelPrograms \ save[s].touched :
                             /\ p \in DOMAIN stored'.permissions <=> p \in DOMAIN stored.permissions
                             /\ p \in DOMAIN stored.permissions =>
                                    stored'.permissions[p] = stored.permissions[p]
    OBVIOUS
  <2>1. PICK t \in Saves : SaveLands(t)
    BY LandsOrNot
  <2>2. stored' = written(save[t].args) /\ \E n : save' = [save EXCEPT ![t] = n]
    BY <2>1 DEF SaveLands
  <2>3. t = s
    BY <2>2
  <2> DEFINE m == save[s]
  <2>4. stored' = written(m.args)
    BY <2>2, <2>3
  <2>5. /\ args_ok(m.args) /\ save_keeps(m, stored, writes) /\ view_ok(stored)
        /\ m.phase \in CallPhases \ {"landed"}
    BY CallUnderWay DEF PanelInv, PanelTypeOK, may_land, CallPhases
  <2>6. args_kept(m, stored)
    BY <2>5 DEF save_keeps
  <2>7. CASE m.args.kind = "clear"
    <3>1. Assets \cup PanelPrograms \subseteq m.touched
      BY <2>5, <2>7 DEF save_keeps
    <3>2. QED
      BY <3>1
  <2>8. CASE m.args.kind = "set"
    <3>1. /\ stored'.caps = [a \in DOMAIN m.args.caps |->
                               preserve_spend_cap(
                                 new_spend_cap(m.args.caps[a].cap, m.args.caps[a].window, now),
                                 asset_cap(stored.caps, a))]
          /\ stored'.permissions = m.args.permissions
      BY <2>4, <2>8 DEF written
    <3>2. ASSUME NEW a \in Assets \ m.touched
          PROVE  asset_cap(stored'.caps, a) = asset_cap(stored.caps, a)
      <4>1. CASE a \in DOMAIN stored.caps
        <5>1. /\ a \in DOMAIN m.args.caps
              /\ m.args.caps[a] = [cap |-> stored.caps[a].cap, window |-> stored.caps[a].window_seconds]
          BY <2>6, <4>1 DEF args_kept
        <5>2. stored'.caps[a] = preserve_spend_cap(
                 new_spend_cap(stored.caps[a].cap, stored.caps[a].window_seconds, now),
                 asset_cap(stored.caps, a))
          BY <3>1, <5>1
        <5>3. asset_cap(stored.caps, a) = stored.caps[a]
          BY <4>1 DEF asset_cap
        <5>4. QED
          BY <3>1, <5>1, <5>2, <5>3 DEF preserve_spend_cap, new_spend_cap, asset_cap
      <4>2. CASE a \notin DOMAIN stored.caps
        <5>1. a \notin DOMAIN m.args.caps
          BY <2>6, <4>2 DEF args_kept
        <5>2. QED
          BY <3>1, <4>2, <5>1 DEF asset_cap
      <4>3. QED
        BY <4>1, <4>2
    <3>3. ASSUME NEW p \in PanelPrograms \ m.touched
          PROVE  /\ p \in DOMAIN stored'.permissions <=> p \in DOMAIN stored.permissions
                 /\ p \in DOMAIN stored.permissions => stored'.permissions[p] = stored.permissions[p]
      BY <2>6, <3>1, <3>3 DEF args_kept
    <3>4. QED
      BY <3>2, <3>3
  <2>9. QED
    BY <2>5, <2>7, <2>8 DEF args_ok
<1>2. QED
  BY <1>1, PanelCorrect, PTL DEF PanelSpec, UntouchedKept

-----------------------------------------------------------------------------
(* The pages that pay.                                                     *)

Items    == {NoAsset} \cup Coins \cup Collectibles
Peers    == {NoWallet} \cup Wallets
Payments == [asset : Items, amount : Nat, from : Peers, to : Peers]
Records  == [phase : {"new", "over", "sent"} \cup UnderWay, mode : {"policy", "authority"},
             args : Payments, aborted : BOOLEAN, edited : SUBSET {"asset", "amount"}]
Forms    == [asset : Items, amount : Nat, peer : Peers, busy : BOOLEAN,
             phase : {"form", "summary", "identifying", "handoff", "holding", "success"}]

RouteRecords == [page : {"send", "receive", "top up"}, asset : Items, owner : BOOLEAN]
StageRecords == [stage : {"idle", "holding", "success"}, recap : Payments]
SheetRecords == [open : BOOLEAN, busy : BOOLEAN, mode : {"owner", "blocked"},
                 about : {NoPay} \cup Pays]

PagesTypeOK ==
    /\ route \in RouteRecords
    /\ login \in {"owner", "other", "none"}
    /\ loaded \subseteq Wallets
    /\ form \in Forms
    /\ stage \in StageRecords
    /\ abort \in {NoPay} \cup Pays
    /\ sheet \in SheetRecords
    /\ decide \in {NoPay} \cup Pays
    /\ taps \in Nat
    /\ pay \in [Pays -> Records]
    /\ wiped \in BOOLEAN

(* The form of a page that lists tokens always has one, and so has one     *)
(* that pays; only the send page has a stage, or is reset. *)
PayPageOK ==
    /\ ~On("send") => form.asset \in Coins
    /\ active # {} => form.asset # NoAsset
    /\ ~On("send") => stage = Idle_ /\ ~wiped

(* What a payment that is under way pays is what the form holds, but for   *)
(* the fields that its user edited since. *)
FormIsPaid == \A r \in active : as_paid(pay[r])

(* The sheet, the decision and the abort controller are of payments that   *)
(* can still use them. *)
RefsOK ==
    /\ sheet.open => sheet.about \in active
    /\ decide # NoPay => pay[decide].phase = "asking"
    /\ abort # NoPay => pay[abort].phase # "new"

StageOK ==
    /\ stage.stage = "success" => \E r \in Pays : pay[r].phase = "sent" /\ pay[r].args = stage.recap
    /\ stage.stage = "holding" => \E r \in active : pay[r].args = stage.recap

ReceivedOK ==
    On("receive") /\ form.phase = "success" =>
        \E r \in Pays : pay[r].phase = "sent" /\ as_paid(pay[r])

(* The form is busy with one thing at a time. *)
OneAtATime ==
    /\ form.busy <=> (active # {} \/ taps > 0)
    /\ \A q, r \in active : q = r
    /\ active # {} => taps = 0
    /\ taps <= 1
    /\ \A r \in Pays : pay[r].phase = "asking" => sheet.open /\ sheet.about = r /\ decide = r

PagesInv ==
    /\ PagesTypeOK
    /\ PayPageOK
    /\ FormIsPaid
    /\ RefsOK
    /\ StageOK
    /\ ReceivedOK
    /\ wiped \/ OneAtATime

-----------------------------------------------------------------------------
(* Forms, payments, records.                                               *)

LEMMA FormPaymentTyped ==
  ASSUME PagesTypeOK
  PROVE  form_payment \in Payments
BY PagesAssumption DEF PagesTypeOK, form_payment, Payment, Payments, Forms, Peers, On

LEMMA NotBegunTyped == NotBegun \in Records /\ Over \in Records
BY DEF NotBegun, Over, Records, NoArgs, Payment, Payments, Items, Peers

(* A fresh form names an asset wherever a payment could be under way. *)
LEMMA FreshTyped ==
  ASSUME PagesTypeOK, NEW wallets \in SUBSET Wallets
  PROVE  /\ fresh(wallets) \in Forms
         /\ ~fresh(wallets).busy /\ fresh(wallets).phase = "form"
         /\ ~On("send") => fresh(wallets).asset \in Coins
<1>1. /\ defaultAsset(wallets) \in Items
      /\ ~On("send") => defaultAsset(wallets) \in Coins
  BY PagesAssumption DEF PagesTypeOK, RouteRecords, defaultAsset, On, Items
<1>2. \A a : \A n \in Nat : amount_for(a, n) \in Nat
  BY DEF amount_for
<1>3. (IF On("top up") THEN TopUpAmount ELSE 0) \in Nat
  BY PagesAssumption
<1>4. QED
  BY <1>1, <1>2, <1>3 DEF fresh, Forms, Peers

(* The payments that are under way, with what a change of the form edits. *)
marked(new) == [r \in Pays |-> IF r \in active THEN [pay[r] EXCEPT !.edited = @ \cup edits(new)] ELSE pay[r]]

LEMMA MarkedTyped ==
  ASSUME PagesTypeOK, NEW new
  PROVE  /\ marked(new) \in [Pays -> Records]
         /\ \A r \in Pays : /\ marked(new)[r].phase = pay[r].phase
                            /\ marked(new)[r].args = pay[r].args
                            /\ r \notin active => marked(new)[r].edited = pay[r].edited
         /\ \A r \in active : marked(new)[r].edited = pay[r].edited \cup edits(new)
<1>1. edits(new) \subseteq {"asset", "amount"}
  BY DEF edits
<1>2. \A r \in Pays : [pay[r] EXCEPT !.edited = @ \cup edits(new)] \in Records
  BY <1>1 DEF PagesTypeOK, Records
<1>3. QED
  BY <1>2 DEF PagesTypeOK, marked, Records, active

(* What is edited may differ from what is paid. *)
LEMMA MarkedPaid ==
  ASSUME PagesInv, NEW new, form' = new, pay' = marked(new), route' = route, active' = active,
         On("receive") => new.peer = form.peer
  PROVE  FormIsPaid'
<1>1. ASSUME NEW r \in active
      PROVE  as_paid(pay[r])'
  <2>1. as_paid(pay[r]) /\ r \in Pays
    BY DEF PagesInv, FormIsPaid, active
  <2>2. pay'[r].args = pay[r].args /\ pay'[r].edited = pay[r].edited \cup edits(new)
    BY <1>1, <2>1, MarkedTyped DEF PagesInv
  <2>3. /\ "asset" \notin edits(new) => new.asset = form.asset
        /\ "amount" \notin edits(new) => new.amount = form.amount
    BY DEF edits
  <2>4. QED
    BY <2>1, <2>2, <2>3 DEF as_paid, On
<1>2. QED
  BY <1>1 DEF FormIsPaid

LEMMA TapsTyped == PagesTypeOK => taps \in Nat
BY DEF PagesTypeOK

LEMMA ActiveKept ==
  ASSUME PagesTypeOK, PagesTypeOK', \A r \in Pays : pay'[r].phase = pay[r].phase
  PROVE  active' = active
BY DEF active, PagesTypeOK

-----------------------------------------------------------------------------
(* The steps, by what they do to the form and the payments.                *)

(* The user edits the form. *)
LEMMA ChangeStep ==
  ASSUME PagesInv, NEW new \in Forms, Change(new),
         new.busy = form.busy, new.phase = form.phase, form.phase # "success",
         ~On("send") => new.asset \in Coins,
         On("receive") => new.peer = form.peer,
         form.asset # NoAsset => new.asset # NoAsset
  PROVE  PagesInv'
<1> USE DEF PagesInv
<1>1. pay' = marked(new)
  BY DEF Change, note_edits, marked
<1>2. /\ route' = route /\ stage' = stage /\ abort' = abort /\ sheet' = sheet /\ decide' = decide
      /\ taps' = taps /\ wiped' = wiped /\ form' = new /\ login' = login /\ loaded' = loaded
  BY DEF Change
<1>3. PagesTypeOK'
  <2>1. pay' \in [Pays -> Records]
    BY <1>1, MarkedTyped
  <2>2. QED
    BY <1>2, <2>1 DEF PagesTypeOK
<1>4. active' = active
  BY <1>1, <1>3, ActiveKept, MarkedTyped
<1>5. PayPageOK'
  BY <1>2, <1>4 DEF PayPageOK, On, Idle_
<1>6. FormIsPaid'
  BY <1>1, <1>2, <1>4, MarkedPaid
<1>7. RefsOK'
  BY <1>1, <1>2, <1>4, MarkedTyped DEF RefsOK, PagesTypeOK
<1>8. StageOK'
  BY <1>1, <1>2, <1>4, MarkedTyped DEF StageOK, active
<1>9. ReceivedOK'
  BY <1>2 DEF ReceivedOK
<1>10. wiped' \/ OneAtATime'
  BY <1>1, <1>2, <1>4, MarkedTyped DEF OneAtATime
<1>11. QED
  BY <1>3, <1>5, <1>6, <1>7, <1>8, <1>9, <1>10

(* Only the phase of the form changes, and not to a success. *)
LEMMA PhaseStep ==
  ASSUME PagesInv, UNCHANGED <<route, login, loaded, stage, abort, sheet, decide, taps, pay, wiped>>,
         NEW p \in {"form", "summary", "identifying", "handoff", "holding"},
         form' = [form EXCEPT !.phase = p]
  PROVE  PagesInv'
<1> USE DEF PagesInv
<1>1. /\ form' \in Forms /\ form'.asset = form.asset /\ form'.busy = form.busy /\ form'.phase = p
      /\ form'.amount = form.amount /\ form'.peer = form.peer
  BY DEF PagesTypeOK, Forms
<1>2. PagesTypeOK'
  BY <1>1 DEF PagesTypeOK
<1>3. active' = active
  BY <1>2, ActiveKept
<1>4. PayPageOK' /\ RefsOK' /\ StageOK' /\ (wiped' \/ OneAtATime')
  BY <1>1, <1>3 DEF PayPageOK, RefsOK, StageOK, OneAtATime, On, Idle_
<1>5. FormIsPaid' /\ ReceivedOK'
  BY <1>1, <1>3 DEF FormIsPaid, ReceivedOK, as_paid, On
<1>6. QED
  BY <1>2, <1>4, <1>5

(* Holding an accessory. *)
LEMMA TapSteps ==
  ASSUME PagesInv, Identify \/ NotIdentified \/ \E w \in Wallets : Identified(w)
  PROVE  PagesInv'
<1> USE DEF PagesInv
<1>0. ASSUME NEW p \in {"form", "summary", "identifying", "handoff", "holding", "success"},
             NEW b \in BOOLEAN, NEW w \in Peers
      PROVE  [form EXCEPT !.busy = b, !.phase = p, !.peer = w] \in Forms
  BY DEF PagesTypeOK, Forms
<1>1. CASE Identify
  <2>0. taps' = taps + 1
    BY <1>1 DEF Identify
  <2>a. taps' \in Nat
    BY <2>0, TapsTyped
  <2>1. /\ form' \in Forms /\ form'.asset = form.asset /\ form'.busy /\ form'.phase # "success"
        /\ form'.peer = form.peer /\ form'.amount = form.amount
    BY <1>1, PagesAssumption DEF Identify, PagesTypeOK, Forms, send_form, receive_form, On
  <2>2. /\ route' = route /\ login' = login /\ loaded' = loaded /\ stage' = stage /\ abort' = abort
        /\ sheet' = sheet /\ decide' = decide /\ wiped' = wiped /\ pay' = pay
        /\ ~form.busy
    BY <1>1 DEF Identify, can_pick
  <2>3. PagesTypeOK'
    BY <2>a, <2>1, <2>2 DEF PagesTypeOK
  <2>4. active' = active
    BY <2>2, <2>3, ActiveKept
  <2>5. PayPageOK' /\ RefsOK' /\ StageOK' /\ FormIsPaid' /\ ReceivedOK'
    BY <2>1, <2>2, <2>4 DEF PayPageOK, RefsOK, StageOK, FormIsPaid, ReceivedOK, as_paid, On, Idle_
  <2>6. wiped' \/ OneAtATime'
    BY <2>1, <2>2, <2>4, <2>0, TapsTyped DEF OneAtATime
  <2>7. QED
    BY <2>3, <2>5, <2>6
<1>2. CASE NotIdentified
  <2>0. taps' = taps - 1 /\ taps > 0
    BY <1>2 DEF NotIdentified
  <2>a. taps' \in Nat
    BY <2>0, TapsTyped
  <2>1. /\ form' \in Forms /\ form'.asset = form.asset /\ ~form'.busy
        /\ On("receive") => form'.phase # "success"
        /\ form'.peer = form.peer /\ form'.amount = form.amount
    BY <1>2 DEF NotIdentified, PagesTypeOK, Forms
  <2>2. /\ route' = route /\ login' = login /\ loaded' = loaded /\ stage' = stage /\ abort' = abort
        /\ sheet' = sheet /\ decide' = decide /\ wiped' = wiped /\ pay' = pay
    BY <1>2 DEF NotIdentified
  <2>3. PagesTypeOK'
    BY <2>a, <2>1, <2>2 DEF PagesTypeOK
  <2>4. active' = active
    BY <2>2, <2>3, ActiveKept
  <2>5. PayPageOK' /\ RefsOK' /\ StageOK' /\ FormIsPaid' /\ ReceivedOK'
    BY <2>1, <2>2, <2>4 DEF PayPageOK, RefsOK, StageOK, FormIsPaid, ReceivedOK, as_paid, On, Idle_
  <2>6. wiped' \/ OneAtATime'
    <3>1. OneAtATime => active' = {} /\ taps' = 0
      BY <2>0, <2>4, TapsTyped DEF OneAtATime
    <3>2. OneAtATime => OneAtATime'
      BY <2>1, <2>2, <2>4, <3>1 DEF OneAtATime
    <3>3. QED
      BY <2>2, <3>2
  <2>7. QED
    BY <2>3, <2>5, <2>6
<1>3. ASSUME NEW w \in Wallets, Identified(w)
      PROVE  PagesInv'
  <2>0. taps' = taps - 1 /\ taps > 0
    BY <1>3 DEF Identified
  <2>a. taps' \in Nat
    BY <2>0, TapsTyped
  <2>1. /\ form' \in Forms /\ form'.asset = form.asset /\ ~form'.busy
        /\ On("receive") => form'.phase # "success"
    BY <1>3 DEF Identified, PagesTypeOK, Forms, Peers, On
  <2>2. /\ route' = route /\ login' = login /\ loaded' = loaded /\ stage' = stage /\ abort' = abort
        /\ sheet' = sheet /\ decide' = decide /\ wiped' = wiped
        /\ pay' = pay
    BY <1>3 DEF Identified
  <2>3. PagesTypeOK'
    BY <2>a, <2>1, <2>2 DEF PagesTypeOK
  <2>4. active' = active
    BY <2>2, <2>3, ActiveKept
  <2>5. PayPageOK'
    BY <2>1, <2>2, <2>4 DEF PayPageOK, On, Idle_
  <2>6. FormIsPaid'
    <3>1. CASE On("receive")
      <4>1. OneAtATime
        BY <3>1 DEF PayPageOK, On
      <4>2. active' = {}
        BY <2>0, <2>4, <4>1, TapsTyped DEF OneAtATime
      <4>3. QED
        BY <4>2 DEF FormIsPaid
    <3>2. CASE ~On("receive")
      BY <2>1, <2>2, <2>4, <3>2 DEF FormIsPaid, as_paid, On
    <3>3. QED
      BY <3>1, <3>2
  <2>7. RefsOK'
    BY <2>2, <2>4 DEF RefsOK
  <2>8. StageOK'
    BY <2>2, <2>4 DEF StageOK
  <2>9. ReceivedOK'
    BY <2>1, <2>2 DEF ReceivedOK, On
  <2>10. wiped' \/ OneAtATime'
    BY <2>1, <2>2, <2>4, <2>0, TapsTyped DEF OneAtATime
  <2>11. QED
    BY <2>3, <2>5, <2>6, <2>7, <2>8, <2>9, <2>10
<1>4. QED
  BY <1>1, <1>2, <1>3

(* A payment ends, without a transaction or with one. *)
LEMMA EndStep ==
  ASSUME PagesInv, NEW r \in active, NEW x \in Records, x.phase \in {"over", "sent"},
         pay' = [pay EXCEPT ![r] = x],
         NEW p \in {"form", "summary", "identifying", "handoff", "holding", "success"},
         form' = [form EXCEPT !.busy = FALSE, !.phase = p],
         p = "success" /\ On("receive") =>
             x.phase = "sent" /\ x.args = pay[r].args /\ x.edited = pay[r].edited,
         \/ stage' = Idle_
         \/ On("send") /\ x.phase = "sent" /\ stage' = [stage |-> "success", recap |-> x.args]
         \/ ~On("send") /\ stage' = stage,
         abort' = released(r), sheet_closes,
         login' \in {"owner", "other", "none"},
         UNCHANGED <<route, loaded, taps, wiped>>
  PROVE  PagesInv'
<1> USE DEF PagesInv
<1>1. r \in Pays /\ pay[r].phase \in UnderWay
  BY DEF active
<1>2. /\ form' \in Forms /\ form'.asset = form.asset /\ ~form'.busy /\ form'.phase = p
      /\ form'.peer = form.peer /\ form'.amount = form.amount
  BY DEF PagesTypeOK, Forms
<1>3. /\ pay'[r] = x
      /\ \A q \in Pays : q # r => pay'[q] = pay[q]
  BY <1>1 DEF PagesTypeOK
<1>4. /\ ~sheet'.open /\ decide' = NoPay
      /\ sheet' \in SheetRecords
  BY DEF SheetRecords, sheet_closes, Closed_
<1>5. PagesTypeOK'
  <2>1. stage' \in StageRecords
    <3>1. NoArgs \in Payments /\ x.args \in Payments
      BY NotBegunTyped DEF Records, NotBegun
    <3>2. stage \in StageRecords
      BY DEF PagesTypeOK
    <3>3. QED
      BY <3>1, <3>2 DEF Idle_, StageRecords
  <2>2. QED
    BY <1>1, <1>2, <1>4, <2>1 DEF PagesTypeOK, released
<1>6. active' = active \ {r}
  BY <1>1, <1>3 DEF active, UnderWay
<1>7. PayPageOK'
  BY <1>2, <1>6 DEF PayPageOK, On
<1>8. FormIsPaid'
  BY <1>2, <1>3, <1>6 DEF FormIsPaid, as_paid, On, active
<1>9. RefsOK'
  BY <1>1, <1>3, <1>4 DEF RefsOK, PagesTypeOK, released
<1>10. StageOK'
  BY <1>1, <1>3 DEF StageOK, PayPageOK, Idle_, UnderWay
<1>11. ReceivedOK'
  BY <1>1, <1>2, <1>3 DEF ReceivedOK, as_paid, FormIsPaid, On, UnderWay
<1>12. wiped' \/ OneAtATime'
  <2>1. \A q \in Pays : pay'[q].phase = "asking" => q \in active /\ q # r
    BY <1>3 DEF active, UnderWay
  <2>2. QED
    BY <1>1, <1>2, <1>6, <2>1, TapsTyped DEF OneAtATime
<1>13. QED
  BY <1>5, <1>7, <1>8, <1>9, <1>10, <1>11, <1>12

(* A payment begins: with what the form holds, and alone. *)
LEMMA BeginStep ==
  ASSUME PagesInv, NEW r \in Pays, Begin(r)
  PROVE  PagesInv'
<1> USE DEF PagesInv
<1> DEFINE new == [NotBegun EXCEPT !.phase = IF preferredMode = "authority" /\ login # "owner"
                                            THEN "login" ELSE "signing",
                                   !.mode = preferredMode, !.args = form_payment]
<1>1. /\ new \in Records /\ new.phase \in {"login", "signing"} /\ new.args = form_payment
  BY FormPaymentTyped DEF NotBegun, Records, UnderWay, preferredMode
<1> HIDE DEF new
<1>2. /\ route' = route /\ login' = login /\ loaded' = loaded /\ stage' = stage /\ sheet' = sheet
      /\ decide' = decide /\ taps' = taps /\ wiped' = wiped
      /\ form' = [form EXCEPT !.busy = TRUE] /\ pay[r].phase = "new" /\ ~form.busy
      /\ abort' = IF On("send") THEN r ELSE abort
  BY DEF Begin, NotBegun, canSend, canConfirm, canTopUp
<1>3. abort # r
  BY <1>2, PagesAssumption DEF RefsOK, Pays, NoPay
<1>4. /\ pay' \in [Pays -> Records]
      /\ pay'[r] = new
      /\ \A q \in Pays : q # r => /\ pay'[q].phase = pay[q].phase
                                  /\ pay'[q].args = pay[q].args
                                  /\ pay'[q].edited = pay[q].edited
  <2>1. pay' = [q \in Pays |-> CASE q = r -> new
                                 [] q = abort -> [pay[q] EXCEPT !.aborted = TRUE]
                                 [] OTHER -> pay[q]]
    BY DEF Begin, new
  <2>2. pay \in [Pays -> Records]
    BY DEF PagesTypeOK
  <2>3. \A q \in Pays : /\ [pay[q] EXCEPT !.aborted = TRUE] \in Records
                        /\ [pay[q] EXCEPT !.aborted = TRUE].phase = pay[q].phase
                        /\ [pay[q] EXCEPT !.aborted = TRUE].args = pay[q].args
                        /\ [pay[q] EXCEPT !.aborted = TRUE].edited = pay[q].edited
    BY <2>2 DEF Records
  <2>4. QED
    BY <1>1, <1>3, <2>1, <2>2, <2>3
<1>5. /\ form' \in Forms /\ form'.asset = form.asset /\ form'.busy /\ form'.phase = form.phase
      /\ form'.peer = form.peer /\ form'.amount = form.amount
  BY <1>2 DEF PagesTypeOK, Forms
<1>6. PagesTypeOK'
  BY <1>2, <1>4, <1>5 DEF PagesTypeOK
<1>7. active' = active \cup {r} /\ r \notin active
  BY <1>1, <1>2, <1>4 DEF active, UnderWay
<1>8. /\ form_payment.asset = form.asset
      /\ On("receive") => form_payment.amount = form.amount /\ form_payment.from = form.peer
  BY DEF form_payment, Payment, On
<1>9. form.asset # NoAsset
  BY PagesAssumption DEF Begin, canSend, canConfirm, canTopUp, PayPageOK, On, summary, top_up_form
<1>10. PayPageOK'
  BY <1>2, <1>5, <1>9 DEF PayPageOK, On, Idle_
<1>11. FormIsPaid'
  BY <1>1, <1>2, <1>4, <1>5, <1>7, <1>8 DEF FormIsPaid, as_paid, On, active
<1>12. RefsOK'
  <2>1. sheet'.open => sheet'.about \in active'
    BY <1>2, <1>7 DEF RefsOK
  <2>2. decide' # NoPay => pay'[decide'].phase = "asking"
    BY <1>2, <1>4 DEF RefsOK, PagesTypeOK
  <2>3. abort' # NoPay => pay'[abort'].phase # "new"
    BY <1>1, <1>2, <1>4 DEF RefsOK, PagesTypeOK
  <2>4. QED
    BY <2>1, <2>2, <2>3 DEF RefsOK
<1>13. StageOK'
  BY <1>2, <1>4, <1>7 DEF StageOK, active
<1>14. ReceivedOK'
  BY <1>2, <1>4, <1>5 DEF ReceivedOK, as_paid, On
<1>15. wiped' \/ OneAtATime'
  <2>1. OneAtATime => active' = {r} /\ taps' = 0
    BY <1>2, <1>7, TapsTyped DEF OneAtATime
  <2>2. \A q \in Pays : pay'[q].phase = "asking" => pay[q].phase = "asking"
    BY <1>1, <1>4
  <2>3. OneAtATime => OneAtATime'
    BY <1>2, <1>5, <2>1, <2>2 DEF OneAtATime
  <2>4. QED
    BY <1>2, <2>3
<1>16. QED
  BY <1>6, <1>10, <1>11, <1>12, <1>13, <1>14, <1>15

(* The held accessory is shown. *)
LEMMA HoldStep ==
  ASSUME PagesInv, NEW r \in Pays, HoldShown(r)
  PROVE  PagesInv'
<1> USE DEF PagesInv
<1>1. /\ route' = route /\ login' = login /\ loaded' = loaded /\ abort' = abort /\ sheet' = sheet
      /\ decide' = decide /\ taps' = taps /\ wiped' = wiped /\ pay' = pay
      /\ stage' = IF On("send") THEN [stage |-> "holding", recap |-> pay[r].args] ELSE stage
      /\ pay[r].phase = "signing"
  BY DEF HoldShown
<1>2. /\ form' \in Forms /\ form'.asset = form.asset /\ form'.busy = form.busy
      /\ form'.phase = "holding" /\ form'.peer = form.peer /\ form'.amount = form.amount
  BY DEF HoldShown, PagesTypeOK, Forms
<1>3. PagesTypeOK'
  <2>1. pay[r].args \in Payments
    BY DEF PagesTypeOK, Records
  <2>2. stage \in StageRecords
    BY DEF PagesTypeOK
  <2>3. stage' \in StageRecords
    BY <1>1, <2>1, <2>2 DEF StageRecords
  <2>4. QED
    BY <1>1, <1>2, <2>3 DEF PagesTypeOK
<1>4. active' = active /\ r \in active
  BY <1>1 DEF active, UnderWay
<1>5. PayPageOK' /\ RefsOK' /\ FormIsPaid' /\ ReceivedOK'
  BY <1>1, <1>2, <1>4 DEF PayPageOK, RefsOK, FormIsPaid, ReceivedOK, as_paid, On, Idle_
<1>6. StageOK'
  BY <1>1, <1>4 DEF StageOK
<1>7. wiped' \/ OneAtATime'
  BY <1>1, <1>2, <1>4 DEF OneAtATime
<1>8. QED
  BY <1>3, <1>5, <1>6, <1>7

(* Whatever ends without a transaction. *)
LEMMA EndsStep ==
  ASSUME PagesInv, NEW r \in active, NEW outcome \in {"failed", "denied"}, Ends(r, outcome),
         login' \in {"owner", "other", "none"}
  PROVE  PagesInv'
<1>1. phase_after(outcome) \in {"form", "summary", "handoff"}
  BY DEF RouteRecords, phase_after, after_send, after_receive, after_top_up, On, PagesInv, PagesTypeOK
<1>2. Over \in Records /\ Over.phase = "over"
  BY NotBegunTyped DEF Over, NotBegun
<1>3. form' = [form EXCEPT !.busy = FALSE, !.phase = phase_after(outcome)]
      /\ pay' = [pay EXCEPT ![r] = Over]
      /\ stage' = Idle_ /\ abort' = released(r) /\ sheet_closes
      /\ UNCHANGED <<route, loaded, taps, wiped>>
  BY DEF Ends
<1> HIDE DEF Over
<1>4. QED
  BY <1>1, <1>2, <1>3, EndStep

(* Only what the payment is up to changes: it was let in, or approved. *)
LEMMA GoesOnStep ==
  ASSUME PagesInv, NEW r \in active, NEW x \in Records, x.phase = "signing",
         x.args = pay[r].args, x.edited = pay[r].edited,
         pay' = [pay EXCEPT ![r] = x],
         login' \in {"owner", "other", "none"},
         route' = route, loaded' = loaded, form' = form, stage' = stage, abort' = abort,
         taps' = taps, wiped' = wiped,
         \/ sheet' = sheet /\ decide' = decide /\ pay[r].phase # "asking"
         \/ sheet' = [sheet EXCEPT !.busy = TRUE] /\ decide' = NoPay /\ decide = r
  PROVE  PagesInv'
<1> USE DEF PagesInv
<1>1. r \in Pays /\ pay[r].phase \in UnderWay
  BY DEF active
<1>2. /\ pay'[r] = x
      /\ \A q \in Pays : q # r => pay'[q] = pay[q]
      /\ pay' \in [Pays -> Records]
  BY <1>1 DEF PagesTypeOK
<1>3. /\ sheet' \in SheetRecords
      /\ sheet'.open = sheet.open /\ sheet'.about = sheet.about
      /\ decide' \in {NoPay} \cup Pays
  BY DEF PagesTypeOK, SheetRecords
<1>4. PagesTypeOK'
  BY <1>2, <1>3 DEF PagesTypeOK
<1>5. active' = active
  BY <1>1, <1>2 DEF active, UnderWay
<1>6. PayPageOK'
  BY <1>5 DEF PayPageOK, On, Idle_
<1>7. FormIsPaid'
  BY <1>2, <1>5 DEF FormIsPaid, as_paid, On, active
<1>8. RefsOK'
  BY <1>1, <1>2, <1>3, <1>5 DEF RefsOK, PagesTypeOK
<1>9. StageOK'
  BY <1>1, <1>2, <1>5 DEF StageOK, active, UnderWay
<1>10. ReceivedOK'
  BY <1>1, <1>2 DEF ReceivedOK, as_paid, On, UnderWay
<1>11. wiped' \/ OneAtATime'
  <2>1. OneAtATime => \A q \in active : q = r
    BY DEF OneAtATime
  <2>2. OneAtATime => \A q \in Pays : pay'[q].phase # "asking"
    BY <1>2, <2>1 DEF active, UnderWay
  <2>3. OneAtATime => OneAtATime'
    BY <1>5, <2>2 DEF OneAtATime
  <2>4. QED
    BY <2>3
<1>12. QED
  BY <1>4, <1>6, <1>7, <1>8, <1>9, <1>10, <1>11

LEMMA LogsInStep ==
  ASSUME PagesInv, NEW r \in Pays, LogsIn(r)
  PROVE  PagesInv'
<1>1. r \in active /\ pay[r].phase = "login"
  BY DEF LogsIn, active, UnderWay
<1>2. login' \in {"owner", "other", "none"}
  BY DEF LogsIn, PagesInv, PagesTypeOK
<1>3. CASE login' = "owner"
  <2> DEFINE x == [pay[r] EXCEPT !.phase = "signing"]
  <2>1. x \in Records /\ x.phase = "signing" /\ x.args = pay[r].args /\ x.edited = pay[r].edited
    BY DEF PagesInv, PagesTypeOK, Records, UnderWay
  <2>2. /\ pay' = [pay EXCEPT ![r] = x]
        /\ route' = route /\ loaded' = loaded /\ form' = form /\ stage' = stage /\ abort' = abort
        /\ taps' = taps /\ wiped' = wiped /\ sheet' = sheet /\ decide' = decide
    BY <1>3 DEF LogsIn
  <2> HIDE DEF x
  <2>3. QED
    BY <1>1, <1>2, <2>1, <2>2, GoesOnStep
<1>4. CASE login' # "owner"
  BY <1>1, <1>2, <1>4, EndsStep DEF LogsIn
<1>5. QED
  BY <1>3, <1>4

LEMMA FailsStep ==
  ASSUME PagesInv, NEW r \in Pays, PaymentFails(r)
  PROVE  PagesInv'
<1>1. r \in active
  BY DEF PaymentFails, active, UnderWay
<1>2. login' \in {"owner", "other", "none"}
  BY DEF PaymentFails, PagesInv, PagesTypeOK
<1>3. QED
  BY <1>1, <1>2, EndsStep DEF PaymentFails

LEMMA SentStep ==
  ASSUME PagesInv, NEW r \in Pays, Sent(r)
  PROVE  PagesInv'
<1> DEFINE x == [pay[r] EXCEPT !.phase = "sent"]
<1>1. r \in active
  BY DEF Sent, active, UnderWay
<1>2. x \in Records /\ x.phase = "sent" /\ x.args = pay[r].args /\ x.edited = pay[r].edited
  BY DEF PagesInv, PagesTypeOK, Records
<1>3. phase_after("sent") \in {"form", "summary", "identifying", "handoff", "holding", "success"}
  BY DEF RouteRecords, phase_after, after_send, after_receive, after_top_up, On, PagesInv, PagesTypeOK, Forms
<1>4. /\ pay' = [pay EXCEPT ![r] = x]
      /\ form' = [form EXCEPT !.busy = FALSE, !.phase = phase_after("sent")]
      /\ \/ On("send") /\ stage' = [stage |-> "success", recap |-> x.args]
         \/ ~On("send") /\ stage' = stage
      /\ abort' = released(r) /\ sheet_closes /\ login' = login
      /\ UNCHANGED <<route, loaded, taps, wiped>>
  BY <1>2 DEF Sent, recapForSend
<1>5. login' \in {"owner", "other", "none"}
  BY <1>4 DEF PagesInv, PagesTypeOK
<1> HIDE DEF x
<1>6. QED
  BY <1>1, <1>2, <1>3, <1>4, <1>5, EndStep

LEMMA ApproveStep ==
  ASSUME PagesInv, onApprove
  PROVE  PagesInv'
<1> DEFINE x == [pay[decide] EXCEPT !.phase = "signing", !.mode = "authority"]
<1>1. decide \in active /\ decide # NoPay
  BY DEF onApprove, PagesInv, PagesTypeOK, RefsOK, active, UnderWay
<1>2. decide \in Pays
  BY <1>1 DEF active
<1>3. x \in Records /\ x.phase = "signing" /\ x.args = pay[decide].args /\ x.edited = pay[decide].edited
  BY <1>2 DEF PagesInv, PagesTypeOK, Records, UnderWay
<1>4. /\ pay' = [pay EXCEPT ![decide] = x]
      /\ route' = route /\ login' = login /\ loaded' = loaded /\ form' = form /\ stage' = stage
      /\ abort' = abort /\ taps' = taps /\ wiped' = wiped
      /\ sheet' = [sheet EXCEPT !.busy = TRUE] /\ decide' = NoPay
  BY <1>2 DEF onApprove, PagesInv, PagesTypeOK, Records
<1>5. login' \in {"owner", "other", "none"}
  BY <1>4 DEF PagesInv, PagesTypeOK
<1> HIDE DEF x
<1>6. QED
  BY <1>1, <1>3, <1>4, <1>5, GoesOnStep

LEMMA CancelStep ==
  ASSUME PagesInv, onCancel
  PROVE  PagesInv'
<1>1. decide \in active
  BY DEF onCancel, PagesInv, PagesTypeOK, RefsOK, active, UnderWay
<1>2. login' \in {"owner", "other", "none"}
  BY DEF onCancel, PagesInv, PagesTypeOK
<1>3. QED
  BY <1>1, <1>2, EndsStep DEF onCancel

(* A denial hands the payment over, or asks whether to approve it. *)
LEMMA DeniedStep ==
  ASSUME PagesInv, NEW r \in Pays, DeniedByPolicy(r)
  PROVE  PagesInv'
<1> USE DEF PagesInv
<1>1. r \in active /\ pay[r].phase = "signing"
  BY DEF DeniedByPolicy, active, UnderWay
<1>2. CASE On("receive")
  <2>1. login' \in {"owner", "other", "none"}
    BY <1>2 DEF DeniedByPolicy, PagesTypeOK
  <2>2. Ends(r, "denied")
    BY <1>2 DEF DeniedByPolicy
  <2>3. QED
    BY <1>1, <2>1, <2>2, EndsStep
<1>3. CASE ~On("receive")
  <2> DEFINE x == [pay[r] EXCEPT !.phase = "asking"]
  <2>1. /\ x \in Records /\ x.phase = "asking" /\ x.args = pay[r].args /\ x.edited = pay[r].edited
    BY DEF PagesTypeOK, Records, UnderWay
  <2>2. pay' = [pay EXCEPT ![r] = x]
    BY <1>3 DEF DeniedByPolicy
  <2> HIDE DEF x
  <2>3. /\ route' = route /\ login' = login /\ loaded' = loaded /\ abort' = abort
        /\ taps' = taps /\ wiped' = wiped /\ stage' = Idle_ /\ decide' = r
        /\ form' = [form EXCEPT !.phase = "form"]
        /\ sheet' = [open |-> TRUE, busy |-> FALSE, about |-> r,
                     mode |-> IF login = "owner" THEN "owner" ELSE "blocked"]
    BY <1>3 DEF DeniedByPolicy
  <2>4. /\ pay'[r] = x
        /\ \A q \in Pays : q # r => pay'[q] = pay[q]
        /\ pay' \in [Pays -> Records]
    BY <2>1, <2>2 DEF PagesTypeOK
  <2>5. /\ form' \in Forms /\ form'.asset = form.asset /\ form'.busy = form.busy
        /\ form'.phase = "form" /\ form'.peer = form.peer /\ form'.amount = form.amount
    BY <2>3 DEF PagesTypeOK, Forms
  <2>6. PagesTypeOK'
    <3>1. Idle_ \in StageRecords
      BY NotBegunTyped DEF StageRecords, Idle_, Records, NotBegun
    <3>2. sheet' \in SheetRecords
      BY <1>1, <2>3 DEF SheetRecords, active
    <3>3. /\ route' \in RouteRecords /\ login' \in {"owner", "other", "none"} /\ loaded' \subseteq Wallets
          /\ abort' \in {NoPay} \cup Pays /\ taps' \in Nat /\ wiped' \in BOOLEAN
      BY <2>3 DEF PagesTypeOK
    <3>4. stage' \in StageRecords /\ decide' \in {NoPay} \cup Pays
      BY <2>3, <3>1
    <3>5. QED
      BY <2>4, <2>5, <3>2, <3>3, <3>4 DEF PagesTypeOK
  <2>7. active' = active
    BY <1>1, <2>1, <2>4 DEF active, UnderWay
  <2>8. PayPageOK'
    BY <2>3, <2>5, <2>7 DEF PayPageOK, On
  <2>9. FormIsPaid'
    BY <1>3, <2>1, <2>3, <2>4, <2>5, <2>7 DEF FormIsPaid, as_paid, On, active
  <2>10. RefsOK'
    BY <1>1, <2>1, <2>3, <2>4, <2>7 DEF RefsOK, PagesTypeOK
  <2>11. StageOK' /\ ReceivedOK'
    BY <1>3, <2>3, <2>5 DEF StageOK, ReceivedOK, Idle_, On
  <2>12. wiped' \/ OneAtATime'
    <3>1. OneAtATime => \A q \in active : q = r
      BY <1>1 DEF OneAtATime
    <3>2. OneAtATime => \A q \in Pays : pay'[q].phase = "asking" => q = r
      BY <2>4, <3>1 DEF active, UnderWay
    <3>3. OneAtATime => OneAtATime'
      BY <2>3, <2>5, <2>7, <3>2 DEF OneAtATime
    <3>4. QED
      BY <2>3, <3>3
  <2>13. QED
    BY <2>6, <2>8, <2>9, <2>10, <2>11, <2>12
<1>4. QED
  BY <1>2, <1>3

(* The form is replaced by a fresh one. *)
LEMMA ResetStep ==
  ASSUME PagesInv, loaded' \in SUBSET Wallets, reset_by(loaded'), Reset,
         route' = route, login' = login, stage' = stage, sheet' = sheet, decide' = decide, taps' = taps
  PROVE  PagesInv'
<1> USE DEF PagesInv
<1>1. /\ pay' = marked(form') /\ abort' = NoPay /\ form' = fresh(loaded') /\ wiped' = (wiped \/ form.busy)
  BY DEF Reset, note_edits, marked
<1>2. On("send") /\ route.asset # NoAsset /\ Home \in loaded'
  BY DEF reset_by
<1>3. /\ form' \in Forms /\ ~form'.busy /\ form'.phase = "form"
  BY <1>1, FreshTyped
<1>4. form'.asset # NoAsset
  BY <1>1, <1>2 DEF fresh, defaultAsset, On
<1>5. PagesTypeOK'
  <2>1. pay' \in [Pays -> Records]
    BY <1>1, MarkedTyped
  <2>2. wiped' \in BOOLEAN
    BY <1>1
  <2>3. QED
    BY <1>1, <1>3, <2>1, <2>2 DEF PagesTypeOK
<1>6. active' = active
  BY <1>1, <1>5, ActiveKept, MarkedTyped
<1>7. PayPageOK'
  BY <1>2, <1>4, <1>6 DEF PayPageOK, On
<1>8. FormIsPaid'
  BY <1>1, <1>2, <1>6, MarkedPaid DEF On
<1>9. RefsOK'
  BY <1>1, <1>6, MarkedTyped DEF RefsOK, PagesTypeOK
<1>10. StageOK'
  BY <1>1, <1>6, MarkedTyped DEF StageOK, active
<1>11. ReceivedOK'
  BY <1>3 DEF ReceivedOK
<1>12. wiped' \/ OneAtATime'
  <2>1. ~form.busy /\ OneAtATime => active' = {} /\ taps' = 0
    BY <1>6, TapsTyped DEF OneAtATime
  <2>2. active' = {} => \A q \in Pays : pay'[q].phase # "asking"
    BY DEF active, UnderWay
  <2>3. ~form.busy /\ OneAtATime => OneAtATime'
    BY <1>3, <2>1, <2>2 DEF OneAtATime
  <2>4. QED
    BY <1>1, <2>3
<1>13. QED
  BY <1>5, <1>7, <1>8, <1>9, <1>10, <1>11, <1>12

LEMMA LoadsStep ==
  ASSUME PagesInv, NEW w \in Wallets, PortfolioLoads(w)
  PROVE  PagesInv'
<1> USE DEF PagesInv
<1>1. /\ loaded' = loaded \cup {w} /\ loaded' \in SUBSET Wallets
      /\ route' = route /\ login' = login /\ stage' = stage /\ sheet' = sheet /\ decide' = decide
      /\ taps' = taps
  BY DEF PortfolioLoads, PagesTypeOK
<1>2. CASE reset_by(loaded')
  BY <1>1, <1>2, ResetStep DEF PortfolioLoads
<1>3. CASE ~reset_by(loaded')
  <2>1. /\ abort' = abort /\ pay' = pay /\ wiped' = wiped
        /\ form' = IF form.asset = NoAsset /\ w = Home
                   THEN [form EXCEPT !.asset = defaultAsset(loaded')] ELSE form
    BY <1>3 DEF PortfolioLoads
  <2>2. defaultAsset(loaded') \in Items /\ (~On("send") => defaultAsset(loaded') \in Coins)
    BY PagesAssumption DEF PagesTypeOK, RouteRecords, defaultAsset, On, Items
  <2>3. /\ form' \in Forms /\ form'.busy = form.busy /\ form'.phase = form.phase
        /\ form'.peer = form.peer /\ form'.amount = form.amount
        /\ form.asset # NoAsset => form' = form
        /\ ~On("send") => form' = form
    BY <2>1, <2>2, PagesAssumption DEF PagesTypeOK, Forms, PayPageOK
  <2>4. PagesTypeOK'
    BY <1>1, <2>1, <2>3 DEF PagesTypeOK
  <2>5. active' = active
    BY <2>1, <2>4, ActiveKept
  <2>6. PayPageOK' /\ RefsOK' /\ StageOK'
    BY <1>1, <2>1, <2>3, <2>5 DEF PayPageOK, RefsOK, StageOK, On, Idle_
  <2>7. FormIsPaid' /\ ReceivedOK'
    <3>1. active # {} \/ On("receive") => form' = form
      BY <1>1, <2>3 DEF PayPageOK, On
    <3>2. QED
      BY <1>1, <2>1, <2>5, <3>1 DEF FormIsPaid, ReceivedOK, as_paid, On
  <2>8. wiped' \/ OneAtATime'
    BY <1>1, <2>1, <2>3, <2>5 DEF OneAtATime
  <2>9. QED
    BY <2>4, <2>6, <2>7, <2>8
<1>4. QED
  BY <1>2, <1>3

(* The user goes; nothing is under way on the page that is opened next. *)
LEMMA LeaveStep ==
  ASSUME PagesInv, Leave
  PROVE  PagesInv'
<1> USE DEF PagesInv
<1>1. /\ route' = route /\ login' = login /\ loaded' = loaded /\ form' = fresh(loaded)
      /\ stage' = Idle_ /\ abort' = NoPay /\ taps' = 0 /\ wiped' = FALSE
      /\ sheet' = Closed_ /\ decide' = NoPay
      /\ pay' = [r \in Pays |-> IF r \in active THEN Over ELSE pay[r]]
  BY DEF Leave
<1>2. /\ form' \in Forms /\ ~form'.busy /\ form'.phase = "form"
      /\ ~On("send") => form'.asset \in Coins
  BY <1>1, FreshTyped DEF PagesTypeOK
<1>3. pay' \in [Pays -> Records] /\ \A r \in Pays : pay'[r].phase \notin UnderWay
  <2>1. Over \in Records /\ Over.phase = "over"
    BY NotBegunTyped DEF Over, NotBegun
  <2> HIDE DEF Over
  <2>2. QED
    BY <1>1, <2>1 DEF PagesTypeOK, active, UnderWay
<1>4. active' = {}
  BY <1>3 DEF active, UnderWay
<1>5. PagesTypeOK'
  <2>1. Idle_ \in StageRecords
    BY NotBegunTyped DEF StageRecords, Idle_, Records, NotBegun
  <2>2. Closed_ \in SheetRecords
    BY DEF SheetRecords, Closed_
  <2>3. QED
    BY <1>1, <1>2, <1>3, <2>1, <2>2 DEF PagesTypeOK
<1>6. PayPageOK'
  BY <1>1, <1>2, <1>4 DEF PayPageOK, On
<1>7. RefsOK' /\ StageOK' /\ FormIsPaid'
  BY <1>1, <1>4 DEF RefsOK, StageOK, FormIsPaid, Closed_, Idle_
<1>8. ReceivedOK'
  BY <1>2 DEF ReceivedOK
<1>9. OneAtATime'
  BY <1>1, <1>2, <1>3, <1>4 DEF OneAtATime, UnderWay
<1>10. QED
  BY <1>5, <1>6, <1>7, <1>8, <1>9

-----------------------------------------------------------------------------
(* The actions of the forms.                                               *)

LEMMA PickStep ==
  ASSUME PagesInv, NEW a \in Coins \cup Collectibles, PickAsset(a)
  PROVE  PagesInv'
<1> DEFINE n == amount_for(a, IF form.asset \in Collectibles THEN 0 ELSE form.amount)
           new == [form EXCEPT !.asset = a, !.amount = n]
<1>1. n \in Nat
  BY DEF amount_for, PagesInv, PagesTypeOK, Forms
<1>2. Change(new)
  BY DEF PickAsset
<1>3. /\ new \in Forms /\ new.busy = form.busy /\ new.phase = form.phase /\ new.asset = a
      /\ new.peer = form.peer
  <2> HIDE DEF n
  <2>1. QED
    BY <1>1 DEF PagesInv, PagesTypeOK, Forms, Items
<1> HIDE DEF new
<1>4. form.phase # "success"
  BY DEF PickAsset, send_form, receive_form
<1>5. a # NoAsset /\ (~On("send") => a \in Coins)
  BY PagesAssumption DEF PickAsset, pickable
<1>6. QED
  BY <1>2, <1>3, <1>4, <1>5, ChangeStep

(* The amount, or the whole balance. *)
LEMMA TypedAmountStep ==
  ASSUME PagesInv, NEW n \in Nat, Change([form EXCEPT !.amount = n]), form.phase # "success"
  PROVE  PagesInv'
<1> DEFINE new == [form EXCEPT !.amount = n]
<1>1. /\ new \in Forms /\ new.busy = form.busy /\ new.phase = form.phase /\ new.asset = form.asset
      /\ new.peer = form.peer
  BY DEF PagesInv, PagesTypeOK, Forms
<1>2. Change(new)
  OBVIOUS
<1> HIDE DEF new
<1>3. ~On("send") => new.asset \in Coins
  BY <1>1 DEF PagesInv, PayPageOK
<1>4. QED
  BY <1>1, <1>2, <1>3, ChangeStep

LEMMA MaxStep ==
  ASSUME PagesInv, TakeMax
  PROVE  PagesInv'
<1>1. CASE summary /\ form.peer \in loaded /\ Change([form EXCEPT !.amount = Balance[form.peer][form.asset]])
  <2>1. form.asset \in Coins /\ form.peer \in Wallets /\ form.phase # "success"
    BY <1>1 DEF PagesInv, PagesTypeOK, PayPageOK, summary, On
  <2>2. Balance[form.peer][form.asset] \in Nat
    BY <2>1, PagesAssumption
  <2>3. QED
    BY <1>1, <2>1, <2>2, TypedAmountStep
<1>2. CASE send_form /\ form.asset \in Coins /\ Change([form EXCEPT !.amount = Balance[Home][form.asset]])
  <2>1. Balance[Home][form.asset] \in Nat /\ form.phase # "success"
    BY <1>2, PagesAssumption DEF send_form
  <2>2. QED
    BY <1>2, <2>1, TypedAmountStep
<1>3. QED
  BY <1>1, <1>2 DEF TakeMax

LEMMA RecipientStep ==
  ASSUME PagesInv, NEW w \in Wallets, TypeRecipient(w)
  PROVE  PagesInv'
<1> DEFINE new == [form EXCEPT !.peer = w]
<1>1. new \in Forms /\ new.busy = form.busy /\ new.phase = form.phase /\ new.asset = form.asset
  BY DEF PagesInv, PagesTypeOK, Forms, Peers
<1>2. Change(new)
  BY DEF TypeRecipient
<1> HIDE DEF new
<1>3. On("send") /\ ~On("receive") /\ form.phase # "success"
  BY DEF TypeRecipient, send_form, On
<1>4. QED
  BY <1>1, <1>2, <1>3, ChangeStep

LEMMA PagesStep ==
  ASSUME PagesInv, [PagesNext]_pages
  PROVE  PagesInv'
<1>1. ASSUME NEW a \in Coins \cup Collectibles, PickAsset(a)
      PROVE  PagesInv'
  BY <1>1, PickStep
<1>2. ASSUME NEW n \in Amounts, TypeAmount(n)
      PROVE  PagesInv'
  <2>1. n \in Nat /\ form.phase # "success" /\ Change([form EXCEPT !.amount = n])
    BY <1>2, PagesAssumption DEF TypeAmount, send_form, receive_form, top_up_form
  <2>2. QED
    BY <2>1, TypedAmountStep
<1>3. CASE backToForm \/ LeaveHandoff
  <2>1. PICK p \in {"form", "summary"} :
            /\ form' = [form EXCEPT !.phase = p]
            /\ UNCHANGED <<route, login, loaded, stage, abort, sheet, decide, taps, pay, wiped>>
    BY <1>3 DEF backToForm, LeaveHandoff
  <2>2. QED
    BY <2>1, PhaseStep
<1>4. CASE Identify \/ NotIdentified
  BY <1>4, TapSteps
<1>5. ASSUME NEW w \in Wallets, TypeRecipient(w) \/ Identified(w) \/ PortfolioLoads(w)
      PROVE  PagesInv'
  BY <1>5, RecipientStep, TapSteps, LoadsStep
<1>6. ASSUME NEW r \in Pays,
             Begin(r) \/ LogsIn(r) \/ PaymentFails(r) \/ HoldShown(r) \/ Sent(r) \/ DeniedByPolicy(r)
      PROVE  PagesInv'
  BY <1>6, BeginStep, LogsInStep, FailsStep, HoldStep, SentStep, DeniedStep
<1>7. CASE Rendered
  <2>1. /\ loaded' = loaded /\ reset_by(loaded') /\ Reset
        /\ route' = route /\ login' = login /\ stage' = stage /\ sheet' = sheet /\ decide' = decide
        /\ taps' = taps
    BY <1>7 DEF Rendered
  <2>2. loaded' \in SUBSET Wallets
    BY <2>1 DEF PagesInv, PagesTypeOK
  <2>3. QED
    BY <2>1, <2>2, ResetStep
<1>8. CASE UNCHANGED pages
  <2>1. /\ route' = route /\ login' = login /\ loaded' = loaded /\ form' = form /\ stage' = stage
        /\ abort' = abort /\ sheet' = sheet /\ decide' = decide /\ taps' = taps /\ pay' = pay
        /\ wiped' = wiped
    BY <1>8 DEF pages
  <2>2. active' = active
    BY <2>1 DEF active
  <2>3. PagesTypeOK'
    BY <2>1 DEF PagesInv, PagesTypeOK
  <2>4. PayPageOK' /\ RefsOK' /\ StageOK'
    BY <2>1, <2>2 DEF PagesInv, PayPageOK, RefsOK, StageOK, On, Idle_
  <2>5. FormIsPaid' /\ ReceivedOK'
    BY <2>1, <2>2 DEF PagesInv, FormIsPaid, ReceivedOK, as_paid, On
  <2>6. wiped' \/ OneAtATime'
    BY <2>1, <2>2 DEF PagesInv, OneAtATime
  <2>7. QED
    BY <2>3, <2>4, <2>5, <2>6 DEF PagesInv
<1>9. QED
  BY <1>1, <1>2, <1>3, <1>4, <1>5, <1>6, <1>7, <1>8, MaxStep, ApproveStep, CancelStep, LeaveStep
     DEF PagesNext

LEMMA PagesStart == PagesInit => PagesInv
<1> SUFFICES ASSUME PagesInit PROVE PagesInv
  OBVIOUS
<1>1. loaded \in SUBSET Wallets /\ route \in RouteRecords
  BY PagesAssumption DEF RouteRecords, PagesInit, Items
<1>2. /\ fresh(loaded) \in Forms /\ ~fresh(loaded).busy /\ fresh(loaded).phase = "form"
      /\ ~On("send") => fresh(loaded).asset \in Coins
  <2>1. /\ defaultAsset(loaded) \in Items
        /\ ~On("send") => defaultAsset(loaded) \in Coins
    BY <1>1, PagesAssumption DEF RouteRecords, defaultAsset, On, Items
  <2>2. \A a : \A n \in Nat : amount_for(a, n) \in Nat
    BY DEF amount_for
  <2>3. (IF On("top up") THEN TopUpAmount ELSE 0) \in Nat
    BY PagesAssumption
  <2>4. QED
    BY <2>1, <2>2, <2>3 DEF fresh, Forms, Peers
<1>3. /\ pay \in [Pays -> Records]
      /\ \A r \in Pays : pay[r].phase = "new"
  <2>1. NotBegun \in Records /\ NotBegun.phase = "new"
    BY NotBegunTyped DEF NotBegun
  <2> HIDE DEF NotBegun
  <2>2. QED
    BY <2>1 DEF PagesInit
<1>4. active = {}
  BY <1>3 DEF active, UnderWay
<1>5. PagesTypeOK
  <2>1. Idle_ \in StageRecords
    BY NotBegunTyped DEF StageRecords, Idle_, Records, NotBegun
  <2>2. Closed_ \in SheetRecords
    BY DEF SheetRecords, Closed_
  <2>3. QED
    BY <1>1, <1>2, <1>3, <2>1, <2>2 DEF PagesTypeOK, PagesInit
<1>6. /\ form = fresh(loaded) /\ stage = Idle_ /\ sheet = Closed_ /\ abort = NoPay /\ decide = NoPay
      /\ taps = 0 /\ ~wiped
  BY DEF PagesInit
<1>7. PayPageOK /\ FormIsPaid /\ RefsOK
  BY <1>2, <1>4, <1>6 DEF PayPageOK, FormIsPaid, RefsOK, Closed_
<1>8. StageOK /\ ReceivedOK
  BY <1>2, <1>6 DEF StageOK, ReceivedOK, Idle_
<1>9. OneAtATime
  BY <1>2, <1>3, <1>4, <1>6 DEF OneAtATime
<1>10. QED
  BY <1>5, <1>7, <1>8, <1>9 DEF PagesInv

(* What the pages hold fits their payments, however their forms are        *)
(* edited, their sheet answered and their routes changed (runSend,         *)
(* runReceive, runTopUp, useWalletTransaction).                            *)
THEOREM PagesCorrect == PagesSpec => []PagesInv
<1>1. PagesInit => PagesInv
  BY PagesStart
<1>2. PagesInv /\ [PagesNext]_pages => PagesInv'
  BY PagesStep
<1>3. QED
  BY <1>1, <1>2, PTL DEF PagesSpec

-----------------------------------------------------------------------------
(* The properties.                                                         *)

(* What the pages show of a payment is that payment (ShownIsSent), for any *)
(* wallets, assets and number of payments. *)
THEOREM AlwaysShownIsSent == PagesSpec => []ShownIsSent
<1>1. PagesInv => ShownIsSent
  BY DEF PagesInv, StageOK, ReceivedOK, RefsOK, FormIsPaid, ShownIsSent
<1>2. QED
  BY <1>1, PagesCorrect, PTL

(* The busy flag of the form is true (BusyIsTrue). *)
THEOREM BusyIsAlwaysTrue == PagesSpec => []BusyIsTrue
<1>1. PagesInv => BusyIsTrue
  <2> SUFFICES ASSUME PagesInv, ~wiped PROVE BusyIsTrue
    BY DEF BusyIsTrue
  <2>1. OneAtATime /\ taps \in Nat
    BY TapsTyped DEF PagesInv
  <2>2. Cardinality(active) + taps <= 1
    <3>1. CASE active = {}
      BY <2>1, <3>1, FS_EmptySet DEF OneAtATime
    <3>2. CASE active # {}
      <4>1. PICK r : active = {r}
        BY <2>1, <3>2 DEF OneAtATime
      <4>2. Cardinality(active) = 1
        BY <4>1, FS_Singleton
      <4>3. QED
        BY <2>1, <3>2, <4>2 DEF OneAtATime
    <3>3. QED
      BY <3>1, <3>2
  <2>3. sheet.open => sheet.about \in active
    BY DEF PagesInv, RefsOK
  <2>4. QED
    BY <2>1, <2>2, <2>3 DEF BusyIsTrue, OneAtATime
<1>2. QED
  BY <1>1, PagesCorrect, PTL

-----------------------------------------------------------------------------
(* A tap.  The binary search over the SlotHashes sysvar.                   *)

\* Where the search is, and where it goes on when it has not found the slot.
middle(l, r) == l + (r - l) \div 2

LEMMA Narrows ==
    ASSUME NEW s \in Seq(Nat), NEW n \in Nat, NEW l \in 0 .. Len(s), NEW r \in -1 .. Len(s), l < r
    PROVE  /\ middle(l, r) \in Nat /\ middle(l, r) + 1 \in DOMAIN s
           /\ l <= middle(l, r) /\ middle(l, r) < r
           /\ narrow(s, n, l, r) = IF s[middle(l, r) + 1] > n THEN <<middle(l, r) + 1, r>>
                                                              ELSE <<l, middle(l, r)>>
           /\ narrow(s, n, l, r)[1] \in 0 .. Len(s) /\ narrow(s, n, l, r)[2] \in -1 .. Len(s)
           /\ narrow(s, n, l, r)[2] - narrow(s, n, l, r)[1] < r - l
<1> DEFINE mid == middle(l, r)
<1>1. Len(s) \in Nat /\ r \in Nat
  OBVIOUS
<1>2. mid \in Nat /\ l <= mid /\ mid < r
  BY <1>1 DEF middle
<1>3. mid + 1 \in DOMAIN s
  <2> HIDE DEF mid
  <2> QED  BY <1>1, <1>2
<1>4. narrow(s, n, l, r) = IF s[mid + 1] > n THEN <<mid + 1, r>> ELSE <<l, mid>>
  BY DEF narrow, middle
<1> HIDE DEF mid
<1>5. /\ narrow(s, n, l, r)[1] \in 0 .. Len(s) /\ narrow(s, n, l, r)[2] \in -1 .. Len(s)
      /\ narrow(s, n, l, r)[2] - narrow(s, n, l, r)[1] < r - l
  BY <1>1, <1>2, <1>4
<1> QED  BY <1>2, <1>3, <1>4, <1>5 DEF mid

\* Where the search may be, and the equation it is chosen for.
places(s) == (0 .. Len(s)) \X (-1 .. Len(s))

found(f, s, n, p) ==
    IF p[1] >= p[2] THEN NoHash
    ELSE IF s[middle(p[1], p[2]) + 1] = n THEN n
    ELSE f[narrow(s, n, p[1], p[2])]

IsSearch(f, s, n) == f = [p \in places(s) |-> found(f, s, n, p)]

LEMMA NarrowsAt ==
    ASSUME NEW s \in Seq(Nat), NEW n \in Nat, NEW p \in places(s), p[1] < p[2]
    PROVE  /\ narrow(s, n, p[1], p[2]) \in places(s)
           /\ narrow(s, n, p[1], p[2])[2] - narrow(s, n, p[1], p[2])[1] < p[2] - p[1]
<1> DEFINE l == p[1]
           r == p[2]
           q == narrow(s, n, l, r)
<1>1. l \in 0 .. Len(s) /\ r \in -1 .. Len(s) /\ l < r
  BY DEF places
<1> HIDE DEF l, r
<1>2. /\ q = <<middle(l, r) + 1, r>> \/ q = <<l, middle(l, r)>>
      /\ q[1] \in 0 .. Len(s) /\ q[2] \in -1 .. Len(s)
      /\ q[2] - q[1] < r - l
  BY <1>1, Narrows
<1> HIDE DEF q
<1>3. q = <<q[1], q[2]>>
  BY <1>2
<1>4. q \in places(s) /\ q[2] - q[1] < r - l
  BY <1>2, <1>3 DEF places
<1> QED  BY <1>4 DEF q, l, r

LEMMA SearchExists ==
    ASSUME NEW s \in Seq(Nat), NEW n \in Nat
    PROVE  \E f : IsSearch(f, s, n)
<1> DEFINE P == places(s)
           V == {n, NoHash}
           Upto(k, f) == \A p \in P : p[2] - p[1] <= k => f[p] = found(f, s, n, p)
           Good == {k \in Nat : \E f \in [P -> V] : Upto(k, f)}
<1>1. Len(s) \in Nat /\ \A p \in P : p[1] \in 0 .. Len(s) /\ p[2] \in -1 .. Len(s)
  BY DEF places
<1>2. ASSUME NEW f \in [P -> V], NEW p \in P PROVE found(f, s, n, p) \in V
  <2>1. p[1] < p[2] => f[narrow(s, n, p[1], p[2])] \in V
    BY NarrowsAt
  <2>2. p[1] >= p[2] \/ p[1] < p[2]
    BY <1>1
  <2> HIDE DEF V
  <2>3. n \in V /\ NoHash \in V
    BY DEF V
  <2> QED  BY <2>1, <2>2, <2>3 DEF found
<1>3. 0 \in Good
  <2> DEFINE f == [p \in P |-> NoHash]
  <2>1. f \in [P -> V]
    OBVIOUS
  <2>2. ASSUME NEW p \in P, p[2] - p[1] <= 0 PROVE f[p] = found(f, s, n, p)
    <3>1. p[1] >= p[2]
      BY <1>1, <2>2
    <3> QED  BY <3>1 DEF found
  <2> HIDE DEF f
  <2> QED  BY <2>1, <2>2
<1>4. \A k \in Good : k + 1 \in Good
  <2> SUFFICES ASSUME NEW k \in Good PROVE k + 1 \in Good
    OBVIOUS
  <2>1. PICK f \in [P -> V] : Upto(k, f)
    OBVIOUS
  <2> DEFINE g == [p \in P |-> found(f, s, n, p)]
  <2>2. k \in Nat /\ k + 1 \in Nat
    OBVIOUS
  <2> HIDE DEF Good
  <2>3. \A p \in P : g[p] = found(f, s, n, p)
    OBVIOUS
  <2>4. g \in [P -> V]
    BY <1>2
  <2>5. ASSUME NEW p \in P, p[2] - p[1] <= k + 1 PROVE g[p] = found(g, s, n, p)
    <3> DEFINE x == narrow(s, n, p[1], p[2])
    <3> HIDE DEF g
    <3>1. CASE p[1] >= p[2]
      BY <2>3, <3>1 DEF found
    <3>2. CASE p[1] < p[2]
      <4>1. x \in P /\ x[2] - x[1] < p[2] - p[1]
        BY <3>2, NarrowsAt
      <4> HIDE DEF x, P
      <4>2. x[2] - x[1] <= k
        BY <1>1, <2>2, <2>5, <4>1
      <4>3. g[x] = f[x]
        BY <2>1, <2>3, <4>1, <4>2
      <4> QED  BY <2>3, <2>5, <4>3 DEF found, x
    <3>3. p[1] >= p[2] \/ p[1] < p[2]
      BY <1>1
    <3> QED  BY <3>1, <3>2, <3>3
  <2>6. Upto(k + 1, g)
    <3> HIDE DEF g
    <3> QED  BY <2>5
  <2> HIDE DEF g, Upto
  <2> QED  BY <2>2, <2>4, <2>6 DEF Good
<1>5. Good = Nat
  <2> HIDE DEF Good
  <2>1. Good \subseteq Nat
    BY DEF Good
  <2> QED  BY <2>1, <1>3, <1>4, Inductive
<1>6. PICK f \in [P -> V] : Upto(Len(s) + 1, f)
  <2>1. Len(s) + 1 \in Good
    <3> HIDE DEF Good
    <3> QED  BY <1>1, <1>5
  <2> QED  BY <2>1
<1>7. ASSUME NEW p \in P PROVE f[p] = found(f, s, n, p)
  <2>1. p[2] - p[1] <= Len(s) + 1
    BY <1>1
  <2> QED  BY <1>6, <2>1
<1>8. f = [p \in P |-> found(f, s, n, p)]
  BY <1>6, <1>7
<1> QED  BY <1>8 DEF IsSearch

LEMMA SearchHolds ==
    ASSUME NEW s \in Seq(Nat), NEW n \in Nat
    PROVE  \E f : IsSearch(f, s, n) /\ fetch_slot_hash(s, n) = f[<<0, Len(s)>>]
<1> DEFINE f == CHOOSE g : IsSearch(g, s, n)
<1>1. IsSearch(f, s, n)
  BY SearchExists
<1>2. fetch_slot_hash(s, n) = f[<<0, Len(s)>>]
  BY DEF fetch_slot_hash, IsSearch, found, places, middle
<1> QED  BY <1>1, <1>2

\* The sysvar lists the newest slot first.
Descends(s) == \A i, j \in DOMAIN s : i < j => s[j] < s[i]

\* Whatever the search is at, it finds the slot if it is between the two.
FindsAt(f, s, n, p) ==
    /\ f[p] \in {n, NoHash}
    /\ f[p] = n \/ \A i \in DOMAIN s : p[1] < i /\ i <= p[2] => s[i] # n
    /\ f[p] = n => n = NoHash \/ \E i \in DOMAIN s : s[i] = n

LEMMA FindsBetween ==
    ASSUME NEW s \in Seq(Nat), Descends(s), NEW n \in Nat, NEW f, IsSearch(f, s, n)
    PROVE  \A p \in places(s) : FindsAt(f, s, n, p)
<1> DEFINE P == places(s)
           Right(p) == FindsAt(f, s, n, p)
           Good == {k \in Nat : \A p \in P : p[2] - p[1] <= k => Right(p)}
<1> USE DEF FindsAt
<1>1. Len(s) \in Nat /\ \A p \in P : p[1] \in 0 .. Len(s) /\ p[2] \in -1 .. Len(s)
  BY DEF places
<1>2. \A p \in P : f[p] = found(f, s, n, p)
  BY DEF IsSearch
<1>3. ASSUME NEW p \in P, p[1] >= p[2] PROVE Right(p)
  <2>1. f[p] = NoHash
    BY <1>2, <1>3 DEF found
  <2>2. \A i \in DOMAIN s : ~(p[1] < i /\ i <= p[2])
    BY <1>1, <1>3
  <2> QED  BY <2>1, <2>2
<1>4. 0 \in Good
  <2>1. ASSUME NEW p \in P, p[2] - p[1] <= 0 PROVE p[1] >= p[2]
    BY <1>1, <2>1
  <2> HIDE DEF P, Right
  <2> QED  BY <1>3, <2>1
<1>5. ASSUME NEW k \in Good PROVE k + 1 \in Good
  <2>1. ASSUME NEW p \in P, p[2] - p[1] <= k + 1, p[1] < p[2] PROVE Right(p)
    <3> DEFINE x == narrow(s, n, p[1], p[2])
               mid == middle(p[1], p[2]) + 1
    <3>1. /\ mid \in DOMAIN s /\ mid \in Nat /\ p[1] < mid /\ mid <= p[2]
          /\ x = IF s[mid] > n THEN <<mid, p[2]>> ELSE <<p[1], mid - 1>>
      <4> DEFINE l == p[1]
                 r == p[2]
                 m == middle(l, r)
      <4>1. l \in 0 .. Len(s) /\ r \in -1 .. Len(s) /\ l < r
        BY <1>1, <2>1
      <4> HIDE DEF l, r
      <4>2. m \in Nat /\ m + 1 \in DOMAIN s /\ l <= m /\ m < r
        BY Narrows, <4>1
      <4>3. narrow(s, n, l, r) = IF s[m + 1] > n THEN <<m + 1, r>> ELSE <<l, m>>
        BY Narrows, <4>1
      <4>4. x = IF s[m + 1] > n THEN <<m + 1, r>> ELSE <<l, m>>
        BY <4>3 DEF l, r
      <4>5. mid = m + 1
        BY DEF l, r
      <4> HIDE DEF m, mid, x
      <4>6. mid \in Nat /\ mid - 1 = m /\ l < mid /\ mid <= r
        BY <1>1, <4>1, <4>2, <4>5
      <4> QED  BY <4>2, <4>4, <4>5, <4>6 DEF l, r
    <3>2. x \in P /\ x[2] - x[1] < p[2] - p[1]
      BY NarrowsAt, <2>1
    <3>3. f[p] = IF s[mid] = n THEN n ELSE f[x]
      BY <1>2, <1>1, <2>1 DEF found
    <3> HIDE DEF x, mid
    <3>4. Right(x)
      <4>1. x[2] - x[1] <= k
        <5>1. /\ x[1] \in Int /\ x[2] \in Int /\ p[1] \in Int /\ p[2] \in Int
          BY <1>1, <3>2
        <5>2. k \in Int
          BY <1>5
        <5> QED  BY <2>1, <3>2, <5>1, <5>2
      <4> QED  BY <1>5, <3>2, <4>1
    <3>5. CASE s[mid] = n
      <4>1. f[p] = n
        BY <3>3, <3>5
      <4>2. \E i \in DOMAIN s : s[i] = n
        BY <3>1, <3>5
      <4> QED  BY <4>1, <4>2
    <3>6. CASE s[mid] # n
      <4>1. f[p] = f[x]
        BY <3>3, <3>6
      <4>2. ASSUME NEW i \in DOMAIN s, p[1] < i, i <= p[2], s[i] = n PROVE x[1] < i /\ i <= x[2]
        <5>1. i \in Nat /\ s[i] \in Nat /\ s[mid] \in Nat /\ i # mid
          BY <3>1, <3>6, <4>2
        <5>2. i < mid => s[mid] < s[i]
          BY <3>1 DEF Descends
        <5>3. mid < i => s[i] < s[mid]
          BY <3>1 DEF Descends
        <5> QED  BY <1>1, <3>1, <4>2, <5>1, <5>2, <5>3
      <4> QED  BY <3>4, <4>1, <4>2
    <3> QED  BY <3>5, <3>6
  <2>2. \A p \in P : p[1] >= p[2] \/ p[1] < p[2]
    BY <1>1
  <2>3. k + 1 \in Nat
    BY <1>5
  <2> HIDE DEF P, Right
  <2> QED  BY <1>3, <2>1, <2>2, <2>3
<1>6. Good = Nat
  <2> HIDE DEF Good
  <2>1. Good \subseteq Nat
    BY DEF Good
  <2> QED  BY <2>1, <1>4, <1>5, Inductive
<1>7. ASSUME NEW p \in P PROVE Right(p)
  <2>1. p[2] - p[1] <= Len(s) + 1 /\ Len(s) + 1 \in Nat
    BY <1>1
  <2>2. Len(s) + 1 \in Good
    <3> HIDE DEF Good
    <3> QED  BY <1>6, <2>1
  <2> HIDE DEF Right
  <2> QED  BY <2>1, <2>2
<1> QED  BY <1>7

LEMMA FetchesExactly ==
    ASSUME NEW s \in Seq(Nat \ {0}), Descends(s), NEW n \in Nat
    PROVE  fetch_slot_hash(s, n) = IF n \in Range(s) THEN n ELSE NoHash
<1>1. s \in Seq(Nat) /\ Len(s) \in Nat /\ DOMAIN s = 1 .. Len(s)
  OBVIOUS
<1>2. PICK f : IsSearch(f, s, n) /\ fetch_slot_hash(s, n) = f[<<0, Len(s)>>]
  BY <1>1, SearchHolds
<1> DEFINE p == <<0, Len(s)>>
<1>3. p \in places(s)
  BY <1>1 DEF places
<1>4. FindsAt(f, s, n, p)
  <2> HIDE DEF p
  <2> QED  BY <1>1, <1>2, <1>3, FindsBetween
<1>5. \A i \in DOMAIN s : p[1] < i /\ i <= p[2]
  BY <1>1
<1>6. 0 \notin Range(s)
  BY DEF Range
<1> HIDE DEF p
<1> QED  BY <1>2, <1>4, <1>5, <1>6 DEF NoHash, Range, p, FindsAt

-----------------------------------------------------------------------------
(* What the compiled message lists.                                        *)

MetaSet == [address : Addresses, role : Role]

Unrepeated(r) == \A i, j \in DOMAIN r : r[i].address = r[j].address => i = j

\* r lists every account that is mentioned, once, with the privileges that it
\* is mentioned with, and nothing else.
Gathers(r, S) ==
    /\ r \in Seq(MetaSet)
    /\ Unrepeated(r)
    /\ \A meta \in S : \E i \in DOMAIN r : r[i].address = meta.address /\ meta.role \subseteq r[i].role
    /\ \A i \in DOMAIN r :
          /\ \E meta \in S : meta.address = r[i].address
          /\ \A q \in r[i].role : \E meta \in S : meta.address = r[i].address /\ q \in meta.role

LEMMA IndexOf ==
    ASSUME NEW r, NEW a, listed(r, a)
    PROVE  index_of(r, a) \in DOMAIN r /\ r[index_of(r, a)].address = a
BY DEF listed, index_of

LEMMA InsertGathers ==
    ASSUME NEW r, NEW S, Gathers(r, S), NEW meta \in MetaSet
    PROVE  Gathers(insert(r, meta), S \cup {meta})
<1> DEFINE j == index_of(r, meta.address)
           out == insert(r, meta)
<1>1. r \in Seq(MetaSet) /\ Len(r) \in Nat /\ DOMAIN r = 1 .. Len(r)
  BY DEF Gathers
<1>2. CASE listed(r, meta.address)
  <2>1. j \in DOMAIN r /\ r[j].address = meta.address
    BY <1>2, IndexOf
  <2> HIDE DEF j
  <2>2. out = [r EXCEPT ![j].role = @ \cup meta.role]
    BY <1>2 DEF insert, j
  <2> HIDE DEF out
  <2>3. /\ DOMAIN out = DOMAIN r
        /\ out[j] = [address |-> r[j].address, role |-> r[j].role \cup meta.role]
        /\ \A i \in DOMAIN r : i # j => out[i] = r[i]
    <3>1. r[j] \in MetaSet
      BY <1>1, <2>1
    <3>2. DOMAIN out = DOMAIN r /\ \A i \in DOMAIN r : i # j => out[i] = r[i]
      BY <2>2
    <3>3. out[j] = [r[j] EXCEPT !.role = r[j].role \cup meta.role]
      BY <2>1, <2>2
    <3>4. \A m \in MetaSet : \A x : [m EXCEPT !.role = x] = [address |-> m.address, role |-> x]
      BY DEF MetaSet
    <3> QED  BY <3>1, <3>2, <3>3, <3>4
  <2>4. out \in Seq(MetaSet)
    <3>1. out[j] \in MetaSet
      <4>1. r[j] \in MetaSet
        BY <1>1, <2>1
      <4>2. r[j].address \in Addresses /\ r[j].role \in Role /\ meta.role \in Role
        BY <4>1 DEF MetaSet
      <4>3. r[j].role \cup meta.role \in Role
        BY <4>2 DEF Role
      <4> QED  BY <2>3, <4>2, <4>3 DEF MetaSet
    <3>2. out = [i \in 1 .. Len(r) |-> out[i]]
      BY <1>1, <2>2
    <3>3. \A i \in 1 .. Len(r) : out[i] \in MetaSet
      BY <1>1, <2>3, <3>1
    <3> QED  BY <1>1, <3>2, <3>3
  <2>5. \A i \in DOMAIN r : out[i].address = r[i].address /\ r[i].role \subseteq out[i].role
    BY <2>1, <2>3
  <2>6. Unrepeated(out)
    BY <2>3, <2>5 DEF Unrepeated, Gathers
  <2>7. \A m \in S \cup {meta} :
           \E i \in DOMAIN out : out[i].address = m.address /\ m.role \subseteq out[i].role
    <3>1. meta.role \subseteq out[j].role /\ out[j].address = meta.address
      BY <2>1, <2>3
    <3>2. ASSUME NEW m \in S
          PROVE  \E i \in DOMAIN out : out[i].address = m.address /\ m.role \subseteq out[i].role
      <4>1. PICK i \in DOMAIN r : r[i].address = m.address /\ m.role \subseteq r[i].role
        BY DEF Gathers
      <4> QED  BY <2>3, <2>5, <4>1
    <3> QED  BY <2>1, <2>3, <3>1, <3>2
  <2>8. ASSUME NEW i \in DOMAIN out, NEW q \in out[i].role
        PROVE  \E m \in S \cup {meta} : m.address = out[i].address /\ q \in m.role
    <3>1. CASE i = j /\ q \in meta.role
      BY <2>1, <2>3, <3>1
    <3>2. CASE q \in r[i].role
      <4>1. PICK m \in S : m.address = r[i].address /\ q \in m.role
        BY <2>3, <3>2 DEF Gathers
      <4> QED  BY <2>3, <2>5, <4>1
    <3> QED  BY <2>3, <2>8, <3>1, <3>2
  <2>9. ASSUME NEW i \in DOMAIN out PROVE \E m \in S \cup {meta} : m.address = out[i].address
    <3>1. PICK m \in S : m.address = r[i].address
      BY <2>3 DEF Gathers
    <3> QED  BY <2>3, <2>5, <3>1
  <2> QED  BY <2>4, <2>6, <2>7, <2>8, <2>9 DEF Gathers, out
<1>3. CASE ~listed(r, meta.address)
  <2>1. out = Append(r, meta)
    BY <1>3 DEF insert
  <2> HIDE DEF out
  <2>2. /\ out \in Seq(MetaSet) /\ DOMAIN out = DOMAIN r \cup {Len(r) + 1}
        /\ out[Len(r) + 1] = meta /\ \A i \in DOMAIN r : out[i] = r[i]
    BY <1>1, <2>1
  <2>3. \A i \in DOMAIN r : r[i].address # meta.address
    BY <1>3 DEF listed
  <2>4. Unrepeated(out)
    BY <2>2, <2>3 DEF Unrepeated, Gathers
  <2>5. ASSUME NEW m \in S \cup {meta}
        PROVE  \E i \in DOMAIN out : out[i].address = m.address /\ m.role \subseteq out[i].role
    <3>1. CASE m = meta
      BY <2>2, <3>1
    <3>2. CASE m \in S
      <4>1. PICK i \in DOMAIN r : r[i].address = m.address /\ m.role \subseteq r[i].role
        BY <3>2 DEF Gathers
      <4> QED  BY <2>2, <4>1
    <3> QED  BY <3>1, <3>2
  <2>6. ASSUME NEW i \in DOMAIN out, NEW q \in out[i].role
        PROVE  \E m \in S \cup {meta} : m.address = out[i].address /\ q \in m.role
    <3>1. CASE i = Len(r) + 1
      BY <2>2, <2>6, <3>1
    <3>2. CASE i \in DOMAIN r
      <4>1. PICK m \in S : m.address = r[i].address /\ q \in m.role
        BY <2>2, <2>6, <3>2 DEF Gathers
      <4> QED  BY <2>2, <3>2, <4>1
    <3> QED  BY <2>2, <3>1, <3>2
  <2>7. ASSUME NEW i \in DOMAIN out PROVE \E m \in S \cup {meta} : m.address = out[i].address
    <3>1. CASE i = Len(r) + 1
      BY <2>2, <3>1
    <3>2. CASE i \in DOMAIN r
      <4>1. PICK m \in S : m.address = r[i].address
        BY <3>2 DEF Gathers
      <4> QED  BY <2>2, <3>2, <4>1
    <3> QED  BY <2>2, <3>1, <3>2
  <2> QED  BY <2>2, <2>4, <2>5, <2>6, <2>7 DEF Gathers, out
<1> QED  BY <1>2, <1>3

LEMMA FoldGathers ==
    ASSUME NEW s \in Seq(MetaSet)
    PROVE  Gathers(FoldLeft(insert, <<>>, s), ToSet(s))
<1> DEFINE V == {r \in Seq(MetaSet) : Unrepeated(r)}
           op == [p \in V \X MetaSet |-> insert(p[1], p[2])]
           D == DOMAIN s
           body(f) == [t \in SUBSET D |-> IF t = {} THEN <<>> ELSE insert(f[t \ {Max(t)}], s[Max(t)])]
           fold == CHOOSE f : f = body(f)
           R == {p \in V \X SUBSET MetaSet : Gathers(p[1], p[2])}
<1>1. FoldLeft(insert, <<>>, s) = fold[D]
  BY DEF FoldLeft, MapThenFoldSet
<1>2. <<>> \in V
  BY DEF Unrepeated
<1>3. op \in [V \X MetaSet -> V]
  <2>1. ASSUME NEW r \in V, NEW meta \in MetaSet PROVE insert(r, meta) \in V
    <3>1. Gathers(r, ToSet(r))
      BY DEF Gathers, ToSet
    <3>2. Gathers(insert(r, meta), ToSet(r) \cup {meta})
      BY <3>1, InsertGathers
    <3> QED  BY <3>2 DEF Gathers
  <2> HIDE DEF V
  <2> QED  BY <2>1
<1>4. PICK f \in [SUBSET D -> V] : IsLeftFold(f, s, <<>>, op)
  <2> HIDE DEF op, V
  <2> QED  BY <1>2, <1>3, FoldLeftExists
<1>5. fold = body(fold)
  <2>1. ASSUME NEW t \in SUBSET D, t # {} PROVE f[t] = insert(f[t \ {Max(t)}], s[Max(t)])
    <3>1. f[t] = op[<<f[t \ {Max(t)}], s[Max(t)]>>]
      <4> HIDE DEF op, V
      <4> QED  BY <1>4, <2>1 DEF IsLeftFold
    <3>2. f[t \ {Max(t)}] \in V /\ s[Max(t)] \in MetaSet
      <4>1. D = 1 .. Len(s) /\ Len(s) \in Nat
        OBVIOUS
      <4>2. Max(t) \in D
        BY <2>1, <4>1, MaxOfFinite
      <4> HIDE DEF V
      <4> QED  BY <4>2
    <3> HIDE DEF V
    <3> QED  BY <3>1, <3>2
  <2>2. f[{}] = <<>>
    <3> HIDE DEF op, V
    <3> QED  BY <1>4 DEF IsLeftFold
  <2>3. f = body(f)
    <3> HIDE DEF V
    <3> QED  BY <2>1, <2>2, <1>4
  <2> HIDE DEF body
  <2> QED  BY <2>3
<1>6. <<fold[D], ToSet(s)>> \in R
  <2>1. << <<>>, {} >> \in R
    <3>1. Gathers(<<>>, {})
      BY DEF Gathers, Unrepeated
    <3> QED  BY <1>2, <3>1
  <2>2. ASSUME NEW v \in V, NEW a \in MetaSet, NEW S \in SUBSET MetaSet, <<v, S>> \in R
        PROVE  <<op[<<v, a>>], S \cup {a}>> \in R
    <3>1. Gathers(insert(v, a), S \cup {a})
      BY <2>2, InsertGathers
    <3>2. op[<<v, a>>] = insert(v, a) /\ op[<<v, a>>] \in V
      <4> HIDE DEF V
      <4> QED  BY <1>3
    <3> HIDE DEF V, op
    <3> QED  BY <3>1, <3>2
  <2>3. fold[{}] = <<>>
    BY <1>5
  <2>4. ASSUME NEW t \in SUBSET D, t # {}, fold[t \ {Max(t)}] \in V
        PROVE  fold[t] = op[<<fold[t \ {Max(t)}], s[Max(t)]>>]
    <3>1. fold[t] = insert(fold[t \ {Max(t)}], s[Max(t)])
      BY <1>5, <2>4
    <3>2. s[Max(t)] \in MetaSet
      <4>1. D = 1 .. Len(s) /\ Len(s) \in Nat
        OBVIOUS
      <4>2. Max(t) \in D
        BY <2>4, <4>1, MaxOfFinite
      <4> QED  BY <4>2
    <3> HIDE DEF V, fold
    <3> QED  BY <2>4, <3>1, <3>2
  <2>5. R \in SUBSET (V \X SUBSET MetaSet)
    OBVIOUS
  <2>6. \A v \in V, a \in MetaSet : \A S \in SUBSET MetaSet :
           <<v, S>> \in R => <<op[<<v, a>>], S \cup {a}>> \in R
    <3> HIDE DEF R, op, V
    <3> QED  BY <2>2
  <2>7. \A t \in SUBSET DOMAIN s : t # {} /\ fold[t \ {Max(t)}] \in V =>
           fold[t] = op[<<fold[t \ {Max(t)}], s[Max(t)]>>]
    <3> HIDE DEF fold, op, V
    <3> QED  BY <2>4
  <2>8. FoldKeeps(fold, s, MetaSet, V, <<>>, op, R)
    <3> HIDE DEF R, op, V, fold
    <3> QED  BY <1>2, <1>3, <2>1, <2>3, <2>5, <2>6, <2>7 DEF FoldKeeps
  <2> HIDE DEF R, op, V, fold
  <2> QED  BY <2>8, LeftFoldKeeps
<1> HIDE DEF fold
<1> QED  BY <1>1, <1>6

mentions_account(m, a) == \E i \in DOMAIN m.body : a \in Range(m.body[i].accounts)
calls_program(m, a) == \E i \in DOMAIN m.body : a = m.body[i].program

\* What a list that stands for a message holds of one of its accounts.
Stands(m, meta) ==
    LET a == meta.address IN
      /\ mentions_account(m, a) \/ calls_program(m, a)
      /\ mentions_account(m, a) => downgrade(a, m.roles[a]) \subseteq meta.role
      /\ \A q \in meta.role :
            \/ q \in m.roles[a]
            \/ q = "writable" /\ a \in {Wallet, Token, AuthorityAccount}
            \/ q = "signer" /\ a = FeePayer

ListsAll(m, r) ==
    /\ \A a \in Addresses : mentions_account(m, a) \/ calls_program(m, a) => listed(r, a)
    /\ \A i \in DOMAIN r : Stands(m, r[i])

LEMMA MessageType ==
    ASSUME NEW m \in Messages
    PROVE  /\ m.payer \in Addresses /\ m.body \in Seq(Instruction) /\ m.memos \in Seq(Instruction)
           /\ \A a \in Addresses : m.roles[a] \in Role
           /\ m.roles[m.payer] = Privileges
           /\ \A i \in DOMAIN m.body :
                 /\ m.body[i].program \in Addresses /\ m.body[i].program # FeePayer
                 /\ m.roles[m.body[i].program] = {}
                 /\ m.body[i].accounts \in Seq(Addresses)
           /\ \A i \in DOMAIN m.memos : m.memos[i].accounts \in Seq(Addresses)
<1>1. /\ m \in [payer : Addresses, body : Seq(Instruction), memos : Seq(Instruction),
                roles : [Addresses -> Role]]
      /\ m.roles[m.payer] = Privileges
      /\ \A i \in DOMAIN m.body : m.body[i].program # FeePayer /\ m.roles[m.body[i].program] = {}
  BY MessagesAssumption
<1>2. \A s \in Seq(Instruction) : \A i \in DOMAIN s : s[i] \in Instruction
  OBVIOUS
<1>3. \A ix \in Instruction : ix.program \in Addresses /\ ix.accounts \in Seq(Addresses)
  BY DEF Instruction
<1>4. m.payer \in Addresses /\ m.body \in Seq(Instruction) /\ m.memos \in Seq(Instruction)
      /\ m.roles \in [Addresses -> Role]
  BY <1>1
<1> QED  BY <1>1, <1>2, <1>3, <1>4

LEMMA MentionsHold ==
    ASSUME NEW m \in Messages, NEW i \in DOMAIN m.body
    PROVE  /\ mentions(m, m.body[i]) \in Seq(MetaSet)
           /\ ToSet(mentions(m, m.body[i])) =
                 {Meta(m.body[i].program, {})} \cup
                 {Meta(a, downgrade(a, m.roles[a])) : a \in Range(m.body[i].accounts)}
<1> DEFINE ix == m.body[i]
           first == <<Meta(ix.program, {})>>
           rest == [k \in DOMAIN ix.accounts |->
                       Meta(ix.accounts[k], downgrade(ix.accounts[k], m.roles[ix.accounts[k]]))]
<1>1. ix.program \in Addresses /\ ix.accounts \in Seq(Addresses)
  BY MessageType
<1>2. \A a \in Addresses : downgrade(a, m.roles[a]) \in Role
  BY MessageType DEF downgrade, Role
<1> HIDE DEF ix
<1>3. first \in Seq(MetaSet) /\ ToSet(first) = {Meta(ix.program, {})}
  <2>1. Meta(ix.program, {}) \in MetaSet
    BY <1>1 DEF Meta, MetaSet, Role
  <2> DEFINE x == Meta(ix.program, {})
  <2>2. x \in MetaSet
    BY <2>1
  <2> HIDE DEF x
  <2>3. <<x>> \in Seq(MetaSet) /\ ToSet(<<x>>) = {x}
    BY <2>2 DEF ToSet
  <2> QED  BY <2>3 DEF x
<1>4. /\ rest \in Seq(MetaSet)
      /\ ToSet(rest) = {Meta(a, downgrade(a, m.roles[a])) : a \in Range(ix.accounts)}
  <2> DEFINE meta_of(a) == Meta(a, downgrade(a, m.roles[a]))
  <2>1. \A a \in Addresses : meta_of(a) \in MetaSet
    BY <1>2 DEF Meta, MetaSet
  <2>2. rest = [k \in DOMAIN ix.accounts |-> meta_of(ix.accounts[k])]
    OBVIOUS
  <2> HIDE DEF meta_of, rest
  <2>3. rest \in Seq(MetaSet)
    BY <1>1, <2>1, <2>2
  <2>4. ToSet(rest) = {meta_of(a) : a \in Range(ix.accounts)}
    BY <1>1, <2>2 DEF ToSet, Range
  <2> QED  BY <2>3, <2>4 DEF meta_of
<1>5. mentions(m, m.body[i]) = first \o rest
  BY DEF mentions, ix
<1> HIDE DEF first, rest
<1>6. first \o rest \in Seq(MetaSet) /\ ToSet(first \o rest) = ToSet(first) \cup ToSet(rest)
  BY <1>3, <1>4, ConcatHolds
<1> QED  BY <1>3, <1>4, <1>5, <1>6 DEF ix

LEMMA AllMentionsHold ==
    ASSUME NEW m \in Messages
    PROVE  /\ all_mentions(m) \in Seq(MetaSet)
           /\ ToSet(all_mentions(m)) = UNION {ToSet(mentions(m, m.body[i])) : i \in DOMAIN m.body}
<1> DEFINE ss == [i \in DOMAIN m.body |-> mentions(m, m.body[i])]
<1>1. m.body \in Seq(Instruction)
  BY MessageType
<1>2. ss \in Seq(Seq(MetaSet))
  BY <1>1, MentionsHold
<1>3. DOMAIN ss = DOMAIN m.body /\ \A i \in DOMAIN m.body : ss[i] = mentions(m, m.body[i])
  OBVIOUS
<1>4. all_mentions(m) = FlattenSeq(ss)
  BY DEF all_mentions
<1> HIDE DEF ss
<1>5. FlattenSeq(ss) \in Seq(MetaSet) /\ ToSet(FlattenSeq(ss)) = UNION {ToSet(ss[i]) : i \in DOMAIN ss}
  BY <1>2, FlattenSeqHolds
<1>6. {ToSet(ss[i]) : i \in DOMAIN ss} = {ToSet(mentions(m, m.body[i])) : i \in DOMAIN m.body}
  BY <1>3
<1> QED  BY <1>4, <1>5, <1>6

LEMMA RemainingListsAll ==
    ASSUME NEW m \in Messages
    PROVE  /\ remaining_accounts(m) \in Seq(MetaSet) /\ Unrepeated(remaining_accounts(m))
           /\ ListsAll(m, remaining_accounts(m))
<1> DEFINE r == remaining_accounts(m)
           S == ToSet(all_mentions(m))
<1>1. Gathers(r, S)
  BY AllMentionsHold, FoldGathers DEF remaining_accounts
<1>2. S = UNION {ToSet(mentions(m, m.body[i])) : i \in DOMAIN m.body}
  BY AllMentionsHold
<1> HIDE DEF r, S
<1>3. ASSUME NEW i \in DOMAIN m.body
      PROVE  /\ Meta(m.body[i].program, {}) \in S
             /\ \A a \in Range(m.body[i].accounts) : Meta(a, downgrade(a, m.roles[a])) \in S
  BY <1>2, <1>3, MentionsHold
<1>4. ASSUME NEW meta \in S
      PROVE  \/ calls_program(m, meta.address) /\ meta.role = {}
             \/ mentions_account(m, meta.address) /\ meta.role = downgrade(meta.address, m.roles[meta.address])
  <2>1. PICK i \in DOMAIN m.body : meta \in ToSet(mentions(m, m.body[i]))
    BY <1>2
  <2>2. \/ meta = Meta(m.body[i].program, {})
        \/ \E a \in Range(m.body[i].accounts) : meta = Meta(a, downgrade(a, m.roles[a]))
    BY <2>1, MentionsHold
  <2>3. CASE meta = Meta(m.body[i].program, {})
    <3>1. meta.address = m.body[i].program /\ meta.role = {}
      BY <2>3 DEF Meta
    <3> QED  BY <3>1 DEF calls_program
  <2>4. ASSUME NEW a \in Range(m.body[i].accounts), meta = Meta(a, downgrade(a, m.roles[a]))
        PROVE  mentions_account(m, meta.address) /\ meta.role = downgrade(meta.address, m.roles[meta.address])
    <3>1. meta.address = a /\ meta.role = downgrade(a, m.roles[a])
      BY <2>4 DEF Meta
    <3> QED  BY <3>1 DEF mentions_account
  <2> QED  BY <2>2, <2>3, <2>4
<1>5. ASSUME NEW meta \in S PROVE listed(r, meta.address)
  BY <1>1 DEF Gathers, listed
<1>6. \A a \in Addresses : mentions_account(m, a) \/ calls_program(m, a) => listed(r, a)
  <2>1. \A a, role : Meta(a, role).address = a
    BY DEF Meta
  <2>2. ASSUME NEW a \in Addresses, mentions_account(m, a) PROVE listed(r, a)
    <3>1. Meta(a, downgrade(a, m.roles[a])) \in S
      BY <1>3, <2>2 DEF mentions_account
    <3> QED  BY <1>5, <2>1, <3>1
  <2>3. ASSUME NEW a \in Addresses, calls_program(m, a) PROVE listed(r, a)
    <3>1. Meta(a, {}) \in S
      BY <1>3, <2>3 DEF calls_program
    <3> QED  BY <1>5, <2>1, <3>1
  <2> QED  BY <2>2, <2>3
<1>7. ASSUME NEW i \in DOMAIN r PROVE Stands(m, r[i])
  <2> DEFINE a == r[i].address
  <2>1. r[i] \in MetaSet
    BY <1>1 DEF Gathers
  <2>2. a \in Addresses
    BY <2>1 DEF MetaSet
  <2>3. mentions_account(m, a) => downgrade(a, m.roles[a]) \subseteq r[i].role
    <3>1. SUFFICES ASSUME mentions_account(m, a) PROVE downgrade(a, m.roles[a]) \subseteq r[i].role
      OBVIOUS
    <3> DEFINE meta == Meta(a, downgrade(a, m.roles[a]))
    <3>2. meta \in S
      BY <1>3, <3>1 DEF mentions_account
    <3>3. meta.address = a /\ meta.role = downgrade(a, m.roles[a])
      BY DEF Meta
    <3> HIDE DEF meta
    <3>4. PICK j \in DOMAIN r : r[j].address = meta.address /\ meta.role \subseteq r[j].role
      BY <1>1, <3>2 DEF Gathers
    <3>5. j = i
      BY <1>1, <3>3, <3>4 DEF Gathers, Unrepeated
    <3> QED  BY <3>3, <3>4, <3>5
  <2>4. ASSUME NEW q \in r[i].role PROVE q \in m.roles[a] /\ mentions_account(m, a)
    <3>1. PICK meta \in S : meta.address = a /\ q \in meta.role
      BY <1>1, <2>4 DEF Gathers
    <3> QED  BY <1>4, <3>1 DEF downgrade
  <2>5. mentions_account(m, a) \/ calls_program(m, a)
    <3>1. PICK meta \in S : meta.address = a
      BY <1>1 DEF Gathers
    <3> QED  BY <1>4, <3>1
  <2> QED  BY <2>3, <2>4, <2>5 DEF Stands
<1> QED  BY <1>1, <1>6, <1>7 DEF Gathers, ListsAll, r

-----------------------------------------------------------------------------
(* The compiled message.                                                   *)

LEMMA Elevates ==
    ASSUME NEW m, NEW r \in Seq(MetaSet), Unrepeated(r), ListsAll(m, r),
           NEW W \in SUBSET {Wallet, Token, AuthorityAccount}, NEW G \in SUBSET {FeePayer}
    PROVE  LET e == elevate(r, W, G) IN
             /\ e \in Seq(MetaSet) /\ Unrepeated(e) /\ ListsAll(m, e)
             /\ DOMAIN e = DOMAIN r
             /\ \A i \in DOMAIN r : /\ e[i].address = r[i].address /\ r[i].role \subseteq e[i].role
                                    /\ e[i].address \in W => "writable" \in e[i].role
                                    /\ e[i].address \in G => "signer" \in e[i].role
<1> DEFINE e == elevate(r, W, G)
           more(a) == (IF a \in W THEN {"writable"} ELSE {}) \cup (IF a \in G THEN {"signer"} ELSE {})
<1>1. Len(r) \in Nat /\ DOMAIN r = 1 .. Len(r)
  OBVIOUS
<1>2. e = [i \in 1 .. Len(r) |-> Meta(r[i].address, (r[i].role \cup (IF r[i].address \in W THEN {"writable"} ELSE {}))
                                                     \cup (IF r[i].address \in G THEN {"signer"} ELSE {}))]
  BY <1>1 DEF elevate
<1> HIDE DEF e
<1>3. \A i \in 1 .. Len(r) : e[i].address = r[i].address /\ e[i].role = r[i].role \cup more(r[i].address)
  BY <1>2 DEF Meta
<1>4. ASSUME NEW i \in 1 .. Len(r) PROVE e[i] \in MetaSet
  <2>1. r[i] \in MetaSet
    BY <1>1
  <2>2. r[i].address \in Addresses /\ r[i].role \in Role
    BY <2>1 DEF MetaSet
  <2>3. (r[i].role \cup (IF r[i].address \in W THEN {"writable"} ELSE {}))
           \cup (IF r[i].address \in G THEN {"signer"} ELSE {}) \in Role
    BY <2>2 DEF Role, Privileges
  <2> QED  BY <1>2, <2>2, <2>3 DEF Meta, MetaSet
<1>5. e \in Seq(MetaSet) /\ DOMAIN e = DOMAIN r
  <2>1. e = [i \in 1 .. Len(r) |-> e[i]]
    BY <1>2
  <2> QED  BY <1>1, <1>4, <2>1
<1>6. Unrepeated(e)
  BY <1>1, <1>3, <1>5 DEF Unrepeated
<1>7. ListsAll(m, e)
  <2>1. ASSUME NEW i \in DOMAIN e PROVE Stands(m, e[i])
    <3>1. Stands(m, r[i]) /\ e[i].address = r[i].address /\ e[i].role = r[i].role \cup more(r[i].address)
      BY <1>1, <1>3, <1>5 DEF ListsAll
    <3> QED  BY <3>1 DEF Stands
  <2>2. \A a : listed(r, a) => listed(e, a)
    BY <1>1, <1>3, <1>5 DEF listed
  <2> QED  BY <2>1, <2>2 DEF ListsAll
<1>8. \A i \in DOMAIN r : /\ r[i].role \subseteq e[i].role
                          /\ e[i].address \in W => "writable" \in e[i].role
                          /\ e[i].address \in G => "signer" \in e[i].role
  BY <1>1, <1>3
<1> QED  BY <1>1, <1>3, <1>5, <1>6, <1>7, <1>8 DEF e

\* What the program can rely on of a compiled message.
Compiled(m, w) ==
    /\ w.remaining \in Seq(MetaSet) /\ Unrepeated(w.remaining) /\ ListsAll(m, w.remaining)
    /\ \A i \in DOMAIN w.remaining :
          /\ w.remaining[i].address \in {Wallet, Token, AuthorityAccount} =>
                "writable" \in w.remaining[i].role
          /\ w.remaining[i].address = FeePayer => "signer" \in w.remaining[i].role
    /\ w.compact = [i \in DOMAIN m.body |-> compact(w.remaining, m.body[i])]

LEMMA Compiles ==
    ASSUME NEW m \in Messages
    PROVE  Compiled(m, compileWalletInstructions(m))
<1> DEFINE r == remaining_accounts(m)
           half == elevate(r, {Wallet}, {})
           whole == elevate(half, {Wallet, Token, AuthorityAccount}, {FeePayer})
<1>1. r \in Seq(MetaSet) /\ Unrepeated(r) /\ ListsAll(m, r)
  BY RemainingListsAll
<1>2. half \in Seq(MetaSet) /\ Unrepeated(half) /\ ListsAll(m, half)
  <2> HIDE DEF r
  <2> QED  BY <1>1, Elevates
<1>3. /\ whole \in Seq(MetaSet) /\ Unrepeated(whole) /\ ListsAll(m, whole)
      /\ \A i \in DOMAIN whole :
            /\ whole[i].address \in {Wallet, Token, AuthorityAccount} => "writable" \in whole[i].role
            /\ whole[i].address = FeePayer => "signer" \in whole[i].role
  <2> HIDE DEF half
  <2> QED  BY <1>2, Elevates
<1>4. /\ compileWalletInstructions(m).remaining = whole
      /\ compileWalletInstructions(m).compact = [i \in DOMAIN m.body |-> compact(whole, m.body[i])]
  <2> HIDE DEF whole
  <2>1. compileWalletInstructions(m) = [remaining |-> whole,
                                        compact |-> [i \in DOMAIN m.body |-> compact(whole, m.body[i])]]
    BY DEF compileWalletInstructions, elevateForExecuteAccounts, whole
  <2> QED  BY <2>1
<1> HIDE DEF whole
<1> QED  BY <1>3, <1>4 DEF Compiled

\* A call of the compiled message points at what the instruction names.
LEMMA CompactPoints ==
    ASSUME NEW m \in Messages, NEW w, Compiled(m, w), NEW i \in DOMAIN m.body
    PROVE  LET r == w.remaining  c == w.compact[i]  ix == m.body[i] IN
             /\ c.program + 1 \in DOMAIN r /\ r[c.program + 1].address = ix.program
             /\ DOMAIN c.indexes = DOMAIN ix.accounts
             /\ \A k \in DOMAIN ix.accounts :
                   /\ c.indexes[k] \in Nat /\ c.indexes[k] + 1 \in DOMAIN r
                   /\ r[c.indexes[k] + 1].address = ix.accounts[k]
             /\ c.data = ix.data
<1> DEFINE r == w.remaining
           c == w.compact[i]
           ix == m.body[i]
<1>1. /\ c.program = index_of(r, ix.program) - 1 /\ c.data = ix.data
      /\ c.indexes = [k \in DOMAIN ix.accounts |-> index_of(r, ix.accounts[k]) - 1]
  BY DEF Compiled, compact
<1>2. ix.program \in Addresses /\ ix.accounts \in Seq(Addresses)
  BY MessageType
<1>3. r \in Seq(MetaSet) /\ ListsAll(m, r)
  BY DEF Compiled
<1>4. calls_program(m, ix.program) /\ \A k \in DOMAIN ix.accounts : mentions_account(m, ix.accounts[k])
  BY DEF calls_program, mentions_account, Range
<1> HIDE DEF r, ix, c
<1>5. listed(r, ix.program) /\ \A k \in DOMAIN ix.accounts : listed(r, ix.accounts[k])
  BY <1>2, <1>3, <1>4 DEF ListsAll
<1>6. \A a : listed(r, a) => /\ index_of(r, a) \in DOMAIN r /\ index_of(r, a) \in Nat
                             /\ index_of(r, a) - 1 \in Nat /\ (index_of(r, a) - 1) + 1 = index_of(r, a)
                             /\ r[index_of(r, a)].address = a
  <2>1. \A j \in DOMAIN r : j \in Nat /\ j - 1 \in Nat /\ (j - 1) + 1 = j
    BY <1>3
  <2> QED  BY <2>1, IndexOf
<1>7. c.program + 1 \in DOMAIN r /\ r[c.program + 1].address = ix.program
  BY <1>1, <1>5, <1>6
<1>8. DOMAIN c.indexes = DOMAIN ix.accounts
  BY <1>1
<1>9. ASSUME NEW k \in DOMAIN ix.accounts
      PROVE  /\ c.indexes[k] \in Nat /\ c.indexes[k] + 1 \in DOMAIN r
             /\ r[c.indexes[k] + 1].address = ix.accounts[k]
  BY <1>1, <1>5, <1>6
<1>10. c.data = ix.data
  BY <1>1
<1> QED  BY <1>7, <1>8, <1>9, <1>10 DEF r, c, ix

-----------------------------------------------------------------------------
(* What the runtime makes of it.                                           *)

memo_role(m, a) == IF a \in memo_accounts(m) THEN m.roles[a] ELSE {}
payer_role(m, a) == IF a = payer_of(m) THEN Privileges ELSE {}

\* An account is listed once, so its privileges are those of its entry, of its
\* name in the outer instruction, of the memos and of the payment.
LEMMA RuntimeRole ==
    ASSUME NEW m, NEW r \in Seq(MetaSet), Unrepeated(r), NEW named, NEW i \in DOMAIN r
    PROVE  \A q : q \in account_infos(m, r, named)[i].role <=>
                 \/ q \in named[r[i].address]
                 \/ q \in r[i].role
                 \/ q \in memo_role(m, r[i].address)
                 \/ q \in payer_role(m, r[i].address)
<1> DEFINE a == r[i].address
           same == {k \in DOMAIN r : r[k].address = a}
<1>1. account_infos(m, r, named)[i] =
         [address |-> a, role |-> runtime_role(m, r, named, a), owner |-> OwnerOf[a], data |-> DataOf[a]]
  BY DEF account_infos
<1>2. same = {i}
  BY DEF Unrepeated
<1> DEFINE roles == {r[k].role : k \in same}
<1>3. runtime_role(m, r, named, a) = named[a] \cup (UNION roles) \cup memo_role(m, a) \cup payer_role(m, a)
  BY DEF runtime_role, memo_role, payer_role
<1>4. roles = {r[i].role}
  BY <1>2
<1> HIDE DEF a, same, roles
<1>5. \A q : q \in runtime_role(m, r, named, a) <=>
               \/ q \in named[a] \/ q \in r[i].role \/ q \in memo_role(m, a) \/ q \in payer_role(m, a)
  BY <1>3, <1>4
<1> QED  BY <1>1, <1>5 DEF a

LEMMA InfoOf ==
    ASSUME NEW m, NEW r, NEW named, NEW i \in DOMAIN r
    PROVE  /\ DOMAIN account_infos(m, r, named) = DOMAIN r
           /\ account_infos(m, r, named)[i].address = r[i].address
           /\ account_infos(m, r, named)[i].owner = OwnerOf[r[i].address]
           /\ account_infos(m, r, named)[i].data = DataOf[r[i].address]
BY DEF account_infos

LEMMA NamedRoles ==
    ASSUME NEW a \in Addresses
    PROVE  /\ \A q : q \in execute_names[a] <=> q = "writable" /\ a \in {Token, Wallet, AuthorityAccount}
           /\ a # Authority => \A q : q \in preview_names[a] <=> q = "writable" /\ a \in {Wallet, AuthorityAccount}
<1>1. execute_names[a] = IF a \in {Token, Wallet, AuthorityAccount} THEN {"writable"} ELSE {}
  BY DEF execute_names
<1>2. a # Authority => preview_names[a] = IF a \in {Wallet, AuthorityAccount} THEN {"writable"} ELSE {}
  BY DEF preview_names
<1> QED  BY <1>1, <1>2

LEMMA RolesTyped ==
    ASSUME NEW m \in Messages, NEW a \in Addresses, NEW q \in m.roles[a]
    PROVE  q \in {"signer", "writable"}
BY MessageType DEF Role, Privileges

\* The accounts and privileges hashed before the tap are those the program sees.
LEMMA SeenAsSigned ==
    ASSUME message \in Messages, Compiled(message, wrap), ~PayerReadOnly, ~WalletSignsMemo
    PROVE  challenge_seen(slot, wrap.compact, infos(execute_names))
              = hash_execute_challenge(slot, wrap.compact, wrap.remaining)
<1> DEFINE m == message
           r == wrap.remaining
           seen == account_infos(m, r, execute_names)
<1>1. r \in Seq(MetaSet) /\ Unrepeated(r) /\ ListsAll(m, r) /\ Len(r) \in Nat /\ DOMAIN r = 1 .. Len(r)
  BY DEF Compiled
<1>2. ASSUME NEW i \in DOMAIN r PROVE seen[i].role = r[i].role
  <2> DEFINE a == r[i].address
  <2>1. r[i] \in MetaSet /\ Stands(m, r[i])
    BY <1>1 DEF ListsAll
  <2>2. a \in Addresses
    BY <2>1 DEF MetaSet
  <2>3. \A q : q \in execute_names[a] => q \in r[i].role
    BY <2>2, NamedRoles DEF Compiled
  <2>4. ASSUME NEW q \in memo_role(m, a) PROVE q \in r[i].role
    <3>1. a \in memo_accounts(m) /\ q \in m.roles[a]
      BY <2>4 DEF memo_role
    <3>2. mentions_account(m, a)
      <4>1. CASE calls_program(m, a)
        <5>1. m.roles[a] = {}
          BY <4>1, MessageType DEF calls_program
        <5> QED  BY <3>1, <5>1
      <4> QED  BY <2>1, <4>1 DEF Stands
    <3>3. CASE a = Wallet
      <4>1. "signer" \notin m.roles[a]
        BY <3>1, <3>3 DEF WalletSignsMemo
      <4>2. q = "writable"
        BY <2>2, <3>1, <4>1, RolesTyped
      <4> QED  BY <3>3, <4>2 DEF Compiled
    <3>4. CASE a # Wallet
      <4>1. downgrade(a, m.roles[a]) = m.roles[a]
        BY <3>4 DEF downgrade
      <4> QED  BY <2>1, <3>1, <3>2, <4>1 DEF Stands
    <3> QED  BY <3>3, <3>4
  <2>5. ASSUME NEW q \in payer_role(m, a) PROVE q \in r[i].role
    <3>1. a = payer_of(m) /\ q \in Privileges
      BY <2>5 DEF payer_role
    <3>2. CASE m.payer = Wallet
      <4>1. a = FeePayer
        BY <3>1, <3>2 DEF payer_of
      <4>2. mentions_account(m, a)
        <5>1. ~calls_program(m, a)
          BY <4>1, MessageType DEF calls_program
        <5> QED  BY <2>1, <5>1 DEF Stands
      <4>3. mentioned(FeePayer)
        BY <4>1, <4>2 DEF mentioned, asks, mentions_account
      <4>4. "writable" \in m.roles[a]
        BY <3>2, <4>1, <4>3 DEF PayerReadOnly
      <4>5. downgrade(a, m.roles[a]) = m.roles[a]
        BY <4>1, WrapAssumption DEF downgrade
      <4>6. "writable" \in r[i].role
        BY <2>1, <4>2, <4>4, <4>5 DEF Stands
      <4>7. "signer" \in r[i].role
        BY <4>1 DEF Compiled
      <4> QED  BY <3>1, <4>6, <4>7 DEF Privileges
    <3>3. CASE m.payer # Wallet
      <4>1. a = m.payer
        BY <3>1, <3>3 DEF payer_of
      <4>2. m.roles[a] = Privileges
        BY <4>1, MessageType
      <4>3. ~calls_program(m, a)
        BY <4>2, MessageType DEF calls_program, Privileges
      <4>4. downgrade(a, m.roles[a]) = Privileges
        BY <3>3, <4>1, <4>2 DEF downgrade
      <4> QED  BY <2>1, <3>1, <4>3, <4>4 DEF Stands
    <3> QED  BY <3>2, <3>3
  <2>6. \A q : q \in seen[i].role <=>
           \/ q \in execute_names[a] \/ q \in r[i].role \/ q \in memo_role(m, a) \/ q \in payer_role(m, a)
    BY <1>1, RuntimeRole
  <2> QED  BY <2>3, <2>4, <2>5, <2>6
<1>3. ASSUME NEW i \in DOMAIN r PROVE Meta(seen[i].address, seen[i].role) = r[i]
  <2>1. seen[i].address = r[i].address
    BY InfoOf
  <2>2. r[i] \in MetaSet
    BY <1>1
  <2>3. r[i] = [address |-> r[i].address, role |-> r[i].role]
    BY <2>2 DEF MetaSet
  <2> HIDE DEF seen
  <2> QED  BY <1>2, <2>1, <2>3 DEF Meta
<1>4. DOMAIN seen = DOMAIN r
  BY DEF account_infos
<1> HIDE DEF seen
<1>5. [i \in DOMAIN seen |-> Meta(seen[i].address, seen[i].role)] = r
  <2>1. r = [i \in DOMAIN r |-> r[i]]
    BY <1>1
  <2> HIDE DEF r
  <2> QED  BY <1>3, <1>4, <2>1
<1>6. challenge_seen(slot, wrap.compact, seen) = hash_execute_challenge(slot, wrap.compact, r)
  BY <1>5 DEF challenge_seen
<1>7. infos(execute_names) = seen
  BY DEF infos, seen
<1> QED  BY <1>6, <1>7

\* A call of the program is what an instruction of the message asked for.
AsAsked(m, call, ix) ==
    /\ call.program = ix.program
    /\ call.data = ix.data
    /\ [k \in DOMAIN call.accounts |-> call.accounts[k].address] = ix.accounts
    /\ \A k \in DOMAIN call.accounts :
           LET meta == call.accounts[k]
           IN  CASE meta.address = Wallet -> "signer" \in meta.role
                 [] meta.address = FeePayer -> m.roles[FeePayer] \subseteq meta.role
                 [] OTHER -> meta.role = m.roles[meta.address]

LEMMA CallsAsked ==
    ASSUME message \in Messages, Compiled(message, wrap), execute_allowed,
           NEW i \in DOMAIN message.body
    PROVE  AsAsked(message, inner_call(wrap.compact[i], infos(execute_names)), message.body[i])
<1> DEFINE m == message
           r == wrap.remaining
           seen == account_infos(m, r, execute_names)
           c == wrap.compact[i]
           ix == m.body[i]
           call == inner_call(c, seen)
<1>1. r \in Seq(MetaSet) /\ Unrepeated(r) /\ ListsAll(m, r)
  BY DEF Compiled
<1>2. /\ c.program + 1 \in DOMAIN r /\ r[c.program + 1].address = ix.program
      /\ DOMAIN c.indexes = DOMAIN ix.accounts
      /\ \A k \in DOMAIN ix.accounts :
            /\ c.indexes[k] + 1 \in DOMAIN r
            /\ r[c.indexes[k] + 1].address = ix.accounts[k]
      /\ c.data = ix.data
  BY CompactPoints
<1>3. ix.accounts \in Seq(Addresses)
  BY MessageType
<1>4. \A j \in DOMAIN r : seen[j].address = r[j].address
  BY InfoOf
<1>5. /\ call.program = seen[c.program + 1].address /\ call.data = c.data
      /\ call.accounts = [k \in DOMAIN c.indexes |->
                             Meta(seen[c.indexes[k] + 1].address, inner_role(seen[c.indexes[k] + 1]))]
  BY DEF inner_call
<1>6. ASSUME NEW k \in DOMAIN ix.accounts
      PROVE  LET a == ix.accounts[k]  role == inner_role(seen[c.indexes[k] + 1]) IN
               /\ a = Wallet => "signer" \in role
               /\ a = FeePayer => m.roles[FeePayer] \subseteq role
               /\ a \notin {Wallet, FeePayer} => role = m.roles[a]
  <2> DEFINE j == c.indexes[k] + 1
             a == ix.accounts[k]
             role == inner_role(seen[j])
  <2>1. j \in DOMAIN r /\ r[j].address = a /\ seen[j].address = a
    BY <1>2, <1>4
  <2>2. Stands(m, r[j]) /\ a \in Addresses /\ mentions_account(m, a)
    <3>1. a \in Range(ix.accounts)
      BY DEF Range
    <3> QED  BY <1>1, <1>3, <2>1, <3>1 DEF ListsAll, mentions_account
  <2>3. \A q : q \in seen[j].role <=>
           \/ q \in execute_names[a] \/ q \in r[j].role \/ q \in memo_role(m, a) \/ q \in payer_role(m, a)
    BY <1>1, <2>1, RuntimeRole
  <2>4. a \in Protected => seen[j].role = {}
    <3>1. call_allowed(c, infos(execute_names), policy)
      <4>1. i \in DOMAIN wrap.compact
        BY DEF Compiled
      <4> QED  BY <4>1 DEF execute_allowed, calls_allowed
    <3>2. infos(execute_names) = seen
      BY DEF infos
    <3>3. k \in DOMAIN c.indexes
      BY <1>2
    <3> HIDE DEF seen, c
    <3> QED  BY <2>1, <3>1, <3>2, <3>3 DEF call_allowed
  <2> HIDE DEF seen, j, a, c, ix
  <2>5. a # Wallet => downgrade(a, m.roles[a]) = m.roles[a] /\ role = seen[j].role
    BY <2>1 DEF downgrade, inner_role
  <2>6. ASSUME a = Wallet PROVE "signer" \in role
    BY <2>1, <2>6 DEF inner_role
  <2>7. ASSUME a = FeePayer PROVE m.roles[FeePayer] \subseteq role
    BY <2>1, <2>2, <2>3, <2>5, <2>7, WrapAssumption DEF Stands
  <2>8. ASSUME a \notin {Wallet, FeePayer} PROVE role = m.roles[a]
    <3>1. a \notin {Token, AuthorityAccount}
      <4>1. a \in {Token, AuthorityAccount} => "writable" \in seen[j].role
        BY <2>2, <2>3, NamedRoles
      <4> QED  BY <2>4, <4>1 DEF Protected
    <3>2. \A q : q \notin execute_names[a]
      BY <2>2, <2>8, <3>1, NamedRoles
    <3>3. \A q \in r[j].role : q \in m.roles[a]
      BY <2>1, <2>2, <2>8, <3>1 DEF Stands
    <3>4. \A q \in m.roles[a] : q \in r[j].role
      BY <2>1, <2>2, <2>5, <2>8 DEF Stands
    <3>5. \A q \in memo_role(m, a) : q \in m.roles[a]
      BY DEF memo_role
    <3>6. \A q \in payer_role(m, a) : q \in m.roles[a]
      BY <2>8, MessageType DEF payer_role, payer_of
    <3>7. \A q : q \in seen[j].role <=> q \in m.roles[a]
      BY <2>3, <3>2, <3>3, <3>4, <3>5, <3>6
    <3> QED  BY <2>5, <2>8, <3>7
  <2> QED  BY <2>6, <2>7, <2>8 DEF j, a
<1>7. \A k \in DOMAIN ix.accounts :
         /\ call.accounts[k].address = ix.accounts[k]
         /\ call.accounts[k].role = inner_role(seen[c.indexes[k] + 1])
  <2> HIDE DEF seen, c, call
  <2> QED  BY <1>2, <1>4, <1>5 DEF Meta
<1>8. DOMAIN call.accounts = DOMAIN ix.accounts
  BY <1>2, <1>5
<1>9. [k \in DOMAIN call.accounts |-> call.accounts[k].address] = ix.accounts
  <2>1. ix.accounts = [k \in DOMAIN ix.accounts |-> ix.accounts[k]]
    BY <1>3
  <2> HIDE DEF call, ix
  <2> QED  BY <1>7, <1>8, <2>1
<1>10. call.program = ix.program /\ call.data = ix.data
  <2> HIDE DEF call, c, seen
  <2> QED  BY <1>2, <1>4, <1>5
<1>11. infos(execute_names) = seen
  BY DEF infos
<1>12. ASSUME NEW k \in DOMAIN call.accounts
       PROVE  LET meta == call.accounts[k]
              IN  CASE meta.address = Wallet -> "signer" \in meta.role
                    [] meta.address = FeePayer -> m.roles[FeePayer] \subseteq meta.role
                    [] OTHER -> meta.role = m.roles[meta.address]
  <2> DEFINE meta == call.accounts[k]
  <2>1. k \in DOMAIN ix.accounts
    BY <1>8
  <2>2. meta.address = ix.accounts[k] /\ meta.role = inner_role(seen[c.indexes[k] + 1])
    BY <1>7, <2>1
  <2> HIDE DEF meta
  <2>3. /\ meta.address = Wallet => "signer" \in meta.role
        /\ meta.address = FeePayer => m.roles[FeePayer] \subseteq meta.role
        /\ meta.address \notin {Wallet, FeePayer} => meta.role = m.roles[meta.address]
    <3> HIDE DEF seen, c, ix
    <3> QED  BY <1>6, <2>1, <2>2
  <2>4. (CASE meta.address = Wallet -> "signer" \in meta.role
           [] meta.address = FeePayer -> m.roles[FeePayer] \subseteq meta.role
           [] OTHER -> meta.role = m.roles[meta.address])
    BY <2>3, WrapAssumption
  <2> QED  BY <2>4 DEF meta
<1> HIDE DEF seen, c, ix, call
<1>13. AsAsked(m, call, ix)
  BY <1>9, <1>10, <1>12 DEF AsAsked
<1> QED  BY <1>11, <1>13 DEF c, ix, call

-----------------------------------------------------------------------------
(* The preview.                                                            *)

\* A rule of a permission is one, and only a restricted permission has any.
LEMMA RuleTyped ==
    ASSUME NEW p \in Seq(ProgramPermission), NEW i \in DOMAIN p, NEW k \in DOMAIN p[i].access.rules
    PROVE  p[i].access.rules[k] \in InstructionRule /\ p[i].access.kind = "Restricted"
<1>1. p[i] \in ProgramPermission
  BY SequenceTyped
<1>2. p[i].access \in ProgramAccess
  BY <1>1 DEF ProgramPermission
<1>3. p[i].access \in [kind : {"Restricted"}, rules : Seq(InstructionRule)]
  BY <1>2 DEF ProgramAccess, Denied, AllInstructions
<1>4. p[i].access.rules \in Seq(InstructionRule) /\ p[i].access.kind = "Restricted"
  BY <1>3
<1> QED  BY <1>4, SequenceTyped

\* Two views of the accounts that differ in accounts no instruction points at
\* are judged alike.
LEMMA JudgedAlike ==
    ASSUME NEW p \in Policies, NEW ix, NEW program, NEW x, NEW y, NEW wallet,
           Len(x) = Len(y), Len(ix.indexes) \in Nat, DOMAIN ix.indexes = 1 .. Len(ix.indexes),
           \A k \in DOMAIN ix.indexes : x[ix.indexes[k] + 1] = y[ix.indexes[k] + 1]
    PROVE  check_instruction(p, program, ix, x, wallet) <=> check_instruction(p, program, ix, y, wallet)
<1>1. ASSUME NEW a, a.index \in Nat
      PROVE  account_matches(a, ix, x, wallet) <=> account_matches(a, ix, y, wallet)
  <2>1. CASE a.index < Len(ix.indexes)
    <3>1. a.index + 1 \in DOMAIN ix.indexes
      BY <1>1, <2>1
    <3>2. x[ix.indexes[a.index + 1] + 1] = y[ix.indexes[a.index + 1] + 1]
      BY <3>1
    <3> QED  BY <3>2 DEF account_matches
  <2>2. CASE ~(a.index < Len(ix.indexes))
    BY <2>2 DEF account_matches
  <2> QED  BY <2>1, <2>2
<1>2. ASSUME NEW i \in DOMAIN p, NEW k \in DOMAIN p[i].access.rules
      PROVE  rule_matches(p[i].access.rules[k], ix, x, wallet)
                <=> rule_matches(p[i].access.rules[k], ix, y, wallet)
  <2> DEFINE rule == p[i].access.rules[k]
  <2>1. \A j \in DOMAIN rule.accounts : rule.accounts[j].index \in Nat
    <3>1. p \in Seq(ProgramPermission)
      BY PoliciesAssumption
    <3>2. rule \in InstructionRule
      BY <3>1, RuleTyped
    <3>3. rule.accounts \in Seq(AccountConstraint)
      BY <3>2 DEF InstructionRule
    <3> HIDE DEF rule
    <3>4. \A j \in DOMAIN rule.accounts : rule.accounts[j] \in AccountConstraint
      BY <3>3, SequenceTyped
    <3> QED  BY <3>4 DEF AccountConstraint
  <2> HIDE DEF rule
  <2>2. \A j \in DOMAIN rule.accounts :
           account_matches(rule.accounts[j], ix, x, wallet) <=> account_matches(rule.accounts[j], ix, y, wallet)
    BY <1>1, <2>1
  <2>3. rule_matches(rule, ix, x, wallet) <=> rule_matches(rule, ix, y, wallet)
    BY <2>2 DEF rule_matches
  <2> QED  BY <2>3 DEF rule
<1> DEFINE named == {i \in DOMAIN p : p[i].program_id = program}
           matched(z) == LET access == p[Min(named)].access
                         IN  \/ access.kind = "AllInstructions"
                             \/ /\ access.kind = "Restricted"
                                /\ \E k \in DOMAIN access.rules : rule_matches(access.rules[k], ix, z, wallet)
<1>3. check_instruction(p, program, ix, x, wallet) <=> IF named = {} THEN program \in Allowed ELSE matched(x)
  BY DEF check_instruction
<1>4. check_instruction(p, program, ix, y, wallet) <=> IF named = {} THEN program \in Allowed ELSE matched(y)
  BY DEF check_instruction
<1>5. ASSUME named # {} PROVE matched(x) <=> matched(y)
  <2>1. Min(named) \in DOMAIN p
    <3>1. named \subseteq Nat
      <4>1. p \in Seq(ProgramPermission)
        BY PoliciesAssumption
      <4>2. DOMAIN p = 1 .. Len(p)
        BY <4>1, SequenceTyped
      <4> QED  BY <4>2
    <3>2. \E m \in named : \A n \in named : m <= n
      <4> HIDE DEF named
      <4> QED  BY <1>5, <3>1, LeastNumber
    <3>3. Min(named) \in named
      <4> HIDE DEF named
      <4> QED  BY <3>2 DEF Min
    <3> QED  BY <3>3
  <2> DEFINE i == Min(named)
  <2> HIDE DEF named, i
  <2>2. \A k \in DOMAIN p[i].access.rules :
           rule_matches(p[i].access.rules[k], ix, x, wallet) <=> rule_matches(p[i].access.rules[k], ix, y, wallet)
    BY <1>2, <2>1 DEF i
  <2> QED  BY <2>2 DEF i
<1> HIDE DEF named, matched
<1> QED  BY <1>3, <1>4, <1>5

LEMMA PreviewDecides ==
    ASSUME message \in Messages, Compiled(message, wrap), policy \subseteq Policies, ~mentioned(Authority)
    PROVE  preview_allowed <=> execute_allowed
<1> DEFINE r == wrap.remaining
           x == account_infos(message, r, preview_names)
           y == account_infos(message, r, execute_names)
<1>1. r \in Seq(MetaSet) /\ Unrepeated(r) /\ ListsAll(message, r)
  BY DEF Compiled
<1>2. ASSUME NEW j \in DOMAIN r, r[j].address # Authority PROVE x[j] = y[j]
  <2> DEFINE a == r[j].address
  <2>1. r[j] \in MetaSet
    BY <1>1
  <2>2. a \in Addresses
    BY <2>1 DEF MetaSet
  <2>3. a = Token => "writable" \in r[j].role
    BY DEF Compiled
  <2>4. /\ \A q : q \in x[j].role <=>
              \/ q \in preview_names[a] \/ q \in r[j].role \/ q \in memo_role(message, a) \/ q \in payer_role(message, a)
        /\ \A q : q \in y[j].role <=>
              \/ q \in execute_names[a] \/ q \in r[j].role \/ q \in memo_role(message, a) \/ q \in payer_role(message, a)
    BY <1>1, RuntimeRole
  <2>5. /\ \A q : q \in execute_names[a] <=> q = "writable" /\ a \in {Token, Wallet, AuthorityAccount}
        /\ \A q : q \in preview_names[a] <=> q = "writable" /\ a \in {Wallet, AuthorityAccount}
    BY <1>2, <2>2, NamedRoles
  <2>6. /\ x[j] = [address |-> a, role |-> runtime_role(message, r, preview_names, a),
                   owner |-> OwnerOf[a], data |-> DataOf[a]]
        /\ y[j] = [address |-> a, role |-> runtime_role(message, r, execute_names, a),
                   owner |-> OwnerOf[a], data |-> DataOf[a]]
    BY DEF account_infos
  <2> HIDE DEF x, y
  <2>7. \A q : q \in x[j].role <=> q \in y[j].role
    BY <2>3, <2>4, <2>5
  <2>8. runtime_role(message, r, preview_names, a) = runtime_role(message, r, execute_names, a)
    <3>1. /\ x[j].role = runtime_role(message, r, preview_names, a)
          /\ y[j].role = runtime_role(message, r, execute_names, a)
      BY <2>6
    <3>2. \A q : q \in runtime_role(message, r, preview_names, a)
                   <=> q \in runtime_role(message, r, execute_names, a)
      BY <2>7, <3>1
    <3> QED  BY <3>2
  <2> QED  BY <2>6, <2>8
<1>3. \A j \in DOMAIN r : x[j].address = y[j].address
  BY InfoOf
<1>4. Len(x) = Len(y)
  <2>1. x \in Seq({x[j] : j \in DOMAIN r}) /\ DOMAIN x = DOMAIN r
    BY <1>1 DEF account_infos
  <2>2. y \in Seq({y[j] : j \in DOMAIN r}) /\ DOMAIN y = DOMAIN r
    BY <1>1 DEF account_infos
  <2> HIDE DEF x, y
  <2>3. Len(x) \in Nat /\ Len(y) \in Nat /\ DOMAIN x = 1 .. Len(x) /\ DOMAIN y = 1 .. Len(y)
    BY <2>1, <2>2
  <2> QED  BY <2>1, <2>2, <2>3
<1>5. ASSUME NEW i \in DOMAIN wrap.compact
      PROVE  call_allowed(wrap.compact[i], x, policy) <=> call_allowed(wrap.compact[i], y, policy)
  <2> DEFINE c == wrap.compact[i]
             ix == message.body[i]
  <2>1. i \in DOMAIN message.body
    BY DEF Compiled
  <2>2. /\ c.program + 1 \in DOMAIN r
        /\ DOMAIN c.indexes = DOMAIN ix.accounts
        /\ \A k \in DOMAIN ix.accounts :
              /\ c.indexes[k] + 1 \in DOMAIN r
              /\ r[c.indexes[k] + 1].address = ix.accounts[k]
    BY <2>1, CompactPoints
  <2>3. \A k \in DOMAIN ix.accounts : ix.accounts[k] # Authority
    BY <2>1 DEF mentioned, asks, Range
  <2>4. Len(c.indexes) \in Nat /\ DOMAIN c.indexes = 1 .. Len(c.indexes)
    <3>1. ix.accounts \in Seq(Addresses)
      BY <2>1, MessageType
    <3>2. c.indexes = [k \in DOMAIN ix.accounts |-> index_of(r, ix.accounts[k]) - 1]
      BY <2>1 DEF Compiled, compact
    <3> QED  BY <3>1, <3>2
  <2> HIDE DEF c, ix, r, x, y
  <2>5. \A k \in DOMAIN c.indexes : x[c.indexes[k] + 1] = y[c.indexes[k] + 1]
    BY <1>2, <2>2, <2>3
  <2>6. x[c.program + 1].address = y[c.program + 1].address
    BY <1>3, <2>2
  <2>7. \A p \in policy : \A program :
           check_instruction(p, program, c, x, Wallet) <=> check_instruction(p, program, c, y, Wallet)
    BY <1>4, <2>4, <2>5, JudgedAlike
  <2>8. call_allowed(c, x, policy) <=> call_allowed(c, y, policy)
    BY <2>5, <2>6, <2>7 DEF call_allowed
  <2> QED  BY <2>8 DEF c
<1>6. infos(preview_names) = x /\ infos(execute_names) = y
  BY DEF infos
<1> HIDE DEF x, y
<1> QED  BY <1>5, <1>6 DEF preview_allowed, execute_allowed, calls_allowed

-----------------------------------------------------------------------------
(* The inductive invariant of a tap.                                       *)

\* The sysvar lists slots from the newest, none twice, and never none.
SlotsOK == slots \in Seq(Nat \ {0}) /\ Len(slots) > 0 /\ Descends(slots)

HasTapped == {"passkey", "building", "paying", "signed", "landed"}

\* What is kept from one await to the next: the compiled message, and what the
\* accessory was asked to sign for it.
WrapKept ==
    /\ wrap = NoWrap \/ wrap = compileWalletInstructions(message)
    /\ phase \in {"fetching"} \cup HasTapped => wrap = compileWalletInstructions(message)
    /\ phase \in HasTapped =>
          challenge = {hash_execute_challenge(slot, wrap.compact, wrap.remaining)}

TapInv ==
    /\ message \in Messages /\ policy \subseteq Policies
    /\ SlotsOK
    /\ WrapKept
    /\ TapsAsAsked

LEMMA TapInit == Init => TapInv
<1> SUFFICES ASSUME Init PROVE TapInv
  OBVIOUS
<1>1. message \in Messages /\ policy \subseteq Policies
  BY DEF Init
<1>2. SlotsOK
  <2>1. slots = <<1>>
    BY DEF Init
  <2> QED  BY <2>1 DEF SlotsOK, Descends
<1>3. WrapKept /\ TapsAsAsked
  BY DEF Init, WrapKept, HasTapped, TapsAsAsked, ChallengeMatches, CallsAsAsked
<1> QED  BY <1>1, <1>2, <1>3 DEF TapInv

LEMMA PrefixOf ==
    ASSUME NEW X, NEW t \in Seq(X), NEW k \in 1 .. Len(t)
    PROVE  /\ SubSeq(t, 1, k) \in Seq(X) /\ Len(SubSeq(t, 1, k)) = k
           /\ \A i \in 1 .. k : SubSeq(t, 1, k)[i] = t[i]
OBVIOUS

LEMMA ProduceKeeps == ASSUME TapInv, Produce PROVE SlotsOK'
<1>1. slots \in Seq(Nat \ {0}) /\ Len(slots) > 0 /\ Descends(slots) /\ KeepSlots \in Nat \ {0}
  BY PipelineAssumption DEF TapInv, SlotsOK
<1>2. PICK n \in {1, 2} :
         slots' = SubSeq(<<Head(slots) + n>> \o slots, 1, Min({KeepSlots, Len(slots) + 1}))
  BY DEF Produce
<1> DEFINE h == Head(slots) + n
           t == <<h>> \o slots
           k == Min({KeepSlots, Len(slots) + 1})
<1>3. h \in Nat \ {0} /\ Head(slots) = slots[1] /\ h > slots[1]
  BY <1>1
<1>4. k \in 1 .. Len(slots) + 1
  <2> DEFINE S == {KeepSlots, Len(slots) + 1}
  <2>1. S \subseteq Nat /\ S # {}
    BY <1>1
  <2>2. \E x \in S : \A y \in S : x <= y
    <3> HIDE DEF S
    <3> QED  BY <2>1, LeastNumber
  <2>3. Min(S) \in S /\ \A y \in S : Min(S) <= y
    <3> HIDE DEF S
    <3> QED  BY <2>2 DEF Min
  <2>4. Min(S) <= Len(slots) + 1 /\ Min(S) \in Nat \ {0}
    <3>1. Len(slots) + 1 \in S /\ \A y \in S : y \in Nat \ {0}
      BY <1>1
    <3> HIDE DEF S
    <3> QED  BY <2>3, <3>1
  <2> HIDE DEF S
  <2>5. k = Min(S)
    BY DEF S
  <2> QED  BY <1>1, <2>4, <2>5
<1> HIDE DEF h, k
<1>5. /\ t \in Seq(Nat \ {0}) /\ Len(t) = Len(slots) + 1
      /\ t[1] = h /\ \A i \in DOMAIN slots : t[i + 1] = slots[i]
  BY <1>1, <1>3
<1> HIDE DEF t
<1>6. Descends(t)
  <2> SUFFICES ASSUME NEW i \in DOMAIN t, NEW j \in DOMAIN t, i < j PROVE t[j] < t[i]
    BY DEF Descends
  <2>1. /\ i \in Nat /\ j \in Nat /\ j - 1 \in DOMAIN slots /\ t[j] = slots[j - 1]
        /\ slots[j - 1] \in Nat /\ slots[1] \in Nat /\ 1 \in DOMAIN slots
    <3>1. i \in 1 .. Len(slots) + 1 /\ j \in 1 .. Len(slots) + 1
      BY <1>1, <1>5
    <3>2. j - 1 \in 1 .. Len(slots) /\ (j - 1) + 1 = j /\ 1 \in 1 .. Len(slots)
      BY <1>1, <3>1
    <3>3. \A e \in 1 .. Len(slots) : e \in DOMAIN slots /\ slots[e] \in Nat
      BY <1>1
    <3>4. t[j] = slots[j - 1]
      BY <1>5, <3>2, <3>3
    <3> QED  BY <3>1, <3>2, <3>3, <3>4
  <2>2. CASE i = 1
    <3>1. slots[j - 1] <= slots[1]
      <4>1. CASE j - 1 = 1
        BY <2>1, <4>1
      <4>2. CASE j - 1 # 1
        <5>1. 1 < j - 1
          BY <1>1, <2>1, <4>2
        <5> QED  BY <1>1, <2>1, <5>1 DEF Descends
      <4> QED  BY <4>1, <4>2
    <3> QED  BY <1>3, <1>5, <2>1, <2>2, <3>1
  <2>3. CASE i # 1
    <3>1. i - 1 \in DOMAIN slots /\ (i - 1) + 1 = i /\ i - 1 < j - 1
      <4>1. i \in 1 .. Len(slots) + 1 /\ j \in 1 .. Len(slots) + 1
        BY <1>1, <1>5
      <4> QED  BY <1>1, <2>1, <2>3, <4>1
    <3>2. slots[j - 1] < slots[i - 1] /\ t[i] = slots[i - 1]
      BY <1>1, <1>5, <2>1, <3>1 DEF Descends
    <3> QED  BY <2>1, <3>2
  <2> QED  BY <2>2, <2>3
<1>7. /\ slots' = SubSeq(t, 1, k)
      /\ slots' \in Seq(Nat \ {0}) /\ Len(slots') = k /\ \A i \in 1 .. k : slots'[i] = t[i]
  <2>1. slots' = SubSeq(t, 1, k)
    BY <1>2 DEF t, h, k
  <2>2. k \in 1 .. Len(t)
    BY <1>4, <1>5
  <2> QED  BY <1>5, <2>1, <2>2, PrefixOf
<1>8. Descends(slots')
  <2>1. DOMAIN slots' = 1 .. k /\ \A i \in 1 .. k : i \in DOMAIN t
    BY <1>1, <1>4, <1>5, <1>7
  <2> QED  BY <1>6, <1>7, <2>1 DEF Descends
<1> QED  BY <1>4, <1>7, <1>8 DEF SlotsOK

LEMMA OutsideKeeps ==
    ASSUME TapInv, Produce \/ Abort \/ (\E p \in Policies : SavePolicy(p))
    PROVE  TapInv'
<1>1. /\ message' = message /\ wrap' = wrap /\ slot' = slot /\ challenge' = challenge
      /\ phase' = phase /\ why' = why /\ invoked' = invoked
  BY DEF Produce, Abort, SavePolicy, local
<1>2. policy' \subseteq Policies
  BY DEF Produce, Abort, SavePolicy, outside, TapInv
<1>3. SlotsOK'
  <2>1. CASE Produce
    BY <2>1, ProduceKeeps
  <2>2. CASE ~Produce
    BY <2>2 DEF Abort, SavePolicy, outside, TapInv, SlotsOK
  <2> QED  BY <2>1, <2>2
<1>4. WrapKept' /\ TapsAsAsked'
  BY <1>1 DEF TapInv, WrapKept, TapsAsAsked, ChallengeMatches, CallsAsAsked,
              PayerReadOnly, WalletSignsMemo, mentioned, asks
<1> QED  BY <1>1, <1>2, <1>3, <1>4 DEF TapInv

\* A refusal for the challenge means that the challenge was another.
LEMMA RefusedChallenge ==
    ASSUME execute_result = "challenge"
    PROVE  challenge # {challenge_seen(slot, wrap.compact, infos(execute_names))}
BY DEF execute_result, Executes

LEMMA ExecutesOnlyAllowed ==
    ASSUME execute_result = Executes
    PROVE  execute_allowed
BY DEF execute_result, Executes

LEMMA MatchesKept ==
    ASSUME TapInv, phase \in {"building", "signed"}, execute_result = "challenge"
    PROVE  PayerReadOnly \/ WalletSignsMemo
<1>1. /\ message \in Messages /\ wrap = compileWalletInstructions(message)
      /\ challenge = {hash_execute_challenge(slot, wrap.compact, wrap.remaining)}
  BY DEF TapInv, WrapKept, HasTapped
<1>2. Compiled(message, wrap)
  BY <1>1, Compiles
<1> QED  BY <1>1, <1>2, RefusedChallenge, SeenAsSigned

\* What the steps of the pipeline leave.
LEMMA PipelineFrame ==
    ASSUME TapInv, PipelineStep, WrapKept', TapsAsAsked'
    PROVE  TapInv'
BY DEF TapInv, PipelineStep, outside, SlotsOK

LEMMA SameWhys ==
    ASSUME message' = message, why' # "challenge" \/ PayerReadOnly \/ WalletSignsMemo
    PROVE  ChallengeMatches'
BY DEF ChallengeMatches, PayerReadOnly, WalletSignsMemo, mentioned, asks

LEMMA PipelineKeeps ==
    ASSUME TapInv, PipelineStep
    PROVE  TapInv'
<1>1. message' = message
  BY DEF PipelineStep
<1>2. why = "challenge" => PayerReadOnly \/ WalletSignsMemo
  BY DEF TapInv, TapsAsAsked, ChallengeMatches
<1>3. WrapKept
  BY DEF TapInv
<1>4. ASSUME phase' # "landed" PROVE CallsAsAsked'
  BY <1>4 DEF CallsAsAsked
<1>5. ASSUME NEW reason, Fails(reason), reason = "challenge" => PayerReadOnly \/ WalletSignsMemo
      PROVE  TapInv'
  <2>1. /\ phase' = "failed" /\ why' = reason
        /\ wrap' = wrap /\ slot' = slot /\ challenge' = challenge
    BY <1>5 DEF Fails, local
  <2>2. WrapKept'
    BY <1>1, <1>3, <2>1 DEF WrapKept, HasTapped
  <2>3. ChallengeMatches' /\ CallsAsAsked'
    BY <1>1, <1>4, <1>5, <2>1, SameWhys
  <2> QED  BY <2>2, <2>3, PipelineFrame DEF TapsAsAsked
<1>6. ASSUME NEW p \in {"fetching", "passkey", "building", "paying", "signed"},
             Continues(p), WrapKept'
      PROVE  TapInv'
  <2>1. phase' = p /\ why' = why
    BY <1>6 DEF Continues
  <2>2. ChallengeMatches' /\ CallsAsAsked'
    BY <1>1, <1>2, <1>4, <1>6, <2>1, SameWhys
  <2> QED  BY <1>6, <2>2, PipelineFrame DEF TapsAsAsked
<1>7. CASE Prepare
  <2>1. CASE Fails("refused")
    BY <1>5, <2>1
  <2>2. CASE wrap' = compileWalletInstructions(message) /\ Continues("fetching")
    <3>1. WrapKept'
      BY <1>1, <2>2 DEF WrapKept, HasTapped, Continues
    <3> QED  BY <1>6, <2>2, <3>1
  <2> QED  BY <1>7, <2>1, <2>2 DEF Prepare
<1>8. CASE Preview
  <2>1. CASE Fails("denied")
    BY <1>5, <2>1
  <2>2. CASE Continues("fetching") /\ UNCHANGED <<wrap, slot, challenge>>
    <3>1. WrapKept'
      BY <1>1, <1>3, <1>8, <2>2 DEF WrapKept, HasTapped, Continues, Preview
    <3> QED  BY <1>6, <2>2, <3>1
  <2> QED  BY <1>8, <2>1, <2>2 DEF Preview
<1>9. CASE FetchSlot
  <2>1. CASE Fails("network")
    BY <1>5, <2>1
  <2>2. CASE Continues("fetching") /\ UNCHANGED <<wrap, challenge, previewed>>
    <3>1. WrapKept'
      BY <1>1, <1>3, <1>9, <2>2 DEF WrapKept, HasTapped, Continues, FetchSlot
    <3> QED  BY <1>6, <2>2, <3>1
  <2> QED  BY <1>9, <2>1, <2>2 DEF FetchSlot
<1>10. CASE Prompt
  <2>1. CASE Fails("aborted")
    BY <1>5, <2>1
  <2>2. CASE /\ challenge' = {hash_execute_challenge(slot, wrap.compact, wrap.remaining)}
             /\ Continues("passkey") /\ UNCHANGED <<wrap, slot, previewed>>
    <3>1. wrap' = compileWalletInstructions(message') /\ wrap' = wrap /\ slot' = slot /\ phase' = "passkey"
      BY <1>1, <1>3, <1>10, <2>2 DEF WrapKept, Continues, Prompt
    <3>2. challenge' = {hash_execute_challenge(slot', wrap'.compact, wrap'.remaining)}
      BY <2>2, <3>1
    <3>3. WrapKept'
      BY <3>1, <3>2 DEF WrapKept, HasTapped
    <3> QED  BY <1>6, <2>2, <3>3
  <2> QED  BY <1>10, <2>1, <2>2 DEF Prompt
<1>11. ASSUME phase \in HasTapped, NEW p \in {"building", "paying", "signed"},
              Continues(p), UNCHANGED local
       PROVE  TapInv'
  <2>1. WrapKept'
    BY <1>1, <1>3, <1>11 DEF WrapKept, HasTapped, Continues, local
  <2> QED  BY <1>6, <1>11, <2>1
<1>12. CASE Tapped
  BY <1>5, <1>11, <1>12 DEF Tapped, HasTapped
<1>13. CASE Build
  <2>1. CASE execute_result # Executes /\ Fails(execute_result)
    <3>1. execute_result = "challenge" => PayerReadOnly \/ WalletSignsMemo
      BY <1>13, MatchesKept DEF Build
    <3> DEFINE reason == execute_result
    <3> HIDE DEF reason
    <3>2. Fails(reason) /\ (reason = "challenge" => PayerReadOnly \/ WalletSignsMemo)
      BY <2>1, <3>1 DEF reason
    <3> QED  BY <1>5, <3>2
  <2> QED  BY <1>5, <1>11, <1>13, <2>1 DEF Build, HasTapped
<1>14. CASE Pay
  BY <1>5, <1>11, <1>14 DEF Pay, HasTapped
<1>15. CASE Lands
  <2>1. CASE execute_result # Executes /\ Fails(execute_result)
    <3>1. execute_result = "challenge" => PayerReadOnly \/ WalletSignsMemo
      BY <1>15, MatchesKept DEF Lands
    <3> DEFINE reason == execute_result
    <3> HIDE DEF reason
    <3>2. Fails(reason) /\ (reason = "challenge" => PayerReadOnly \/ WalletSignsMemo)
      BY <2>1, <3>1 DEF reason
    <3> QED  BY <1>5, <3>2
  <2>2. CASE /\ execute_result = Executes
             /\ invoked' = inner_calls(wrap.compact, infos(execute_names))
             /\ Continues("landed") /\ UNCHANGED local
    <3>1. phase' = "landed" /\ why' = why /\ wrap' = wrap /\ slot' = slot /\ challenge' = challenge
      BY <2>2 DEF Continues, local
    <3>2. message \in Messages /\ wrap = compileWalletInstructions(message)
      BY <1>15 DEF TapInv, WrapKept, HasTapped, Lands
    <3>3. Compiled(message, wrap) /\ message.body \in Seq(Instruction)
      BY <3>2, Compiles, MessageType
    <3>4. execute_allowed
      BY <2>2, ExecutesOnlyAllowed
    <3> DEFINE calls == inner_calls(wrap.compact, infos(execute_names))
    <3>5. calls = [i \in DOMAIN message.body |-> inner_call(wrap.compact[i], infos(execute_names))]
      BY <3>3 DEF inner_calls, Compiled
    <3>6. Len(calls) = Len(message.body) /\ DOMAIN calls = DOMAIN message.body
      BY <3>3, <3>5
    <3>7. \A i \in DOMAIN message.body : calls[i] = inner_call(wrap.compact[i], infos(execute_names))
      BY <3>5
    <3> HIDE DEF calls
    <3>8. \A i \in DOMAIN calls : AsAsked(message, calls[i], message.body[i])
      BY <3>2, <3>3, <3>4, <3>6, <3>7, CallsAsked
    <3>9. invoked' = calls
      BY <2>2 DEF calls
    <3>10. CallsAsAsked'
      BY <1>1, <3>6, <3>8, <3>9 DEF CallsAsAsked, AsAsked
    <3>11. ChallengeMatches'
      BY <1>1, <1>2, <3>1, SameWhys
    <3>12. WrapKept'
      BY <1>1, <1>3, <1>15, <3>1 DEF WrapKept, HasTapped, Lands
    <3> QED  BY <3>10, <3>11, <3>12, PipelineFrame DEF TapsAsAsked
  <2> QED  BY <1>15, <2>1, <2>2 DEF Lands
<1> QED  BY <1>7, <1>8, <1>9, <1>10, <1>12, <1>13, <1>14, <1>15 DEF PipelineStep

LEMMA TapInvStep == TapInv /\ [Next]_vars => TapInv'
<1>1. ASSUME TapInv, UNCHANGED vars PROVE TapInv'
  BY <1>1 DEF vars, outside, local, TapInv, SlotsOK, WrapKept, TapsAsAsked, ChallengeMatches,
              CallsAsAsked, PayerReadOnly, WalletSignsMemo, mentioned, asks
<1> QED  BY <1>1, OutsideKeeps, PipelineKeeps DEF Next

LEMMA TapInvariance == Spec => []TapInv
  BY TapInit, TapInvStep, PTL DEF Spec

\* A tap signs what was asked: the accounts and privileges hashed before it are
\* those of the transaction built after it, unless the fee payer is read only or
\* a memo names the wallet as a signer, and the program calls what the message
\* called, with its accounts and privileges (elevateForExecuteAccounts and
\* compileWalletInstructions against execute_compact_instructions).
THEOREM AlwaysTapsAsAsked == Spec => []TapsAsAsked
<1>1. TapInv => TapsAsAsked
  BY DEF TapInv
<1> QED  BY <1>1, TapInvariance, PTL

\* No instruction points at an account the two views differ in.
LEMMA AgreesWhenKept == TapInv => PreviewAgrees
<1> SUFFICES ASSUME TapInv, wrap # NoWrap, ~mentioned(Authority)
             PROVE  preview_allowed <=> execute_allowed
  BY DEF PreviewAgrees
<1>1. message \in Messages /\ policy \subseteq Policies /\ wrap = compileWalletInstructions(message)
  BY DEF TapInv, WrapKept
<1>2. Compiled(message, wrap)
  BY <1>1, Compiles
<1> QED  BY <1>1, <1>2, PreviewDecides

\* The preview decides as the tap will: the accounts that differ for it, the owner
\* as a signer, are none an instruction points at (wrap-transaction.ts).
THEOREM AlwaysPreviewAgrees == Spec => []PreviewAgrees
  BY AgreesWhenKept, TapInvariance, PTL

LEMMA FindsWhenKept == TapInv => SearchFinds
<1> SUFFICES ASSUME TapInv, NEW n \in 0 .. (MaxSlot + 1)
             PROVE  fetch_slot_hash(slots, n) = (IF n \in Range(slots) THEN n ELSE NoHash)
  BY DEF SearchFinds
<1>1. n \in Nat /\ slots \in Seq(Nat \ {0}) /\ Descends(slots)
  BY PipelineAssumption DEF TapInv, SlotsOK
<1> QED  BY <1>1, FetchesExactly

\* The binary search over the SlotHashes sysvar finds exactly the slots it lists,
\* however long it is and whatever slots are missing (slot_hash.rs).
THEOREM AlwaysSearchFinds == Spec => []SearchFinds
  BY FindsWhenKept, TapInvariance, PTL

-----------------------------------------------------------------------------
(* What a saved policy means.                                              *)

\* le_value reads the bytes from the last to the first.
LEMMA LeValueTails ==
    ASSUME PolicyAssumption, NEW w \in Nat, NEW b \in [1..w -> 0..Base - 1]
    PROVE  \E v : tails(v, b, w, Base) /\ le_value(b) = v[1]
<1> DEFINE D == DOMAIN b
           body(h) == [s \in SUBSET D |-> IF s = {} THEN 0 ELSE b[Min(s)] + Base * h[s \ {Min(s)}]]
           iter == CHOOSE h : h = body(h)
           A == 0..Base - 1
           op == [p \in A \X Nat |-> p[1] + Base * p[2]]
<1>1. Base \in Nat /\ b \in Seq(A) /\ D = 1..w /\ D \subseteq Nat
  <2>1. Base \in Nat /\ b \in Seq(A) /\ D = 1..w
    BY DEF PolicyAssumption
  <2> QED  BY <2>1
<1>2. le_value(b) = iter[D]
  BY DEF le_value, FoldRight, MapThenFoldSet
<1>3. op \in [A \X Nat -> Nat]
  <2>1. ASSUME NEW p \in A \X Nat PROVE p[1] + Base * p[2] \in Nat
    <3>1. p[1] \in Nat /\ p[2] \in Nat
      OBVIOUS
    <3>2. Base \in Nat
      BY <1>1
    <3> QED  BY <3>1, <3>2, HornerTyped
  <2> HIDE DEF A
  <2> QED  BY <2>1
<1>4. PICK f \in [SUBSET D -> Nat] : IsRightFold(f, b, op, 0)
  <2> HIDE DEF op, A
  <2> QED  BY <1>1, <1>3, FoldRightExists
<1>5. ASSUME NEW s \in SUBSET D, s # {} PROVE f[s] = b[Min(s)] + Base * f[s \ {Min(s)}]
  <2>1. f[s] = op[<<b[Min(s)], f[s \ {Min(s)}]>>]
    BY <1>4, <1>5 DEF IsRightFold
  <2>2. s \subseteq Nat /\ Min(s) \in s
    BY <1>1, <1>5, MinOfSome
  <2>3. b[Min(s)] \in A /\ f[s \ {Min(s)}] \in Nat
    BY <2>2, <1>1
  <2> HIDE DEF A
  <2> QED  BY <2>1, <2>3
<1>6. f[{}] = 0
  BY <1>4 DEF IsRightFold
<1>7. f = body(f)
  BY <1>5, <1>6
<1>8. iter = body(iter)
  <2> HIDE DEF body
  <2> QED  BY <1>7
<1> HIDE DEF iter, op
<1> DEFINE v == [i \in 1..w + 1 |-> iter[i..w]]
<1>9. ASSUME NEW i \in 1..w PROVE i..w \in SUBSET D /\ iter[i..w] = b[i] + Base * iter[i + 1..w]
  <2>1. i..w # {} /\ i..w \in SUBSET D /\ Min(i..w) = i /\ (i..w) \ {i} = i + 1..w
    <3>a. i \in Nat /\ i <= w /\ i \in i..w /\ 1 <= i
      OBVIOUS
    <3>b. \A j \in i..w : j \in 1..w
      BY <3>a
    <3>1. i \in Nat /\ i <= w /\ i..w # {} /\ i..w \subseteq 1..w
      BY <3>a, <3>b
    <3>2. Min(i..w) = i /\ (i..w) \ {i} = i + 1..w
      BY <3>1, MinOfTail
    <3>3. D = 1..w
      BY <1>1
    <3> HIDE DEF D
    <3> QED  BY <3>1, <3>2, <3>3
  <2>2. iter[i..w] = b[Min(i..w)] + Base * iter[(i..w) \ {Min(i..w)}]
    BY <1>8, <2>1
  <2> QED  BY <2>1, <2>2
<1>10. (w + 1)..w = {} /\ iter[{}] = 0
  BY <1>8
<1> DEFINE Good == {k \in Nat : k <= w => iter[(w + 1) - k..w] \in Nat}
<1>11. Good = Nat
  <2>1. 0 \in Good
    <3>1. (w + 1) - 0 = w + 1
      OBVIOUS
    <3> QED  BY <1>10, <3>1
  <2>2. ASSUME NEW k \in Good PROVE k + 1 \in Good
    <3>1. SUFFICES ASSUME k + 1 <= w PROVE iter[(w + 1) - (k + 1)..w] \in Nat
      OBVIOUS
    <3> DEFINE i == (w + 1) - (k + 1)
    <3>2. i \in 1..w /\ i + 1 = (w + 1) - k /\ iter[i + 1..w] \in Nat
      <4>1. i \in 1..w /\ i + 1 = (w + 1) - k
        <5>1. k \in Nat /\ k + 1 <= w
          BY <3>1
        <5> HIDE DEF Good
        <5> QED  BY <5>1
      <4>2. iter[(w + 1) - k..w] \in Nat
        BY <3>1
      <4> QED  BY <4>1, <4>2
    <3> HIDE DEF i
    <3>3. iter[i..w] = b[i] + Base * iter[i + 1..w] /\ b[i] \in Nat
      <4>1. b[i] \in 0..Base - 1
        BY <3>2
      <4> QED  BY <3>2, <4>1, <1>9
    <3> DEFINE x == iter[i + 1..w]
    <3>4. x \in Nat
      BY <3>2
    <3>5. iter[i..w] = b[i] + Base * x
      BY <3>3
    <3> HIDE DEF x
    <3>7. Base \in Nat
      BY <1>1
    <3>8. b[i] \in Nat
      BY <3>3
    <3>9. b[i] + Base * x \in Nat
      BY <3>4, <3>7, <3>8, HornerTyped
    <3>6. iter[i..w] \in Nat
      BY <3>5, <3>9
    <3> QED  BY <3>6 DEF i
  <2>3. Good \subseteq Nat
    OBVIOUS
  <2> HIDE DEF Good
  <2> QED  BY <2>1, <2>2, <2>3, Inductive
<1>12. v \in [1..w + 1 -> Nat]
  <2>1. ASSUME NEW i \in 1..w + 1 PROVE iter[i..w] \in Nat
    <3>1. (w + 1) - i \in Nat /\ (w + 1) - i <= w /\ (w + 1) - ((w + 1) - i) = i
      OBVIOUS
    <3>2. (w + 1) - i \in Good
      BY <1>11, <3>1
    <3>3. iter[(w + 1) - ((w + 1) - i)..w] \in Nat
      BY <3>1, <3>2
    <3> QED  BY <3>1, <3>3
  <2> HIDE DEF Good
  <2> QED  BY <2>1
<1>13. v[w + 1] = 0
  BY <1>10
<1>14. \A i \in 1..w : v[i] = b[i] + Base * v[i + 1]
  BY <1>9
<1>15. v[1] = iter[D]
  BY <1>1
<1> HIDE DEF v
<1>16. tails(v, b, w, Base)
  BY <1>12, <1>13, <1>14 DEF tails
<1> QED  BY <1>2, <1>15, <1>16

\* A byte has at least two values.
LEMMA BaseTyped == Base \in Nat /\ Base > 1
BY PolicyAssumption DEF PolicyAssumption

\* A slice is at a place when it is what SubSeq cuts out there.
LEMMA SliceAt ==
    ASSUME NEW X, NEW data \in Seq(X), NEW offset \in Nat, NEW bytes \in Seq(X)
    PROVE  At(data, offset, bytes)
             <=> /\ offset + Len(bytes) <= Len(data)
                 /\ SubSeq(data, offset + 1, offset + Len(bytes)) = bytes
<1> DEFINE n == Len(data)
           m == Len(bytes)
           cut == SubSeq(data, offset + 1, offset + m)
<1>1. n \in Nat /\ m \in Nat /\ data \in [1..n -> X] /\ bytes \in [1..m -> X]
  OBVIOUS
<1>2. ASSUME At(data, offset, bytes) PROVE offset + m <= n /\ cut = bytes
  <2>1. PICK before \in SubSeqs(data), after \in SubSeqs(data) :
               data = before \o bytes \o after /\ Len(before) = offset
    BY <1>2 DEF At
  <2>2. before \in Seq(X) /\ after \in Seq(X)
    BY SlicesTyped
  <2>3. n = offset + m + Len(after) /\ Len(after) \in Nat
    <3>1. before \o bytes \in Seq(X) /\ Len(before \o bytes) = Len(before) + Len(bytes)
      BY <2>2, ConcatIs
    <3> DEFINE r == before \o bytes
    <3> HIDE DEF r
    <3>2. r \in Seq(X) /\ after \in Seq(X)
      BY <2>2, <3>1 DEF r
    <3>3. Len(r \o after) = Len(r) + Len(after)
      BY <3>2, ConcatIs
    <3>4. Len(data) = Len(r) + Len(after)
      BY <2>1, <3>3 DEF r
    <3>5. Len(r) = offset + m
      BY <2>1, <3>1 DEF r
    <3>6. Len(after) \in Nat
      BY <2>2
    <3> QED  BY <3>4, <3>5, <3>6
  <2>4. offset + m <= n
    BY <2>3, <1>1
  <2>5. ASSUME NEW i \in 1..m PROVE data[offset + i] = bytes[i]
    <3>1. (before \o bytes)[offset + i] = bytes[i] /\ before \o bytes \in Seq(X)
          /\ Len(before \o bytes) = offset + m
      <4>1. (before \o bytes)[Len(before) + i] = bytes[i]
        BY <2>2, ConcatIs
      <4>2. before \o bytes \in Seq(X) /\ Len(before \o bytes) = Len(before) + Len(bytes)
        BY <2>2, ConcatIs
      <4> QED  BY <4>1, <4>2, <2>1
    <3>2. offset + i \in 1..offset + m
      OBVIOUS
    <3>3. ((before \o bytes) \o after)[offset + i] = (before \o bytes)[offset + i]
      BY <2>2, <3>1, <3>2
    <3> QED  BY <2>1, <3>1, <3>3
  <2> QED  BY <2>4, <2>5, <1>1
<1>3. ASSUME offset + m <= n, cut = bytes PROVE At(data, offset, bytes)
  <2> DEFINE before == SubSeq(data, 1, offset)
             after == SubSeq(data, offset + m + 1, n)
  <2>1. before \in Seq(X) /\ Len(before) = offset /\ \A i \in 1..offset : before[i] = data[i]
    <3>1. 0 \in Nat /\ 0 <= offset /\ offset <= n /\ offset - 0 = offset /\ 0 + 1 = 1
          /\ \A i \in 1..offset : 0 + i = i
      BY <1>1, <1>3
    <3>2. /\ SubSeq(data, 0 + 1, offset) \in Seq(X) /\ Len(SubSeq(data, 0 + 1, offset)) = offset - 0
          /\ \A i \in 1..offset - 0 : SubSeq(data, 0 + 1, offset)[i] = data[0 + i]
      BY <3>1, SliceIs
    <3> QED  BY <3>1, <3>2
  <2> DEFINE k == offset + m
  <2>2. after \in Seq(X) /\ Len(after) = n - k /\ \A i \in 1..n - k : after[i] = data[k + i]
    <3>1. k \in Nat /\ n \in Nat /\ k <= n /\ n <= Len(data)
      BY <1>1, <1>3
    <3> HIDE DEF n, k
    <3>2. SubSeq(data, k + 1, n) \in Seq(X) /\ Len(SubSeq(data, k + 1, n)) = n - k
          /\ \A i \in 1..n - k : SubSeq(data, k + 1, n)[i] = data[k + i]
      BY <3>1, SliceIs
    <3> QED  BY <3>2 DEF k
  <2>3. before \in SubSeqs(data) /\ after \in SubSeqs(data)
    <3>1. 0 \in 0..n /\ offset \in 0..n /\ k \in 0..n /\ n \in 0..n
      BY <1>1, <1>3
    <3>2. SubSeq(data, 0 + 1, offset) \in SubSeqs(data) /\ SubSeq(data, k + 1, n) \in SubSeqs(data)
      BY <3>1 DEF SubSeqs
    <3> QED  BY <3>2
  <2>4. \A i \in 1..m : bytes[i] = data[offset + i]
    <3>1. offset \in Nat /\ offset + m \in Nat /\ offset <= offset + m /\ offset + m <= Len(data)
          /\ (offset + m) - offset = m
      BY <1>1, <1>3
    <3>2. \A i \in 1..(offset + m) - offset : SubSeq(data, offset + 1, offset + m)[i] = data[offset + i]
      BY <3>1, SliceIs
    <3> QED  BY <3>1, <3>2, <1>3
  <2> HIDE DEF before, after
  <2>5. data = before \o bytes \o after
    <3> DEFINE r == before \o bytes
    <3>1. r \in Seq(X) /\ Len(r) = k
          /\ (\A i \in 1..offset : r[i] = before[i]) /\ \A i \in 1..m : r[offset + i] = bytes[i]
      <4>1. r \in Seq(X) /\ Len(r) = Len(before) + Len(bytes)
            /\ (\A i \in 1..Len(before) : r[i] = before[i])
            /\ \A i \in 1..Len(bytes) : r[Len(before) + i] = bytes[i]
        <5>1. before \in Seq(X) /\ bytes \in Seq(X)
          BY <2>1
        <5> HIDE DEF n, m, k
        <5> QED  BY <5>1, ConcatIs
      <4> QED  BY <4>1, <2>1
    <3> HIDE DEF r
    <3>2. /\ r \o after = [i \in 1..k + (n - k) |-> (r \o after)[i]]
          /\ (\A i \in 1..k : (r \o after)[i] = r[i])
          /\ \A i \in 1..n - k : (r \o after)[k + i] = after[i]
      <4>1. /\ r \o after = [i \in 1..Len(r) + Len(after) |-> (r \o after)[i]]
            /\ (\A i \in 1..Len(r) : (r \o after)[i] = r[i])
            /\ \A i \in 1..Len(after) : (r \o after)[Len(r) + i] = after[i]
        <5>1. r \in Seq(X) /\ after \in Seq(X)
          BY <2>2, <3>1
        <5> HIDE DEF n, m, k
        <5> QED  BY <5>1, ConcatIs
      <4> QED  BY <4>1, <2>2, <3>1
    <3>3. k + (n - k) = n /\ k \in Nat /\ k <= n
      BY <1>1, <1>3
    <3>4. ASSUME NEW i \in 1..n PROVE (r \o after)[i] = data[i]
      <4>1. CASE i <= offset
        <5>1. i \in 1..offset /\ i \in 1..k
          BY <4>1, <3>3, <1>1
        <5> QED  BY <5>1, <2>1, <3>1, <3>2
      <4>2. CASE offset < i /\ i <= k
        <5> DEFINE j == i - offset
        <5>1. j \in 1..m /\ i = offset + j /\ i \in 1..k
          BY <4>2, <3>3, <1>1
        <5> HIDE DEF j, k, n
        <5>2. (r \o after)[i] = r[i]
          BY <5>1, <3>2
        <5> QED  BY <5>1, <5>2, <2>4, <3>1
      <4>3. CASE k < i
        <5> DEFINE j == i - k
        <5>1. j \in 1..n - k /\ i = k + j
          BY <4>3, <3>3, <1>1
        <5> HIDE DEF j, k, n
        <5> QED  BY <5>1, <2>2, <3>2
      <4>4. i <= offset \/ (offset < i /\ i <= k) \/ k < i
        BY <3>3
      <4> QED  BY <4>1, <4>2, <4>3, <4>4
    <3>5. data = [i \in 1..n |-> data[i]]
      BY <1>1
    <3> HIDE DEF n, k
    <3>6. data = r \o after
      BY <3>2, <3>3, <3>4, <3>5
    <3> QED  BY <3>6 DEF r
  <2> QED  BY <2>1, <2>3, <2>5 DEF At
<1> QED  BY <1>2, <1>3

\* The value of bytes is the number they encode, and it is in their range.
LEMMA LeValueIs ==
    ASSUME NEW w \in Nat, NEW b \in [1..w -> Byte]
    PROVE  /\ le_value(b) \in Nat /\ le_value(b) < powers(Base)[w]
           /\ \A n \in Nat : n < powers(Base)[w] /\ Encodes(b, n) <=> n = le_value(b)
<1>1. Base \in Nat /\ Base > 1 /\ b \in [1..w -> 0..Base - 1]
  BY BaseTyped DEF Byte
<1>2. PICK v : tails(v, b, w, Base) /\ le_value(b) = v[1]
  BY <1>1, PolicyAssumption, LeValueTails
<1>3. v[1] \in Nat
  BY <1>2 DEF tails
<1>4. ASSUME NEW n \in Nat
      PROVE  (n < powers(Base)[w] /\ Encodes(b, n)) <=> n = v[1]
  <2>1. (n < powers(Base)[w] /\ \A i \in 1..w : b[i] = (n \div powers(Base)[i - 1]) % Base) <=> n = v[1]
    BY <1>1, <1>2, Positional
  <2>2. DOMAIN b = 1..w
    BY <1>1
  <2> QED  BY <2>1, <2>2 DEF Encodes
<1> QED  BY <1>2, <1>3, <1>4

\* A slice satisfies a comparison exactly when a number is written there that does.
LEMMA NumberMeans ==
    ASSUME NEW c \in DataConstraint, c.predicate.kind # "BytesEqual", NEW data \in Seq(Byte)
    PROVE  data_matches(c, data) <=> ConstraintMeans(c, data)
<1> DEFINE w == c.predicate.width
           k == c.offset
           cut == SubSeq(data, k + 1, k + w)
           holds(n) == compare(n, c.predicate.comparison, c.predicate.value)
<1>1. w \in Nat /\ k \in Nat /\ width(c) = w
  BY DEF DataConstraint, width
<1>2. data_matches(c, data) <=> k + w <= Len(data) /\ holds(le_value(cut))
  BY <1>1 DEF data_matches
<1>3. ConstraintMeans(c, data)
        <=> \E n \in 0..(powers(Base)[w] - 1), b \in [1..w -> 0..(Base - 1)] :
               Encodes(b, n) /\ At(data, k, b) /\ holds(n)
  BY DEF ConstraintMeans
<1> HIDE DEF w, k, cut, holds
<1>4. ASSUME k + w <= Len(data)
      PROVE  cut \in [1..w -> Byte] /\ cut \in Seq(Byte) /\ Len(cut) = w
  <2>1. k + w \in Nat /\ k <= k + w /\ (k + w) - k = w
    BY <1>1
  <2>2. cut \in Seq(Byte) /\ Len(cut) = w
    BY <1>1, <1>4, <2>1, SliceIs DEF cut
  <2>3. \A s \in Seq(Byte) : s \in [1..Len(s) -> Byte]
    OBVIOUS
  <2> QED  BY <2>2, <2>3
<1>5. ASSUME NEW b \in [1..w -> Byte]
      PROVE  At(data, k, b) <=> k + w <= Len(data) /\ cut = b
  <2>1. b \in Seq(Byte) /\ Len(b) = w
    BY <1>1
  <2>2. k \in Nat
    BY <1>1
  <2>3. At(data, k, b) <=> k + Len(b) <= Len(data) /\ SubSeq(data, k + 1, k + Len(b)) = b
    BY <2>1, <2>2, SliceAt
  <2> QED  BY <2>1, <2>3 DEF cut
<1>6. powers(Base)[w] \in Nat
  <2>1. Base \in Nat /\ Base > 0
    BY BaseTyped
  <2> QED  BY <2>1, <1>1, PowersPositive
<1>7. ASSUME data_matches(c, data) PROVE ConstraintMeans(c, data)
  <2>1. k + w <= Len(data) /\ holds(le_value(cut))
    BY <1>2, <1>7
  <2>2. cut \in [1..w -> Byte]
    BY <2>1, <1>4
  <2>3. le_value(cut) \in Nat /\ le_value(cut) < powers(Base)[w] /\ Encodes(cut, le_value(cut))
    BY <2>2, <1>1, LeValueIs
  <2>4. le_value(cut) \in 0..(powers(Base)[w] - 1)
    BY <2>3, <1>6
  <2>5. At(data, k, cut)
    BY <2>1, <2>2, <1>5
  <2> QED  BY <1>3, <2>1, <2>2, <2>3, <2>4, <2>5 DEF Byte
<1>8. ASSUME ConstraintMeans(c, data) PROVE data_matches(c, data)
  <2>1. PICK n \in 0..(powers(Base)[w] - 1), b \in [1..w -> 0..(Base - 1)] :
               Encodes(b, n) /\ At(data, k, b) /\ holds(n)
    BY <1>3, <1>8
  <2>2. b \in [1..w -> Byte] /\ n \in Nat /\ n < powers(Base)[w]
    BY <1>6 DEF Byte
  <2>3. n = le_value(b)
    BY <2>1, <2>2, <1>1, LeValueIs
  <2>4. k + w <= Len(data) /\ cut = b
    BY <2>1, <2>2, <1>5
  <2> QED  BY <1>2, <2>1, <2>3, <2>4
<1> QED  BY <1>7, <1>8

\* A slice equals some bytes exactly when they are found there.
LEMMA BytesMean ==
    ASSUME NEW c \in DataConstraint, c.predicate.kind = "BytesEqual", NEW data \in Seq(Byte)
    PROVE  data_matches(c, data) <=> ConstraintMeans(c, data)
<1> DEFINE k == c.offset
           b == c.predicate.bytes
<1>1. k \in Nat /\ b \in Seq(Byte) /\ width(c) = Len(b)
  BY DEF DataConstraint, width
<1>2. ConstraintMeans(c, data) <=> At(data, k, b)
  BY DEF ConstraintMeans
<1>3. data_matches(c, data)
        <=> k + width(c) <= Len(data) /\ SubSeq(data, k + 1, k + width(c)) = b
  BY DEF data_matches
<1> HIDE DEF k, b
<1>4. At(data, k, b) <=> k + Len(b) <= Len(data) /\ SubSeq(data, k + 1, k + Len(b)) = b
  BY <1>1, SliceAt
<1> QED  BY <1>1, <1>2, <1>3, <1>4

\* A number that fits is read back: some number is equal to it.
LEMMA NumberRead ==
    ASSUME NEW c \in DataConstraint, c.predicate.kind = "Unsigned", NEW data \in Seq(Byte),
           c.offset + width(c) <= Len(data)
    PROVE  \E n \in 0..(powers(Base)[c.predicate.width] - 1) :
               data_matches(Constraint(c.offset, Unsigned(c.predicate.width, "Equal", n)), data)
<1> DEFINE w == c.predicate.width
           k == c.offset
           cut == SubSeq(data, k + 1, k + w)
           n == le_value(cut)
           d == Constraint(k, Unsigned(w, "Equal", n))
<1>1. w \in Nat /\ k \in Nat /\ width(c) = w
  BY DEF DataConstraint, width
<1>2. cut \in [1..w -> Byte]
  <2>1. k + w \in Nat /\ k <= k + w /\ (k + w) - k = w /\ k + w <= Len(data)
    BY <1>1
  <2> HIDE DEF w, k
  <2>2. cut \in Seq(Byte) /\ Len(cut) = w
    BY <1>1, <2>1, SliceIs
  <2>3. \A s \in Seq(Byte) : s \in [1..Len(s) -> Byte]
    OBVIOUS
  <2> QED  BY <2>2, <2>3
<1>3. n \in 0..(powers(Base)[w] - 1)
  <2>1. n \in Nat /\ n < powers(Base)[w]
    <3> HIDE DEF w, k, cut
    <3> QED  BY <1>1, <1>2, LeValueIs
  <2>2. powers(Base)[w] \in Nat
    <3>1. Base \in Nat /\ Base > 0
      BY BaseTyped
    <3> QED  BY <3>1, <1>1, PowersPositive
  <2> HIDE DEF n, w
  <2> QED  BY <2>1, <2>2
<1>4. data_matches(d, data)
  <2> HIDE DEF cut
  <2>1. d.predicate.kind = "Unsigned" /\ d.offset = k /\ d.predicate.width = w
        /\ d.predicate.comparison = "Equal" /\ d.predicate.value = n
    BY DEF Constraint, Unsigned
  <2> HIDE DEF d
  <2>2. width(d) = w
    BY <2>1 DEF width
  <2>3. compare(n, "Equal", n)
    BY DEF compare
  <2>4. k + w <= Len(data)
    BY <1>1
  <2> HIDE DEF n, w, k
  <2>5. le_value(SubSeq(data, d.offset + 1, d.offset + width(d))) = n
    BY <2>1, <2>2 DEF n, cut
  <2> QED  BY <2>1, <2>2, <2>3, <2>4, <2>5 DEF data_matches
<1> QED  BY <1>3, <1>4

ListCosts == [cost : Nat, fits : BOOLEAN]
cost_of == [l \in ListCosts |-> l.cost]
Costs(lists) == Weigh(cost_of, lists)
Fit(lists) == \A l \in ToSet(lists) : l.fits

\* A list of lists that cost c in all, and fit when ok.
Allocates(lists, c, ok) ==
    /\ lists \in Seq(ListCosts) /\ c \in Nat /\ Costs(lists) = c
    /\ ok => Fit(lists)

\* What a list costs.
LEMMA CostTyped == cost_of \in [ListCosts -> Nat]
BY DEF cost_of, ListCosts

\* One list.
LEMMA ListedIs ==
    ASSUME NEW item \in {"byte", "permission", "rule", "account", "constraint"}, NEW n \in Nat, NEW max \in Nat
    PROVE  Allocates(<<Listed(item, n, max)>>, IF item = "byte" THEN n ELSE SizeOf[item] * n, n <= max)
<1> DEFINE l == Listed(item, n, max)
           c == IF item = "byte" THEN n ELSE SizeOf[item] * n
<1>1. c \in Nat /\ l.cost = c /\ l.fits = (n <= max) /\ l \in ListCosts
  <2>1. item # "byte" => SizeOf[item] \in Nat
    BY PolicyAssumption DEF PolicyAssumption
  <2>2. n * (IF item = "byte" THEN 1 ELSE SizeOf[item]) = c /\ c \in Nat
    BY <2>1
  <2> HIDE DEF c
  <2>3. l = [cost |-> c, fits |-> n <= max]
    BY <2>2 DEF Listed
  <2> QED  BY <2>2, <2>3 DEF ListCosts
<1> HIDE DEF l, c
<1>2. Costs(<<l>>) = c
  <2>1. Weigh(cost_of, <<l>>) = cost_of[l]
    BY <1>1, CostTyped, WeighFew
  <2> QED  BY <2>1, <1>1 DEF Costs, cost_of
<1>3. <<l>> \in Seq(ListCosts) /\ ToSet(<<l>>) = {l}
  BY <1>1 DEF ToSet
<1>4. Allocates(<<l>>, c, n <= max)
  BY <1>1, <1>2, <1>3 DEF Allocates, Fit
<1> QED  BY <1>4 DEF l, c

\* No list at all.
LEMMA NoneListed == Allocates(<< >>, 0, TRUE)
<1>1. Weigh(cost_of, << >>) = 0
  BY CostTyped, WeighFew
<1>2. << >> \in Seq(ListCosts) /\ ToSet(<< >>) = {}
  BY DEF ToSet
<1> QED  BY <1>1, <1>2 DEF Allocates, Fit, Costs

\* Lists in a row cost what they cost together, and fit when each does.
LEMMA ListsAppended ==
    ASSUME NEW s, NEW t, NEW c, NEW d, NEW ok, NEW good, Allocates(s, c, ok), Allocates(t, d, good)
    PROVE  Allocates(s \o t, c + d, ok /\ good)
<1>1. s \in Seq(ListCosts) /\ t \in Seq(ListCosts) /\ c \in Nat /\ d \in Nat
      /\ Costs(s) = c /\ Costs(t) = d
  BY DEF Allocates
<1>2. Costs(s \o t) = c + d
  BY <1>1, CostTyped, WeighConcat DEF Costs
<1>3. ToSet(s \o t) = ToSet(s) \cup ToSet(t)
  BY <1>1, ConcatHolds
<1>4. ok /\ good => Fit(s \o t)
  BY <1>3 DEF Allocates, Fit
<1>5. s \o t \in Seq(ListCosts) /\ c + d \in Nat
  BY <1>1
<1> QED  BY <1>2, <1>4, <1>5 DEF Allocates

\* So do the lists of several parts.
LEMMA ListsFlattened ==
    ASSUME NEW ss, NEW n \in Nat, DOMAIN ss = 1..n, ss = [i \in DOMAIN ss |-> ss[i]],
           NEW g, g = [i \in 1..n |-> g[i]], NEW ok,
           \A i \in 1..n : Allocates(ss[i], g[i], ok)
    PROVE  Allocates(FlattenSeq(ss), Total(g, 1..n), ok)
<1>1. ss \in Seq(Seq(ListCosts)) /\ \A i \in 1..n : g[i] \in Nat /\ Weigh(cost_of, ss[i]) = g[i]
  BY DEF Allocates, Costs
<1>2. g = Weights(cost_of, ss)
  BY <1>1 DEF Weights
<1>3. Weigh(cost_of, FlattenSeq(ss)) = Total(Weights(cost_of, ss), DOMAIN ss)
  <2>1. ss \in Seq(Seq(ListCosts))
    BY <1>1
  <2> QED  BY <2>1, CostTyped, WeighFlatten
<1>4. Costs(FlattenSeq(ss)) = Total(g, 1..n)
  BY <1>2, <1>3 DEF Costs
<1>5. /\ FlattenSeq(ss) \in Seq(ListCosts)
      /\ ToSet(FlattenSeq(ss)) = UNION {ToSet(ss[i]) : i \in DOMAIN ss}
  BY <1>1, FlattenSeqHolds
<1>6. ok => Fit(FlattenSeq(ss))
  <2>1. ok => \A i \in 1..n : Fit(ss[i])
    BY DEF Allocates
  <2> QED  BY <2>1, <1>5 DEF Fit
<1>7. Total(g, 1..n) \in Nat
  <2>1. IsFiniteSet(1..n) /\ g \in [1..n -> Nat]
    <3>1. IsFiniteSet(1..n)
      BY FS_Interval
    <3>2. [i \in 1..n |-> g[i]] \in [1..n -> Nat]
      BY <1>1
    <3> QED  BY <3>1, <3>2
  <2> QED  BY <2>1, TotalType
<1> QED  BY <1>4, <1>5, <1>6, <1>7 DEF Allocates

\* The bytes a constraint compares are counted as they are allocated.
LEMMA PredicateListed ==
    ASSUME NEW c \in DataConstraint
    PROVE  match_bytes(c) \in Nat /\ Allocates(predicate_lists(c), match_bytes(c), validate(c))
<1>1. MaxMatch \in Nat
  BY PolicyAssumption DEF PolicyAssumption
<1>2. CASE c.predicate.kind = "BytesEqual"
  <2> DEFINE n == Len(c.predicate.bytes)
  <2>1. n \in Nat
    BY <1>2 DEF DataConstraint
  <2>2. match_bytes(c) = n /\ predicate_lists(c) = <<Listed("byte", n, MaxMatch)>>
        /\ (validate(c) => n <= MaxMatch)
    BY <1>1, <1>2, <2>1 DEF match_bytes, predicate_lists, validate
  <2> HIDE DEF n
  <2>3. Allocates(<<Listed("byte", n, MaxMatch)>>, IF "byte" = "byte" THEN n ELSE SizeOf["byte"] * n, n <= MaxMatch)
    BY <1>1, <2>1, ListedIs
  <2>4. Allocates(<<Listed("byte", n, MaxMatch)>>, n, n <= MaxMatch)
    BY <2>3
  <2> QED  BY <2>1, <2>2, <2>4 DEF Allocates
<1>3. CASE c.predicate.kind # "BytesEqual"
  <2>1. match_bytes(c) = 0 /\ predicate_lists(c) = << >>
    BY <1>3 DEF match_bytes, predicate_lists
  <2> QED  BY <2>1, NoneListed DEF Allocates
<1> QED  BY <1>2, <1>3

\* The sums of InstructionPolicy, as totals.
LEMMA MatchesSummed ==
    ASSUME NEW S, NEW seq
    PROVE  MapThenSumSet(LAMBDA i : match_bytes(seq[i]), S) = Total([i \in S |-> match_bytes(seq[i])], S)
BY DEF Total, MapThenSumSet, MapThenFoldSet

LEMMA AccountsSummed ==
    ASSUME NEW S, NEW seq
    PROVE  MapThenSumSet(LAMBDA i : account_heap(seq[i]), S) = Total([i \in S |-> account_heap(seq[i])], S)
BY DEF Total, MapThenSumSet, MapThenFoldSet

LEMMA RulesSummed ==
    ASSUME NEW S, NEW seq
    PROVE  MapThenSumSet(LAMBDA i : rule_heap(seq[i]), S) = Total([i \in S |-> rule_heap(seq[i])], S)
BY DEF Total, MapThenSumSet, MapThenFoldSet

LEMMA PermissionsSummed ==
    ASSUME NEW S, NEW seq
    PROVE  MapThenSumSet(LAMBDA i : permission_heap(seq[i]), S) = Total([i \in S |-> permission_heap(seq[i])], S)
BY DEF Total, MapThenSumSet, MapThenFoldSet

LEMMA CostsSummed ==
    ASSUME NEW S, NEW seq
    PROVE  MapThenSumSet(LAMBDA i : seq[i].cost, S) = Total([i \in S |-> seq[i].cost], S)
BY DEF Total, MapThenSumSet, MapThenFoldSet

\* The bounds and the sizes are natural numbers.
LEMMA SizeTyped ==
    /\ {MaxMatch, MaxConstraints, MaxRules, MaxPermissions} \subseteq Nat
    /\ \A item \in {"permission", "rule", "account", "constraint"} : SizeOf[item] \in Nat
BY PolicyAssumption DEF PolicyAssumption

\* So are those of a list of constraints,
LEMMA ConstraintsListed ==
    ASSUME NEW s \in Seq(DataConstraint)
    PROVE  Allocates(constraint_lists(s), list_bytes("constraint", s) + total(match_bytes, s),
                     Len(s) <= MaxConstraints /\ \A i \in DOMAIN s : validate(s[i]))
<1> DEFINE n == Len(s)
           ss == [i \in DOMAIN s |-> predicate_lists(s[i])]
           g == [i \in 1..n |-> match_bytes(s[i])]
           ok == \A i \in DOMAIN s : validate(s[i])
           head == <<Listed("constraint", n, MaxConstraints)>>
<1>1. n \in Nat /\ DOMAIN s = 1..n /\ \A i \in DOMAIN s : s[i] \in DataConstraint
  BY SequenceTyped
<1>2. total(match_bytes, s) = Total(g, 1..n)
  BY <1>1, MatchesSummed DEF total
<1>3. constraint_lists(s) = head \o FlattenSeq(ss)
  BY DEF constraint_lists
<1>4. DOMAIN ss = 1..n /\ ss = [i \in DOMAIN ss |-> ss[i]] /\ g = [i \in 1..n |-> g[i]]
  BY <1>1
<1>5. ASSUME NEW i \in 1..n PROVE Allocates(ss[i], g[i], ok)
  <2>1. s[i] \in DataConstraint /\ ss[i] = predicate_lists(s[i]) /\ g[i] = match_bytes(s[i])
        /\ (ok => validate(s[i]))
    BY <1>1
  <2> HIDE DEF ss, g, ok
  <2> QED  BY <2>1, PredicateListed DEF Allocates
<1> HIDE DEF n, ss, g, ok, head
<1>6. Allocates(FlattenSeq(ss), Total(g, 1..n), ok)
  BY <1>1, <1>4, <1>5, ListsFlattened
<1>7. Allocates(head, SizeOf["constraint"] * n, n <= MaxConstraints)
  <2>1. Allocates(<<Listed("constraint", n, MaxConstraints)>>,
                  IF "constraint" = "byte" THEN n ELSE SizeOf["constraint"] * n, n <= MaxConstraints)
    BY <1>1, SizeTyped, ListedIs
  <2> QED  BY <2>1 DEF head
<1>8. Allocates(head \o FlattenSeq(ss), SizeOf["constraint"] * n + Total(g, 1..n), n <= MaxConstraints /\ ok)
  BY <1>6, <1>7, ListsAppended
<1> QED  BY <1>2, <1>3, <1>8 DEF list_bytes, n, ok
\* of the constraints of all accounts of a rule,
LEMMA AccountsListed ==
    ASSUME NEW s \in Seq(AccountConstraint)
    PROVE  Allocates(FlattenSeq([i \in DOMAIN s |-> constraint_lists(s[i].data)]), total(account_heap, s),
                     \A i \in DOMAIN s : /\ Len(s[i].data) <= MaxConstraints
                                         /\ \A k \in DOMAIN s[i].data : validate(s[i].data[k]))
<1> DEFINE n == Len(s)
           ss == [i \in DOMAIN s |-> constraint_lists(s[i].data)]
           g == [i \in 1..n |-> account_heap(s[i])]
           fine(i) == /\ Len(s[i].data) <= MaxConstraints
                      /\ \A k \in DOMAIN s[i].data : validate(s[i].data[k])
           ok == \A i \in DOMAIN s : fine(i)
<1>1. n \in Nat /\ DOMAIN s = 1..n /\ \A i \in DOMAIN s : s[i] \in AccountConstraint
  BY SequenceTyped
<1>2. total(account_heap, s) = Total(g, 1..n)
  BY <1>1, AccountsSummed DEF total
<1>3. DOMAIN ss = 1..n /\ ss = [i \in DOMAIN ss |-> ss[i]] /\ g = [i \in 1..n |-> g[i]]
  BY <1>1
<1>4. ASSUME NEW i \in 1..n PROVE Allocates(ss[i], g[i], ok)
  <2>1. s[i].data \in Seq(DataConstraint) /\ ss[i] = constraint_lists(s[i].data) /\ g[i] = account_heap(s[i])
    BY <1>1 DEF AccountConstraint
  <2>2. ok => fine(i)
    BY <1>1
  <2> HIDE DEF ss, g, ok
  <2>3. Allocates(constraint_lists(s[i].data),
                  list_bytes("constraint", s[i].data) + total(match_bytes, s[i].data), fine(i))
    BY <2>1, ConstraintsListed
  <2>4. Allocates(ss[i], g[i], fine(i))
    BY <2>1, <2>3 DEF account_heap
  <2> HIDE DEF fine
  <2> QED  BY <2>2, <2>4 DEF Allocates
<1> HIDE DEF n, ss, g, ok
<1>5. Allocates(FlattenSeq(ss), Total(g, 1..n), ok)
  BY <1>1, <1>3, <1>4, ListsFlattened
<1> QED  BY <1>2, <1>5 DEF ss, ok

\* What must hold of a rule for its lists to fit.
fitting(rule) ==
    /\ Len(rule.selector) <= MaxMatch
    /\ Len(rule.accounts) <= MaxConstraints
    /\ Len(rule.arguments) <= MaxConstraints
    /\ \A i \in DOMAIN rule.arguments : validate(rule.arguments[i])
    /\ \A i \in DOMAIN rule.accounts :
           /\ Len(rule.accounts[i].data) <= MaxConstraints
           /\ \A k \in DOMAIN rule.accounts[i].data : validate(rule.accounts[i].data[k])

\* A rule that may be saved fits.
LEMMA ValidFits ==
    ASSUME NEW rule \in InstructionRule, validate_rule(rule)
    PROVE  fitting(rule)
<1>1. Len(rule.selector) \in 1..MaxMatch /\ MaxMatch \in Nat
  BY SizeTyped DEF validate_rule
<1>2. Len(rule.selector) <= MaxMatch
  BY <1>1
<1> QED  BY <1>2 DEF validate_rule, fitting

\* of a rule,
LEMMA RuleListed ==
    ASSUME NEW rule \in InstructionRule
    PROVE  Allocates(rule_lists(rule), rule_heap(rule), fitting(rule))
<1> DEFINE n == Len(rule.selector)
           m == Len(rule.accounts)
           first == Listed("byte", n, MaxMatch)
           second == Listed("account", m, MaxConstraints)
           ss == FlattenSeq([i \in DOMAIN rule.accounts |-> constraint_lists(rule.accounts[i].data)])
           args == constraint_lists(rule.arguments)
           acc == total(account_heap, rule.accounts)
           arg == list_bytes("constraint", rule.arguments) + total(match_bytes, rule.arguments)
           accOK == \A i \in DOMAIN rule.accounts :
                       /\ Len(rule.accounts[i].data) <= MaxConstraints
                       /\ \A k \in DOMAIN rule.accounts[i].data : validate(rule.accounts[i].data[k])
           argOK == Len(rule.arguments) <= MaxConstraints
                      /\ \A i \in DOMAIN rule.arguments : validate(rule.arguments[i])
           size == SizeOf["account"] * m
<1>1. rule.selector \in Seq(Byte) /\ rule.accounts \in Seq(AccountConstraint)
      /\ rule.arguments \in Seq(DataConstraint)
  BY DEF InstructionRule
<1>2. n \in Nat /\ m \in Nat
  BY <1>1, SequenceTyped
<1>3. Allocates(ss, acc, accOK)
  BY <1>1, AccountsListed
<1>4. Allocates(args, arg, argOK)
  BY <1>1, ConstraintsListed
<1>5. rule_lists(rule) = (<<first, second>> \o ss) \o args
  BY DEF rule_lists
<1>6. rule_heap(rule) = (((n + size) + list_bytes("constraint", rule.arguments))
                            + total(match_bytes, rule.arguments)) + acc
  BY DEF rule_heap, list_bytes
<1>7. accOK /\ argOK /\ n <= MaxMatch /\ m <= MaxConstraints <=> fitting(rule)
  BY DEF fitting
<1> HIDE DEF n, m, ss, args, acc, accOK, argOK
<1>8. Allocates(<<first>>, n, n <= MaxMatch)
  <2>1. Allocates(<<Listed("byte", n, MaxMatch)>>, IF "byte" = "byte" THEN n ELSE SizeOf["byte"] * n, n <= MaxMatch)
    BY <1>2, SizeTyped, ListedIs
  <2> QED  BY <2>1
<1>9. Allocates(<<second>>, size, m <= MaxConstraints)
  <2>1. Allocates(<<Listed("account", m, MaxConstraints)>>,
                  IF "account" = "byte" THEN m ELSE SizeOf["account"] * m, m <= MaxConstraints)
    BY <1>2, SizeTyped, ListedIs
  <2> QED  BY <2>1
<1> HIDE DEF first, second, size, arg
<1>10. <<first>> \o <<second>> = <<first, second>>
  <2> DEFINE X == {first, second}
  <2>1. first \in X /\ second \in X
    OBVIOUS
  <2> HIDE DEF X
  <2> QED  BY <2>1, PairAppended
<1> DEFINE lenOK == n <= MaxMatch /\ m <= MaxConstraints
           bothOK == lenOK /\ accOK
<1>11. Allocates(<<first, second>>, n + size, lenOK)
  BY <1>8, <1>9, <1>10, ListsAppended
<1> HIDE DEF lenOK
<1>12. Allocates(<<first, second>> \o ss, (n + size) + acc, bothOK)
  BY <1>3, <1>11, ListsAppended
<1> HIDE DEF bothOK
<1>13. Allocates((<<first, second>> \o ss) \o args, ((n + size) + acc) + arg,
                 bothOK /\ argOK)
  BY <1>4, <1>12, ListsAppended
<1>14. ((n + size) + acc) + arg = rule_heap(rule)
  <2>1. list_bytes("constraint", rule.arguments) \in Nat
    <3>1. Len(rule.arguments) \in Nat /\ SizeOf["constraint"] \in Nat
      BY <1>1, SequenceTyped, SizeTyped
    <3> QED  BY <3>1 DEF list_bytes
  <2>2. total(match_bytes, rule.arguments) \in Nat
    <3>1. Len(rule.arguments) \in Nat /\ DOMAIN rule.arguments = 1..Len(rule.arguments)
          /\ \A i \in DOMAIN rule.arguments : rule.arguments[i] \in DataConstraint
      BY <1>1, SequenceTyped
    <3> DEFINE d == DOMAIN rule.arguments
               g == [i \in d |-> match_bytes(rule.arguments[i])]
    <3>2. g \in [d -> Nat]
      BY <3>1, PredicateListed
    <3>3. IsFiniteSet(d)
      BY <3>1, FS_Interval
    <3>4. total(match_bytes, rule.arguments) = Total(g, d)
      BY MatchesSummed DEF total
    <3> HIDE DEF g, d
    <3> QED  BY <3>2, <3>3, <3>4, TotalType
  <2>3. n \in Nat /\ size \in Nat /\ acc \in Nat
    BY <1>8, <1>9, <1>3 DEF Allocates
  <2> QED  BY <1>6, <2>1, <2>2, <2>3 DEF arg
<1> QED  BY <1>5, <1>7, <1>13, <1>14 DEF Allocates, lenOK, bothOK

\* What must hold of a permission for its lists to fit.
permission_fits(p) ==
    p.access.kind = "Restricted" =>
        /\ Len(p.access.rules) <= MaxRules
        /\ \A k \in DOMAIN p.access.rules : fitting(p.access.rules[k])

\* and of a permission.
LEMMA PermissionListed ==
    ASSUME NEW p \in ProgramPermission
    PROVE  Allocates(permission_lists(p), permission_heap(p), permission_fits(p))
<1> DEFINE rules == p.access.rules
           n == Len(rules)
           ss == [i \in DOMAIN rules |-> rule_lists(rules[i])]
           g == [i \in 1..n |-> rule_heap(rules[i])]
           ok == \A i \in DOMAIN rules : fitting(rules[i])
           head == <<Listed("rule", n, MaxRules)>>
<1>1. rules \in Seq(InstructionRule) /\ (p.access.kind # "Restricted" => rules = << >>)
  <2>1. p.access \in ProgramAccess
    BY DEF ProgramPermission
  <2>2. << >> \in Seq(InstructionRule)
    OBVIOUS
  <2>3. CASE p.access \in [kind : {"Restricted"}, rules : Seq(InstructionRule)]
    BY <2>3
  <2>4. CASE p.access = Denied
    BY <2>2, <2>4 DEF Denied
  <2>5. CASE p.access = AllInstructions
    BY <2>2, <2>5 DEF AllInstructions
  <2> QED  BY <2>1, <2>3, <2>4, <2>5 DEF ProgramAccess
<1>2. n \in Nat /\ DOMAIN rules = 1..n /\ \A i \in DOMAIN rules : rules[i] \in InstructionRule
  BY <1>1, SequenceTyped
<1>3. permission_heap(p) = SizeOf["rule"] * n + Total(g, 1..n)
  BY <1>2, RulesSummed DEF permission_heap, list_bytes, total
<1>4. CASE p.access.kind = "Restricted"
  <2>1. permission_lists(p) = head \o FlattenSeq(ss)
    BY <1>4 DEF permission_lists
  <2>2. DOMAIN ss = 1..n /\ ss = [i \in DOMAIN ss |-> ss[i]] /\ g = [i \in 1..n |-> g[i]]
    BY <1>2
  <2>3. ASSUME NEW i \in 1..n PROVE Allocates(ss[i], g[i], ok)
    <3>1. rules[i] \in InstructionRule /\ ss[i] = rule_lists(rules[i]) /\ g[i] = rule_heap(rules[i])
          /\ (ok => fitting(rules[i]))
      BY <1>2
    <3> HIDE DEF ss, g, ok
    <3> QED  BY <3>1, RuleListed DEF Allocates
  <2>4. permission_fits(p) => n <= MaxRules /\ ok
    BY <1>4 DEF permission_fits
  <2> HIDE DEF n, ss, g, ok, head
  <2>5. Allocates(FlattenSeq(ss), Total(g, 1..n), ok)
    BY <1>2, <2>2, <2>3, ListsFlattened
  <2>6. Allocates(head, SizeOf["rule"] * n, n <= MaxRules)
    <3>1. Allocates(<<Listed("rule", n, MaxRules)>>,
                    IF "rule" = "byte" THEN n ELSE SizeOf["rule"] * n, n <= MaxRules)
      BY <1>2, SizeTyped, ListedIs
    <3> QED  BY <3>1 DEF head
  <2>7. Allocates(head \o FlattenSeq(ss), SizeOf["rule"] * n + Total(g, 1..n), n <= MaxRules /\ ok)
    BY <2>5, <2>6, ListsAppended
  <2> QED  BY <1>3, <2>1, <2>4, <2>7 DEF Allocates
<1>5. CASE p.access.kind # "Restricted"
  <2>1. permission_lists(p) = << >> /\ n = 0 /\ 1..n = {}
    BY <1>1, <1>5 DEF permission_lists
  <2>2. Total(g, 1..n) = 0
    <3>1. g = [i \in {} |-> g[i]]
      BY <2>1
    <3> HIDE DEF g, n
    <3> QED  BY <2>1, <3>1, TotalOfNone
  <2>3. SizeOf["rule"] * n = 0
    <3>1. SizeOf["rule"] \in Nat
      BY SizeTyped
    <3> HIDE DEF n
    <3> QED  BY <2>1, <3>1
  <2>4. permission_heap(p) = 0
    BY <1>3, <2>2, <2>3
  <2> QED  BY <2>1, <2>4, NoneListed DEF Allocates
<1> QED  BY <1>4, <1>5

\* What can be saved can be read back.
LEMMA SavedIsDecoded ==
    ASSUME NEW p \in Seq(ProgramPermission), validate_permissions(p)
    PROVE  decode_permissions(p)
<1> DEFINE n == Len(p)
           ss == [i \in DOMAIN p |-> permission_lists(p[i])]
           g == [i \in 1..n |-> permission_heap(p[i])]
           head == <<Listed("permission", n, MaxPermissions)>>
           lists == head \o FlattenSeq(ss)
<1>1. n \in Nat /\ DOMAIN p = 1..n /\ \A i \in DOMAIN p : p[i] \in ProgramPermission
  BY SequenceTyped
<1>2. heap_bytes(p) = SizeOf["permission"] * n + Total(g, 1..n)
  BY <1>1, PermissionsSummed DEF heap_bytes, list_bytes, total
<1>3. ASSUME NEW i \in 1..n PROVE permission_fits(p[i])
  <2>1. ASSUME p[i].access.kind = "Restricted"
        PROVE  /\ Len(p[i].access.rules) <= MaxRules
               /\ \A k \in DOMAIN p[i].access.rules : fitting(p[i].access.rules[k])
    <3>1. /\ Len(p[i].access.rules) \in 1..MaxRules
          /\ \A k \in DOMAIN p[i].access.rules : validate_rule(p[i].access.rules[k])
      BY <1>1, <2>1 DEF validate_permissions
    <3>2. p[i].access.rules \in Seq(InstructionRule)
      BY <1>1, <2>1 DEF ProgramPermission, ProgramAccess, Denied, AllInstructions
    <3>3. \A k \in DOMAIN p[i].access.rules : p[i].access.rules[k] \in InstructionRule
      BY <3>2, SequenceTyped
    <3>4. MaxRules \in Nat
      BY SizeTyped
    <3> QED  BY <3>1, <3>3, <3>4, ValidFits
  <2> QED  BY <2>1 DEF permission_fits
<1>4. DOMAIN ss = 1..n /\ ss = [i \in DOMAIN ss |-> ss[i]] /\ g = [i \in 1..n |-> g[i]]
  BY <1>1
<1>5. ASSUME NEW i \in 1..n PROVE Allocates(ss[i], g[i], TRUE)
  <2>1. p[i] \in ProgramPermission /\ ss[i] = permission_lists(p[i]) /\ g[i] = permission_heap(p[i])
    BY <1>1
  <2> HIDE DEF ss, g
  <2> QED  BY <2>1, <1>3, PermissionListed DEF Allocates
<1>6. n <= MaxPermissions /\ heap_bytes(p) <= MaxHeap
  BY DEF validate_permissions
<1> HIDE DEF n, ss, g, head
<1>7. Allocates(FlattenSeq(ss), Total(g, 1..n), TRUE)
  BY <1>1, <1>4, <1>5, ListsFlattened
<1>8. Allocates(head, SizeOf["permission"] * n, n <= MaxPermissions)
  <2>1. Allocates(<<Listed("permission", n, MaxPermissions)>>,
                  IF "permission" = "byte" THEN n ELSE SizeOf["permission"] * n, n <= MaxPermissions)
    BY <1>1, SizeTyped, ListedIs
  <2> QED  BY <2>1 DEF head
<1>9. Allocates(lists, SizeOf["permission"] * n + Total(g, 1..n), n <= MaxPermissions /\ TRUE)
  BY <1>7, <1>8, ListsAppended
<1> DEFINE costs == [i \in DOMAIN lists |-> lists[i].cost]
<1>10. lists \in Seq(ListCosts) /\ Fit(lists) /\ Costs(lists) = heap_bytes(p)
  BY <1>2, <1>6, <1>9 DEF Allocates
<1>11. lists = head \o FlattenSeq(ss)
  OBVIOUS
<1> HIDE DEF lists
<1>12. DOMAIN lists = 1..Len(lists) /\ Len(lists) \in Nat /\ \A i \in DOMAIN lists : lists[i] \in ListCosts
  BY <1>10, SequenceTyped
<1>13. \A i \in DOMAIN lists : lists[i].fits
  BY <1>10 DEF Fit, ToSet
<1>14. [i \in DOMAIN lists |-> cost_of[lists[i]]] = costs
  BY <1>12 DEF cost_of
<1>15. total(LAMBDA l : l.cost, lists) = Costs(lists)
  BY <1>14, CostsSummed DEF total, Costs, Weigh
<1>16. total(LAMBDA l : l.cost, lists) <= MaxHeap
  BY <1>6, <1>10, <1>15
<1>17. lists = <<Listed("permission", Len(p), MaxPermissions)>>
                 \o FlattenSeq([i \in DOMAIN p |-> permission_lists(p[i])])
  BY <1>11 DEF head, ss, n
<1> QED  BY <1>13, <1>16, <1>17 DEF decode_permissions

\* The rules of a policy, and the arguments they constrain, are of their types.
LEMMA ArgumentTyped ==
    ASSUME NEW p \in Seq(ProgramPermission), NEW rule \in rules_of(p)
    PROVE  /\ rule \in InstructionRule
           /\ \A c \in Range(rule.arguments) : c \in DataConstraint
           /\ validate_permissions(p) => validate_rule(rule)
<1>1. PICK i \in DOMAIN p : rule \in Range(p[i].access.rules)
  BY DEF rules_of
<1>2. PICK k \in DOMAIN p[i].access.rules : rule = p[i].access.rules[k]
  BY <1>1 DEF Range
<1>3. rule \in InstructionRule /\ p[i].access.kind = "Restricted"
  BY <1>2, RuleTyped
<1>4. rule.arguments \in Seq(DataConstraint)
  BY <1>3 DEF InstructionRule
<1>5. \A c \in Range(rule.arguments) : c \in DataConstraint
  BY <1>4, SequenceTyped DEF Range
<1>6. validate_permissions(p) => validate_rule(rule)
  BY <1>2, <1>3 DEF validate_permissions
<1> QED  BY <1>3, <1>5, <1>6

\* The data of a call are bytes.
LEMMA CalledData ==
    ASSUME message \in Messages, NEW i \in DOMAIN message.body
    PROVE  message.body[i].data \in Seq(Byte)
<1>1. message.body \in Seq(Instruction)
  BY MessagesAssumption
<1>2. message.body[i] \in Instruction
  BY <1>1, SequenceTyped
<1> QED  BY <1>2 DEF Instruction

\* What the owner has saved was validated.
PolicySaved ==
    /\ message \in Messages
    /\ \A p \in policy : p \in Policies /\ validate_permissions(p)

\* A saved policy means what it says.
LEMMA SavedMeans == PolicySaved => ConstraintsMean
<1> SUFFICES ASSUME PolicySaved, NEW p \in policy, NEW rule \in rules_of(p),
                    NEW i \in DOMAIN message.body, NEW c \in Range(rule.arguments)
             PROVE  data_matches(c, message.body[i].data) <=> ConstraintMeans(c, message.body[i].data)
  BY DEF ConstraintsMean
<1>1. p \in Seq(ProgramPermission)
  BY PoliciesAssumption DEF PolicySaved
<1>2. c \in DataConstraint
  BY <1>1, ArgumentTyped
<1>3. message.body[i].data \in Seq(Byte)
  BY CalledData DEF PolicySaved
<1>4. CASE c.predicate.kind = "BytesEqual"
  BY <1>2, <1>3, <1>4, BytesMean
<1>5. CASE c.predicate.kind # "BytesEqual"
  BY <1>2, <1>3, <1>5, NumberMeans
<1> QED  BY <1>4, <1>5

\* And it stays usable.
LEMMA SavedUsed == PolicySaved => SavedIsUsable
<1> SUFFICES ASSUME PolicySaved, NEW p \in policy
             PROVE  /\ decode_permissions(p)
                    /\ \A rule \in rules_of(p), i \in DOMAIN message.body :
                           rule.data_length = {Len(message.body[i].data)} =>
                               \A c \in Range(rule.arguments) :
                                   c.predicate.kind = "Unsigned" =>
                                       \E n \in 0..(powers(Base)[c.predicate.width] - 1) :
                                           data_matches(Constraint(c.offset, Unsigned(c.predicate.width, "Equal", n)),
                                                        message.body[i].data)
  BY DEF SavedIsUsable
<1>1. p \in Seq(ProgramPermission) /\ validate_permissions(p)
  BY PoliciesAssumption DEF PolicySaved
<1>2. decode_permissions(p)
  BY <1>1, SavedIsDecoded
<1>3. ASSUME NEW rule \in rules_of(p), NEW i \in DOMAIN message.body,
             rule.data_length = {Len(message.body[i].data)},
             NEW c \in Range(rule.arguments), c.predicate.kind = "Unsigned"
      PROVE  \E n \in 0..(powers(Base)[c.predicate.width] - 1) :
                 data_matches(Constraint(c.offset, Unsigned(c.predicate.width, "Equal", n)),
                              message.body[i].data)
  <2>1. c \in DataConstraint /\ validate_rule(rule)
    BY <1>1, ArgumentTyped
  <2>2. message.body[i].data \in Seq(Byte)
    BY CalledData DEF PolicySaved
  <2>3. argument_fits(c, Len(message.body[i].data))
    BY <1>3, <2>1 DEF validate_rule, Range
  <2>4. c.offset + width(c) <= Len(message.body[i].data)
    BY <2>3 DEF argument_fits
  <2> QED  BY <1>3, <2>1, <2>2, <2>4, NumberRead
<1> QED  BY <1>2, <1>3

\* The first policy was validated,
LEMMA SavedInit == Init => PolicySaved
  BY DEF Init, PolicySaved

\* and so is every later one.
LEMMA SavedStep == PolicySaved /\ [Next]_vars => PolicySaved'
<1> SUFFICES ASSUME PolicySaved, [Next]_vars PROVE PolicySaved'
  OBVIOUS
<1>1. ASSUME policy' = policy, message' = message PROVE PolicySaved'
  BY <1>1 DEF PolicySaved
<1>2. CASE PipelineStep
  BY <1>1, <1>2 DEF PipelineStep, outside
<1>3. CASE Produce
  BY <1>1, <1>3 DEF Produce
<1>4. CASE Abort
  BY <1>1, <1>4 DEF Abort, outside
<1>5. ASSUME NEW p \in Policies, SavePolicy(p) PROVE PolicySaved'
  BY <1>5 DEF SavePolicy, PolicySaved
<1>6. CASE UNCHANGED vars
  BY <1>1, <1>6 DEF vars, outside
<1> QED  BY <1>2, <1>3, <1>4, <1>5, <1>6 DEF Next

\* A policy the owner could save means what it says, whatever the message and the
\* lengths: a slice read as a little-endian number is the number written there,
\* and what saving counts of the memory is what decoding allocates
\* (instruction_policy.rs: matches, validate_permissions, heap_bytes, budget).
THEOREM AlwaysPoliciesHold == Spec => []PoliciesHold
<1>1. PolicySaved => PoliciesHold
  BY SavedMeans, SavedUsed DEF PoliciesHold
<1>2. Spec => []PolicySaved
  BY SavedInit, SavedStep, PTL DEF Spec
<1> QED  BY <1>1, <1>2, PTL
=============================================================================
