----------------------------- MODULE PolicyPanel -----------------------------
(***************************************************************************)
(* The web app's panel for the policy of an accessory: the status view     *)
(* with its matrix of what is allowed, the editor with its drafts, the     *)
(* mutations that save, restore and turn off the policy, and the view of   *)
(* the policy in the query cache, which a mutation patches with what it    *)
(* expects the program to store.                                           *)
(*                                                                         *)
(* Around it are the program, other devices of the owner, taps that draw   *)
(* on the caps, and the clock.  AppTransactions has the interplay of       *)
(* patches, rollbacks and fetches; here it is what a patch and a draft     *)
(* contain.  The SOL cap and the mint caps are one function of the asset.  *)
(***************************************************************************)
EXTENDS SpendingLimit, FiniteSets, Powers

CONSTANTS
    Sol, Mints,       \* assets; wrapped SOL is Sol
    SolDecimals,
    Decimals,         \* of the verified tokens: a function of some mints
    Typed,            \* what users type into an amount field
    PanelWindows,     \* POLICY_WINDOW_PRESETS
    DefaultWindow,    \* DEFAULT_POLICY_WINDOW
    Presets,          \* policyPresets: functions from assets to terms
    PresetDecimals,   \* of the token of the presets
    MaxMintCaps,
    PanelPrograms,
    Capabilities,     \* POLICY_BASELINE_CAPABILITIES: sets of programs
    FirstPolicies,    \* policies the accessory may start with
    OtherPolicies,    \* what other devices save
    Charges,          \* what taps draw on a cap
    Saves, NoSave,    \* calls of the mutations
    MaxTouched,       \* bound on the assets and programs changed in one editing
    MaxWrites,        \* bound on the policies written
    MaxNow            \* bound on chain time

Assets == {Sol} \cup Mints

\* What the program may have stored, and what callers pass.
FirstPolicyOK(v) ==
    /\ v = [status |-> v.status, caps |-> v.caps, permissions |-> v.permissions]
    /\ v.status \in {"none", "open", "active"}
    /\ v.caps \in [DOMAIN v.caps -> SpendCap]

ASSUME PanelAssumption ==
    /\ SolDecimals \in Nat /\ PresetDecimals \in Nat
    /\ Decimals \in [DOMAIN Decimals -> Nat]
    /\ Typed \subseteq {[kind |-> k, digits |-> 0, scale |-> 0] : k \in {"blank", "dot"}}
                      \cup [kind : {"number"}, digits : Nat, scale : Nat]
    /\ PanelWindows \subseteq Nat /\ DefaultWindow \in Nat
    /\ \A preset \in Presets : preset \in [DOMAIN preset -> [cap : Nat, window : Nat]]
    /\ \A v \in FirstPolicies : FirstPolicyOK(v)
    /\ \A args \in OtherPolicies :
           /\ args.kind \in {"set", "clear"}
           /\ args.kind = "set" => args.caps \in [DOMAIN args.caps -> [cap : Nat, window : Nat]]
    /\ Charges \subseteq Nat
    /\ NoSave \notin Saves

VARIABLES
    stored,  \* on the chain: [status, caps, permissions]
    writes,  \* history: policies written so far
    now,     \* Clock::unix_timestamp, and Date.now()
    shown,   \* the view of the policy in the query cache
    tokens,  \* the query of verified tokens: "loaded" or "failed"
    editor,  \* PolicyLimitEditor, or NoForm
    save     \* each call of a mutation

account == <<stored, writes, now>>
panel   == <<account, shown, tokens, editor, save>>

None_ == [status |-> "none", caps |-> <<>>, permissions |-> <<>>]
Open_ == [None_ EXCEPT !.status = "open"]

-----------------------------------------------------------------------------
(* Amounts: what a field holds, and what it stands for.                    *)

Blank == [kind |-> "blank", digits |-> 0, scale |-> 0]
Dot   == [kind |-> "dot", digits |-> 0, scale |-> 0]
Number(digits, scale) == [kind |-> "number", digits |-> digits, scale |-> scale]

\* Mutant: a draft starts from the compact amount other pages show.
formatCompactTokenAmount(raw, decimals) == Number(raw \div pow10[decimals], 0)

\* Trailing zeros of the fraction are cut.
formatTokenAmount(raw, decimals) ==
    LET scale == CHOOSE s \in 0 .. decimals :
                     /\ raw % pow10[decimals - s] = 0
                     /\ \A t \in 0 .. s - 1 : raw % pow10[decimals - t] # 0
    IN  Number(raw \div pow10[decimals - scale], scale)

\* Number(".") is not a number, hence not at most 0, and "." is worth 0.
amount_fits(text, decimals) ==
    \/ text.kind = "dot"
    \/ text.kind = "number" /\ text.digits > 0 /\ text.scale <= decimals

uiAmountToRaw(text, decimals) == text.digits * pow10[decimals - text.scale]

-----------------------------------------------------------------------------
(* The program.                                                            *)

asset_cap(caps, a) == IF a \in DOMAIN caps THEN caps[a] ELSE InactiveCap

accepted(args) ==
    /\ stored.status # "none"
    /\ args.kind = "set" =>
           \A a \in DOMAIN args.caps : valid_cap_args(args.caps[a].cap, args.caps[a].window)

written(args) ==
    IF args.kind = "clear" THEN Open_
    ELSE [status |-> "active",
          caps |-> [a \in DOMAIN args.caps |->
                      preserve_spend_cap(
                          new_spend_cap(args.caps[a].cap, args.caps[a].window, now),
                          asset_cap(stored.caps, a))],
          permissions |-> args.permissions]

\* How much of a program's instructions a tap may call.
reach(p) ==
    IF stored.status = "none" THEN "nothing"
    ELSE IF stored.status = "open" THEN "all"
    ELSE IF p \notin DOMAIN stored.permissions
    THEN IF p \in UNION Capabilities THEN "all" ELSE "nothing"
    ELSE CASE stored.permissions[p] = "AllInstructions" -> "all"
           [] stored.permissions[p] = "Denied" -> "nothing"
           [] OTHER -> "some"

-----------------------------------------------------------------------------
(* The view.                                                               *)

accessKind(access) ==
    CASE access = "AllInstructions" -> "allow"
      [] access = "Denied" -> "deny"
      [] OTHER -> "custom"

policy_status(caps, permissions) ==
    IF DOMAIN caps = {} /\ DOMAIN permissions = {} THEN "standard" ELSE "limited"

\* useWalletPolicy.
fetched ==
    IF stored.status = "active"
    THEN [stored EXCEPT !.status = policy_status(stored.caps, stored.permissions)]
    ELSE stored

\* Mutant: a cap counts as the same when its amount is.
optimistic_by_amount(next, prev) ==
    IF prev.cap = next.cap THEN prev
    ELSE [cap |-> next.cap, remaining |-> next.cap, last_reset |-> now, window_seconds |-> next.window]

optimisticCapView(next, prev) ==
    IF prev.cap = next.cap /\ prev.window_seconds = next.window THEN prev
    ELSE [cap |-> next.cap, remaining |-> next.cap, last_reset |-> now, window_seconds |-> next.window]

buildOptimisticWalletPolicyView(args) ==
    IF args.kind = "clear" THEN Open_
    ELSE [status |-> policy_status(args.caps, args.permissions),
          caps |-> [a \in DOMAIN args.caps |->
                      optimisticCapView(args.caps[a], asset_cap(shown.caps, a))],
          permissions |-> args.permissions]

-----------------------------------------------------------------------------
(* The matrix: a row for each capability and each further program with an  *)
(* override; what has no row is blocked.                                   *)

kinds(S) == {accessKind(shown.permissions[p]) : p \in S \cap DOMAIN shown.permissions}

\* Mutant: the override of one program of a capability hides the other's.
row_by_majority(S) == IF "allow" \in kinds(S) \/ kinds(S) = {} THEN "allow"
                      ELSE IF "custom" \in kinds(S) THEN "custom" ELSE "deny"

row(S) ==
    IF "deny" \in kinds(S) THEN "deny" ELSE IF "custom" \in kinds(S) THEN "custom" ELSE "allow"

\* The programs of the row p is in.
row_of(p) == UNION ({{p}} \cup {c \in Capabilities : p \in c})

PermissionMatrix(p) ==
    CASE shown.status = "none" -> "deny"
      [] shown.status = "open" -> "allow"
      [] shown.status = "standard" -> IF p \in UNION Capabilities THEN "allow" ELSE "deny"
      [] OTHER -> IF p \in DOMAIN shown.permissions \cup UNION Capabilities
                  THEN row(row_of(p)) ELSE "deny"

-----------------------------------------------------------------------------
(* The editor.  A draft of an asset has the text of its amount, its window *)
(* and the decimals by which to read it, -1 when the mint is not listed;   *)
(* of such a draft the raw cap is kept and nothing can be edited.          *)

Unlisted == -1

catalog == IF tokens = "loaded" THEN Decimals ELSE <<>>
decimals_of(a) == IF a = Sol THEN SolDecimals
                  ELSE IF a \in DOMAIN catalog THEN catalog[a] ELSE Unlisted

Draft(decimals, text, window, raw) ==
    [decimals |-> decimals, text |-> text, window |-> window, raw |-> raw]

draft_of(d, cap, window) ==
    Draft(d, IF d = Unlisted THEN Blank ELSE formatTokenAmount(cap, d), window, cap)

\* The status view; it knows the mutations it has started itself.
StatusView(started) == [open |-> FALSE, started |-> started]
NoForm == StatusView({})

terms(v) ==
    [caps |-> [a \in DOMAIN v.caps |-> <<v.caps[a].cap, v.caps[a].window_seconds>>],
     permissions |-> v.permissions]

\* Mounted anew, it starts from the view of that moment, and never looks again.
initialForm ==
    [open |-> TRUE,
     drafts |-> [a \in DOMAIN shown.caps |->
                   draft_of(decimals_of(a), shown.caps[a].cap, shown.caps[a].window_seconds)],
     programs |-> [p \in DOMAIN shown.permissions |->
                     [kind |-> accessKind(shown.permissions[p]), access |-> shown.permissions[p]]],
     confirm |-> "none", program |-> NoSave,
     busy |-> NoSave,
     touched |-> {},                               \* history
     basis |-> IF terms(shown) = terms(fetched) THEN writes ELSE -1]

editing   == editor.open /\ editor.confirm = "none"
with(f, x, v) == [y \in DOMAIN f \cup {x} |-> IF y = x THEN v ELSE f[y]]
without(f, x) == [y \in DOMAIN f \ {x} |-> f[y]]

\* One change by the user.
Edit(new, what) ==
    /\ Cardinality(editor.touched \cup what) <= MaxTouched
    /\ editor' = [new EXCEPT !.touched = @ \cup what]
    /\ UNCHANGED <<account, shown, tokens, save>>

OpenEditor ==
    /\ ~editor.open
    /\ shown.status \in {"standard", "limited"}
    /\ editor' = initialForm
    /\ UNCHANGED <<account, shown, tokens, save>>

\* The back button works while a save is pending, Cancel does not.
CloseEditor ==
    /\ editing
    /\ editor' = NoForm
    /\ UNCHANGED <<account, shown, tokens, save>>

ChangeAmount(a, text) ==
    /\ editing /\ a \in DOMAIN editor.drafts
    /\ editor.drafts[a].decimals # Unlisted
    /\ Edit([editor EXCEPT !.drafts[a].text = text], {a})

ChangeWindow(a, w) ==
    /\ editing /\ a \in DOMAIN editor.drafts
    /\ editor.drafts[a].decimals # Unlisted
    /\ Edit([editor EXCEPT !.drafts[a].window = w], {a})

RemoveDraft(a) ==
    /\ editing /\ a \in DOMAIN editor.drafts
    /\ Edit([editor EXCEPT !.drafts = without(@, a)], {a})

addable == {a \in {Sol} \cup DOMAIN catalog :
              /\ a \notin DOMAIN editor.drafts
              /\ a = Sol \/ Cardinality(DOMAIN editor.drafts \ {Sol}) < MaxMintCaps}

AddToken(a) ==
    /\ editing /\ a \in addable
    /\ Edit([editor EXCEPT !.drafts = with(@, a, Draft(decimals_of(a), Blank, DefaultWindow, 0))], {a})

ApplyPreset(preset) ==
    /\ editing /\ DOMAIN shown.caps = {} /\ DOMAIN editor.drafts = {}
    /\ Edit([editor EXCEPT !.drafts =
               [a \in DOMAIN preset |->
                   draft_of(IF decimals_of(a) = Unlisted THEN PresetDecimals ELSE decimals_of(a),
                            preset[a].cap, preset[a].window)]],
            DOMAIN preset)

AddProgram(p) ==
    /\ editing /\ p \notin DOMAIN editor.programs
    /\ Edit([editor EXCEPT !.programs = with(@, p, [kind |-> "deny", access |-> NoSave])], {p})

\* Programs with rules of their own have no toggle.
DenyProgram(p) ==
    /\ editing /\ p \in DOMAIN editor.programs /\ editor.programs[p].kind = "allow"
    /\ Edit([editor EXCEPT !.programs[p].kind = "deny"], {p})

AllowProgram(p) ==
    /\ editing /\ p \in DOMAIN editor.programs /\ editor.programs[p].kind = "deny"
    /\ Edit([editor EXCEPT !.confirm = "switch", !.program = p], {p})

RemoveProgram(p) ==
    /\ editing /\ p \in DOMAIN editor.programs
    /\ Edit([editor EXCEPT !.programs = without(@, p)], {p})

-----------------------------------------------------------------------------
(* Saving.                                                                 *)

Idle == [phase |-> "idle"]
Done == [phase |-> "over"]

Args(kind, caps, permissions) == [kind |-> kind, caps |-> caps, permissions |-> permissions]
Everyday == Args("set", <<>>, <<>>)
TurnOff  == Args("clear", <<>>, <<>>)

draft_fits(d) == d.decimals = Unlisted \/ amount_fits(d.text, d.decimals)

draft_args(d) ==
    [cap |-> IF d.decimals = Unlisted THEN d.raw ELSE uiAmountToRaw(d.text, d.decimals),
     window |-> d.window]

programAccessArg(p) ==
    CASE p.kind = "allow" -> "AllInstructions"
      [] p.kind = "deny" -> "Denied"
      [] OTHER -> p.access

form_args ==
    Args("set", [a \in DOMAIN editor.drafts |-> draft_args(editor.drafts[a])],
         [p \in DOMAIN editor.programs |-> programAccessArg(editor.programs[p])])

Mutation(args, basis, touched) ==
    [phase |-> "signing", args |-> args, basis |-> basis, touched |-> touched, snap |-> None_, patch |-> None_]

\* With an amount that does not parse there is an error at its field and no call.
commitSave(s, new) ==
    IF \A a \in DOMAIN editor.drafts : draft_fits(editor.drafts[a])
    THEN /\ save' = [save EXCEPT ![s] = Mutation(form_args, editor.basis, editor.touched)]
         /\ editor' = [new EXCEPT !.busy = s]
    ELSE editor' = new /\ UNCHANGED save

\* A save that allows a program asks first.
Save(s) ==
    /\ editing /\ editor.busy = NoSave /\ save[s] = Idle
    /\ IF \E p \in DOMAIN editor.programs : editor.programs[p].kind = "allow"
       THEN editor' = [editor EXCEPT !.confirm = "save"] /\ UNCHANGED save
       ELSE commitSave(s, editor)
    /\ UNCHANGED <<account, shown, tokens>>

confirmAllowDanger(s) ==
    /\ editor.open /\ save[s] = Idle
    /\ LET closed == [editor EXCEPT !.confirm = "none", !.program = NoSave]
       IN  \/ /\ editor.confirm = "switch"
              /\ editor' = [closed EXCEPT !.programs[editor.program].kind = "allow"]
              /\ UNCHANGED save
           \/ editor.confirm = "save" /\ commitSave(s, closed)
    /\ UNCHANGED <<account, shown, tokens>>

DismissConfirm ==
    /\ editor.open /\ editor.confirm # "none"
    /\ editor' = [editor EXCEPT !.confirm = "none", !.program = NoSave]
    /\ UNCHANGED <<account, shown, tokens, save>>

unanswered(s) == save[s].phase \in {"signing", "taken", "landed"}

\* The status view's Restore and Turn off, each after its dialog.
FromStatusView(s, args) ==
    /\ ~editor.open /\ save[s] = Idle
    /\ \/ args = TurnOff /\ shown.status \in {"standard", "limited"}
       \/ args = Everyday /\ shown.status \in {"open", "limited"}
    /\ \A t \in editor.started : unanswered(t) => save[t].args.kind # args.kind
    /\ save' = [save EXCEPT ![s] = Mutation(args, writes, Assets \cup PanelPrograms)]
    /\ editor' = StatusView(editor.started \cup {s})
    /\ UNCHANGED <<account, shown, tokens>>

\* The RPC takes it, having simulated it.  Before its answer is back it may
\* land, and the view may be fetched.
SaveTaken(s) ==
    /\ save[s].phase = "signing"
    /\ accepted(save[s].args)
    /\ save' = [save EXCEPT ![s].phase = "taken"]
    /\ UNCHANGED <<account, shown, tokens, editor>>

\* The answer is back: the view, as it is by now, is patched, the editor that
\* waited for it closes.
Broadcast(s) ==
    /\ save[s].phase \in {"taken", "landed"}
    /\ LET patch == buildOptimisticWalletPolicyView(save[s].args)
       IN  /\ save' = [save EXCEPT ![s] =
                          IF save[s].phase = "landed" THEN Done
                          ELSE [@ EXCEPT !.phase = "inflight", !.snap = shown, !.patch = patch]]
           /\ shown' = patch
    /\ editor' = IF editor.open /\ editor.busy = s THEN NoForm ELSE editor
    /\ UNCHANGED <<account, tokens>>

\* The editor stays open, with its drafts.  When it is the answer of the RPC
\* that is lost, the save may yet land.  (Retries are AppTransactions'.)
SaveFails(s) ==
    /\ unanswered(s)
    /\ save' = [save EXCEPT ![s] =
                   IF save[s].phase = "taken" THEN [@ EXCEPT !.phase = "unheard"] ELSE Done]
    /\ editor' = IF editor.open /\ editor.busy = s THEN [editor EXCEPT !.busy = NoSave] ELSE editor
    /\ UNCHANGED <<account, shown, tokens>>

may_land(s) == save[s].phase \in {"taken", "inflight", "unheard"}

SaveLands(s) ==
    /\ may_land(s)
    /\ accepted(save[s].args) /\ writes < MaxWrites
    /\ stored' = written(save[s].args)
    /\ writes' = writes + 1
    /\ save' = [save EXCEPT ![s] =
                   IF save[s].phase = "taken" THEN [@ EXCEPT !.phase = "landed"] ELSE Done]
    /\ UNCHANGED <<now, shown, tokens, editor>>

\* It does not land, and the watcher restores the snapshot.
SaveDies(s) ==
    /\ save[s].phase = "inflight"
    /\ shown' = save[s].snap
    /\ save' = [save EXCEPT ![s] = Done]
    /\ UNCHANGED <<account, tokens, editor>>

-----------------------------------------------------------------------------
(* Everything else.                                                        *)

Refetch ==
    /\ shown' = fetched
    /\ UNCHANGED <<account, tokens, editor, save>>

\* The list of tokens, having failed, is fetched again: meanwhile the editor
\* shows a skeleton, and comes back with its drafts from the start.
RefetchTokens ==
    /\ tokens = "failed"
    /\ tokens' \in {"loaded", "failed"}
    /\ UNCHANGED <<account, shown, save>>
    /\ editor' = IF editor.open THEN initialForm' ELSE editor

TapSpends(a) ==
    /\ stored.status = "active" /\ a \in DOMAIN stored.caps
    /\ \E n \in Charges :
          /\ can_charge(stored.caps[a], n, now)
          /\ stored' = [stored EXCEPT !.caps[a] = charge_cap(@, n, now)]
    /\ UNCHANGED <<writes, now, shown, tokens, editor, save>>

OtherDevice(args) ==
    /\ writes < MaxWrites
    /\ accepted(args)
    /\ stored' = written(args)
    /\ writes' = writes + 1
    /\ UNCHANGED <<now, shown, tokens, editor, save>>

Unlinked ==
    /\ writes < MaxWrites /\ stored.status # "none"
    /\ stored' = None_
    /\ writes' = writes + 1
    /\ UNCHANGED <<now, shown, tokens, editor, save>>

PanelTick ==
    /\ now < MaxNow
    /\ now' = now + 1
    /\ UNCHANGED <<stored, writes, shown, tokens, editor, save>>

PanelInit ==
    /\ stored \in FirstPolicies
    /\ writes = 0 /\ now = 0
    /\ shown = fetched
    /\ tokens \in {"loaded", "failed"}
    /\ editor = NoForm
    /\ save = [s \in Saves |-> Idle]

PanelNext ==
    \/ OpenEditor \/ CloseEditor \/ DismissConfirm
    \/ \E a \in Assets :
          \/ RemoveDraft(a) \/ AddToken(a) \/ TapSpends(a)
          \/ \E text \in Typed : ChangeAmount(a, text)
          \/ \E w \in PanelWindows : ChangeWindow(a, w)
    \/ \E preset \in Presets : ApplyPreset(preset)
    \/ \E p \in PanelPrograms :
          AddProgram(p) \/ DenyProgram(p) \/ AllowProgram(p) \/ RemoveProgram(p)
    \/ \E s \in Saves :
          \/ Save(s) \/ confirmAllowDanger(s)
          \/ \E args \in {Everyday, TurnOff} : FromStatusView(s, args)
          \/ SaveTaken(s) \/ Broadcast(s) \/ SaveFails(s) \/ SaveLands(s) \/ SaveDies(s)
    \/ Refetch \/ RefetchTokens \/ PanelTick \/ Unlinked
    \/ \E args \in OtherPolicies \cup {TurnOff} : OtherDevice(args)

PanelSpec == PanelInit /\ [][PanelNext]_panel

-----------------------------------------------------------------------------
(* A save changes what its user changed.  When it lands, with no other     *)
(* policy written since its editor was opened on the policy of the chain,  *)
(* every cap the user did not touch is as it was, with what taps have      *)
(* spent meanwhile, and every permission, rules included.                  *)
UntouchedKept ==
    [][\A s \in Saves :
          /\ may_land(s) /\ stored' # stored /\ save'[s] # save[s]
          /\ save[s].basis = writes
          => /\ \A a \in Assets \ save[s].touched :
                   asset_cap(stored'.caps, a) = asset_cap(stored.caps, a)
             /\ \A p \in PanelPrograms \ save[s].touched :
                   /\ p \in DOMAIN stored'.permissions <=> p \in DOMAIN stored.permissions
                   /\ p \in DOMAIN stored.permissions =>
                          stored'.permissions[p] = stored.permissions[p]]_panel

\* Where a window began, the page counts from the save, the program from its grid.
same_but_anchor(c, d) ==
    /\ c.cap = d.cap /\ c.remaining = d.remaining /\ c.window_seconds = d.window_seconds
    /\ c.remaining < c.cap => c.last_reset = d.last_reset

\* The patch of a save under way is what a fetch would return once it lands,
\* if the view it was computed from is the policy it lands on: status, caps,
\* what is left of them, permissions.
PatchForetells ==
    \A s \in Saves :
        save[s].phase = "inflight" /\ accepted(save[s].args) /\ save[s].snap = fetched
        => LET after == written(save[s].args)
               patch == save[s].patch
           IN  /\ patch.status = IF after.status = "active"
                                 THEN policy_status(after.caps, after.permissions)
                                 ELSE after.status
               /\ patch.permissions = after.permissions
               /\ DOMAIN patch.caps = DOMAIN after.caps
               /\ \A a \in DOMAIN after.caps : same_but_anchor(patch.caps[a], after.caps[a])

\* The matrix never shows more than the program allows: with the view of the
\* chain, a row that allows is open to all instructions of its programs, one
\* with custom rules denies none outright, and what is shown as blocked is
\* blocked, or shares its row with a program that is.
MatrixIsSafe ==
    shown = fetched =>
        \A p \in PanelPrograms :
            /\ PermissionMatrix(p) = "allow" => reach(p) = "all"
            /\ PermissionMatrix(p) = "custom" => \E q \in row_of(p) : reach(q) = "some"
            /\ PermissionMatrix(p) = "custom" => reach(p) # "nothing"
            /\ PermissionMatrix(p) = "deny" => \E q \in row_of(p) : reach(q) = "nothing"
=============================================================================
