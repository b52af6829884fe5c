------------------------------ MODULE MCWebApp ------------------------------
(***************************************************************************)
(* Four scenes of one run: a page of the web app with its transactions and *)
(* queries, the policy panel, the pages that pay, and a signature by       *)
(* tapping (MCTapPipeline).  They share no variable, so a behaviour moves  *)
(* one of them, chosen at the start, and leaves the others at rest.        *)
(***************************************************************************)
EXTENDS AppTransactions, PolicyPanel, MCPaymentPages, MCTapPipeline

CONSTANTS mint, p3

VARIABLE scene

scenes == <<scene, app, panel, pages, vars>>

In(s) == scene = s

Scenes == {"page", "panel", "pay", "tap"}

WebInit ==
    /\ scene \in Scenes
    /\ Init
    /\ ~In("tap") => message = (CHOOSE m \in Messages : TRUE) /\ policy = {}
    /\ AppInit
    /\ ~In("page") => query = "balance" /\ cache = NotLoaded
    /\ PanelInit
    /\ ~In("panel") => stored = None_ /\ tokens = "failed"
    /\ PagesInit
    /\ ~In("pay") => On("top up") /\ login = "none" /\ loaded = {}

\* Bound: of two mutations a tap signs the one, the owner the other.
ByTap == CHOOSE r \in Runs : TRUE
OneTapped ==
    mutation => \A r \in Runs : run[r].phase # "idle" =>
                   (run[r].mode = "policy" <=> r = ByTap)

WebNext ==
    \/ In("page") /\ AppNext /\ OneTapped' /\ UNCHANGED <<scene, panel, pages, vars>>
    \/ In("panel") /\ PanelNext /\ UNCHANGED <<scene, app, pages, vars>>
    \/ In("pay") /\ PagesNext /\ UNCHANGED <<scene, app, panel, vars>>
    \/ In("tap") /\ Next /\ UNCHANGED <<scene, app, panel, pages>>

WebSpec == WebInit /\ [][WebNext]_scenes

-----------------------------------------------------------------------------
(* The panel: a cap of SOL with one decimal, one mint, two programs of one *)
(* capability and another.  A first cap has been drawn on, programs have   *)
(* rules of their own.  The amount typed is 1.5 ("." is refused on chain);  *)
(* other devices turn the policy off.                                      *)

Cap(amount, remaining, window) ==
    [cap |-> amount, remaining |-> remaining, last_reset |-> 0, window_seconds |-> window]

Policy(caps, permissions) == [status |-> "active", caps |-> caps, permissions |-> permissions]

MCDecimals == [a \in {mint} |-> 1]
MCTyped    == {Number(15, 1)}
MCPresets  == {[a \in {mint} |-> [cap |-> 3, window |-> 2]]}
MCFirstPolicies ==
    {None_, Policy(<<>>, [p \in {p2} |-> "rules"]),
     Policy([a \in {sol, mint} |-> IF a = sol THEN Cap(15, 15, 2) ELSE Cap(13, 12, 0)],
            [p \in {p1, p3} |-> IF p = p1 THEN "Denied" ELSE "rules"])}
MCCapabilities == {{p1, p2}}
=============================================================================
