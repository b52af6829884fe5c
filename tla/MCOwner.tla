------------------------------ MODULE MCOwner ------------------------------
(***************************************************************************)
(* Three scenes of one run, about the owner's wallet: the signer with its  *)
(* requests (MCSecureSigner), the review of a transaction (MCReview), and  *)
(* how wallets are made, backed up and given accessories (OwnerSetup).     *)
(* They share no variable, so a behaviour moves one of them, chosen at the *)
(* start, and leaves the others at rest.                                   *)
(***************************************************************************)
EXTENDS MCSecureSigner, MCReview, OwnerSetup

VARIABLE scene

scenes == <<scene, vars, review, owning>>

In(s) == scene = s

OwnerInit ==
    /\ scene \in {"signer", "review", "setup"}
    /\ Init
    /\ ~In("signer") => local = NoWallet
    /\ ReviewInit
    /\ ~In("review") => tx = Wire(<<>>, {"mine"}, <<>>)
    /\ SetupInit
    /\ ~In("setup") => storage = [p \in Phones |-> NoBlob]

OwnerNext ==
    \/ In("signer") /\ Next /\ UNCHANGED <<scene, review, owning>>
    \/ In("review") /\ ReviewNext /\ UNCHANGED <<scene, vars, owning>>
    \/ In("setup") /\ SetupNext /\ UNCHANGED <<scene, vars, review>>

OwnerSpec == OwnerInit /\ [][OwnerNext]_scenes
=============================================================================
