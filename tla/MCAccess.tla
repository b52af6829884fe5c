------------------------------ MODULE MCAccess ------------------------------
(***************************************************************************)
(* Two scenes of one run: the routes of the API that open an accessory,    *)
(* and the web app's way to its pages.  They share no variable, so a       *)
(* behaviour moves one of them and leaves the other at rest.               *)
(***************************************************************************)
EXTENDS Access, AccessoryRoutes, TLC

VARIABLE scene

scenes == <<scene, access, routes>>

NoCookies == [browse |-> NoAccessory, ownerBrowse |-> NoAccessory, session |-> FALSE]

ScenesInit ==
    /\ scene \in {"api", "route"}
    /\ AccessInit
    /\ RoutesInit
    /\ cookies.ownerBrowse = NoAccessory
    /\ IF scene = "route" THEN jar = SignedOutJar /\ blobs = NoRow /\ authority = [t \in Tokens |-> None]
       ELSE going = HomePage /\ cookies = NoCookies /\ owners = [t \in Accessories |-> "me"]

ScenesNext ==
    \/ scene = "api" /\ AccessNext /\ UNCHANGED <<scene, routes>>
    \/ scene = "route" /\ RoutesNext /\ UNCHANGED <<scene, access>>

ScenesSpec == ScenesInit /\ [][ScenesNext]_scenes

Symmetry == Permutations(Tokens) \cup Permutations(Keys)
               \cup Permutations(Challenges) \cup Permutations(Requests)

=============================================================================
