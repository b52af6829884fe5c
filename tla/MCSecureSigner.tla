--------------------------- MODULE MCSecureSigner ---------------------------
(***************************************************************************)
(* A signer with one request of each kind and one that does not decode; a  *)
(* wallet the transaction is for, and one it is not for.                   *)
(***************************************************************************)
EXTENDS SecureSigner

CONSTANTS create, unlock, sign, export, bad, mine, other

MCType == [i \in Ids |-> CASE i = create -> "create"
                           [] i = unlock -> "unlock"
                           [] i \in {sign, bad} -> "sign"
                           [] i = export -> "export"]

MCSigners == [i \in Ids |-> IF i = sign THEN {mine} ELSE {}]
=============================================================================
