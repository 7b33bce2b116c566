------------------------------ MODULE MCSecrets ------------------------------
(***************************************************************************)
(* Two identities and a cluster that want one Secret, or an identity and a *)
(* cluster with a Secret that the operator creates again after it is gone. *)
(***************************************************************************)
EXTENDS IdentitySecrets

CONSTANTS i1, i2, c1

Contests == { <<{i1, i2, c1}, 1>>, <<{i1, c1}, 2>> }
=============================================================================
