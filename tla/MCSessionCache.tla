--------------------------- MODULE MCSessionCache ---------------------------
(***************************************************************************)
(* Two keys on two servers.                                                *)
(***************************************************************************)
EXTENDS SessionCache, TLC

CONSTANTS k1, k2, v1, v2

TwoServers == (k1 :> v1) @@ (k2 :> v2)
=============================================================================
