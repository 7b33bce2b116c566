----------------------------- MODULE MCIPWaiter -----------------------------
(***************************************************************************)
(* Two devices: one with both leases and one with a static address that    *)
(* does not have to be waited for.  The guest may get two IPv4 addresses,  *)
(* a link local one, and one on a card without a device spec.              *)
(***************************************************************************)
EXTENDS IPWaiter

Wanted == {"v4", "v6", "static"}

Filled == [ a4 |-> "v4", b4 |-> "v4", a6 |-> "v6", st |-> "static",
            ll |-> "linkLocal", xx |-> "unknownMac" ]
=============================================================================
