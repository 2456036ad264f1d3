--------------------------- MODULE MCKillSwitch ---------------------------
(* KillSwitch for TLC. *)
EXTENDS KillSwitchClaims, TLC

CONSTANTS t1, t2

Symmetry == Permutations(Tunnels)
=============================================================================
