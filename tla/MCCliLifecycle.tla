--------------------------- MODULE MCCliLifecycle ---------------------------
(* Two CLI processes, two profiles that claim the default route, one of each *)
(* protocol.                                                                 *)
EXTENDS CliLifecycle

CONSTANTS c1, c2, w1, wg, ovpn

BothClash == {{wg, ovpn}}
=============================================================================
