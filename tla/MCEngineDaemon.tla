-------------------------- MODULE MCEngineDaemon --------------------------
(* Two connections of the daemon's user, one of another user, and a profile  *)
(* of each protocol: p is WireGuard's, q is OpenVPN's.                       *)
EXTENDS EngineDaemon

CONSTANTS a, b, x, p, q

\* Three commands in all, from two clients; a refused connection needs one.
RequestBudget == [c \in Conns |-> IF c = a THEN 2 ELSE 1]
=============================================================================
