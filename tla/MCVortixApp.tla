---------------------------- MODULE MCVortixApp ----------------------------
(* Values for the instances of the control plane.                            *)
EXTENDS VortixAppClaims

AllKeys   == KeyKinds
NoSwitch  == KeyKinds \ {"switch"}
\* The daemons of App_core exit when they are told to, those of App_live may not.
QuickFaults == FaultKinds \ {"linger", "stuck"}
=============================================================================
