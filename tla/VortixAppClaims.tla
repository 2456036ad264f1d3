-------------------------- MODULE VortixAppClaims --------------------------
(* What the documentation and the comments say of the control plane where    *)
(* the code does otherwise; each is refuted by a run of its own.             *)
EXTENDS VortixApp, FiniteSets

\* registry.rs, detect_conflict: connecting a profile must not "violate the
\* single-default-route invariant".  At most one default-route tunnel is up,
\* as long as nobody confirms a takeover.
SingleDefaultRoute == Cardinality({p \in DefaultRoute : kernel[p] = "on"}) <= 1

\* README, Kill Switch: "engages only if the VPN drops unexpectedly".  What
\* scanner_handle_drop takes for a drop is a tunnel the kernel has lost.
DropIsReal ==
    [][\A p \in Profiles : conn[p] = "connected" /\ conn'[p] = "absent" => kernel[p] # "on"]_vars
=============================================================================
