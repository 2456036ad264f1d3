-------------------------- MODULE KillSwitchClaims --------------------------
(* What the documentation of vortix says of the kill switch where the code    *)
(* does otherwise, as a property of KillSwitch.                               *)
EXTENDS KillSwitch

\* README.md:93 and 273: the rules survive restarts and crashes, so a process
\* that starts leaves an engaged firewall engaged.  VpnRuntime::new and
\* new_headless disable it and delete the state file.
RulesSurviveRestart ==
    [][\A p \in Procs :
        proc[p].phase = "down" /\ proc'[p].phase # "down" /\ fw.on => fw'.on]_vars
=============================================================================
