-------------------------- MODULE KillSwitchPolicy --------------------------
(* The pure part of the kill switch: modes, states, the mode -> state        *)
(* decision, and what the Linux firewall backends do with a ruleset.  The    *)
(* processes that run these operators are in KillSwitch.                     *)
EXTENDS FiniteSets

CONSTANTS
    Tunnels,    \* the profiles whose tunnels can be up
    Backend,    \* the firewall tool found on the machine
    Faults      \* what the environment is allowed to do, see FaultKinds

Modes   == {"Off", "Auto", "AlwaysOn"}
KsStates == {"Disabled", "Armed", "Blocking"}
Backends == {"iptables", "nftables"}

FaultKinds ==
    {"crash",         \* a process dies between the two halves of a sync
     "enable",        \* the firewall command that loads a ruleset fails
     "remove",        \* the firewall command that removes the rules fails
     "record",        \* killswitch.state can be neither written nor removed
     "beside",        \* a CLI command runs while a TUI is running
     "unprivileged",  \* a process is started without root
     "external"}      \* tunnels are started outside vortix

ASSUME BackendAssumption == Backend \in Backends
ASSUME FaultsAssumption == Faults \subseteq FaultKinds

-----------------------------------------------------------------------------
(* KillSwitchMode *)

NextMode(mode) ==
    CASE mode = "Off"      -> "Auto"
      [] mode = "Auto"     -> "AlwaysOn"
      [] mode = "AlwaysOn" -> "Off"

\* Mutants: Auto blocks whenever nothing is connected; Off is taken for a state.
DesiredStateEager(mode, old, connected) ==
    CASE mode = "Off"      -> "Disabled"
      [] mode = "Auto"     -> IF ~connected THEN "Blocking" ELSE "Armed"
      [] mode = "AlwaysOn" -> "Blocking"

DesiredStateMixed(mode, old, connected) ==
    CASE mode = "Off"      -> "Off"
      [] mode = "Auto"     -> IF ~connected /\ old = "Blocking" THEN "Blocking" ELSE "Armed"
      [] mode = "AlwaysOn" -> "Blocking"

DesiredState(mode, old, connected) ==
    CASE mode = "Off"      -> "Disabled"
      [] mode = "Auto"     -> IF ~connected /\ old = "Blocking" THEN "Blocking" ELSE "Armed"
      [] mode = "AlwaysOn" -> "Blocking"

\* Mutant: no downgrade.
ResolveAlways(mode, old, connected, root) == DesiredState(mode, old, connected)

\* sync_killswitch: the decision, downgraded for a process without root.
Resolve(mode, old, connected, root) ==
    LET wanted == DesiredState(mode, old, connected)
    IN  IF wanted = "Blocking" /\ ~root THEN "Armed" ELSE wanted

-----------------------------------------------------------------------------
(* The firewall.  A ruleset is default-DROP with ACCEPT rules for the        *)
(* interfaces of some tunnels and for the server addresses of some tunnels.  *)

Rulesets == [on : BOOLEAN, ifaces : SUBSET Tunnels, servers : SUBSET Tunnels]
NoRules  == [on |-> FALSE, ifaces |-> {}, servers |-> {}]

\* What a process knows of its active tunnels: those it would allow-list, and
\* those of them whose endpoint address it has already learnt.
Views == [ifaces : SUBSET Tunnels, servers : SUBSET Tunnels]

\* The iptables backend writes a rule for every tunnel; the nftables backend
\* writes the first tunnel of the slice only.
Listed(S) ==
    IF Backend = "iptables" \/ S = {} THEN S ELSE {CHOOSE t \in S : TRUE}

Ruleset(view) ==
    [on      |-> TRUE,
     ifaces  |-> Listed(view.ifaces),
     servers |-> view.servers \cap Listed(view.ifaces)]

\* What can go wrong without the code that follows taking notice.
Lapses ==
    {"install",   \* loading a ruleset failed: a warning, the state says Blocking
     "remove",    \* removing the rules failed: the error is dropped
     "notroot",   \* the removal was asked for without root: a warning
     "record",    \* killswitch.state was not written or not removed
     "death"}     \* a process died between the firewall call and save_state

\* How a firewall call ends: the rules on the machine and the lapses on the way.
Ended(rules, lapsed) == [rules |-> rules, lapses |-> lapsed]

\* nft -f adds to a table that is still there.
Appended(fw, new) ==
    [on |-> TRUE, ifaces |-> fw.ifaces \cup new.ifaces, servers |-> fw.servers \cup new.servers]

\* enable_blocking_multi.  iptables-restore replaces the table atomically: a
\* failure leaves the rules there were, or the new ones when only ip6tables
\* failed.  nftables deletes the table, ignoring errors, and loads the new one.
AfterEnable(fw, view) ==
    LET new    == Ruleset(view)
        failed == IF Backend = "iptables" THEN {fw, new} ELSE {NoRules}
    IN  {Ended(new, {})}
        \cup {Ended(r, {"install"}) : r \in IF "enable" \in Faults THEN failed ELSE {}}
        \cup {e \in {Ended(Appended(fw, new), {"remove"}), Ended(fw, {"remove", "install"})} :
                /\ Backend = "nftables" /\ fw.on /\ "remove" \in Faults
                /\ "install" \in e.lapses => "enable" \in Faults}

\* disable_blocking: an error only without root, the commands' own are dropped.
AfterDisable(fw, root) ==
    IF ~root THEN {Ended(fw, {"notroot"})}
    ELSE {Ended(NoRules, {})}
         \cup (IF "remove" \in Faults THEN {Ended(fw, {"remove"})} ELSE {})
=============================================================================
