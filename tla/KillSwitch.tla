---------------------------- MODULE KillSwitch ----------------------------
(* The kill switch as the processes of vortix run it: a long-lived TUI and   *)
(* one-shot CLI commands, each with its own copy of (mode, state) in memory, *)
(* sharing the firewall of the machine and the killswitch.state file.        *)
(*                                                                           *)
(* sync_killswitch runs in two halves, the firewall call and then save_state,*)
(* and a process can die between them; every other call is one step.         *)
EXTENDS KillSwitchPolicy

VARIABLES
    proc,       \* process -> its VpnRuntime: phase, command, root, mode, state
    conn,       \* the TUI's TunnelRegistry: tunnel -> status of its entry
    kernel,     \* the tunnels that are up in the kernel
    fw,         \* the ruleset installed on the machine
    file,       \* the contents of killswitch.state
    lapses      \* history: what went unnoticed since the last firewall call that
                \* did as it was told; no action reads it

vars == <<proc, conn, kernel, fw, file, lapses>>

Procs    == {"tui", "cli"}
Phases   == {"down", "idle", "syncing"}
Commands == {"none", "tui", "status", "killswitch", "up", "down"}

\* "bare": Connected, endpoint not yet known; "full": Connected with endpoint;
\* "failed": the Disconnected marker left by a failed connect.
Entries == {"none", "opening", "bare", "full", "closing", "failed"}

NoFile == [kind |-> "absent"]
Saved(mode, state) == [kind |-> "v2", mode |-> mode, state |-> state]
Files  == {NoFile} \cup {Saved(m, s) : m \in Modes, s \in KsStates}

Runtimes == [phase : Phases, cmd : Commands, root : BOOLEAN, mode : Modes, state : KsStates]

Dead == [phase |-> "down", cmd |-> "none", root |-> FALSE, mode |-> "Off", state |-> "Disabled"]

TypeOK ==
    /\ proc \in [Procs -> Runtimes]
    /\ conn \in [Tunnels -> Entries]
    /\ kernel \subseteq Tunnels
    /\ fw \in Rulesets
    /\ file \in Files
    /\ lapses \subseteq Lapses

Init ==
    /\ proc = [p \in Procs |-> Dead]
    /\ conn = [t \in Tunnels |-> "none"]
    /\ kernel = {}
    /\ fw = NoRules
    /\ file = NoFile
    /\ lapses = {}

-----------------------------------------------------------------------------
(* Views of the active tunnels *)

IsConnected(status) == status \in {"bare", "full"}

\* active_tunnels_for_killswitch over a registry c.
TuiView(c) ==
    [ifaces  |-> {t \in Tunnels : IsConnected(c[t])},
     servers |-> {t \in Tunnels : c[t] = "full"}]

\* killswitch_view_from_scanner over the kernel's tunnels k.
ScannerView(k) == [ifaces |-> k, servers |-> k]

-----------------------------------------------------------------------------
(* VpnRuntime *)

\* The lapses after a firewall call that ended in e.
LapsesAfter(e) == IF e.lapses = {} THEN {} ELSE lapses \cup e.lapses

\* A firewall call that ends in one of the given ways, and touches no file.
Call(endings) ==
    \E e \in endings : fw' = e.rules /\ lapses' = LapsesAfter(e) /\ file' = file

\* save_state or clear_state, its error dropped, when the lapses so far are l.
Write(contents, l) ==
    \/ file' = contents /\ lapses' = l
    \/ "record" \in Faults /\ file' = file /\ lapses' = l \cup {"record"}

\* The recovery of a Blocking state: disable_blocking, then clear_state.
Recover(root) ==
    \E e \in AfterDisable(fw, root) : fw' = e.rules /\ Write(NoFile, LapsesAfter(e))

\* Mutants of Boot: the file is cleared, the rules stay; the rules are removed,
\* the file stays and its state is believed.
BootForgets(p, cmd, root) ==
    LET found    == file # NoFile
        blocking == found /\ file.state = "Blocking"
    IN  /\ proc[p].phase = "down"
        /\ root \/ "unprivileged" \in Faults
        /\ proc' = [proc EXCEPT ![p] =
               [phase |-> "idle", cmd |-> cmd, root |-> root,
                mode  |-> IF found THEN file.mode ELSE "Off",
                state |-> IF found /\ ~blocking THEN file.state ELSE "Disabled"]]
        /\ fw' = fw
        /\ Write(IF blocking THEN NoFile ELSE file, lapses)

BootBelieves(p, cmd, root) ==
    LET found    == file # NoFile
        blocking == found /\ file.state = "Blocking"
    IN  /\ proc[p].phase = "down"
        /\ root \/ "unprivileged" \in Faults
        /\ proc' = [proc EXCEPT ![p] =
               [phase |-> "idle", cmd |-> cmd, root |-> root,
                mode  |-> IF found THEN file.mode ELSE "Off",
                state |-> IF found THEN file.state ELSE "Disabled"]]
        /\ IF blocking THEN Recover(root) ELSE UNCHANGED <<fw, file, lapses>>

\* The recovery at the head of VpnRuntime::new and new_headless.
Boot(p, cmd, root) ==
    LET found    == file # NoFile
        blocking == found /\ file.state = "Blocking"
    IN  /\ proc[p].phase = "down"
        /\ root \/ "unprivileged" \in Faults
        /\ proc' = [proc EXCEPT ![p] =
               [phase |-> "idle", cmd |-> cmd, root |-> root,
                mode  |-> IF found THEN file.mode ELSE "Off",
                state |-> IF found /\ ~blocking THEN file.state ELSE "Disabled"]]
        /\ IF blocking THEN Recover(root) ELSE UNCHANGED <<fw, file, lapses>>

\* Mutant: rules are removed only when the new state is Disabled.
SyncKeepsRules(p, mode, old, view) ==
    LET root == proc[p].root
        new  == Resolve(mode, old, view.ifaces # {}, root)
    IN  /\ proc' = [proc EXCEPT ![p] = [@ EXCEPT !.phase = "syncing", !.mode = mode, !.state = new]]
        /\ CASE new = "Blocking"                    -> Call(AfterEnable(fw, view))
             [] new # "Blocking" /\ new = "Disabled" -> Call(AfterDisable(fw, root))
             [] OTHER                               -> UNCHANGED <<fw, file, lapses>>

\* First half of sync_killswitch by process p, in the given mode, from the
\* given old state, for the given view of the active tunnels.
SyncFirewall(p, mode, old, view) ==
    LET root == proc[p].root
        new  == Resolve(mode, old, view.ifaces # {}, root)
    IN  /\ proc' = [proc EXCEPT ![p] = [@ EXCEPT !.phase = "syncing", !.mode = mode, !.state = new]]
        /\ CASE new = "Blocking"                    -> Call(AfterEnable(fw, view))
             [] new # "Blocking" /\ old = "Blocking" -> Call(AfterDisable(fw, root))
             [] OTHER                               -> UNCHANGED <<fw, file, lapses>>

\* The sync every TUI handler makes once it has brought the registry to c.
TuiSync(c) == SyncFirewall("tui", proc["tui"].mode, proc["tui"].state, TuiView(c))

\* What is left of a command after one sync: `down` goes on to the next tunnel.
AfterSync(cmd) == IF cmd \in {"tui", "down"} THEN cmd ELSE "status"

\* Second half: save_state.
SaveState(p) ==
    /\ proc[p].phase = "syncing"
    /\ Write(Saved(proc[p].mode, proc[p].state), lapses)
    /\ proc' = [proc EXCEPT ![p] = [@ EXCEPT !.phase = "idle", !.cmd = AfterSync(proc[p].cmd)]]
    /\ UNCHANGED <<conn, kernel, fw>>

NoSync == UNCHANGED <<proc, fw, file, lapses>>

-----------------------------------------------------------------------------
(* The TUI *)

TuiIdle == proc["tui"].phase = "idle"

TuiStart(root) ==
    /\ proc["cli"].phase = "down" \/ "beside" \in Faults
    /\ Boot("tui", "tui", root)
    /\ conn' = [t \in Tunnels |-> "none"]
    /\ UNCHANGED kernel

\* connect_profile_inner: a registry entry, a worker, no sync.
Connect(t) ==
    /\ TuiIdle /\ proc["tui"].root
    /\ conn[t] \in {"none", "failed"}
    /\ conn' = [conn EXCEPT ![t] = "opening"]
    /\ NoSync /\ UNCHANGED kernel

\* handle_connect_result, success: the details carry an interface and a pid,
\* no endpoint.
ConnectOk(t) ==
    /\ TuiIdle /\ conn[t] = "opening"
    /\ conn' = [conn EXCEPT ![t] = "bare"]
    /\ kernel' = kernel \cup {t}
    /\ IF proc["tui"].mode # "Off" THEN TuiSync(conn') ELSE NoSync

\* handle_connect_result, failure: set_failed and cleanup_vpn_resources.
ConnectFailed(t) ==
    /\ TuiIdle /\ conn[t] = "opening"
    /\ conn' = [conn EXCEPT ![t] = "failed"]
    /\ kernel' = kernel \ {t}
    /\ NoSync

\* handle_connection_timeout.
ConnectTimeout(t) ==
    /\ TuiIdle /\ conn[t] = "opening"
    /\ conn' = [conn EXCEPT ![t] = "none"]
    /\ kernel' = kernel \ {t}
    /\ TuiSync(conn')

\* Mutant: the sync comes before the registry entry.
DisconnectEarlySync(t) ==
    /\ TuiIdle /\ conn[t] \in {"opening", "bare", "full", "closing"}
    /\ conn' = [conn EXCEPT ![t] = "closing"]
    /\ TuiSync(conn)
    /\ UNCHANGED kernel

\* disconnect_specific: the registry entry, then the sync, then the worker.
Disconnect(t) ==
    /\ TuiIdle /\ conn[t] \in {"opening", "bare", "full", "closing"}
    /\ conn' = [conn EXCEPT ![t] = "closing"]
    /\ TuiSync(conn')
    /\ UNCHANGED kernel

\* handle_sync_system_state, arm (Disconnecting, None): complete_disconnect.
ScanClosed(t) ==
    /\ TuiIdle /\ conn[t] = "closing" /\ t \notin kernel
    /\ conn' = [conn EXCEPT ![t] = "none"]
    /\ TuiSync(conn')
    /\ UNCHANGED kernel

\* Arm (Disconnecting, Some) past the timeout: scanner_force_disconnect.
ScanForceClose(t) ==
    /\ TuiIdle /\ conn[t] = "closing" /\ t \in kernel
    /\ conn' = [conn EXCEPT ![t] = "none"]
    /\ kernel' \in {kernel, kernel \ {t}}
    /\ TuiSync(conn')

\* Mutant: the sync sees the registry with the dropped tunnel still in it.
ScanDropEarlySync(t) ==
    LET me == proc["tui"]
    IN  /\ TuiIdle /\ IsConnected(conn[t]) /\ t \notin kernel
        /\ conn' = [conn EXCEPT ![t] = "none"]
        /\ IF me.mode # "Off" /\ me.state = "Armed"
           THEN SyncFirewall("tui", me.mode, "Blocking", TuiView(conn))
           ELSE NoSync
        /\ UNCHANGED kernel

\* Arm (Connected, None): scanner_handle_drop.
ScanDrop(t) ==
    LET me == proc["tui"]
    IN  /\ TuiIdle /\ IsConnected(conn[t]) /\ t \notin kernel
        /\ conn' = [conn EXCEPT ![t] = "none"]
        /\ IF me.mode # "Off" /\ me.state = "Armed"
           THEN SyncFirewall("tui", me.mode, "Blocking", TuiView(conn'))
           ELSE NoSync
        /\ UNCHANGED kernel

\* Arm (Connected, Some): refresh_registry_from_session, metadata only.
ScanRefresh(t) ==
    /\ TuiIdle /\ conn[t] = "bare" /\ t \in kernel
    /\ conn' = [conn EXCEPT ![t] = "full"]
    /\ NoSync /\ UNCHANGED kernel

\* scanner_adopt_session, for a session the registry has no entry for.
ScanAdopt(t) ==
    /\ TuiIdle /\ conn[t] = "none" /\ t \in kernel
    /\ conn' = [conn EXCEPT ![t] = "full"]
    /\ NoSync /\ UNCHANGED kernel

\* handle_toggle_killswitch.
ToggleKillswitch ==
    /\ TuiIdle
    /\ SyncFirewall("tui", NextMode(proc["tui"].mode), proc["tui"].state, TuiView(conn))
    /\ UNCHANGED <<conn, kernel>>

\* handle_quit saves the state and leaves tunnels and rules as they are.
Quit ==
    /\ TuiIdle
    /\ Write(Saved(proc["tui"].mode, proc["tui"].state), lapses)
    /\ proc' = [proc EXCEPT !["tui"] = Dead]
    /\ conn' = [t \in Tunnels |-> "none"]
    /\ UNCHANGED <<kernel, fw>>

-----------------------------------------------------------------------------
(* CLI commands: each builds a VpnRuntime with new_headless first.  "status"  *)
(* stands for every command that does nothing more to this state.            *)

CliStart(cmd, root) ==
    /\ proc["tui"].phase = "down" \/ "beside" \in Faults
    /\ Boot("cli", cmd, root)
    /\ UNCHANGED <<conn, kernel>>

CliIdle(cmd) == proc["cli"].phase = "idle" /\ proc["cli"].cmd = cmd

CliSync(mode, k) == SyncFirewall("cli", mode, proc["cli"].state, ScannerView(k))

\* handle_killswitch with a mode argument.
CliKillswitch(mode) ==
    /\ CliIdle("killswitch")
    /\ proc["cli"].root \/ mode = "Off"
    /\ CliSync(mode, kernel)
    /\ UNCHANGED <<conn, kernel>>

\* connect_and_wait: success syncs, failure and timeout only clean up.
CliUp(t) ==
    /\ CliIdle("up") /\ proc["cli"].root
    /\ \/ kernel' = kernel \cup {t} /\ CliSync(proc["cli"].mode, kernel')
       \/ /\ kernel' = kernel \ {t}
          /\ proc' = [proc EXCEPT !["cli"].cmd = "status"]
          /\ UNCHANGED <<fw, file, lapses>>
    /\ UNCHANGED conn

\* disconnect_and_wait: a result, good or bad, syncs; a timeout cleans up.
CliDown(t) ==
    /\ CliIdle("down") /\ proc["cli"].root /\ t \in kernel
    /\ kernel' \in {kernel, kernel \ {t}}
    /\ CliSync(proc["cli"].mode, kernel') \/ NoSync
    /\ UNCHANGED conn

CliExit ==
    /\ proc["cli"].phase = "idle"
    /\ proc' = [proc EXCEPT !["cli"] = Dead]
    /\ UNCHANGED <<conn, kernel, fw, file, lapses>>

\* handle_release_killswitch, run as root: it builds no VpnRuntime.
CliRelease ==
    /\ proc["cli"].phase = "down"
    /\ proc["tui"].phase = "down" \/ "beside" \in Faults
    /\ Recover(TRUE)
    /\ UNCHANGED <<proc, conn, kernel>>

-----------------------------------------------------------------------------
(* The environment *)

TunnelDies(t) ==
    /\ t \in kernel
    /\ kernel' = kernel \ {t}
    /\ UNCHANGED <<proc, conn, fw, file, lapses>>

ExternalUp(t) ==
    /\ "external" \in Faults
    /\ t \notin kernel
    /\ kernel' = kernel \cup {t}
    /\ UNCHANGED <<proc, conn, fw, file, lapses>>

\* A kill -9, or a panic: nothing is saved, Drop for VpnRuntime is empty.
Crash(p) ==
    /\ \/ proc[p].phase = "idle"
       \/ proc[p].phase = "syncing" /\ "crash" \in Faults
    /\ proc' = [proc EXCEPT ![p] = Dead]
    /\ conn' = IF p = "tui" THEN [t \in Tunnels |-> "none"] ELSE conn
    /\ lapses' = IF proc[p].phase = "syncing" THEN lapses \cup {"death"} ELSE lapses
    /\ UNCHANGED <<kernel, fw, file>>

TuiHandler(t) ==
    \/ Connect(t) \/ ConnectOk(t) \/ ConnectFailed(t) \/ ConnectTimeout(t)
    \/ Disconnect(t)
    \/ ScanClosed(t) \/ ScanForceClose(t) \/ ScanDrop(t) \/ ScanRefresh(t) \/ ScanAdopt(t)

Next ==
    \/ \E root \in BOOLEAN : TuiStart(root)
    \/ \E root \in BOOLEAN, cmd \in Commands \ {"none", "tui"} : CliStart(cmd, root)
    \/ \E t \in Tunnels : TuiHandler(t)
    \/ ToggleKillswitch \/ Quit
    \/ \E mode \in Modes : CliKillswitch(mode)
    \/ \E t \in Tunnels : CliUp(t) \/ CliDown(t)
    \/ CliExit \/ CliRelease
    \/ \E p \in Procs : SaveState(p) \/ Crash(p)
    \/ \E t \in Tunnels : TunnelDies(t) \/ ExternalUp(t)

Spec == Init /\ [][Next]_vars

-----------------------------------------------------------------------------
(* Properties *)

Tui     == proc["tui"]
MidSync == \E p \in Procs : proc[p].phase = "syncing"

\* No process ever holds a (mode, state) pair its mode cannot justify, and only
\* a process with root believes it is blocking: desired_state, the root
\* downgrade and the boot recovery agree across toggles, crashes and restarts.
ModeStateCoherent ==
    \A p \in Procs :
        /\ proc[p].mode = "Off" => proc[p].state = "Disabled"
        /\ proc[p].state = "Blocking" => proc[p].root /\ proc[p].mode # "Off"

\* Something other than a failed install went unnoticed: only then can rules stay
\* that no process answers for.
Loose == lapses \cap {"remove", "notroot", "record", "death"} # {}

\* Whenever default-DROP rules are installed and no process is between the two
\* halves of a sync, killswitch.state says Blocking, so that the next launch finds
\* and removes them: through any number of crashes, restarts, starts without root
\* and failing commands.  Rules no file records always come from one of the four
\* lapses of Loose since the last firewall call that worked, never from the order
\* of the handlers' own steps or from an install that failed.
EngagedIsRecorded ==
    fw.on /\ ~MidSync => Loose \/ (file # NoFile /\ file.state = "Blocking")

\* A running TUI that believes it is blocking has rules installed, unless the
\* load of the rules failed: it believes so all the same.
BlockingIsEnforced ==
    Tui.phase = "idle" /\ Tui.state = "Blocking" => fw.on \/ "install" \in lapses

\* A running TUI that does not believe it is blocking has left no rules behind,
\* whichever way it, or the process before it, came out of Blocking, unless the
\* removal failed or was never tried: no successful call ever leaves them.
NotBlockingIsOpen ==
    Tui.phase = "idle" /\ Tui.state # "Blocking" => ~fw.on \/ Loose

\* The running TUI forgets a Connected tunnel that is gone from the kernel.
DropStep(t) ==
    /\ IsConnected(conn[t]) /\ t \notin kernel /\ conn'[t] = "none"
    /\ proc'["tui"].phase # "down"

\* In block-on-drop the TUI turns the firewall on only in the step that sees a
\* Connected tunnel gone from the kernel; a disconnect, a failed connect, a
\* timeout or the forced cleanup never does.  An install that failed is the one
\* thing a later sync of any kind makes good.
AutoEngagesOnlyOnDrop ==
    [][Tui.mode = "Auto" /\ proc'["tui"].mode = "Auto" /\ ~fw.on /\ fw'.on
        => "install" \in lapses \/ \E t \in Tunnels : DropStep(t)]_vars

\* Armed with root, the TUI turns the firewall on in the very step that sees its
\* last Connected tunnel gone, unless loading the rules fails in that step.
ArmedDropBlocks ==
    [][\A t \in Tunnels :
        /\ DropStep(t) /\ Tui.state = "Armed" /\ Tui.root
        /\ \A u \in Tunnels \ {t} : ~IsConnected(conn[u])
        => fw'.on \/ "install" \in lapses']_vars

\* The ruleset of a TUI that is blocking never lists a tunnel the user has asked to
\* disconnect, as long as the last firewall call did as it was told: whether the
\* file was written or not, and whatever the processes before it left behind.
NoStaleAccept ==
    /\ Tui.phase = "idle" /\ Tui.state = "Blocking" /\ fw.on
    /\ lapses \cap {"install", "remove"} = {}
    => \A t \in fw.ifaces : conn[t] # "closing"
=============================================================================
