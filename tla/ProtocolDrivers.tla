-------------------------- MODULE ProtocolDrivers --------------------------
(* OvpnTunnel and WgTunnel at the level of files and processes: pid file,    *)
(* log, one-time credentials, management socket, temporary configs, and the  *)
(* daemons of the machine.  Runners are processes of vortix, each with one   *)
(* call under way, and a profile has one call at a time (CliLifecycle has    *)
(* the others); pids are not reused.                                         *)
EXTENDS Naturals

CONSTANTS
    Runners,      \* processes of vortix
    OvpnNames,    \* profiles run by openvpn
    WgNames,      \* profiles run by wg-quick
    Matches,      \* <<n, m>>: "vortix-n" is a substring of "vortix-m"
    MaxDaemons,   \* bound: openvpn daemons ever spawned
    MaxDrives     \* bound: calls and starts

Daemons == 1..MaxDaemons
Nobody == "nobody"

\* A profile has one protocol; a name contains itself.
ASSUME DriverAssumption ==
    /\ MaxDaemons \in Nat /\ MaxDrives \in Nat
    /\ OvpnNames \cap WgNames = {} /\ Nobody \notin OvpnNames \cup WgNames
    /\ Matches \subseteq OvpnNames \X OvpnNames
    /\ \A n \in OvpnNames : <<n, n>> \in Matches

VARIABLES
    daemon,     \* Daemons -> its profile and stage
    pidFile,    \* OvpnNames -> pid, 0 without file
    runLog,     \* OvpnNames -> who writes it and what it says
    bundle,     \* profiles with <safe>.scrv1.auth on disk
    socket,     \* profiles with a management socket on disk
    temps,      \* <<runner, profile>> with a WireGuard temp config
    wgUp,       \* profiles with a WireGuard interface
    drive,      \* Runners -> its call
    left,       \* history: profiles whose secrets an attempt had to leave
    orphaned,   \* history: profiles a vortix died over
    drives

machine == <<daemon, pidFile, runLog, socket, wgUp>>
driverVars == <<machine, bundle, temps, drive, left, orphaned, drives>>

NoDaemon == [name |-> Nobody, st |-> "none"]
NoLog == [by |-> 0, says |-> "nothing"]
NoDrive == [at |-> "idle", name |-> Nobody, pid |-> 0, mgmt |-> "none"]

DriverTypeOK ==
    /\ daemon \in [Daemons -> [name : OvpnNames \cup {Nobody},
                               st : {"none", "parent", "forked", "up", "dying", "dead"}]]
    /\ pidFile \in [OvpnNames -> 0..MaxDaemons]
    /\ runLog \in [OvpnNames -> [by : 0..MaxDaemons,
                       says : {"nothing", "success", "noInterface", "failure"}]]
    /\ bundle \subseteq OvpnNames /\ socket \subseteq OvpnNames
    /\ temps \subseteq Runners \X WgNames /\ wgUp \subseteq WgNames
    /\ \A r \in Runners :
          /\ drive[r].name \in OvpnNames \cup WgNames \cup {Nobody}
          /\ drive[r].pid \in 0..MaxDaemons
          /\ drive[r].mgmt \in {"none", "waits", "held", "released", "answered", "failed"}
    /\ left \subseteq OvpnNames \cup WgNames /\ orphaned \subseteq OvpnNames \cup WgNames

DriverInit ==
    /\ daemon = [d \in Daemons |-> NoDaemon]
    /\ pidFile = [n \in OvpnNames |-> 0] /\ runLog = [n \in OvpnNames |-> NoLog]
    /\ bundle = {} /\ socket = {} /\ temps = {} /\ wgUp = {}
    /\ drive = [r \in Runners |-> NoDrive] /\ left = {} /\ orphaned = {} /\ drives = 0

Drives == drives < MaxDrives /\ drives' = drives + 1
At(r, a) == drive[r].at = a
Proceeds(r, a) == drive' = [drive EXCEPT ![r].at = a]
Driven(n) == \E r \in Runners : drive[r].name = n
Lives(d) == daemon[d].st \in {"parent", "forked", "up", "dying"}
Takes(r, n, a, pid) ==
    /\ At(r, "idle") /\ ~Driven(n)
    /\ drive' = [drive EXCEPT ![r] = [NoDrive EXCEPT !.at = a, !.name = n, !.pid = pid]]

\* Every caller cleans up after an error with down, by name and pid file.
FailsWith(r) ==
    drive' = [drive EXCEPT ![r].at = "kill", ![r].pid = pidFile[drive[r].name]]

-----------------------------------------------------------------------------
(* OvpnTunnel::up *)

\* The authentication dialog has left the bundle of a one-time password.
OvpnUp(r, n, mfa) ==
    /\ Drives /\ Takes(r, n, "probe", 0)
    /\ bundle' = IF mfa THEN bundle \cup {n} ELSE bundle
    /\ left' = left \ {n}
    /\ UNCHANGED <<machine, temps, orphaned>>

\* Refused before the bundle is read; the caller cleans up all the same.
OvpnRefused(r) ==
    LET n == drive[r].name IN
    /\ At(r, "probe") /\ pidFile[n] # 0 /\ Lives(pidFile[n])
    /\ FailsWith(r) /\ left' = left \cup {n}
    /\ UNCHANGED <<machine, bundle, temps, orphaned, drives>>

OvpnCleans(r) ==
    LET n == drive[r].name IN
    /\ At(r, "probe") /\ ~(pidFile[n] # 0 /\ Lives(pidFile[n]))
    /\ pidFile' = [pidFile EXCEPT ![n] = 0] /\ runLog' = [runLog EXCEPT ![n] = NoLog]
    /\ Proceeds(r, "bundle")
    /\ UNCHANGED <<daemon, socket, bundle, temps, wgUp, left, orphaned, drives>>

\* read_mgmt_credentials_bundle: consumed by reading it.
OvpnReadsBundle(r) ==
    LET n == drive[r].name IN
    /\ At(r, "bundle")
    /\ drive' = [drive EXCEPT ![r].at = "spawn",
                              ![r].mgmt = IF n \in bundle THEN "waits" ELSE "none"]
    /\ bundle' = bundle \ {n}
    /\ socket' = IF n \in bundle THEN socket \ {n} ELSE socket
    /\ UNCHANGED <<daemon, pidFile, runLog, temps, wgUp, left, orphaned, drives>>

OvpnSpawns(r) ==
    /\ At(r, "spawn")
    /\ \E d \in Daemons :
          /\ daemon[d] = NoDaemon /\ \A e \in 1..(d - 1) : daemon[e] # NoDaemon
          /\ daemon' = [daemon EXCEPT ![d] = [name |-> drive[r].name, st |-> "parent"]]
          /\ runLog' = [runLog EXCEPT ![drive[r].name] = [NoLog EXCEPT !.by = d]]
    /\ Proceeds(r, IF drive[r].mgmt = "none" THEN "join" ELSE "socket")
    /\ UNCHANGED <<pidFile, socket, bundle, temps, wgUp, left, orphaned, drives>>

\* wait_for_mgmt_socket and the connection to it.
MgmtConnects(r) ==
    /\ At(r, "socket") /\ drive[r].name \in socket
    /\ drive' = [drive EXCEPT ![r].at = "auth", ![r].mgmt = "held"]
    /\ UNCHANGED <<machine, bundle, temps, left, orphaned, drives>>

\* No socket in time; AUTH_FAILED, FATAL, EXITING, a passphrase, a closed
\* socket or a read timeout in drive_mgmt_auth.
MgmtFails(r) ==
    /\ At(r, "socket") \/ At(r, "auth")
    /\ drive' = [drive EXCEPT ![r].at = "join", ![r].mgmt = "failed"]
    /\ UNCHANGED <<machine, bundle, temps, left, orphaned, drives>>

\* >HOLD: state on and hold release; >PASSWORD: the credentials.
MgmtEvent(r, from, to) ==
    /\ At(r, "auth") /\ drive[r].mgmt = from
    /\ drive' = [drive EXCEPT ![r].mgmt = to]
    /\ UNCHANGED <<machine, bundle, temps, left, orphaned, drives>>

\* >STATE: CONNECTED.
MgmtConnected(r) ==
    /\ At(r, "auth") /\ drive[r].mgmt = "answered" /\ Proceeds(r, "join")
    /\ UNCHANGED <<machine, bundle, temps, left, orphaned, drives>>

\* The parent is waited for, without a timeout, also after a failure.
OvpnJoins(r) ==
    LET n == drive[r].name d == runLog[n].by IN
    /\ At(r, "join") /\ daemon[d].st # "parent"
    /\ socket' = socket \ {n}
    /\ IF drive[r].mgmt = "failed" \/ pidFile[n] # d
       THEN FailsWith(r) ELSE Proceeds(r, "poll")
    /\ UNCHANGED <<daemon, pidFile, runLog, wgUp, bundle, temps, left, orphaned, drives>>

\* poll_log_until_ready: the marker, with a pid and an interface.
PollReady(r) ==
    LET n == drive[r].name IN
    /\ At(r, "poll") /\ runLog[n].says = "success" /\ pidFile[n] # 0
    /\ drive' = [drive EXCEPT ![r] = NoDrive]
    /\ UNCHANGED <<machine, bundle, temps, left, orphaned, drives>>

\* A dead daemon, no pid file, an error in the log, no interface, or the time
\* is over.
PollFails(r) ==
    /\ At(r, "poll") /\ FailsWith(r)
    /\ UNCHANGED <<machine, bundle, temps, left, orphaned, drives>>

-----------------------------------------------------------------------------
(* OvpnTunnel::down *)

OvpnDown(r, n) ==
    /\ Drives /\ Takes(r, n, "kill", pidFile[n])
    /\ UNCHANGED <<machine, bundle, temps, left, orphaned>>

Terminated(ds) ==
    [d \in Daemons |-> IF d \in ds /\ Lives(d) THEN [daemon[d] EXCEPT !.st = "dying"]
                       ELSE daemon[d]]

KillPid(r) ==
    /\ At(r, "kill") /\ daemon' = Terminated({drive[r].pid}) /\ Proceeds(r, "pkill")
    /\ UNCHANGED <<pidFile, runLog, socket, wgUp, bundle, temps, left, orphaned, drives>>

\* Every process whose command line holds the name of the daemon.
KillByName(r) ==
    /\ At(r, "pkill")
    /\ daemon' = Terminated({d \in Daemons : <<drive[r].name, daemon[d].name>> \in Matches})
    /\ Proceeds(r, "unlink")
    /\ UNCHANGED <<pidFile, runLog, socket, wgUp, bundle, temps, left, orphaned, drives>>

Unlinks(r) ==
    LET n == drive[r].name IN
    /\ At(r, "unlink")
    /\ pidFile' = [pidFile EXCEPT ![n] = 0] /\ runLog' = [runLog EXCEPT ![n] = NoLog]
    /\ drive' = [drive EXCEPT ![r] = NoDrive] /\ orphaned' = orphaned \ {n}
    /\ UNCHANGED <<daemon, socket, wgUp, bundle, temps, left, drives>>

-----------------------------------------------------------------------------
(* WgTunnel *)

\* A secondary, or systemd-resolved: the config without DNS lines is written.
WgUp(r, n, strip) ==
    /\ Drives /\ Takes(r, n, "quick", 0)
    /\ temps' = IF strip THEN temps \cup {<<r, n>>} ELSE temps
    /\ UNCHANGED <<machine, bundle, left, orphaned>>

\* The path of the temporary config goes with the tunnel object, which the
\* callers drop.
WgQuickUp(r) ==
    LET n == drive[r].name IN
    /\ At(r, "quick") /\ n \notin wgUp
    /\ wgUp' = wgUp \cup {n}
    /\ left' = IF <<r, n>> \in temps THEN left \cup {n} ELSE left
    /\ drive' = [drive EXCEPT ![r] = NoDrive]
    /\ UNCHANGED <<daemon, pidFile, runLog, socket, bundle, temps, orphaned, drives>>

\* Mutant: the temporary config outlives the failed attempt.
WgQuickFailsKeeps(r) ==
    /\ At(r, "quick")
    /\ drive' = [drive EXCEPT ![r].at = "wgDown"]
    /\ UNCHANGED <<machine, bundle, temps, left, orphaned, drives>>

\* Also because the interface exists, or the config has been swept.  The
\* caller's cleanup is wg-quick down.
WgQuickFails(r) ==
    LET n == drive[r].name IN
    /\ At(r, "quick")
    /\ temps' = temps \ {<<r, n>>}
    /\ drive' = [drive EXCEPT ![r].at = "wgDown"]
    /\ UNCHANGED <<machine, bundle, left, orphaned, drives>>

WgDown(r, n) ==
    /\ Drives /\ Takes(r, n, "wgDown", 0)
    /\ UNCHANGED <<machine, bundle, temps, left, orphaned>>

\* From the profile's own config; it may fail.
WgQuickDown(r) ==
    /\ At(r, "wgDown")
    /\ wgUp' \in {wgUp, wgUp \ {drive[r].name}}
    /\ drive' = [drive EXCEPT ![r] = NoDrive]
    /\ UNCHANGED <<daemon, pidFile, runLog, socket, bundle, temps, left, orphaned, drives>>

-----------------------------------------------------------------------------
(* Processes: a start of vortix, and its death *)

\* main, in a new process with a new session: scrub_stale_scrv1_auth_files, and
\* sweep_orphan_temp_configs if there is a journal on disk.  Both take what
\* running processes have left for a moment.
Start(r, journal) ==
    /\ Drives /\ At(r, "idle")
    /\ bundle' = {}
    /\ temps' = IF journal THEN {} ELSE temps
    /\ left' = IF journal THEN {} ELSE left \cap WgNames
    /\ UNCHANGED <<machine, drive, orphaned>>

RunnerDies(r) ==
    /\ ~At(r, "idle") /\ drive' = [drive EXCEPT ![r] = NoDrive]
    /\ left' = left \cup {drive[r].name} /\ orphaned' = orphaned \cup {drive[r].name}
    /\ UNCHANGED <<machine, bundle, temps, drives>>

\* filter_untracked(scan_orphans): what a start warns of.
Orphans == {d \in Daemons : Lives(d) /\ \A n \in OvpnNames : pidFile[n] # d}

(* The daemons *)

BindsSocket(d) ==
    /\ daemon[d].st = "parent"
    /\ \E r \in Runners : drive[r].name = daemon[d].name /\ At(r, "socket")
    /\ socket' = socket \cup {daemon[d].name}
    /\ UNCHANGED <<daemon, pidFile, runLog, wgUp, bundle, temps, drive, left, orphaned, drives>>

\* With a management socket, once the credentials were sent, or it is closed.
Forks(d) ==
    /\ daemon[d].st = "parent"
    /\ \A r \in Runners : drive[r].name = daemon[d].name =>
          drive[r].mgmt \in {"none", "answered", "failed"}
    /\ daemon' = [daemon EXCEPT ![d].st = "forked"]
    /\ pidFile' = [pidFile EXCEPT ![daemon[d].name] = d]
    /\ UNCHANGED <<runLog, socket, wgUp, bundle, temps, drive, left, orphaned, drives>>

Logs(d, st, says) ==
    /\ daemon[d].st = "forked"
    /\ daemon' = [daemon EXCEPT ![d].st = st]
    /\ runLog' = [n \in OvpnNames |-> IF runLog[n].by = d THEN [by |-> d, says |-> says]
                                      ELSE runLog[n]]
    /\ UNCHANGED <<pidFile, socket, wgUp, bundle, temps, drive, left, orphaned, drives>>

DaemonEnds(d) ==
    /\ Lives(d) /\ daemon' = [daemon EXCEPT ![d].st = "dead"]
    /\ UNCHANGED <<pidFile, runLog, socket, wgUp, bundle, temps, drive, left, orphaned, drives>>

DriverNext ==
    \/ \E r \in Runners :
          \/ \E n \in OvpnNames, mfa \in BOOLEAN : OvpnUp(r, n, mfa)
          \/ OvpnRefused(r) \/ OvpnCleans(r) \/ OvpnReadsBundle(r) \/ OvpnSpawns(r)
          \/ MgmtConnects(r) \/ MgmtFails(r) \/ MgmtConnected(r)
          \/ MgmtEvent(r, "held", "released") \/ MgmtEvent(r, "released", "answered")
          \/ OvpnJoins(r) \/ PollReady(r) \/ PollFails(r)
          \/ \E n \in OvpnNames : OvpnDown(r, n)
          \/ KillPid(r) \/ KillByName(r) \/ Unlinks(r)
          \/ \E n \in WgNames, strip \in BOOLEAN : WgUp(r, n, strip)
          \/ WgQuickUp(r) \/ WgQuickFails(r) \/ WgQuickDown(r)
          \/ \E n \in WgNames : WgDown(r, n)
          \/ \E journal \in BOOLEAN : Start(r, journal)
          \/ RunnerDies(r)
    \/ \E d \in Daemons :
          \/ BindsSocket(d) \/ Forks(d) \/ DaemonEnds(d)
          \/ Logs(d, "up", "success") \/ Logs(d, "up", "noInterface")
          \/ Logs(d, "dead", "failure")

DriverSpec == DriverInit /\ [][DriverNext]_driverVars

-----------------------------------------------------------------------------
\* One-time credentials and stripped configs on disk belong to an attempt that
\* is under way, unless one was refused, died, or ended in a WireGuard tunnel.
SecretsHaveOwner ==
    \A n \in bundle \cup {t[2] : t \in temps} : n \in left \/ Driven(n)

\* However an attempt failed, and whenever its daemon wrote its pid: between
\* calls the only daemon of a profile that nobody has told to stop is the one
\* in its pid file, the one the next up is refused for.  (The exception: a
\* vortix died.)
NoStrayDaemon ==
    \A d \in Daemons :
        LET n == daemon[d].name IN
        (daemon[d].st \in {"parent", "forked", "up"} /\ ~Driven(n) /\ n \notin orphaned)
            => pidFile[n] = d

\* A call that is over leaves neither secrets without an owner nor a daemon that
\* vortix has lost track of.
NothingLeftBehind == SecretsHaveOwner /\ NoStrayDaemon

=============================================================================
