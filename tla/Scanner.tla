------------------------------- MODULE Scanner -------------------------------
(* core::scanner on Linux: one sweep over the profiles, command by command,   *)
(* while tunnels come and go, and the commands that print what it found.      *)
(* WireGuard is recognised by its interface's name, OpenVPN by its process    *)
(* and then by the first tun device that is not WireGuard's.                  *)
EXTENDS Naturals, Sequences, FiniteSets

CONSTANTS
    ScanList,        \* the profiles, in the order of the catalogue
    Wireguards,      \* those of them that are WireGuard's
    TunNamed,        \* of these, the ones whose name looks like a tun device's
    Foreign,         \* an OpenVPN that is none of the profiles
    MaxChanges,      \* changes of the system during a sweep (bound)
    MaxFailures      \* commands of a sweep that cannot be started (bound)

ScanProfiles == {ScanList[i] : i \in DOMAIN ScanList}

ASSUME ScannerAssumption ==
    /\ ScanList \in Seq(ScanProfiles)
    /\ TunNamed \subseteq Wireguards
    /\ Foreign \notin Wireguards \union ScanProfiles
    /\ MaxChanges \in Nat /\ MaxFailures \in Nat

Openvpns     == (ScanProfiles \ Wireguards) \union {Foreign}

VARIABLES
    devices,     \* the system's interfaces in the order of `ip addr`
    running,     \* the openvpn processes
    logs,        \* [Openvpns -> the device that vortix's openvpn log names]
    sweep,       \* the sweep under way, or the last one
    view         \* what the last command printed

scanVars == <<devices, running, logs, sweep, view>>

NoSweep == [pc |-> "idle", todo |-> <<>>, pids |-> {}, seen |-> <<>>, found |-> "", sure |-> FALSE,
            out |-> <<>>, changes |-> 0, failures |-> 0, ever |-> {}, always |-> {}, ran |-> {}]
NoView  == [state |-> "none", profile |-> "", protocol |-> "", iface |-> "", marked |-> {}]

\* What the daemon may answer: its engine follows the tunnel it was asked for and
\* learns of no other, so that its profile need not be one that is up.
Absent  == [state |-> "absent", profile |-> ""]
ScanAnswers == {Absent, [Absent EXCEPT !.state = "disconnected"]} \union
               [state : {"connecting", "connected", "disconnecting"}, profile : ScanProfiles]

ScannerInit ==
    /\ devices = <<>> /\ running = {} /\ logs = [p \in Openvpns |-> ""]
    /\ sweep = NoSweep /\ view = NoView

Owners(ds)    == {<<ds[i].of, ds[i].name>> : i \in {j \in DOMAIN ds : ds[j].inet}}
HasDevice(p)  == \E i \in DOMAIN devices : devices[i].of = p
IsWgNow(name) == \E i \in DOMAIN devices : devices[i].name = name /\ devices[i].of \in Wireguards
TunLike(d)    == d.of \notin Wireguards \ TunNamed

-----------------------------------------------------------------------------
(* The system                                                                 *)

\* Every change is seen by the sweep under way or not, as the commands fall.
Witness ==
    sweep' = [sweep EXCEPT !.ever = @ \union Owners(devices'), !.always = @ \intersect Owners(devices'),
                           !.ran = @ \union running',
                           !.changes = IF sweep.pc \in {"idle", "shown"} THEN @ ELSE @ + 1]
MayChange == sweep.pc # "shown" /\ sweep.changes < MaxChanges

\* The kernel refuses a second interface of the same name.
WireguardUp(p) ==
    /\ MayChange /\ ~HasDevice(p) /\ \A i \in DOMAIN devices : devices[i].name # p
    /\ devices' = Append(devices, [name |-> p, of |-> p, inet |-> TRUE])
    /\ UNCHANGED <<running, logs>>

\* up removes the old log before it starts the process.
OpenvpnStarts(p) ==
    /\ MayChange /\ p \notin running
    /\ running' = running \union {p}
    /\ logs' = [logs EXCEPT ![p] = ""]
    /\ UNCHANGED devices

\* The kernel gives the lowest free name; openvpn writes it to its log.
DeviceNames == {"tun0", "tun1"}
OpenvpnOpens(p) ==
    /\ MayChange /\ p \in running /\ ~HasDevice(p)
    /\ LET used == {devices[i].name : i \in DOMAIN devices}
           name == IF "tun0" \in used THEN "tun1" ELSE "tun0"
       IN  /\ name \notin used
           /\ devices' = Append(devices, [name |-> name, of |-> p, inet |-> FALSE])
           /\ logs' = [logs EXCEPT ![p] = IF p = Foreign THEN "" ELSE name]
    /\ UNCHANGED running

OpenvpnAddress(p) ==
    /\ MayChange
    /\ \E i \in DOMAIN devices :
        /\ devices[i].of = p /\ ~devices[i].inet
        /\ devices' = [devices EXCEPT ![i].inet = TRUE]
    /\ UNCHANGED <<running, logs>>

\* The interfaces when p's is gone; it has one at most.
DevicesLess(p) ==
    IF HasDevice(p)
    THEN LET k == CHOOSE i \in DOMAIN devices : devices[i].of = p
         IN  [i \in 1 .. Len(devices) - 1 |-> devices[IF i < k THEN i ELSE i + 1]]
    ELSE devices

\* A tunnel ends; vortix's down removes the log, a process that dies leaves it.
TunnelEnds(p) ==
    /\ MayChange /\ (HasDevice(p) \/ p \in running)
    /\ devices' = DevicesLess(p)
    /\ running' = running \ {p}
    /\ IF p \in Openvpns THEN logs' \in {logs, [logs EXCEPT ![p] = ""]} ELSE UNCHANGED logs

SystemChanges ==
    /\ \E p \in ScanProfiles \union {Foreign} :
        \/ p \in Wireguards /\ WireguardUp(p)
        \/ p \in Openvpns /\ (OpenvpnStarts(p) \/ OpenvpnOpens(p) \/ OpenvpnAddress(p))
        \/ TunnelEnds(p)
    /\ Witness
    /\ UNCHANGED view

-----------------------------------------------------------------------------
(* get_active_profiles                                                        *)

\* A command that cannot be started prints nothing; the sweep goes on.
Fails == sweep.failures < MaxFailures
Kept  == UNCHANGED <<devices, running, logs, view>>

GetActiveProfiles ==
    /\ sweep.pc = "idle"
    /\ sweep' = [NoSweep EXCEPT
          !.pc = IF ScanProfiles \subseteq Wireguards THEN "profile" ELSE "ps",
          !.todo = ScanList, !.ever = Owners(devices), !.always = Owners(devices), !.ran = running]
    /\ Kept

\* One ps for all of OpenVPN.
GetAllOpenvpnPids ==
    /\ sweep.pc = "ps"
    /\ \/ sweep' = [sweep EXCEPT !.pc = "profile", !.pids = running]
       \/ Fails /\ sweep' = [sweep EXCEPT !.pc = "profile", !.failures = @ + 1]
    /\ Kept

Cur == Head(sweep.todo)
Reported(iface, sure) == Append(sweep.out, [of |-> Cur, iface |-> iface, sure |-> sure])
NextProfile(s) == [s EXCEPT !.pc = "profile", !.todo = Tail(@), !.seen = <<>>, !.found = "", !.sure = FALSE]

\* `wg show <name> public-key`, and where that says no, `wg show` once more.
CheckWireguardByName ==
    /\ sweep.pc \in {"profile", "wg"} /\ sweep.todo # <<>> /\ Cur \in Wireguards
    /\ LET no == IF sweep.pc = "profile" THEN [sweep EXCEPT !.pc = "wg"] ELSE NextProfile(sweep)
       IN  \/ sweep' = IF HasDevice(Cur)
                       THEN [NextProfile(sweep) EXCEPT !.out = Reported(Cur, TRUE)] ELSE no
           \/ Fails /\ sweep' = [no EXCEPT !.failures = @ + 1]
    /\ Kept

\* Method 0: the device that vortix's own log of the profile names.
CheckOpenvpnByPid ==
    /\ sweep.pc = "profile" /\ sweep.todo # <<>> /\ Cur \notin Wireguards
    /\ sweep' = IF Cur \in sweep.pids
                THEN [sweep EXCEPT !.pc = "addr", !.found = logs[Cur], !.sure = logs[Cur] # ""]
                ELSE NextProfile(sweep)
    /\ Kept

IpAddr ==
    /\ sweep.pc = "addr"
    /\ \/ sweep' = [sweep EXCEPT !.pc = "device", !.seen = devices]
       \/ Fails /\ sweep' = [sweep EXCEPT !.pc = "device", !.failures = @ + 1]
    /\ Kept

\* A bug: a WireGuard interface that is named like a tun device is taken for one.
CheckDeviceBlind ==
    /\ sweep.pc = "device" /\ sweep.seen # <<>>
    /\ LET d == Head(sweep.seen) IN
       sweep' = IF ~TunLike(d) THEN [sweep EXCEPT !.seen = Tail(@)]
                ELSE IF d.inet THEN [NextProfile(sweep) EXCEPT !.out = Reported(d.name, TRUE)]
                ELSE [sweep EXCEPT !.seen = Tail(@), !.found = d.name]
    /\ Kept

\* The listing is a moment old when `wg show` is asked about a tun device of it.  The
\* first device with an address is taken; one without is remembered.
CheckDevice ==
    /\ sweep.pc = "device" /\ sweep.seen # <<>>
    /\ LET d     == Head(sweep.seen)
           next  == [sweep EXCEPT !.seen = Tail(@)]
           taken == IF d.inet THEN [NextProfile(sweep) EXCEPT !.out = Reported(d.name, TRUE)]
                    ELSE [next EXCEPT !.found = d.name]
       IN  \/ sweep' = IF ~TunLike(d) \/ IsWgNow(d.name) THEN next ELSE taken
           \/ TunLike(d) /\ Fails /\ sweep' = [taken EXCEPT !.failures = @ + 1]
    /\ Kept

\* No device had an address: the remembered one or the log's, else it is still
\* connecting and not reported.
LastDevice ==
    /\ sweep.pc = "device" /\ sweep.seen = <<>>
    /\ sweep' = IF sweep.found = "" THEN NextProfile(sweep)
                ELSE [NextProfile(sweep) EXCEPT !.out = Reported(sweep.found, sweep.sure)]
    /\ Kept

-----------------------------------------------------------------------------
(* vortix list, status and status --watch                                     *)

ProtocolOf(p)      == IF p \in Wireguards THEN "wireguard" ELSE "openvpn"
ReportedNames(out) == {out[i].of : i \in DOMAIN out}

\* scan_status: the first session only.
ScanStatus ==
    IF sweep.out = <<>> THEN [NoView EXCEPT !.state = "disconnected"]
    ELSE LET s == Head(sweep.out)
         IN  [state |-> "connected", profile |-> s.of, protocol |-> ProtocolOf(s.of),
              iface |-> s.iface, marked |-> {}]

\* overlay_daemon_state: the daemon's profile over the scanner's network facts.
OverlayDaemonState(snap, engine) ==
    IF engine.state = "absent" THEN snap
    ELSE IF engine.state = "disconnected"
    THEN [snap EXCEPT !.state = "disconnected", !.profile = "", !.protocol = ""]
    ELSE [snap EXCEPT !.state = engine.state, !.profile = engine.profile]

Printed(v) ==
    /\ sweep.pc = "profile" /\ sweep.todo = <<>>
    /\ view' = v
    /\ sweep' = [sweep EXCEPT !.pc = "shown"]
    /\ UNCHANGED <<devices, running, logs>>

HandleList   == Printed([NoView EXCEPT !.state = "list", !.marked = ReportedNames(sweep.out)])
HandleStatus == \E answer \in ScanAnswers : Printed(OverlayDaemonState(ScanStatus, answer))
RunWatch     == Printed(ScanStatus)

ScannerNext ==
    \/ SystemChanges
    \/ GetActiveProfiles \/ GetAllOpenvpnPids \/ CheckWireguardByName
    \/ CheckOpenvpnByPid \/ IpAddr \/ CheckDevice \/ LastDevice
    \/ HandleList \/ HandleStatus \/ RunWatch

ScannerSpec == ScannerInit /\ [][ScannerNext]_scanVars

-----------------------------------------------------------------------------
ScannerTypeOK ==
    /\ \A i \in DOMAIN devices :
          devices[i] \in [name: Wireguards \union DeviceNames, of: ScanProfiles \union {Foreign},
                          inet: BOOLEAN]
    /\ running \subseteq Openvpns
    /\ logs \in [Openvpns -> DeviceNames \union {""}]
    /\ sweep.pids \subseteq running \union sweep.ran
    /\ sweep.always \subseteq sweep.ever
    /\ view.marked \subseteq ScanProfiles

Swept == sweep.pc \in {"profile", "shown"} /\ sweep.todo = <<>>

\* A sweep reports every tunnel that had its address from the sweep's beginning
\* to its end, however the others changed, when all its commands ran.
NothingMissed ==
    Swept /\ sweep.failures = 0 =>
        \A t \in sweep.always : t[1] # Foreign => t[1] \in ReportedNames(sweep.out)

\* It reports a WireGuard profile only if its interface was there at some moment of
\* the sweep, and an OpenVPN profile only if its process was.
NothingInvented ==
    \A i \in DOMAIN sweep.out :
        LET p == sweep.out[i].of
        IN  IF p \in Wireguards THEN \E t \in sweep.ever : t[1] = p ELSE p \in sweep.ran

\* When the only OpenVPN of the sweep has a device with an address throughout and no
\* WireGuard interface vanishes meanwhile, the device reported is its own.  With two
\* OpenVPN tunnels both get the first device: see the README.
OwnDevice ==
    sweep.failures = 0 =>
        \A i \in DOMAIN sweep.out :
            LET p == sweep.out[i].of IN
            /\ p \notin Wireguards
            /\ sweep.ran = {p}
            /\ \A t \in sweep.ever : t \in sweep.always
            => \/ <<p, sweep.out[i].iface>> \in sweep.ever
               \/ sweep.ever \subseteq Wireguards \X Wireguards

\* `vortix status` beside a daemon: if the daemon's tunnel is the only one, from the
\* sweep's beginning to its end, then the printed profile, protocol and interface
\* belong together.
StatusOfOneTunnel ==
    (/\ sweep.pc = "shown" /\ view.state = "connected" /\ sweep.failures = 0
     /\ \A t \in sweep.ever : t \in sweep.always /\ t[1] = view.profile
     /\ sweep.ran \subseteq {view.profile} /\ sweep.ever # {})
    => view.protocol = ProtocolOf(view.profile) /\ <<view.profile, view.iface>> \in sweep.ever

\* A sweep tells what was on the machine while it ran, no more and no less
\* (get_active_profiles, check_openvpn_by_pid, overlay_daemon_state).
ScanIsHonest == NothingMissed /\ NothingInvented /\ OwnDevice /\ StatusOfOneTunnel

=============================================================================
