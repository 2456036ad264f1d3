----------------------------- MODULE VortixApp -----------------------------
(* The connection control plane of the TUI: App, its TunnelRegistry, the     *)
(* worker threads that run Tunnel::up and Tunnel::down, the kernel tunnels   *)
(* they act on, and the scanner that reports what the kernel holds.          *)
(*                                                                           *)
(* The event loop is single-threaded, so a handler is one step; only the     *)
(* dispatch of a scan (handle_sync_system_state) is one step per registry    *)
(* entry, because each entry's arm may start or stop workers.  A worker's    *)
(* effect on the kernel and the arrival of its message are separate steps.   *)
(*                                                                           *)
(* Root, dependencies and saved credentials are given, so no permission,     *)
(* dependency or auth dialog opens; the catalogue of profiles is fixed; an   *)
(* interface the scanner reports is the tunnel's (interface_authoritative);  *)
(* of the conflicts only the default-route one is modelled.                  *)
EXTENDS Integers

CONSTANTS
    NumProfiles,    \* profiles are 1..NumProfiles, in the order of their ids
    DefaultRoute,   \* the profiles whose AllowedIPs claim the default route
    MaxRetries,     \* connect_max_retries
    AutoReconnect,  \* auto_reconnect
    Keys,           \* the user commands of the instance
    MaxUser,        \* bound: user commands in a behaviour
    Faults,         \* what else may happen, see FaultKinds
    MaxEnv          \* bound: drops, external starts, gateway changes, timeouts

Profiles == 1..NumProfiles
None     == 0
KeyKinds == {"toggle", "disconnect", "all", "cancel", "reconnect", "takeover", "switch"}
FaultKinds ==
    {"drop",        \* a kernel tunnel goes down behind vortix's back
     "external",    \* a kernel tunnel is started outside vortix
     "network",     \* the gateway changes
     "slow",        \* a connect outlasts connect_timeout
     "orphan",      \* a failed Tunnel::up leaves its daemon running
     "linger",      \* Tunnel::down returns before the daemon has exited
     "stuck"}       \* Tunnel::down fails and the tunnel stays up

ASSUME AppAssumption ==
    /\ NumProfiles \in Nat
    /\ DefaultRoute \subseteq Profiles
    /\ MaxRetries \in Nat
    /\ AutoReconnect \in BOOLEAN
    /\ Keys \subseteq KeyKinds
    /\ MaxUser \in Nat
    /\ Faults \subseteq FaultKinds
    /\ MaxEnv \in Nat

VARIABLES
    conn,       \* registry: profile -> state of its entry
    primary,    \* registry: the primary tunnel, or None
    route,      \* registry: whose interface the cached default route is
    kernel,     \* profile -> its kernel tunnel
    jobs,       \* profile -> running workers and undelivered results, by kind
    scan,       \* the scan in flight: what it read, not yet handled
    sync,       \* the scan being dispatched
    retry,      \* runtime.retry_state
    timers,     \* RetryConnect messages on their way: profile -> attempt -> how many
    pending,    \* runtime.pending_connect
    overlay,    \* profile of the takeover dialog that is open, or None
    last,       \* runtime.last_connected_profile
    user, env   \* commands and outside events so far

vars == <<conn, primary, route, kernel, jobs, scan, sync, retry, timers,
          pending, overlay, last, user, env>>

ConnStates == {"absent", "marker", "connecting", "connected", "disconnecting"}
KernelStates == {"off", "on", "dying"}
JobKinds   == {"up", "upOk", "upErr", "down"}
Attempts   == 1..(IF MaxRetries = 0 THEN 1 ELSE MaxRetries)

NoRetry == [n |-> 0, auto |-> FALSE]
NoScan  == [taken |-> FALSE, sessions |-> {}, route |-> None]
NoSync  == [todo |-> {}, adopt |-> {}, seen |-> {}, snap |-> [p \in Profiles |-> "absent"]]

Retries    == [n : {0} \cup Attempts, auto : BOOLEAN]
Scans      == [taken : BOOLEAN, sessions : SUBSET Profiles, route : Profiles \cup {None}]
Dispatches == [todo : SUBSET Profiles, adopt : SUBSET Profiles, seen : SUBSET Profiles,
               snap : [Profiles -> ConnStates]]

TypeOK ==
    /\ conn \in [Profiles -> ConnStates]
    /\ primary \in Profiles \cup {None}
    /\ route \in Profiles \cup {None}
    /\ kernel \in [Profiles -> KernelStates]
    /\ jobs \in [Profiles -> [JobKinds -> Nat]]
    /\ scan \in Scans
    /\ sync \in Dispatches
    /\ retry \in [Profiles -> Retries]
    /\ timers \in [Profiles -> [Attempts -> Nat]]
    /\ pending \in Profiles \cup {None}
    /\ overlay \in Profiles \cup {None}
    /\ last \in Profiles \cup {None}
    /\ user \in 0..MaxUser
    /\ env \in 0..MaxEnv

Init ==
    /\ conn = [p \in Profiles |-> "absent"]
    /\ primary = None
    /\ route = None
    /\ kernel = [p \in Profiles |-> "off"]
    /\ jobs = [p \in Profiles |-> [k \in JobKinds |-> 0]]
    /\ scan = NoScan
    /\ sync = NoSync
    /\ retry = [p \in Profiles |-> NoRetry]
    /\ timers = [p \in Profiles |-> [a \in Attempts |-> 0]]
    /\ pending = None
    /\ overlay = None
    /\ last = None
    /\ user = 0
    /\ env = 0

-----------------------------------------------------------------------------
(* Views of the registry *)

\* active_tunnel_ids over a registry c.
Active(c) == {p \in Profiles : c[p] \notin {"absent", "marker"}}

Least(S) == CHOOSE p \in S : \A q \in S : p <= q

\* legacy_state: the primary's entry, else the first active one.
LegacyProfile(c, pr) ==
    IF pr # None /\ c[pr] # "absent" THEN pr
    ELSE IF Active(c) # {} THEN Least(Active(c)) ELSE None

Legacy(c, pr, state) == LegacyProfile(c, pr) # None /\ c[LegacyProfile(c, pr)] = state
LegacyDown(c, pr)    == LegacyProfile(c, pr) = None \/ Legacy(c, pr, "marker")

\* recompute_primary: the connected owner of the cached default route.
Recompute(c, r) == IF r # None /\ c[r] = "connected" THEN r ELSE None

\* Mutant: a tunnel that is coming up is no conflict.
ConflictUp(c, q) ==
    /\ q \in DefaultRoute
    /\ \E p \in DefaultRoute \ {q} : c[p] = "connected"

\* detect_conflict.
Conflict(c, q) ==
    /\ q \in DefaultRoute
    /\ \E p \in DefaultRoute \ {q} : c[p] \in {"connected", "connecting"}

Update(p, state) == [conn EXCEPT ![p] = state]

\* What Tunnel::down can leave of a kernel tunnel it found in state k.
Downed(k) ==
    {"off"} \cup {d \in {"dying"} : k # "off" /\ "linger" \in Faults}
            \cup {s \in {k} : "stuck" \in Faults}

\* cleanup_vpn_resources: a synchronous down whose result is ignored.
Cleanup(p) == \E k \in Downed(kernel[p]) : kernel' = [kernel EXCEPT ![p] = k]

Event(kind) == kind \in Faults /\ env < MaxEnv /\ env' = env + 1

-----------------------------------------------------------------------------
(* Starting and stopping *)

\* connect_profile_inner on a registry c with primary pr.
Connect(c, pr, q, forced) ==
    /\ primary' = pr
    /\ \/ /\ ~forced /\ Conflict(c, q)
          /\ overlay' = q
          /\ conn' = c
          /\ jobs' = jobs
       \/ /\ forced \/ ~Conflict(c, q)
          /\ conn' = [c EXCEPT ![q] = "connecting"]
          /\ jobs' = [jobs EXCEPT ![q].up = @ + 1]
          /\ overlay' = IF forced THEN None ELSE overlay

\* Mutant: the primary is not elected anew.
DisconnectKeepsPrimary(S) ==
    /\ retry' = [p \in Profiles |-> IF p \in S THEN NoRetry ELSE retry[p]]
    /\ scan' = NoScan
    /\ conn' = [p \in Profiles |-> IF p \in S THEN "disconnecting" ELSE conn[p]]
    /\ primary' = primary
    /\ jobs' = [p \in Profiles |-> IF p \in S THEN [jobs[p] EXCEPT !.down = @ + 1] ELSE jobs[p]]

\* disconnect_specific for every profile of S.
Disconnect(S) ==
    /\ retry' = [p \in Profiles |-> IF p \in S THEN NoRetry ELSE retry[p]]
    /\ scan' = NoScan
    /\ conn' = [p \in Profiles |-> IF p \in S THEN "disconnecting" ELSE conn[p]]
    /\ primary' = Recompute(conn', route)
    /\ jobs' = [p \in Profiles |-> IF p \in S THEN [jobs[p] EXCEPT !.down = @ + 1] ELSE jobs[p]]

\* disconnect, on the legacy view's profile.
LegacyTarget == IF LegacyDown(conn, primary) THEN {} ELSE {LegacyProfile(conn, primary)}

-----------------------------------------------------------------------------
(* The user *)

Idle == sync = NoSync

Command(key) ==
    /\ Idle
    /\ key \in Keys
    /\ user < MaxUser
    /\ user' = user + 1

AtKeyboard(key) == Command(key) /\ overlay = None

\* toggle_connection; QuickConnect is the same.
Toggle(p) ==
    /\ AtKeyboard("toggle")
    /\ \/ /\ conn[p] = "connected"
          /\ Disconnect({p})
          /\ UNCHANGED <<pending, overlay>>
       \/ /\ conn[p] # "connected"
          /\ retry' = [retry EXCEPT ![p] = NoRetry]
          /\ scan' = scan
          /\ \/ /\ conn[p] = "connecting" \/ Legacy(conn, primary, "connecting")
                /\ UNCHANGED <<conn, primary, jobs, pending, overlay>>
             \/ /\ conn[p] # "connecting" /\ Legacy(conn, primary, "disconnecting")
                /\ pending' = p
                /\ UNCHANGED <<conn, primary, jobs, overlay>>
             \/ /\ conn[p] # "connecting" /\ Legacy(conn, primary, "connected")
                /\ overlay' = p
                /\ UNCHANGED <<conn, primary, jobs, pending>>
             \/ /\ LegacyDown(conn, primary)
                /\ Connect(conn, primary, p, FALSE)
                /\ UNCHANGED pending
    /\ UNCHANGED <<route, kernel, sync, timers, last, env>>

\* `d` on a connected row of the sidebar.
DisconnectProfile(p) ==
    /\ AtKeyboard("disconnect")
    /\ conn[p] = "connected"
    /\ Disconnect({p})
    /\ UNCHANGED <<route, kernel, sync, timers, pending, overlay, last, env>>

\* Message::Disconnect: disconnect, or force_disconnect of a teardown that is
\* under way; both spawn a down worker.
DisconnectLegacy ==
    /\ AtKeyboard("disconnect")
    /\ LegacyTarget # {}
    /\ \/ /\ ~Legacy(conn, primary, "disconnecting")
          /\ Disconnect(LegacyTarget)
       \/ /\ Legacy(conn, primary, "disconnecting")
          /\ scan' = NoScan
          /\ primary' = Recompute(conn, route)
          /\ jobs' = [p \in Profiles |->
                IF p \in LegacyTarget THEN [jobs[p] EXCEPT !.down = @ + 1] ELSE jobs[p]]
          /\ UNCHANGED <<conn, retry>>
    /\ UNCHANGED <<route, kernel, sync, timers, pending, overlay, last, env>>

\* disconnect_all_active, once the dialog is confirmed.
DisconnectAll ==
    /\ AtKeyboard("all")
    /\ Active(conn) # {}
    /\ Disconnect(Active(conn))
    /\ UNCHANGED <<route, kernel, sync, timers, pending, overlay, last, env>>

\* cancel_connect: the placeholder tunnel of the registry goes down, the
\* worker and the retry entry stay.
CancelConnect(p) ==
    /\ AtKeyboard("cancel")
    /\ conn[p] = "connecting"
    /\ conn' = Update(p, "marker")
    /\ primary' = Recompute(conn', route)
    /\ UNCHANGED <<route, kernel, jobs, scan, sync, retry, timers, pending, overlay, last, env>>

\* reconnect; ConnectSelected is this on the legacy profile, else Toggle.
Reconnect ==
    /\ AtKeyboard("reconnect")
    /\ \/ /\ Legacy(conn, primary, "connected")
          /\ pending' = LegacyProfile(conn, primary)
          /\ Disconnect(LegacyTarget)
          /\ UNCHANGED overlay
       \/ /\ LegacyDown(conn, primary) /\ last # None
          /\ Connect(conn, primary, last, FALSE)
          /\ UNCHANGED <<pending, retry, scan>>
    /\ UNCHANGED <<route, kernel, sync, timers, last, env>>

\* `b` in the takeover dialog: ConfirmDefaultRouteTakeover.
ConfirmTakeover ==
    /\ Command("takeover") /\ overlay # None
    /\ pending' = None
    /\ Connect(conn, primary, overlay, TRUE)
    /\ UNCHANGED <<route, kernel, scan, sync, retry, timers, last, env>>

\* `y` in the takeover dialog: SwitchExclusiveAndConnect.
SwitchExclusive ==
    /\ Command("switch") /\ overlay # None
    /\ overlay' = None
    /\ pending' = overlay
    /\ \/ LegacyTarget # {} /\ Disconnect(LegacyTarget)
       \/ LegacyTarget = {} /\ UNCHANGED <<conn, primary, jobs, scan, retry>>
    /\ UNCHANGED <<route, kernel, sync, timers, last, env>>

\* The dialog is closed; not counted as a command.
Dismiss ==
    /\ Idle
    /\ overlay # None
    /\ overlay' = None
    /\ UNCHANGED <<conn, primary, route, kernel, jobs, scan, sync, retry, timers,
                   pending, last, user, env>>

-----------------------------------------------------------------------------
(* The worker threads and the kernel *)

Finish(p, kind, result) ==
    /\ jobs[p][kind] > 0
    /\ jobs' = [jobs EXCEPT ![p] =
          [k \in JobKinds |-> IF k = kind THEN @[k] - 1 ELSE IF k = result THEN @[k] + 1 ELSE @[k]]]

Registry == <<conn, primary, route, scan, sync, retry, timers, pending, overlay, last>>

\* Tunnel::up succeeds; both protocols refuse a tunnel that is already up.
UpSucceeds(p) ==
    /\ kernel[p] # "on"
    /\ Finish(p, "up", "upOk")
    /\ kernel' = [kernel EXCEPT ![p] = "on"]
    /\ UNCHANGED <<Registry, user, env>>

\* Tunnel::up fails; a daemon that timed out or logged no interface stays.
UpFails(p) ==
    /\ Finish(p, "up", "upErr")
    /\ \/ kernel' = kernel
       \/ "orphan" \in Faults /\ kernel' = [kernel EXCEPT ![p] = "on"]
    /\ UNCHANGED <<Registry, user, env>>

UpWorker(p) == UpSucceeds(p) \/ UpFails(p)

\* Tunnel::down.  Its DisconnectResult changes nothing the model keeps
\* (handle_disconnect_result), so none is sent.
DownWorker(p) ==
    /\ Finish(p, "down", "none")
    /\ \E k \in Downed(kernel[p]) : kernel' = [kernel EXCEPT ![p] = k]
    /\ UNCHANGED <<Registry, user, env>>

\* The daemon that was signalled exits.
Exits(p) ==
    /\ kernel[p] = "dying"
    /\ kernel' = [kernel EXCEPT ![p] = "off"]
    /\ UNCHANGED <<Registry, jobs, user, env>>

-----------------------------------------------------------------------------
(* Results and timers *)

\* Mutant: only the result of a Connected entry counts.
RelevantUp(p) == conn[p] = "connected"

\* The test that makes a ConnectResult stale.
Relevant(p) == conn[p] \in {"connecting", "connected"}

Deliver(p, kind) == Idle /\ Finish(p, kind, "none")

\* handle_connect_result on success.
ConnectSucceeded(p) ==
    /\ Deliver(p, "upOk")
    /\ \/ /\ ~Relevant(p)
          /\ UNCHANGED <<conn, primary, retry, last>>
       \/ /\ Relevant(p)
          /\ retry' = [retry EXCEPT ![p] = NoRetry]
          /\ conn' = Update(p, "connected")
          /\ primary' = Recompute(conn', route)
          /\ last' = p
    /\ UNCHANGED <<route, kernel, scan, sync, timers, pending, overlay, user, env>>

\* Mutant: one retry too many.
ConnectFailedOnceMore(p) ==
    /\ Deliver(p, "upErr")
    /\ \/ /\ ~Relevant(p)
          /\ UNCHANGED <<conn, primary, kernel, retry, timers, pending>>
       \/ /\ Relevant(p)
          /\ conn' = Update(p, "marker")
          /\ primary' = Recompute(conn', route)
          /\ Cleanup(p)
          /\ LET next == retry[p].n + 1 IN
             \/ /\ next <= MaxRetries + 1 /\ pending = None
                /\ retry' = [retry EXCEPT ![p].n = next]
                /\ timers' = timers
                /\ UNCHANGED pending
             \/ /\ next > MaxRetries + 1 \/ pending # None
                /\ retry' = [retry EXCEPT ![p] = NoRetry]
                /\ pending' = None
                /\ UNCHANGED timers
    /\ UNCHANGED <<route, scan, sync, overlay, last, user, env>>

\* handle_connect_result on failure: set_failed, cleanup, retry or give up.
ConnectFailed(p) ==
    /\ Deliver(p, "upErr")
    /\ \/ /\ ~Relevant(p)
          /\ UNCHANGED <<conn, primary, kernel, retry, timers, pending>>
       \/ /\ Relevant(p)
          /\ conn' = Update(p, "marker")
          /\ primary' = Recompute(conn', route)
          /\ Cleanup(p)
          /\ LET next == retry[p].n + 1 IN
             \/ /\ next <= MaxRetries /\ pending = None
                /\ retry' = [retry EXCEPT ![p].n = next]
                /\ timers' = [timers EXCEPT ![p][next] = @ + 1]
                /\ UNCHANGED pending
             \/ /\ next > MaxRetries \/ pending # None
                /\ retry' = [retry EXCEPT ![p] = NoRetry]
                /\ pending' = None
                /\ UNCHANGED timers
    /\ UNCHANGED <<route, scan, sync, overlay, last, user, env>>

\* handle_retry_connect.
RetryConnect(p, a) ==
    /\ Idle
    /\ timers[p][a] > 0
    /\ timers' = [timers EXCEPT ![p][a] = @ - 1]
    /\ \/ /\ retry[p].n # a
          /\ UNCHANGED <<conn, primary, jobs, retry, overlay>>
       \/ /\ retry[p].n = a /\ Active(conn) # {}
          /\ retry' = [retry EXCEPT ![p] = NoRetry]
          /\ UNCHANGED <<conn, primary, jobs, overlay>>
       \/ /\ retry[p].n = a /\ Active(conn) = {}
          /\ Connect(conn, primary, p, FALSE)
          /\ UNCHANGED retry
    /\ UNCHANGED <<route, kernel, scan, sync, pending, last, user, env>>

\* handle_tick and handle_connection_timeout; the tick watches legacy_state.
ConnectTimeout ==
    /\ Idle /\ Event("slow")
    /\ Legacy(conn, primary, "connecting")
    /\ LET p == LegacyProfile(conn, primary) IN
       /\ Cleanup(p)
       /\ retry' = [retry EXCEPT ![p] = NoRetry]
       /\ conn' = Update(p, "absent")
    /\ pending' = None
    /\ primary' = Recompute(conn', route)
    /\ UNCHANGED <<route, jobs, scan, sync, timers, overlay, last, user>>

-----------------------------------------------------------------------------
(* The scanner *)

Sessions == {p \in Profiles : kernel[p] # "off"}

\* gather_system_state on its thread; poll_scanner starts one when the last
\* result has been dispatched.
TakeScan ==
    /\ Idle
    /\ ~scan.taken
    /\ \E r \in {None} \cup {p \in DefaultRoute : kernel[p] # "off"} :
          scan' = [taken |-> TRUE, sessions |-> Sessions, route |-> r]
    /\ UNCHANGED <<conn, primary, route, kernel, jobs, sync, retry, timers,
                   pending, overlay, last, user, env>>

\* poll_scanner and the head of handle_sync_system_state: feed the route,
\* snapshot the registry.
BeginSync ==
    /\ Idle
    /\ scan.taken
    /\ scan' = NoScan
    /\ route' = scan.route
    /\ LET known == {p \in Profiles : conn[p] # "absent"}
           new   == [todo |-> known, adopt |-> scan.sessions \ known,
                     seen |-> scan.sessions, snap |-> conn]
       IN  sync' = IF new.todo \cup new.adopt = {} THEN NoSync ELSE new
    /\ UNCHANGED <<conn, primary, kernel, jobs, retry, timers, pending, overlay,
                   last, user, env>>

\* Entry p of the snapshot is next, and found in state s.
Entry(p, s) == sync.todo # {} /\ p = Least(sync.todo) /\ sync.snap[p] = s
Seen(p)     == p \in sync.seen

\* The loop moves on; an exhausted dispatch leaves no trace.
Advance(rest) == sync' = IF rest.todo \cup rest.adopt = {} THEN NoSync ELSE rest
EntryDone(p)  == Advance([sync EXCEPT !.todo = @ \ {p}])

\* (Disconnecting, None): complete_disconnect and its pending connect.
SyncComplete(p) ==
    /\ Entry(p, "disconnecting") /\ ~Seen(p)
    /\ EntryDone(p)
    /\ scan' = NoScan
    /\ pending' = None
    /\ LET c  == Update(p, "absent")
           pr == Recompute(c, route)
       IN  \/ pending # None /\ Connect(c, pr, pending, FALSE)
           \/ /\ pending = None
              /\ conn' = c /\ primary' = pr
              /\ UNCHANGED <<jobs, overlay>>
    /\ UNCHANGED <<route, kernel, retry, timers, last, user, env>>

\* Mutants: the queued connect is kept; the force waits for a down worker.
SyncForceKeepsPending(p) ==
    /\ Entry(p, "disconnecting") /\ Seen(p)
    /\ EntryDone(p)
    /\ Cleanup(p)
    /\ conn' = Update(p, "absent")
    /\ primary' = Recompute(conn', route)
    /\ UNCHANGED <<route, jobs, scan, retry, timers, pending, overlay, last, user, env>>

SyncForceWaits(p) ==
    /\ Entry(p, "disconnecting") /\ Seen(p)
    /\ jobs[p].down > 0
    /\ EntryDone(p)
    /\ Cleanup(p)
    /\ pending' = None
    /\ conn' = Update(p, "absent")
    /\ primary' = Recompute(conn', route)
    /\ UNCHANGED <<route, jobs, scan, retry, timers, overlay, last, user, env>>

\* (Disconnecting, Some) past disconnect_timeout: scanner_force_disconnect.
SyncForce(p) ==
    /\ Entry(p, "disconnecting") /\ Seen(p)
    /\ EntryDone(p)
    /\ Cleanup(p)
    /\ pending' = None
    /\ conn' = Update(p, "absent")
    /\ primary' = Recompute(conn', route)
    /\ UNCHANGED <<route, jobs, scan, retry, timers, overlay, last, user, env>>

\* (Connected, Some): scanner_refresh_connected; set_connected only if the
\* entry is connected still.
SyncRefresh(p) ==
    /\ Entry(p, "connected") /\ Seen(p)
    /\ EntryDone(p)
    /\ primary' = IF conn[p] = "connected" THEN Recompute(conn, route) ELSE primary
    /\ UNCHANGED <<conn, route, kernel, jobs, scan, retry, timers, pending,
                   overlay, last, user, env>>

\* Mutant: only the tunnel of the legacy view can drop.
SyncDropLegacy(p) ==
    /\ Entry(p, "connected") /\ ~Seen(p)
    /\ EntryDone(p)
    /\ IF p = LegacyProfile(conn, primary)
       THEN conn' = Update(p, "absent") /\ primary' = Recompute(conn', route)
       ELSE UNCHANGED <<conn, primary>>
    /\ UNCHANGED <<route, kernel, jobs, scan, retry, timers, pending, overlay, last, user, env>>

\* (Connected, None): scanner_handle_drop.
SyncDrop(p) ==
    /\ Entry(p, "connected") /\ ~Seen(p)
    /\ EntryDone(p)
    /\ conn' = Update(p, "absent")
    /\ primary' = Recompute(conn', route)
    /\ IF AutoReconnect
       THEN /\ retry' = [retry EXCEPT ![p] = [n |-> 1, auto |-> TRUE]]
            /\ timers' = [timers EXCEPT ![p][1] = @ + 1]
       ELSE UNCHANGED <<retry, timers>>
    /\ UNCHANGED <<route, kernel, jobs, scan, pending, overlay, last, user, env>>

\* The arms that only log: a connect or a teardown under way, a marker.
SyncSkip(p) ==
    /\ \/ Entry(p, "connecting") \/ Entry(p, "marker")
       \/ Entry(p, "disconnecting") /\ Seen(p)
    /\ EntryDone(p)
    /\ UNCHANGED <<conn, primary, route, kernel, jobs, scan, retry, timers,
                   pending, overlay, last, user, env>>

\* scanner_adopt_session.
SyncAdopt(p) ==
    /\ sync.todo = {} /\ p \in sync.adopt
    /\ Advance([sync EXCEPT !.adopt = @ \ {p}])
    /\ conn' = Update(p, "connected")
    /\ primary' = Recompute(conn', route)
    /\ UNCHANGED <<route, kernel, jobs, scan, retry, timers, pending, overlay,
                   last, user, env>>

SyncStep(p) ==
    SyncComplete(p) \/ SyncRefresh(p) \/ SyncDrop(p) \/ SyncSkip(p) \/ SyncAdopt(p)

-----------------------------------------------------------------------------
(* The environment *)

\* A kernel tunnel goes down behind vortix's back.
TunnelDrops(p) ==
    /\ Event("drop") /\ kernel[p] = "on"
    /\ kernel' = [kernel EXCEPT ![p] = "off"]
    /\ UNCHANGED <<Registry, jobs, user>>

\* A kernel tunnel is started outside vortix.
ExternalUp(p) ==
    /\ Event("external") /\ kernel[p] = "off"
    /\ kernel' = [kernel EXCEPT ![p] = "on"]
    /\ UNCHANGED <<Registry, jobs, user>>

\* handle_network_changed.
NetworkChanged ==
    /\ Event("network") /\ Idle
    /\ AutoReconnect /\ LegacyDown(conn, primary)
    /\ LET again == {p \in Profiles : retry[p].auto} IN
       /\ again # {}
       /\ retry' = [p \in Profiles |-> IF p \in again THEN [n |-> 1, auto |-> TRUE] ELSE retry[p]]
       /\ timers' = [p \in Profiles |->
             IF p \in again THEN [timers[p] EXCEPT ![1] = @ + 1] ELSE timers[p]]
    /\ UNCHANGED <<conn, primary, route, kernel, jobs, scan, sync, pending,
                   overlay, last, user>>

-----------------------------------------------------------------------------

UserStep ==
    \/ \E p \in Profiles : Toggle(p) \/ DisconnectProfile(p) \/ CancelConnect(p)
    \/ DisconnectLegacy \/ DisconnectAll \/ Reconnect
    \/ ConfirmTakeover \/ SwitchExclusive \/ Dismiss

WorkerStep == \E p \in Profiles : UpWorker(p) \/ DownWorker(p) \/ Exits(p)

MessageStep ==
    \/ \E p \in Profiles : ConnectSucceeded(p) \/ ConnectFailed(p)
    \/ \E p \in Profiles, a \in Attempts : RetryConnect(p, a)
    \/ ConnectTimeout

ScannerStep ==
    \/ TakeScan \/ BeginSync
    \/ \E p \in Profiles : SyncStep(p) \/ SyncForce(p)

OutsideStep ==
    \/ \E p \in Profiles : TunnelDrops(p) \/ ExternalUp(p)
    \/ NetworkChanged

Next == UserStep \/ WorkerStep \/ MessageStep \/ ScannerStep \/ OutsideStep

Spec == Init /\ [][Next]_vars

\* Threads finish and the loop keeps polling.  Handlers of messages need SF:
\* the loop serves its channel again and again, between two dispatches.
WorkerFairness == \A p \in Profiles :
    WF_vars(UpWorker(p)) /\ WF_vars(DownWorker(p)) /\ WF_vars(Exits(p))

MessageFairness == \A p \in Profiles :
    /\ SF_vars(ConnectSucceeded(p)) /\ SF_vars(ConnectFailed(p))
    /\ \A a \in Attempts : SF_vars(RetryConnect(p, a))

\* SyncForce is the arm a teardown past disconnect_timeout takes.
ScannerFairness ==
    /\ WF_vars(TakeScan) /\ WF_vars(BeginSync)
    /\ WF_vars(\E p \in Profiles : SyncStep(p))
    /\ \A p \in Profiles : SF_vars(SyncForce(p))

FairSpec == Spec /\ WorkerFairness /\ MessageFairness /\ ScannerFairness

-----------------------------------------------------------------------------
(* Properties *)

\* A Connecting entry always has a worker that will end it, or the worker's
\* result in the channel: cancels, adoptions, timeouts and duplicate attempts
\* never leave an entry Connecting with nobody to resolve it (the entry the
\* scanner may not promote, handle_sync_system_state).
ConnectingHasJob ==
    \A p \in Profiles : conn[p] = "connecting" =>
        jobs[p].up + jobs[p].upOk + jobs[p].upErr > 0

\* A queued connect waits for a teardown that is in the registry: nothing
\* else drains pending_connect, and a set one also suppresses every retry.
PendingHasTeardown ==
    pending # None => \E p \in Profiles : conn[p] = "disconnecting"

\* primary never names an entry that is gone or on its way out, so a legacy
\* view that shows nothing means that nothing is up, coming up or going down:
\* reconnects, the queue and the kill switch decide by that view.
PrimaryIsUp == primary # None => conn[primary] \in {"connected", "connecting"}

\* Whatever starts a connect (a key, the queue, a retry, a reconnect), a
\* default-route profile starts beside another one that is up or coming up
\* only through the takeover dialog.
NoSilentTakeover ==
    [][\A p \in DefaultRoute : jobs'[p].up > jobs[p].up /\ overlay # p
           => \A q \in DefaultRoute \ {p} : conn'[q] \notin {"connected", "connecting"}]_vars

\* No attempt stays Connecting for ever.
ConnectEnds == \A p \in Profiles : conn[p] = "connecting" ~> conn[p] # "connecting"

\* No teardown stays Disconnecting for ever, even if Tunnel::down fails.
TeardownEnds == \A p \in Profiles : conn[p] = "disconnecting" ~> conn[p] # "disconnecting"

\* A queued connect is started or abandoned.
QueueDrains == pending # None ~> pending = None

\* A Connected entry whose tunnel is gone is noticed, on every tunnel and not
\* only on the primary.
GhostIsNoticed ==
    \A p \in Profiles : conn[p] = "connected" /\ kernel[p] = "off"
        ~> conn[p] # "connected" \/ kernel[p] # "off"
=============================================================================
