# vortix: models, checks and proofs

vortix is a terminal VPN manager for WireGuard and OpenVPN: a TUI that keeps
several tunnels, a set of one-shot CLI commands, and a kill switch that both
share.  This directory models its control logic in TLA+, checks the models with
TLC on small instances, and proves the main invariants with TLAPS for every
value of the constants.  Paths below are relative to `src/crates/vortix/src`
unless they start with `README.md` (the repository's own).

    tlc -config KS_recoverable.cfg MCKillSwitch.tla # a run
    tlapm KillSwitch_proofs.tla                     # the proofs of a module

## 1. Inventory

### The processes and what they share

* **The TUI** (`app/`, `vpn_runtime/`): one long-lived process.  Its event loop
  is single-threaded; everything slow runs on threads that send a `Message`
  back (`Tunnel::up`/`down` workers, the scanner, telemetry, retry timers).
* **CLI commands** (`cli/`): `up`, `down`, `reconnect` take `lifecycle.lock`;
  every command, `status` included, builds a `VpnRuntime` and therefore runs
  the kill-switch recovery of `VpnRuntime::new_headless`.
* **The daemon** (`daemon/`) serves IPC requests on a socket: an accept loop, an
  engine actor on its own thread with an FSM for one tunnel, a journal.  Of the
  program only `vortix status` is its client.
* They share the kernel's interfaces and OpenVPN daemons, the firewall,
  `killswitch.state`, the pidfiles and `lifecycle.lock`.  Nothing else
  synchronises them: the TUI takes no lock.

### Components

| Component | State | Operations | Hard behaviour | What makes it correct |
|---|---|---|---|---|
| Kill-switch policy (`state/killswitch.rs`, `core/killswitch.rs`, `vortix_platform_linux/firewall.rs`) | mode, state; ruleset; file | `desired_state`, `enable_blocking_multi`, `disable_blocking`, `save_state`, `load_state` | rules outlive the process; the call and the save are two steps; root may be missing; errors of removals and saves are dropped | installed rules are on record; belief in blocking is backed by rules; block-on-drop acts on a drop and on nothing else; where a failure goes unnoticed, only that failure |
| Kill switch in the processes (`vpn_runtime/mod.rs`, callers in `app/`, `cli/`) | one copy of (mode, state) per process | `sync_killswitch`, toggle, boot recovery, `release-killswitch` | two processes, crashes, firewall commands that fail | the copies stay coherent; the ruleset never lists a tunnel on its way out |
| TUI control plane (`app/connection.rs`, `app/update.rs`, `app/helpers.rs`) | registry, `pending_connect`, `retry_state`, overlay, scan in flight | toggle, connect, disconnect, cancel, takeover, switch, reconnect, results, retry timers, tick, scan dispatch | results and scans arrive late, twice or for an attempt that was abandoned; a dispatch works from a snapshot while its handlers change the registry | every attempt, teardown and queued connect ends; no second default route unasked; the primary is up |
| Tunnel registry (`vortix_core/engine/registry.rs`) | entries, primary, cached default route, queue | `set_*`, `detect_conflict`, `recompute_primary`; `connect`, `tick`, `disconnect_all`, `reconnect` (not called by the program) | election depends on the last route fed and on every status change | the primary is up; conflicts are seen |
| Engine FSM and actor (`engine/fsm.rs`, `engine/handle.rs`) | connection state; mailbox, journal | connect, disconnect, reconnect, snapshot; tick, link, profile and status inputs (not sent by the program) | `up` and `down` that fail half way; an OpenVPN `down` that is Ok before the daemon is gone; events appended after the fact | the journal tells of every tunnel that is up and was not taken down; an acknowledged command is over |
| Scanner (`core/scanner.rs`) | none | one pass over `ps`, `wg`, `ip`, pidfiles and logs; `status` | it reads one command after the other while workers write | a lost tunnel is noticed; what a sweep reports was there |
| CLI lifecycle (`cli/commands.rs`, `vpn_runtime/connection.rs`, `utils.rs`) | `lifecycle.lock`, a deadline | `up`, `down`, `reconnect` | two commands at once; a subprocess that outlives its command | operations are serialised; the conflict verdict holds; every command ends |
| Protocol drivers (`vortix_protocol_wireguard`, `vortix_protocol_openvpn`) | pidfile, temporary configs, daemon | `up`, `down`, `status` | no timeout on `wg-quick`; the pidfile is read before the spawn | one instance per profile; failure leaves nothing behind |
| Daemon and IPC (`daemon/`, `vortix_core/ipc`) | connections, backlog | dial, accept, request, reply, hang up | clients that give up, garble, do not close, or belong to another user | what a session was told stays true; every request is taken |
| Event journal (`vortix_core/journal`) | segment files, broadcast channel, tail buffer | open, retain, append, subscribe, tail | the limit is reached while others start; lagging readers; failing writes | files are bounded; a reader misses at most one event |
| Profile catalogue (`vpn/`, `app/profile.rs`, `core/importer.rs`) | profile list, `metadata.json`, auth files, positions held by dialogs, queue and retries | load, sort, import, rename, delete, credentials; the CLI's import, delete, rename | positions held across a re-sort; files changed by another process | a dialog acts on the profile it names; list and directory agree |
| Profile store and migration (`vortix_config/`) | sidecars, temporary files | list, load, save, rename, delete, migrate | deaths between two files; two starts at once | the next migration repairs what is left |
| CIDR arithmetic (`vortix_core/cidr*.rs`) | none | contains, overlap, default-route test, subtract | /0, /32, adjacency | the result is the set difference |
| Telemetry, leak probes, real-IP cache (`core/`) | addresses, cached real address, verdict | probe, cache, scan | probes that answer after a connect or disconnect | a leak that can be known is shown |
| Subprocess runner (`vortix_process`) and its stateful users | running programs, pipes, probe backoff, resolved's link | run, feed, time out; probe a route, register DNS | programs that fork, hang or keep the pipes | every call ends with all its program wrote |
| User interface: keyboard (`app/input.rs`) | panel, zoom, menu, viewer, dialog, cursors | keys, mouse, resize, background messages | the list shrinks and dialogs open under an open menu | the keyboard belongs to what the user sees |
| User interface: dashboard (`ui/dashboard/`) | none | header, strip, side bar, details, security guard | each panel derives the same facts on its own | the panels tell one story |
| macOS and Windows code, configuration parsers, logging, updates, secret files | | | | not modelled, see section 6 |

`PROJECT.json` lists, under `hazards`, each place where this code is hard to
test and the property that would see it go wrong.

## 2. Modules

| Module | Models |
|---|---|
| `KillSwitchPolicy` | the pure part: `desired_state`, the root downgrade, the boot recovery, what a ruleset is and what each Linux backend does when a command fails |
| `KillSwitch` | the TUI and a CLI command sharing firewall and file |
| `KillSwitchClaims`, `MCKillSwitch` | a claim of the documentation; values for TLC |
| `KillSwitch_proofs` | its theorems, and those of `CidrSets` |
| `VortixApp` | the control plane: event loop, registry, workers, kernel, scanner |
| `VortixAppClaims`, `MCVortixApp`, `VortixApp_proofs` | claims, values, theorems |
| `CliLifecycle` | the CLI's lifecycle commands, the lock, the workers of a TUI beside them |
| `MCCliLifecycle`, `CliLifecycle_proofs` | values, theorems |
| `EngineService` | the abstract specification: what the daemon promises its clients |
| `EngineDaemon` | the daemon: connections, accept loop, actor, FSM, journal; implements `EngineService` |
| `MCEngineDaemon`, `EngineDaemon_proofs` | values, theorems |
| `Catalogue` | the TUI's profile list, its files and everything that holds a position in it |
| `ProfileStore` | sidecars, their temporary files, the migration of every start |
| `TunnelRegistry` | the registry with one FSM per entry: every operation, also those the program does not call |
| `Dashboard` | what the panels draw of `TunnelRegistry` (EXTENDS it) |
| `ProtocolDrivers` | `OvpnTunnel` and `WgTunnel` on the level of files and processes |
| `Telemetry` | probes, caches, the verdict |
| `Journal` | retention, writer, broadcast, tail, subscribers |
| `CidrSets` | the CIDR algorithms beside the sets of addresses they speak of |
| `CommandRunner` | subprocesses and two stateful users of the runner |
| `Screen` | keyboard, dialogs, menus and viewers |
| `Scanner` | one sweep of the scanner command by command, and `vortix status` |
| `MCVortixParts` | the nine machines and the two function modules above in one specification, one at work at a time |
| `Storage_proofs` | theorems of `Journal`, `ProfileStore`, `Catalogue` |
| `Subprocess_proofs` | theorems of `CommandRunner`, `ProtocolDrivers` |
| `Observation_proofs` | theorems of `Telemetry`, `Scanner` |
| `Interface_proofs` | theorems of `TunnelRegistry`, `Screen`, `Dashboard` and of `MCVortixParts` |

The modules compose in three ways.  `EngineDaemon` implements `EngineService`
(`INSTANCE`, property `ServiceKept`).  `Dashboard` extends `TunnelRegistry` and
reads its variables.  `MCVortixParts` puts the parts that share no variables in
the code side by side: `focus` names the one at work.  The registry is modelled
twice: `VortixApp` has the calls the App makes, inside the event loop that
makes them; `TunnelRegistry` has the whole type, with the calls nobody makes
today.

### KillSwitch

| Variable | Code |
|---|---|
| `proc[p]` | the `VpnRuntime` of a process: `killswitch_mode`, `killswitch_state`, root, and whether it is between the firewall call and `save_state` |
| `conn` | the TUI's registry as far as `sync_killswitch` reads it: `bare` is Connected without an endpoint, `full` with one, `failed` the Disconnected marker of a failed connect |
| `kernel`, `fw`, `file` | tunnels up, installed ruleset, `killswitch.state` |
| `lapses` | history, read by properties only: what went unnoticed since the last firewall call that did as it was told |

A handler of the TUI is one action that ends in the first half of
`sync_killswitch` (state and firewall); `SaveState` is the second half, so that
`Crash` can fall between them.  `TuiStart` and `CliStart` are
`VpnRuntime::new`/`new_headless` with their recovery.  A `Drop` for
`VpnRuntime` does not exist, so `Crash` is also what `kill -9` does.

Every command may fail, and the code takes notice of hardly any failure.  A
failed load is a warning, and the state says Blocking all the same: under
iptables the old rules stay, or the new ones are there when only `ip6tables`
failed; under nftables the old table is gone (`AfterEnable`).  A failed removal
is dropped and `disable_blocking` returns Ok (`AfterDisable`); the `nft delete`
that precedes a load is a removal too, after whose failure the load *adds* its
rules to those there are (`Appended`).  A failed `save_state` or `clear_state`
is dropped (`Write`).  `Faults` switches each on (`enable`, `remove`, `record`,
beside `crash`, `unprivileged`, `beside`, `external`).

`lapses` collects such failures: `install`, `remove`, `record`, `notroot` (the
removal was asked for without root) and `death` (between firewall call and
save).  A firewall call that works empties it.  So the properties can say where
wrong rules come from instead of assuming that commands work: they hold under
every fault, and what they except is named and is never a step of the handlers
themselves.

### VortixApp

| Variable | Code |
|---|---|
| `conn`, `primary`, `route` | `TunnelRegistry`: entries, primary, cached default route |
| `jobs[p]` | worker threads of a profile that run (`up`, `down`) and results not yet received (`upOk`, `upErr`) |
| `kernel[p]` | the tunnel on the machine; `dying` is a daemon that was signalled and is still listed |
| `scan` | the snapshot `gather_system_state` took and the loop has not dispatched |
| `sync` | a dispatch in progress: entries still to visit, sessions to adopt, the registry snapshot it walks |
| `retry`, `timers` | `retry_state` and the `RetryConnect` messages on their way |
| `pending`, `overlay`, `last` | `pending_connect`, the takeover dialog, `last_connected_profile` |

A handler is one action because the loop is single-threaded.  The exception is
`handle_sync_system_state`: `BeginSync` takes the registry snapshot and one
`Sync...` action per entry follows, because every arm may itself start or stop
workers; user commands and messages wait (`Idle`) but workers do not.  The
registry snapshot is what the code takes (`all_states` before the loop), so an
arm can act on an entry that an earlier arm changed, as it does in the code.
`SyncForce` needs no clock: a teardown may be older than `disconnect_timeout`
whenever a scan still lists it.  `ConnectTimeout` counts as an outside event
because it needs a connect that outlasts `connect_timeout`.

### CliLifecycle

`cli[c]` is where a command is (`lock`, `list`, `gate`, `up`, `down`, `inner`),
`work[a]` the `Tunnel` call an actor waits for, `late` the `wg-quick up`
subprocesses whose vortix process has exited, `live[p]` the daemons or
interfaces of a profile, `dying` the OpenVPN profiles whose daemon was told to
stop and has not (`OvpnTunnel::down` sends SIGTERM and returns; `Dies` is the
daemon's own step).  To the list of active sessions a dying daemon is a tunnel,
to the pidfile probe it is not there.  `Tunnel::up` is two steps, the probe (pidfile,
interface) and the start, for CLI and TUI alike.  `inner` is `handle_up` called
from `handle_reconnect`: it opens the lockfile again and waits for the flock
its own process holds, so no action leaves it.

### EngineDaemon

| Variable | Code |
|---|---|
| `stage`, `sent`, `wire`, `answer` | a connection (`daemon/client.rs`): open or closed, the request and the response in its buffers |
| `view` | what its client may rely on: the last state the daemon told it in this session, forgotten when it sends a command |
| `backlog`, `phase`, `job`, `resp` | the listener, and where `handle_client` is in a session |
| `fsm` | `Engine::state`: the connected profile or none |
| `kernel[p]` | the tunnel of a profile on the machine: `off`, `up`, `dying` (an OpenVPN daemon that was sent SIGTERM and lingers), `orphan` (one that a failed `up` left behind) |
| `events`, `journal` | what `engine.handle` returned and the actor has not appended; the last tunnel event of each profile |

A command of the FSM is the set of its outcomes (`TryConnect`, `TryDisconnect`,
`TryReconnect`), because the FSM is synchronous: `ActorHandle` is
`engine.handle`, `ActorAppend` the appends and the acknowledgement after it.
`ActorIdle` is the actor's single thread.  A client that hangs up leaves its
request readable, so the daemon may execute a command nobody waits for.  The
client sends one request at a time; a client that tries again is another
connection.

`Ovpn` are the profiles that are OpenVPN's.  Their `down` ignores every kill
error, waits for nothing and is Ok (`OvpnTunnel::down`): the event says the
tunnel is down while its daemon may still be up.  Their `up` can give up on a
daemon that comes up all the same, and `handle_connect_failure` cleans nothing
up.  A WireGuard tunnel is up or off, and its `down` can fail.  Two daemons of
one profile count as the one started last.

`EngineService` knows none of this: a session is served or not, a request of
the session being served is executed at once and leaves one of the states
`After` allows, and its answer tells `Tells`.  Under the mapping a request is
asked from the moment it is in the socket's buffer until the FSM has run it,
and an answer told from then until the client has read it or gone away.  So
`ServiceKept` says that framing, backlog, mailbox, journal appends and clients
that hang up never execute a request twice, never change the state for a
session that is not served, and never tell a state other than the one at the
moment of execution.

### Catalogue and ProfileStore

A profile is a name, an extension and an import number; names are numbers that
sort as the strings do (`UniqueName` is `get_unique_path`).  `list`, `order`
and `sel` are `runtime.profiles`, `sort_order` and the selection; `dialog`,
`queue`, `retry` and `timers` are what holds an index into the list; `disk`,
`meta` and `auth` are the profiles directory, `metadata.json` and the auth
files.  User keys, arrivals (results, drops, finished downloads) and CLI
commands interleave; each handler is one action, the re-sort or
`save_metadata` at its end included.

In `ProfileStore` a step is one file operation: `std::fs::write` truncates
(`SidecarOpen`) before it fills, `rename` replaces, and two writers of one
temporary name share its inode.  `op`, `held` and `todo` are where a process
is, what its descriptor refers to by now and which directory entries its
migration has not come to; `broke`, `shared` and `walk` are history for the
properties.

### TunnelRegistry and Dashboard

A registry call holds `&mut self`, so it is one action; what `Tunnel::up` and
`Tunnel::down` answer in it is chosen per profile.  `reg.state`, `reg.queued`,
`reg.primary` are the FSMs, `pending_after_disconnect` and the primary; `route`
is the cached default route.  `stopped` remembers that the last call was
`disconnect_all`.  `Dashboard` has operators for what each panel derives
(`derive_role`, the header's title, the strip's tiers, the verdict, the
kill-switch row) and lets the App's bookkeeping calls drive the registry.

### ProtocolDrivers

`daemon[d]` is an openvpn process and its stage (spawned parent, forked, up,
signalled); `pidFile`, `runLog`, `bundle`, `socket` and `temps` are its files,
`drive[r]` where the call of a vortix process is.  `up` is split wherever the
code waits: pidfile probe, spawn, management dialogue, log polling.  A death of
vortix may fall between any two steps; the sweep of the next start is one of
its own.

### Telemetry

`kernel`, `entry` and `known` are the tunnel as the machine, the registry and
the last scan have it; a probe takes the path it finds, and its answer waits in
`mail` for the loop.  `real` and `cache` are `real_ip` and the file of
`real_ip_cache`; `Verdict` is `verdict_for_protected` and its siblings.
`unseen` and `raced` are history: they name the one race the code cannot win.

### Journal

`recent` is the directory, newest first; a process lists it, prunes it and
opens its own file in three steps (`listed`, `doomed`), so processes interleave.
The listing may fail, and then nothing is pruned; so may the removal of a file,
and then the pass goes on to the next one.  `since` is what the last finished
pass did not find or could not remove.
An event is a number: `sent`, `written`, `cast` and `tailed` say how far the
channel, the file, the broadcast and the tail buffer have come.  `watch` is a
subscriber that reads the tail after subscribing and ends when the channel has
dropped an event on it.

### CommandRunner

`CommandSpec` is what each call site passes to the runner (timeout, stdin,
root, daemonizing).  `pending[t]` is the call a thread blocks in, `proc` the
programs, with what they have written and whether somebody else holds their
pipes; `backoff` is the route probe's, `link` resolved's view of the interface.
A timeout drops the call and leaves its program running, as the code does.

### CidrSets

`base` is the list `cidr_subtract` subtracts from, `declared` what the tunnels
have declared so far.  A block is an address and a length, host bits and all.
The loops of the code are recursive functions over the list or the address they
walk (`merged`, `cut`, `reach`, `from`), with the body as an operator of its own
(`Joined`, `CutOut`, `Reach`, `LargestFit`); `Next1` is `saturating_add`, the
flag `done` an early return.  `sort_unstable_by_key` is *some* order by start
address.  The properties compare what comes out with the sets of addresses.

### Screen and Scanner

`Screen` is one record `ui` and a function per layer, in the order of
`handle_key` (toast, dialog, menu, viewer, zoom, panel); texts are a length and
a cursor, lists a length.  Background messages are actions beside keys.
`Scanner` runs `ps`, `wg`, `ip` as separate steps, each reading the machine as
it is then, while tunnels come and go; `ever`, `always` and `ran` record what
was up at any time, or all the time, of the sweep.

## 3. Runs

Passing:

| Run | Checks | Instance |
|---|---|---|
| `KS_recoverable` | `TypeOK`, `EngagedIsRecorded`, `NotBlockingIsOpen`, `BlockingIsEnforced`, `NoStaleAccept`, `AutoEngagesOnlyOnDrop` | two tunnels, nftables, every fault but processes beside one another: failing loads, removals and saves, deaths in mid-sync, starts without root, tunnels started outside (1.3 million states) |
| `KS_beside` | `ModeStateCoherent`, `ArmedDropBlocks` | iptables, CLI commands beside the TUI, failing loads, starts without root (2.7 million states) |
| `App_core` | `TypeOK`, `PrimaryIsUp`, `ConnectingHasJob`, `NoSilentTakeover` | two default-route profiles, every command, 3 of them, one retry, one outside event: drop, orphan, slow connect, failing worker (3 million states) |
| `App_live` | `ConnectEnds`, `TeardownEnds`, `QueueDrains`, `GhostIsNoticed` | one of two profiles claims the default route, so that two are up at once; drops, lingering and failing teardowns; `FairSpec` |
| `Cli_locked` | `TypeOK`, `GateHolds`, `OneInstance`, `UpHarmless`, `CommandEnds` | two processes, a WireGuard and an OpenVPN profile that clash, `up` and `down`; `FairSpec` |
| `Cli_beside` | `OneEach` | the same with every command, a TUI worker, hanging subprocesses and drops |
| `Daemon` | `TypeOK`, `SnapshotHolds`, `JournalCoversKernel`, `EveryRequestIsTaken`, `ServiceKept` | three connections, one of another user, four requests in all, a WireGuard and an OpenVPN profile, every fault; `FairSpec` (0.6 million states) |
| `Parts` | `PartsTypeOK`, one property per part: below | eleven parts, a behaviour working on one (1.5 million states) |

`Parts` checks `DialogIsRight` and `DiskMatchesList` (Catalogue),
`StoreRecovers` (ProfileStore), `StopAllStops` (TunnelRegistry),
`DashboardAgrees`, `NothingLeftBehind` (ProtocolDrivers), `LeakIsSeen`
(Telemetry), `JournalPromises`, `CidrsAreSets`, `CallsEnd` (CommandRunner),
`ScreenAnswers` and `ScanIsHonest`.  Most are conjunctions of named parts, each
with its own comment in the module.

Refuting (section 5): `KS_claim_restart`, `App_claim_cancel`, `App_claim_drop`,
`Cli_claim_reconnect`.

**Why the bounds are enough.**  Two tunnels are what the policy can tell apart
(this one, another one); two processes are all that share the file, and only
one of them is long-lived.  `KS_beside` leaves out the faults its two properties
have nothing to do with; their theorems cover every fault, and those of the other
properties both backends.  What these except is no wider than needed: with any
one of the four lapses taken out of `Loose`, TLC finds a counterexample under
either backend.
The control plane compares a profile with *the*
legacy profile and with *some* other entry, so two profiles meet every branch;
`MaxUser` bounds commands, `MaxEnv` outside events, `MaxRetries` is the
configured budget.  `MaxUser = 3` is enough to connect, open the dialog and
take over, or to connect, disconnect and connect while the first worker still
runs.  The counters of `jobs` and `timers` need no bound of their own: each is
fed by a command, a budgeted retry or an outside event.  In the CLI two
commands are enough for every pair of critical sections.  In the daemon two
clients are the one served and the one that waits, and three commands reach a
connect after a disconnect that failed.

In `Parts`: the catalogue starts from any session with two base names and up to
three files and takes three steps (`MaxSteps`), enough to open a dialog, let
something arrive behind it and answer; the import numbers stay within
`MaxFiles`.  Three registry entries and four calls reach a queue behind a queue
before a stop-all.  Two starts with one or two broken operations between them
are all a sidecar can tell apart.  Two daemons of two profiles whose names
contain one another, with two calls, show what a pidfile and a substring match
can confuse.  Addresses have `Width` = 4 bits and the range lists the shape of
RFC 1918 in four bits, so that /0, single addresses and adjacent siblings all
occur; `CidrsAreSetsHolds` covers every width.
`Rung` = 1 stands for the three consecutive failures before a cooldown: the
counter is reset by every success and by the cooldown, so one rung meets both
ends of it; the theorem covers every `Rung`.  One retained file, a broadcast
capacity of one and three events put both limits of the journal in reach of
every step.  Terminals of 1 and 2 lines, one resized into the other, and
files of 3 make every viewer scroll; the strip's budgets are the thresholds of its tiers and their neighbours.  The
theorems cover any number of processes, tunnels and profiles, any budget and
any bound.

**Symmetry** is used in `KS_beside` alone, where the tunnels are
interchangeable: iptables lists them all (nftables the first only).  Elsewhere
the registry picks the first active entry by id, and the instances are small
enough without it.

**Fairness** (`FairSpec`).  In `VortixApp` worker threads finish (both drivers
bound what they wait for, apart from `wg-quick`, whose hang is the `slow` and
`hang` faults, absent from the liveness runs), the scanner thread answers and
the loop goes on dispatching: weak fairness.  Messages are handled only between
dispatches, so their handlers need strong fairness; the loop drains its channel
on every turn.  `SyncForce` has strong fairness because a scan returns about
every second and the clock passes `disconnect_timeout` meanwhile.  The user, the
timeout and the outside world have none.  In `CliLifecycle` a process that can
go on does; `flock(2)` promises no order, so `Lock` is strongly fair.  In
`EngineDaemon` the daemon's thread goes on, and a client drops its stream in the
end: `client.rs` sends one request and waits 2 s at most.  A client that stays
connected and silent would block all others; nothing in the daemon limits it.
`Daemon.cfg` switches the deadlock check off because connections are finitely
many and all of them close; `Parts.cfg` because a part stops when its
budget of steps is used up.

## 4. Proofs

All theorems hold for every value of the constants that satisfies the module's
named assumption.  The assumptions give the constants their types; what they say
beyond that is a fact of the code:

* `DriverAssumption`: a name is OpenVPN's or WireGuard's (a profile has one
  protocol), and every name contains itself.
* `ScannerAssumption`: an interface called `tun...` can be a WireGuard profile's,
  a foreign one is nobody's.
* `RegistryAssumption`: finitely many ids, as they are the keys of a map.
* `JournalAssumption`: finitely many files; a broadcast channel has a capacity.
* `BaseAssumption`: between two of the ranges subtracted from lies an address of
  neither, as between 10/8, 172.16/12 and 192.168/16.  Two halves of one block
  would leave the pass list of the pair uncanonical: the base is not merged.
* `ScreenAssumption`: a terminal in which something is drawn.  Below six lines
  there is only the notice that it is too small, and there the proof does not go
  through for good reason: End scrolls a viewer past its last line
  (`ui/helpers.rs:406-412`), and as nothing is clamped on a resize, an enlarged
  terminal shows an empty viewer.

What a theorem needs beyond its assumption it says in its `ASSUME`.

**KillSwitch_proofs.**  Every action is one of six *shapes* (`StepShape`: boot,
sync, save, end, quiet, release); the invariants are proved per shape, not per
action.
* `TypeCorrect`, and `ModeStateCoherentHolds` under every fault.  Its inductive
  form adds `FileCoherent`: a saved pair is one a mode can justify, because
  boot copies the pair of the file.
* `ArmedDropBlocksHolds`, under every fault.
* The other five hold under every fault as long as one process runs at a time
  (`"beside" \notin Faults`): a CLI command beside a TUI, with its boot recovery,
  removes the rules under the TUI's feet.
* `BlockingIsEnforcedHolds`: the inductive form (`BlockInv`) is the same in
  mid-sync and for both kinds of process.
* `EngagedIsRecordedHolds` and `NotBlockingIsOpenHolds` are proved together
  (`RecordInv`): rules that stay with a process that is not blocking (`OpenInv`)
  would be saved as unrecorded, and unrecorded rules are inherited by the next
  process.  A firewall call that works empties `lapses`, and then the rules are
  exactly what the new state asks for.
* `NoStaleAcceptHolds`.  The inductive form (`AcceptInv`) holds in mid-sync too,
  and leans on `DownForgets` (a TUI that is not running has no registry) and on
  rules being replaced as a whole by a load that works.
* `AutoEngagesOnlyOnDropHolds`.  It needs that a process that has not booted
  holds no mode (`DownIsOff`), so that a boot is not such a step, and `BlockInv`:
  what a sync of any other kind can make good is a load that failed.
* `CidrsAreSetsHolds`, for every `Width` and any declared blocks, with
  `RoutesAreSetsHolds` as its half about routes.  The property is a fact about
  functions on lists, so the work is in their loops, each with an invariant after
  `k` rounds: `MergeInv`, the merged ranges cover what the first `k` ranges cover
  and have a gap between any two; `CutInv`, the output is what
  lies before the cursor and in no removed range, and the first `k` of those are
  behind the cursor or outside, unless the loop has returned; `ReachInv`, the first `k` ranges cover
  everything up to the mark, or miss an address before all that follow.  `Tiles`
  is built from the last address back: the blocks cover the range in order, each
  as large as alignment and length allow.  That is why the list is canonical: two
  blocks that could be written as one would have been one (`TilesExact`), and
  across ranges the gaps of `MergeInv` and `BaseAssumption` forbid it
  (`FarBlocks`).

  Two things stand in for an induction theorem.  `UpTo` says of a set of
  numbers what an induction says of a predicate, by a least counterexample.  And of `2^n` the
  provers know only that it is an integer; `PowerCounts` takes it for the number
  of subsets of an `n`-element set, a theorem of the library, and that it doubles
  (`PowerDoubles`), divides (`PowerSplits`) and nests blocks (`Nested`) follows
  from there, with no assumption on `^`.

**VortixApp_proofs.**
* `TypeCorrect`, `ConnectingHasJobHolds`, `NoSilentTakeoverHolds`.
* `PrimaryIsUpHolds`.
* `PendingHasTeardownHolds`, for instances without the `switch` command, which
  breaks it (section 5).  The inductive form (`QueueInv`) adds `DispatchKnows`:
  what a dispatch in progress may still find of the entries of its snapshot;
  without it the arm that completes a teardown could drain a queue that waits
  for another one.

**CliLifecycle_proofs.**
* `TypeCorrect` and `MutualExclusion` under every fault: who is past the lock
  holds it.
* `LifecycleSerialized`, `OneInstanceAlone`, `UpHarmlessAlone` and, without
  `--yes`, `GateHoldsAlone`, for commands alone on the machine
  (`Alone`: no TUI, no hanging subprocess).  The strengthening says which call
  a command waits for at each of its places and that between gate and start
  nothing changes but what a drop takes away.
* `OneEachHolds`, under every fault and beside a TUI: a profile has at most one
  daemon for each TUI worker and one for the CLI.  `EachInv` counts: the daemons
  of a profile and the calls that have probed and not yet started are together
  at most that many, because an actor has one call and of the commands only the
  one that holds the flock can be among them; an interface has one name.

**EngineDaemon_proofs.**
* `OutcomesHonest`, a lemma about the FSM: whatever fails, a command reports the
  tunnel it starts as up and the daemon it tells to stop as down, and none that
  it reports down is left up.
* `TypeCorrect`; `OneSessionHolds`: one connection at most is in
  `handle_client`.
* `SnapshotHoldsAlways`: the inductive form (`Informed`) says of the answers and
  responses on their way what the property says of views, and that whoever is
  outside a session knows nothing; then a command of the one session there is
  can make nobody's view stale.
* `JournalCoversKernelHolds`: a tunnel that came up and was not taken down is up
  in the journal or about to be; a daemon that lingers after its `down` is down
  in it, although it may still be there.  The inductive form (`JournalInv`) adds
  that no `TunnelDown` of a tunnel that is up waits to be appended, and that
  nothing waits while the actor takes a command.

* `DaemonServes`: every step of the daemon is a step of `EngineService` or a
  stutter, under every fault.  It rests on the session invariants above (one
  session is served, and its request is where the mapping looks for it).

**Observation_proofs.**
* `LeakIsSeenHolds`.  The inductive form (`TeleInv`) says that the file holds
  what the App holds, that a tunnel which some scan has shown is in the
  scanner's word and no scan on its way denies it, and that an answer of an exit
  is of a family its tunnel takes.
* `ScanIsHonestHolds`, for any list of profiles and any changes under the sweep.
  `ScanInv` relates the sweep to the history it is judged by, stage by stage.
  The part that carries the proof is `DueInv`: as long as no command has failed,
  every tunnel that was up throughout is still on the list or in the report,
  its process is among the pids, and its device is in the listing under scan.
  `SeenInv` and `ReportInv` say the converse, that a line or an entry was true at
  some moment of the sweep; they need that a WireGuard device is named for its
  profile and that a device has one owner (`DevicesInv`).
* `TeleTypeCorrect`, `ScannerTypeCorrect`.

**Subprocess_proofs.**
* `CallsEndHolds`, for any threads, programs, call sites and `Rung`.  Its
  invariant has four parts that are preserved one after the other: `Sound`
  (which program belongs to which call, who holds its pipes), `AnswersAreWhole`,
  `BackInv` (the backoff and the probes under way) and `LinkInv` (nobody comes to
  the second call on a link whose first has failed).
* `NothingLeftBehindHolds`, for any runners, profiles and daemons and any names
  that contain one another.  The property speaks of calls that are over, so the
  invariant must say what a call under way may have lying about: `SecretsInv`, a
  bundle or a temporary directory belongs to the attempt that runs or is one the
  code is known to leave; `StrayInv`, a daemon that has not been told to stop is
  named by its profile's pid file, or a call of the profile is at a place
  (`Fits`) where it has started that daemon and not yet heard from it, or the
  code is known to have lost it.
* `DriverTypeCorrect`, `RunnerTypeCorrect`.

**Storage_proofs.**
* `JournalPromisesHolds`, for any sessions, retention count, broadcast capacity
  and faults.  For the directory, `KeptInv` says that the files the last finished
  pass found and could remove, and those a pass under way will leave of these,
  are no more than the retention count; `FreshInv` that nobody lists the file of
  a process that has not come to create it.  It rests on what removing and
  prepending a name do to a listing.  For the readers, `WriterInv` says that
  persisted, broadcast and pushed events differ by one at most, in that order.
* `StoreRecoversHolds`, for any processes, names and directories, and starts that
  overlap.  `AloneInv`: as long as no two processes have written one temporary
  file, no sidecar is half written, and what is about to be renamed over one is
  whole.  `FilledInv`: as long as nobody has died and every write has worked,
  whatever is half written has somebody who will fill it.  `CoverInv`: a file
  that a migration has found is still ahead of it, or has its sidecar, or is the
  one it is writing for.
* `DialogIsRightHolds` and `DiskMatchesListHolds`, for any sequence of keys, late
  results, imports and commands.  `CatInv` has the dialog about the profile at its
  position (`DialogInv`), one file for each key on disk (`DiskInv`), list, files
  and saved metadata in agreement as long as no command renames or deletes beside
  the TUI (`ListInv`), and credentials for files that exist (`CredentialsInv`).
  The lemmas say that sorting permutes the list (`Shuffled`), so that positions
  follow their profiles, and that the numbering of an import finds a free name.
* `JournalTypeCorrect`, `StoreTypeCorrect`, `CatTypeCorrect`.

**Interface_proofs.**
* `StopAllStopsHolds`, for any number of entries and whatever the drivers answer.
  `disconnect_all` is one step, a fold over the entries in the order of their
  ids; its invariant (`StopInv`) is about that fold and says of the first `k`
  turns that what still stands was queued behind an entry whose turn comes no
  earlier.  Instead of an induction theorem the proof takes a least
  counterexample (`UpTo`), and the lemmas on folds and orders are stated that
  way.
* `DashboardAgreesHolds`.  Under the calls the App makes nothing is queued and the
  primary is up or, restarted under its own name, connecting (`DashInv`); the
  panels are then compared frame by frame.
* `ScreenAnswersHolds`, for any profiles, texts, pages and heights.  The invariant
  (`Good`) adds that row 0 without a profile is selected only in an empty list,
  that a menu and a viewer are never open together, and that the marked row of a
  menu exists.
* `PartsKeepTheirSpecs`: side by side, each part keeps to its own specification.
  This is what makes a theorem about `ScannerSpec` one about `PartsSpec`, which
  is the specification the run `Parts` checks.
* `RegistryTypeCorrect`, `ScreenTypeCorrect`, and `PartsTypeCorrect`, which puts
  the types of all parts together.  Four of the type invariants are not inductive
  alone or lean on what was proved before: an old file must still be listed
  (`OldInv`), a reader may not be ahead of what was appended (`AppendedInv`);
  `TeleInv` and `Sound` give the types of the mailbox and of the programs, and
  `RestTyped` and `AnswerInv` those of the rest.

**Only model-checked.**  Liveness under fairness and anything about `ENABLED`
is out of the prover's reach: `ConnectEnds`, `QueueDrains`, `TeardownEnds`,
`GhostIsNoticed`, `CommandEnds`, `EveryRequestIsTaken`.  Every invariant and action
property of a passing run is the statement of a theorem.  The other way round,
`PendingHasTeardownHolds`, `MutualExclusion` and `LifecycleSerialized` are proved
and no run spends time on them.

## 5. Where code and documentation disagree

Each of the first four is a run with a counterexample.

* `KS_claim_restart`: `README.md:93` and `:273` say that the rules survive
  restarts and crashes.  Every launch, even `vortix status`, disables an
  engaged firewall and clears the file (`vpn_runtime/mod.rs:178-189`).
* `App_claim_cancel`: the registry's comment names a single-default-route
  invariant.  `cancel_connect` takes down a placeholder; the worker goes on,
  its tunnel comes up without an entry, and the next default-route profile
  passes the conflict gate.
* `App_claim_drop`: a drop is said to be unexpected.  A scan that read the
  kernel before an `up` finished and is dispatched after its `ConnectResult`
  counts a live tunnel as dropped.
* `Cli_claim_reconnect` (a bug): `handle_reconnect` holds `lifecycle.lock` and
  calls `handle_up`, which waits for it for ever.

Behaviours the models show that a reader of the code may not expect.  The
properties of section 3 are stated so that they hold in spite of them:

* With a second connected tunnel, a drop blocks nothing: `scanner_handle_drop`
  sets Blocking and the sync that follows computes Armed
  (`app/update.rs:1236-1243`).  After a recovered launch (Auto, Disabled) the
  drop of an adopted tunnel does not block either, as no sync has armed it.
* The ruleset is built at connect, before the endpoint is known, and adoption
  does not sync: server addresses and adopted interfaces can be missing from it
  (`README.md:93`, `:496`).  In the step that sees a drop, the dropped tunnel's
  server is no longer listed.
* Four lapses leave rules that nothing records (`Loose`): a process that dies
  between the firewall call and `save_state`; a launch without root, which clears
  the file and cannot remove the rules; a removal that fails
  (`firewall.rs:286-293`, `:371`), because `disable_blocking` is Ok all the same;
  a `save_state` that fails (`vpn_runtime/mod.rs:547`).  `README.md` and
  `vpn_runtime/mod.rs:706` rely on the record.
* Under nftables a failed `nft delete` is ignored (`firewall.rs:350`), and the
  load that follows adds its rules to the old ones: the accepts of a tunnel that
  is being closed can stay (`remove` in `NoStaleAccept`).
* `handle_connection_timeout` and `scanner_force_disconnect` keep the scan in
  flight: it can adopt the tunnel that was just torn down, the next scan calls
  that a drop, and auto-reconnect brings it back.
* A second `RetryConnect` with the same attempt number removes the retry entry
  of the attempt that is under way (`app/update.rs:1390-1400`), and any active
  tunnel cancels another profile's retry.
* The connect timeout watches the legacy view: a second profile that hangs
  beside a connected primary is never timed out.  `App_live` therefore lets
  workers finish.
* `SwitchExclusiveAndConnect` with nothing left to disconnect leaves
  `pending_connect` set for ever (the `switch` command is absent where
  `PendingHasTeardown` and `QueueDrains` are checked).
* The marker of a failed connect keeps the scanner from adopting a tunnel of
  that profile.
* A takeover of a profile that was adopted while the dialog was open leaves the
  primary naming a Connecting entry; `PrimaryIsUp` allows that and excludes the
  rest.
* `complete_disconnect` starts the queued connect while a second down worker of
  a repeated disconnect may still run; adoption may overwrite the Connecting
  entry it has just made.
* Beside a TUI, which takes no lock, CLI commands overlap with its workers and
  two daemons of a profile can run; an `up` past its deadline exits with
  `wg-quick up` still running, so a later verdict of the conflict gate does not
  hold.  `Cli_locked` checks commands alone; `Cli_beside` what is left.
* In the daemon, a `down` that fails leaves the FSM Disconnected so that "the
  user isn't stuck" (`vortix_core/engine/fsm.rs:333`): the tunnel is still up,
  every further disconnect is ignored and a connect of the profile is refused by
  the driver.  `JournalCoversKernel` says what is left: the journal still has it.
* An OpenVPN `down` is Ok as soon as the signal is sent, or was not
  (`vortix_protocol_openvpn/tunnel.rs:904`): `TunnelDown` is journaled and the
  client told Disconnected while the daemon may be up, and its pidfile is gone,
  so that the next `up` starts a second one beside it.  A daemon that comes up
  after its `up` was given up on (`orphan` in `EngineDaemon`) is in no journal
  and out of reach of every disconnect.
* `Disconnect { profile_id }` and `Reconnect { profile_id }` act on whatever is
  connected, `ForceDisconnect` is `Disconnect`, and `Accepted` is sent for a
  command the FSM ignored (`engine/input.rs:30` promises a single tunnel or all).
* `Shutdown` is acknowledged and ignored (`ipc/mod.rs`: "daemon will terminate
  after draining"); no signal handler exists, so the socket file is never
  unlinked (`daemon/mod.rs`, lifecycle step 5); a malformed frame ends the
  session without the `MalformedRequest` or `UnsupportedWireFormat` answer.
* A daemon that drives nothing answers `Disconnected`, and `vortix status`
  overlays that on what its scanner has just seen (`cli/commands.rs:1150`); when
  the daemon is Connected, the protocol and the interface printed beside its
  profile are those of the scanner's first session.  `StatusOfOneTunnel` says
  when they belong together.  The comment at `cli/commands.rs:943` promises all
  active tunnels.
* Nothing sends the FSM a tick or an observation, so it stays Connected after
  its tunnel is gone (`TunnelDrops`); the retry and budget events of
  `engine/event.rs` are not emitted.

**Catalogue, store and files.**
* A downloaded import that fails re-sorts the list under an open delete dialog,
  which then deletes another profile (`late` in `DialogIsRight`); auto-reconnect
  and retry entries use positions taken before a re-sort.
* A re-imported file inherits the `last_used` of its predecessor; the CLI's
  rename forgets it and leaves the auth file under the old name; a profile can
  be renamed although it became active while the dialog was open.
* Two processes that migrate at once share one temporary name (`shared` in
  `SidecarsWhole`).  `main.rs:158` and `:165` name a `vortix migrate` command
  that does not exist.

**Registry and drivers.**
* A queued connect of `TunnelRegistry` is started without `detect_conflict`, and
  `disconnect_all` ("the goal is to reach an empty registry",
  `engine/registry.rs:802`) can leave one up: `StopAllStops` says which.
* A refused OpenVPN `up` leaves its one-time credentials; `down` finds daemons by
  a substring, so that stopping `corp` can stop `corp-eu`; the sweep of a start
  removes bundles and temporary directories of sessions that are alive; a
  disconnect builds a fresh WireGuard tunnel object, which does not know the
  temporary configuration of the connect; after a failed management dialogue the
  parent is joined without a timeout.

**Subprocesses.**
* A timeout drops the child without killing it, and writing stdin is not under
  the timeout (`vortix_process/real.rs:154`).  A `resolvectl` that was given up
  can finish on the link of a later session (`stray` in `CatchAllHasServers`).
* A clipboard tool keeps its pipes, so `vortix report` can hang
  (`cli/report.rs:678`).
* `run_to_output` is Ok when the program exits non-zero, so that such failures
  never count towards the route probe's backoff; a probe that times out says
  that there is no gateway, which is taken for a network change.

**Telemetry.**
* An answer that went through a tunnel and arrives after its end, or before a
  scan has shown the tunnel, is cached as the real address (`raced`).  The word
  "Unavailable" is cached as one too.  A connect does not reset `public_ip`; a
  DNS leak result may be that of the tunnel before.
* `ui/dashboard/security.rs:502` says that the title does not claim full
  protection "while a row is red"; the IPv6 row can be red under PROTECTED.

**Journal.**
* `subscribe` and `tail` are said to combine into a catch-up window
  (`journal/mod.rs:228`); an event between broadcast and tail is in neither.
* The subscriber of `main.rs:374` ends for good when it lags.  Retention can
  delete the file of a live session that is idle; what is queued at exit is
  lost, and a session whose file cannot be opened drops its events silently.

**CIDR blocks.**  The merged list is said to be sorted; after a subtraction it
is in the order of the base list.  `PassListIsExact` is about the set.  The IPv6
ruleset is skipped when no tunnel has an IPv6 server.

**Keyboard.**
* The credentials dialog of an existing profile starts with its cursors at the
  byte length (`app/update.rs:402`) where every key counts characters: if they
  are not ASCII, Backspace removes the wrong one and may panic (`wide` in
  `CursorInText`).
* In a terminal too small to be drawn in, keys go on working: End scrolls an open
  viewer past its end, and an enlarged terminal shows it empty.
* `q` in a menu or viewer quits vortix; a zoomed panel is drawn over a dialog
  that has the keyboard; F-keys and the mouse move the focus behind it.
* "Disconnect All" of the bulk menu sends `Message::Disconnect`, which is the
  primary only (`message.rs:369`).  An empty list may have row 0 selected.  A
  dialog from the background with Yes as its default can take a key meant for a
  text.

**Scanner.**
* Two OpenVPN tunnels both get the first `tun` interface, marked authoritative;
  one that is still negotiating is reported connected when another `tun` is up.
* When `ps` or `wg` cannot be started, every tunnel of its kind looks dropped
  (`failures` in `NothingMissed`).  `wg` needs root, so an unprivileged `status`
  misses WireGuard tunnels that have no log.

**Dashboard.**
* The header's `KS:VPN-only` is green for AlwaysOn when no rules are installed;
  (AlwaysOn, Disabled) is `KS:Off` in the header and fine in the security panel;
  the audit of an exposed machine ignores the kill switch's state, so that a
  Blocking that has just acted is not mentioned.
* A failed entry alone makes the header say `NO EXIT` and the verdict PARTIAL; a
  first connect shows `NO EXIT` instead of CONNECTING.
* An empty public key is read as OpenVPN's cipher; the hint "Press [Tab] to
  cycle focused tunnel" names a key that cycles panels; the strip disappears
  below 9 cells.

## 6. Not modelled, and why

* macOS and Windows: the models are of the Linux build, and nothing in them is
  common to two builds that could be checked once for both.
* The text formats: `.ovpn` and `.conf` files, settings, IPC frames, `ps` and
  `wg show` output, logs, the v1 form of `killswitch.state`.  They are functions
  of one string; no state that others see depends on more than their result.
* Colours, layout, the chart and the log panel; flips of panels.
* Logging, update checks, secret files' permissions, bug reports: no property of
  the connection state depends on them.
* IPv6 blocks and IPv6 rules: the code's set arithmetic drops them.
* The HTTP side of telemetry: latency, provider and location.
* In the control plane, the dependency and permission refusals and the
  route-overlap conflict.  The dialogs they open are in `Screen`.
* A reboot of the machine (the ruleset is gone, the file is not).
* In the daemon: its start beside another one, subscribers, tunnels that other
  processes start or stop, and the inputs nothing sends the FSM.

## 7. Plan

Written, checked, and proved as far as section 4 says: `KillSwitch`,
`VortixApp`, `CliLifecycle`, `EngineDaemon` with `EngineService`, and the parts
of `MCVortixParts`.  What would come next, in this order:

1. `AppKillSwitch`: `VortixApp` and `KillSwitch` composed, for what a stale scan
   makes the kill switch do; a reboot in `KillSwitch`.
2. An abstract per-profile lifecycle that `VortixApp`, `TunnelRegistry` and
   `EngineDaemon` implement.
3. The start of a second daemon, and a crash between `handle` and the writer.
4. `VortixApp` with the route-overlap conflict, and `Catalogue`'s positions in
   its retry entries instead of profiles.
5. IPv6 blocks in `CidrSets`: the proofs do not depend on the width, so only the
   code that drops them is missing.
6. The daemon's theorems with subscribers, once they are modelled.
