--------------------------- MODULE CliLifecycle ---------------------------
(* The CLI's lifecycle commands (up, down, reconnect) as concurrent          *)
(* processes on one machine, serialised by an flock on lifecycle.lock, and   *)
(* the TUI, whose workers call Tunnel::up and Tunnel::down without it.       *)
(*                                                                           *)
(* Every command runs as root on profiles of the catalogue, with its         *)
(* dependencies installed.  A Tunnel::up takes two steps: OpenVPN reads its  *)
(* pidfile before it spawns the daemon, wg-quick creates the interface at    *)
(* the end of a subprocess that has no timeout.                              *)
EXTENDS Integers, FiniteSets

CONSTANTS
    Procs,          \* CLI processes
    Workers,        \* worker threads of the TUI
    Free,           \* the lock is held by nobody
    Profiles,
    OpenVpn,        \* the OpenVPN profiles; the others are WireGuard
    Clash,          \* sets {p, q} of profiles the conflict gate refuses together
    Commands,       \* the commands of the instance
    Faults          \* what else may happen, see FaultKinds

CommandKinds == {"up", "upYes", "down", "reconnect"}     \* upYes: up --yes

FaultKinds ==
    {"tui",     \* a TUI starts and stops tunnels meanwhile
     "hang",    \* wg-quick up outlasts the deadline of connect_and_wait
     "drop",    \* a tunnel goes down behind vortix's back
     "fail"}    \* Tunnel::up or Tunnel::down fails

ASSUME CliAssumption ==
    /\ Workers \cap Procs = {}
    /\ Free \notin Procs
    /\ OpenVpn \subseteq Profiles
    /\ Clash \subseteq SUBSET Profiles
    /\ Commands \subseteq CommandKinds
    /\ Faults \subseteq FaultKinds

Actors == Procs \cup Workers

VARIABLES
    cli,    \* process -> where it is in its command, the command, what is left of it
    lock,   \* the process whose open file description holds the flock, or Free
    work,   \* actor -> the Tunnel::up or Tunnel::down call it is waiting for
    late,   \* wg-quick up subprocesses whose vortix process has exited
    live,   \* profile -> its interfaces or daemons on the machine
    dying   \* OpenVPN profiles with a daemon told to stop, its interface still there

vars == <<cli, lock, work, late, live, dying>>

\* "inner" is handle_up called from handle_reconnect, at its own lock.
Places == {"idle", "lock", "list", "gate", "up", "down", "inner"}
Ops    == {"none", "up", "spawn", "down"}

NoWork == [op |-> "none", on |-> {}]
Asleep == [at |-> "idle", cmd |-> "up", todo |-> {}]

CliRecords  == [at : Places, cmd : CommandKinds, todo : SUBSET Profiles]
WorkRecords == [op : Ops, on : SUBSET Profiles]

TypeOK ==
    /\ cli \in [Procs -> CliRecords]
    /\ lock \in Procs \cup {Free}
    /\ work \in [Actors -> WorkRecords]
    /\ late \subseteq Profiles
    /\ live \in [Profiles -> Nat]
    /\ dying \subseteq OpenVpn

Init ==
    /\ cli = [c \in Procs |-> Asleep]
    /\ lock = Free
    /\ work = [a \in Actors |-> NoWork]
    /\ late = {}
    /\ live = [p \in Profiles |-> 0]
    /\ dying = {}

\* detect_conflict_for_cli, on a pair.
Clashes(p, q) == p # q /\ {p, q} \in Clash

\* get_active_profiles: an OpenVPN process counts as long as it has an interface.
Active == {p \in Profiles : live[p] > 0} \cup dying

-----------------------------------------------------------------------------
(* Tunnel::up and Tunnel::down, for any actor *)

Call(a, op, p) == work' = [work EXCEPT ![a] = [op |-> op, on |-> {p}]]
Busy(a, op, p) == work[a] = [op |-> op, on |-> {p}]
Return(a)      == work' = [work EXCEPT ![a] = NoWork]

\* Mutant: no refusal of a double up.
UpProbesBlind(a, p) ==
    /\ Busy(a, "up", p)
    /\ Call(a, "spawn", p)
    /\ UNCHANGED <<cli, lock, late, live, dying>>

\* up looks: refused if a daemon or interface is there.  The pidfile of a daemon
\* that was told to stop is gone.
UpProbes(a, p) ==
    /\ Busy(a, "up", p) /\ live[p] = 0
    /\ Call(a, "spawn", p)
    /\ UNCHANGED <<cli, lock, late, live, dying>>

\* It is up.  Two daemons of one profile can be, two interfaces of one name not.
UpDone(a, p) ==
    /\ Busy(a, "spawn", p)
    /\ p \in OpenVpn \/ live[p] = 0
    /\ live' = [live EXCEPT ![p] = @ + 1]
    /\ dying' = dying

\* Mutant: down kills the daemon of the pidfile, found or not.
DownedOne(p, there) ==
    /\ live' = [live EXCEPT ![p] = @ - 1]
    /\ dying' = dying

\* down deletes the interface, or signals the daemons, if there are any, by pid and
\* by pattern, removes the pidfile and does not wait.
Downed(p, there) ==
    \/ /\ live' = [live EXCEPT ![p] = 0]
       /\ dying' = dying \/ (there /\ p \in OpenVpn /\ dying' = dying \cup {p})
    \/ "fail" \in Faults /\ p \notin OpenVpn /\ UNCHANGED <<live, dying>>

\* It fails: the caller cleans up with down, whoever's tunnel that is.
UpFailed(a, p) ==
    /\ \/ Busy(a, "up", p) /\ live[p] > 0
       \/ Busy(a, "spawn", p) /\ "fail" \in Faults
       \/ Busy(a, "spawn", p) /\ p \notin OpenVpn /\ live[p] > 0
    /\ Downed(p, TRUE)

DownDone(a, p) == Busy(a, "down", p) /\ Downed(p, live[p] > 0)

-----------------------------------------------------------------------------
(* The CLI *)

Goto(c, at, todo) == cli' = [cli EXCEPT ![c] = [@ EXCEPT !.at = at, !.todo = todo]]

\* Mutant: the lockfile outlives the process.
ExitLocked(c) ==
    /\ cli' = [cli EXCEPT ![c] = Asleep]
    /\ lock' = lock

\* The process ends; the kernel drops its flock.
Exit(c) ==
    /\ cli' = [cli EXCEPT ![c] = Asleep]
    /\ lock' = Free

\* A command line: up names a profile, down and reconnect one or none.
Run(c, cmd, targets) ==
    /\ cli[c].at = "idle"
    /\ cmd \in Commands
    /\ targets = Profiles => cmd \in {"down", "reconnect"}
    /\ cli' = [cli EXCEPT ![c] = [at |-> "lock", cmd |-> cmd, todo |-> targets]]
    /\ UNCHANGED <<lock, work, late, live, dying>>

\* Mutant: a shared lock.
LockShared(c) ==
    /\ cli[c].at = "lock"
    /\ lock' = c
    /\ Goto(c, IF cli[c].cmd \in {"down", "reconnect"} THEN "list" ELSE "gate", cli[c].todo)
    /\ UNCHANGED <<work, late, live, dying>>

\* acquire_lifecycle_lock.
Lock(c) ==
    /\ cli[c].at = "lock"
    /\ lock = Free
    /\ lock' = c
    /\ Goto(c, IF cli[c].cmd \in {"down", "reconnect"} THEN "list" ELSE "gate", cli[c].todo)
    /\ UNCHANGED <<work, late, live, dying>>

\* handle_up up to connect_and_wait: idempotence, conflict gate, worker.
GateStops(c) ==
    /\ cli[c].at = "gate"
    /\ \/ cli[c].todo \subseteq Active
       \/ cli[c].cmd # "upYes" /\ \E p \in cli[c].todo, q \in Active : Clashes(p, q)
    /\ Exit(c)
    /\ UNCHANGED <<work, late, live, dying>>

\* Mutants: no conflict gate, no idempotence.
GateOpen(c, p) ==
    /\ cli[c].at = "gate" /\ cli[c].todo = {p}
    /\ p \notin Active
    /\ Call(c, "up", p)
    /\ Goto(c, "up", {p})
    /\ UNCHANGED <<lock, late, live, dying>>

GateRepeats(c, p) ==
    /\ cli[c].at = "gate" /\ cli[c].todo = {p}
    /\ cli[c].cmd # "upYes" => \A q \in Active : ~Clashes(p, q)
    /\ Call(c, "up", p)
    /\ Goto(c, "up", {p})
    /\ UNCHANGED <<lock, late, live, dying>>

GatePasses(c, p) ==
    /\ cli[c].at = "gate" /\ cli[c].todo = {p}
    /\ p \notin Active
    /\ cli[c].cmd # "upYes" => \A q \in Active : ~Clashes(p, q)
    /\ Call(c, "up", p)
    /\ Goto(c, "up", {p})
    /\ UNCHANGED <<lock, late, live, dying>>

\* connect_and_wait returns, and handle_up exits either way.
UpReturns(c, p) ==
    /\ cli[c].at = "up"
    /\ UpDone(c, p) \/ UpFailed(c, p)
    /\ Return(c)
    /\ Exit(c)
    /\ UNCHANGED late

\* The deadline passes: `wg-quick down` finds no interface, the process exits,
\* its `wg-quick up` runs on.
Deadline(c, p) ==
    /\ "hang" \in Faults /\ p \notin OpenVpn
    /\ cli[c].at = "up" /\ Busy(c, "spawn", p)
    /\ late' = late \cup {p}
    /\ Return(c)
    /\ Exit(c)
    /\ UNCHANGED <<live, dying>>

LateUp(p) ==
    /\ p \in late
    /\ late' = late \ {p}
    /\ live' = [live EXCEPT ![p] = 1]
    /\ UNCHANGED <<cli, lock, work, dying>>

\* handle_down and handle_reconnect list the active sessions.
Lists(c) ==
    /\ cli[c].at = "list"
    /\ \/ /\ cli[c].cmd = "down" /\ cli[c].todo \cap Active = {}
          /\ Exit(c)
       \/ /\ cli[c].todo \cap Active # {}
          /\ Goto(c, "down", cli[c].todo \cap Active)
          /\ lock' = lock
       \/ /\ cli[c].cmd = "reconnect" /\ cli[c].todo \cap Active = {}
          /\ Goto(c, "inner", cli[c].todo)
          /\ lock' = lock
    /\ UNCHANGED <<work, late, live, dying>>

\* disconnect_and_wait on the next session.
Down(c, p) ==
    /\ cli[c].at = "down" /\ p \in cli[c].todo
    /\ work[c] = NoWork
    /\ Call(c, "down", p)
    /\ UNCHANGED <<cli, lock, late, live, dying>>

\* It returns.  handle_down goes on or exits; handle_reconnect calls handle_up,
\* which waits for the flock on a second open file description: this process
\* holds it on the first one, so the wait has no end and no action follows.
DownReturns(c, p) ==
    /\ cli[c].at = "down"
    /\ DownDone(c, p)
    /\ Return(c)
    /\ \/ /\ cli[c].cmd = "down" /\ cli[c].todo = {p}
          /\ Exit(c)
       \/ /\ cli[c].cmd = "down" /\ cli[c].todo # {p}
          /\ Goto(c, "down", cli[c].todo \ {p})
          /\ lock' = lock
       \/ /\ cli[c].cmd = "reconnect"
          /\ Goto(c, "inner", {p})
          /\ lock' = lock
    /\ UNCHANGED late

Step(c) ==
    \/ Lock(c) \/ GateStops(c) \/ Lists(c)
    \/ \E p \in Profiles :
          GatePasses(c, p) \/ UpProbes(c, p) \/ UpReturns(c, p) \/ Down(c, p) \/ DownReturns(c, p)

-----------------------------------------------------------------------------
(* The TUI and the machine *)

\* connect_profile_inner or disconnect_specific spawns a worker.
TuiCalls(w, op, p) ==
    /\ "tui" \in Faults
    /\ work[w] = NoWork /\ op \in {"up", "down"}
    /\ Call(w, op, p)
    /\ UNCHANGED <<cli, lock, late, live, dying>>

TuiReturns(w, p) ==
    /\ UpDone(w, p) \/ UpFailed(w, p) \/ DownDone(w, p)
    /\ Return(w)
    /\ UNCHANGED <<cli, lock, late>>

Drops(p) ==
    /\ "drop" \in Faults
    /\ live[p] > 0
    /\ live' = [live EXCEPT ![p] = 0]
    /\ UNCHANGED <<cli, lock, work, late, dying>>

\* A daemon that was told to stop has gone.
Dies(p) ==
    /\ p \in dying
    /\ dying' = dying \ {p}
    /\ UNCHANGED <<cli, lock, work, late, live>>

-----------------------------------------------------------------------------

Next ==
    \/ \E c \in Procs : Step(c)
    \/ \E c \in Procs, cmd \in Commands :
          Run(c, cmd, Profiles) \/ \E p \in Profiles : Run(c, cmd, {p})
    \/ \E c \in Procs, p \in Profiles : Deadline(c, p)
    \/ \E w \in Workers, op \in {"up", "down"}, p \in Profiles : TuiCalls(w, op, p)
    \/ \E w \in Workers, p \in Profiles : UpProbes(w, p) \/ TuiReturns(w, p)
    \/ \E p \in Profiles : Drops(p) \/ Dies(p) \/ LateUp(p)

Spec == Init /\ [][Next]_vars

\* A process that can go on does; flock(2) promises no order, so the lock is
\* only strongly fair.
FairSpec == Spec /\ \A c \in Procs : WF_vars(Step(c)) /\ SF_vars(Lock(c))

-----------------------------------------------------------------------------
(* Properties *)

\* Mutual exclusion of the commands, whatever the TUI, the network and the
\* subprocesses do: past its lock, a command is the only one, up to its exit.
Inside      == {c \in Procs : cli[c].at \notin {"idle", "lock"}}
OneCommand  == \A c, d \in Inside : c = d

\* acquire_lifecycle_lock: lifecycle operations are serialised, so at most one
\* Tunnel::up or Tunnel::down runs at a time on the machine.
Running    == {a \in Actors : work[a] # NoWork}
Serialized == late = {} /\ \A a, b \in Running : a = b

\* The verdict of the conflict gate, read from the scanner before the tunnel
\* is started, still holds when it comes up: two profiles that clash are never
\* up together, one on its way out included, as long as nobody says --yes.
GateHolds == \A p, q \in Active : ~Clashes(p, q)

\* A second daemon of one profile would overwrite the pidfile of the first, and
\* down would lose it (a daemon that was told to stop has no pidfile any more).
OneInstance == \A p \in Profiles : live[p] <= 1

\* Beside a TUI, which takes no lock, the probe of Tunnel::up still keeps the
\* daemons of a profile to one for each of its workers and one of the CLI.
OneEach == \A p \in Profiles : live[p] <= 1 + Cardinality(Workers)

\* A command `up` that fails cleans up with Tunnel::down: never at the expense
\* of a tunnel that was there before.
UpHarmless ==
    [][\A c \in Procs, p \in Profiles :
          cli[c].at = "up" /\ cli[c]' # cli[c] => live[p]' >= live[p]]_vars

\* Every command that was started ends, whatever the others do.
CommandEnds == \A c \in Procs : (cli[c].at # "idle") ~> (cli[c].at = "idle")
=============================================================================
