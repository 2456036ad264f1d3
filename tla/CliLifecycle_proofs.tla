------------------------ MODULE CliLifecycle_proofs ------------------------
(* What the lifecycle lock gives for any number of CLI processes, profiles   *)
(* and TUI workers.                                                          *)
EXTENDS CliLifecycle, FiniteSetTheorems, TLAPS

-----------------------------------------------------------------------------
(* Type correctness *)

\* What the actions put into cli and work.
LEMMA InitialRecords == Asleep \in CliRecords /\ NoWork \in WorkRecords
  BY DEF Asleep, NoWork, CliRecords, WorkRecords, Places, CommandKinds, Ops

\* Run starts a command of the instance on profiles of the catalogue.
LEMMA RunRecord ==
  ASSUME NEW cmd \in Commands, NEW todo \in SUBSET Profiles
  PROVE  [at |-> "lock", cmd |-> cmd, todo |-> todo] \in CliRecords
  BY CliAssumption DEF CliAssumption, CliRecords, Places

\* Goto moves a command on; it stays the same command.
LEMMA GotoRecord ==
  ASSUME NEW r \in CliRecords, NEW at \in Places, NEW todo \in SUBSET Profiles
  PROVE  [r EXCEPT !.at = at, !.todo = todo] \in CliRecords
  BY DEF CliRecords

LEMMA PlaceNames ==
  /\ "list" \in Places /\ "gate" \in Places /\ "up" \in Places
  /\ "down" \in Places /\ "inner" \in Places
  BY DEF Places

LEMMA CallRecord ==
  ASSUME NEW op \in {"up", "spawn", "down"}, NEW p \in Profiles
  PROVE  [op |-> op, on |-> {p}] \in WorkRecords
  BY DEF WorkRecords, Ops

LEMMA GotoTyped ==
  ASSUME cli \in [Procs -> CliRecords], NEW c \in Procs, NEW at \in Places,
         NEW todo \in SUBSET Profiles, Goto(c, at, todo)
  PROVE  cli' \in [Procs -> CliRecords]
  BY GotoRecord DEF Goto

\* Whatever becomes of a Tunnel::up or Tunnel::down, a count of instances is left,
\* and nobody but an OpenVPN daemon lingers.
LEMMA LiveTyped ==
  ASSUME live \in [Profiles -> Nat], dying \subseteq OpenVpn,
         NEW p \in Profiles, NEW a \in Actors,
         UpDone(a, p) \/ UpFailed(a, p) \/ DownDone(a, p)
  PROVE  live' \in [Profiles -> Nat] /\ dying' \subseteq OpenVpn
  BY DEF UpDone, UpFailed, DownDone, Downed

\* Every step keeps the types of the commands, of the lock and of the machine.
THEOREM TypeCorrect == Spec => []TypeOK
<1>1. Init => TypeOK
  BY InitialRecords DEF Init, TypeOK, Actors
<1>2. TypeOK /\ [Next]_vars => TypeOK'
  <2> SUFFICES ASSUME TypeOK, [Next]_vars PROVE TypeOK'
    OBVIOUS
  <2> USE InitialRecords, CallRecord, GotoRecord, RunRecord, PlaceNames DEF TypeOK, Actors
  <2>a. \A c \in Procs : cli[c].todo \in SUBSET Profiles
    BY DEF CliRecords
  <2>1. ASSUME NEW c \in Procs, Lock(c) PROVE TypeOK'
    <3>1. cli' \in [Procs -> CliRecords]
      BY <2>1, <2>a, GotoTyped DEF Lock
    <3> QED
      BY <2>1, <3>1 DEF Lock
  <2>2. ASSUME NEW c \in Procs, GateStops(c) PROVE TypeOK'
    BY <2>2 DEF GateStops, Exit
  <2>3. ASSUME NEW c \in Procs, Lists(c) PROVE TypeOK'
    <3>1. cli[c].todo \cap Active \in SUBSET Profiles
      BY <2>a
    <3>2. cli' \in [Procs -> CliRecords]
      BY <2>3, <2>a, <3>1, GotoTyped DEF Lists, Exit
    <3> QED
      BY <2>3, <3>2 DEF Lists, Exit
  <2>4. ASSUME NEW c \in Procs, NEW p \in Profiles, GatePasses(c, p) PROVE TypeOK'
    BY <2>4 DEF GatePasses, Call, Goto
  <2>5. ASSUME NEW a \in Actors, NEW p \in Profiles, UpProbes(a, p) PROVE TypeOK'
    BY <2>5 DEF UpProbes, Call
  <2>6. ASSUME NEW c \in Procs, NEW p \in Profiles, UpReturns(c, p) PROVE TypeOK'
    BY <2>6, LiveTyped DEF UpReturns, Return, Exit
  <2>7. ASSUME NEW c \in Procs, NEW p \in Profiles, Down(c, p) PROVE TypeOK'
    BY <2>7 DEF Down, Call
  <2>8. ASSUME NEW c \in Procs, NEW p \in Profiles, DownReturns(c, p) PROVE TypeOK'
    <3>1. cli[c].todo \ {p} \in SUBSET Profiles
      BY <2>a
    <3>2. CASE Exit(c)
      BY <3>2, <2>8, LiveTyped DEF DownReturns, Return, Exit
    <3>3. CASE Goto(c, "down", cli[c].todo \ {p}) \/ Goto(c, "inner", {p})
      <4>1. Goto(c, "down", cli[c].todo \ {p}) => cli' \in [Procs -> CliRecords]
        BY <3>1, GotoTyped
      <4>2. Goto(c, "inner", {p}) => cli' \in [Procs -> CliRecords]
        <5>1. {p} \in SUBSET Profiles
          OBVIOUS
        <5> QED
          BY <5>1, GotoTyped
      <4>3. cli' \in [Procs -> CliRecords]
        BY <4>1, <4>2, <3>3
      <4> QED
        BY <4>3, <2>8, LiveTyped DEF DownReturns, Return, Exit
    <3> QED
      BY <2>8, <3>2, <3>3 DEF DownReturns
  <2>9. ASSUME NEW c \in Procs, NEW cmd \in Commands, Run(c, cmd, Profiles) PROVE TypeOK'
    BY <2>9 DEF Run
  <2>10. ASSUME NEW c \in Procs, NEW cmd \in Commands, NEW p \in Profiles, Run(c, cmd, {p})
         PROVE TypeOK'
    BY <2>10 DEF Run
  <2>11. ASSUME NEW c \in Procs, NEW p \in Profiles, Deadline(c, p) PROVE TypeOK'
    BY <2>11 DEF Deadline, Return, Exit
  <2>12. ASSUME NEW w \in Workers, NEW op \in {"up", "down"}, NEW p \in Profiles,
                TuiCalls(w, op, p)
         PROVE TypeOK'
    BY <2>12 DEF TuiCalls, Call
  <2>13. ASSUME NEW w \in Workers, NEW p \in Profiles, TuiReturns(w, p) PROVE TypeOK'
    BY <2>13, LiveTyped DEF TuiReturns, Return
  <2>14. ASSUME NEW p \in Profiles, Drops(p) PROVE TypeOK'
    BY <2>14 DEF Drops
  <2>15. ASSUME NEW p \in Profiles, LateUp(p) PROVE TypeOK'
    BY <2>15 DEF LateUp
  <2>16. ASSUME NEW p \in Profiles, Dies(p) PROVE TypeOK'
    BY <2>16 DEF Dies
  <2>17. CASE UNCHANGED vars
    BY <2>17 DEF vars
  <2> QED
    BY <2>1, <2>2, <2>3, <2>4, <2>5, <2>6, <2>7, <2>8, <2>9, <2>10, <2>11, <2>12,
       <2>13, <2>14, <2>15, <2>16, <2>17 DEF Next, Step
<1> QED
  BY <1>1, <1>2, PTL DEF Spec

-----------------------------------------------------------------------------
(* Mutual exclusion *)

\* The flock names whoever is past acquire_lifecycle_lock.
LockInv == \A c \in Inside : lock = c

LEMMA GotoFacts ==
  ASSUME TypeOK, NEW c \in Procs, NEW at, NEW todo, Goto(c, at, todo)
  PROVE  /\ cli'[c].at = at /\ cli'[c].cmd = cli[c].cmd
         /\ \A d \in Procs \ {c} : cli'[d] = cli[d]
  BY DEF Goto, TypeOK, CliRecords

LEMMA ExitFacts ==
  ASSUME TypeOK, NEW c \in Procs, Exit(c)
  PROVE  /\ cli'[c] = Asleep /\ lock' = Free
         /\ \A d \in Procs \ {c} : cli'[d] = cli[d]
  BY DEF Exit, TypeOK

\* A command that stops, stops from inside; the others wait, so nobody is left.
LEMMA ExitKeepsLock ==
  ASSUME TypeOK, LockInv, NEW c \in Inside, Exit(c)
  PROVE  LockInv'
  BY ExitFacts DEF LockInv, Inside, Asleep

\* A command that goes on inside keeps the lock.
LEMMA GotoKeepsLock ==
  ASSUME TypeOK, LockInv, NEW c \in Inside, NEW at, NEW todo, Goto(c, at, todo), lock' = lock
  PROVE  LockInv'
  BY GotoFacts DEF LockInv, Inside

LEMMA LockStep == TypeOK /\ LockInv /\ [Next]_vars => LockInv'
<1> SUFFICES ASSUME TypeOK, LockInv, [Next]_vars PROVE LockInv'
  OBVIOUS
<1>1. ASSUME NEW c \in Procs, Lock(c) PROVE LockInv'
  <2>1. Inside = {}
    BY <1>1, CliAssumption DEF Lock, LockInv, Inside, CliAssumption
  <2>2. lock' = c /\ \A d \in Procs \ {c} : cli'[d] = cli[d]
    BY <1>1, GotoFacts DEF Lock
  <2> QED
    BY <2>1, <2>2 DEF LockInv, Inside
<1>2. ASSUME NEW c \in Procs, GateStops(c) PROVE LockInv'
  BY <1>2, ExitKeepsLock DEF GateStops, Inside
<1>3. ASSUME NEW c \in Procs, Lists(c) PROVE LockInv'
  <2>1. c \in Inside
    BY <1>3 DEF Lists, Inside
  <2> QED
    BY <1>3, <2>1, ExitKeepsLock, GotoKeepsLock DEF Lists
<1>4. ASSUME NEW c \in Procs, NEW p \in Profiles, GatePasses(c, p) PROVE LockInv'
  BY <1>4, GotoKeepsLock DEF GatePasses, Inside
<1>5. ASSUME NEW a \in Actors, NEW p \in Profiles, UpProbes(a, p) PROVE LockInv'
  BY <1>5 DEF UpProbes, LockInv, Inside
<1>6. ASSUME NEW c \in Procs, NEW p \in Profiles, UpReturns(c, p) PROVE LockInv'
  BY <1>6, ExitKeepsLock DEF UpReturns, Inside
<1>7. ASSUME NEW c \in Procs, NEW p \in Profiles, Down(c, p) PROVE LockInv'
  BY <1>7 DEF Down, LockInv, Inside
<1>8. ASSUME NEW c \in Procs, NEW p \in Profiles, DownReturns(c, p) PROVE LockInv'
  <2>1. c \in Inside
    BY <1>8 DEF DownReturns, Inside
  <2>2. Exit(c) => LockInv'
    BY <2>1, ExitKeepsLock
  <2>3. ASSUME Goto(c, "down", cli[c].todo \ {p}), lock' = lock PROVE LockInv'
    BY <2>1, <2>3, GotoKeepsLock
  <2>4. ASSUME Goto(c, "inner", {p}), lock' = lock PROVE LockInv'
    BY <2>1, <2>4, GotoKeepsLock
  <2> QED
    BY <1>8, <2>2, <2>3, <2>4 DEF DownReturns
<1>9. ASSUME NEW c \in Procs, NEW cmd \in Commands, NEW T, Run(c, cmd, T) PROVE LockInv'
  BY <1>9 DEF Run, LockInv, Inside, TypeOK
<1>10. ASSUME NEW c \in Procs, NEW p \in Profiles, Deadline(c, p) PROVE LockInv'
  BY <1>10, ExitKeepsLock DEF Deadline, Inside
<1>11. ASSUME UNCHANGED <<cli, lock>> PROVE LockInv'
  BY <1>11 DEF LockInv, Inside
<1> QED
  BY <1>1, <1>2, <1>3, <1>4, <1>5, <1>6, <1>7, <1>8, <1>9, <1>10, <1>11
  DEF Next, Step, Actors, TuiCalls, TuiReturns, Drops, Dies, LateUp, vars

\* At most one command is between its lock and its exit: beside a TUI, with
\* subprocesses that outlast their command, and whatever the tunnels do.
THEOREM MutualExclusion == Spec => []OneCommand
<1>1. Init => LockInv
  BY DEF Init, LockInv, Inside, Asleep
<1>2. LockInv => OneCommand
  BY DEF LockInv, OneCommand
<1> QED
  BY <1>1, <1>2, LockStep, TypeCorrect, PTL DEF Spec

-----------------------------------------------------------------------------
(* What the lock protects, once nothing goes around it *)

\* No TUI beside the commands, no subprocess that outlives its command.
Alone == Faults \cap {"tui", "hang"} = {}

\* Only a command inside runs Tunnel::up or Tunnel::down.
WorkInv ==
    /\ late = {}
    /\ \A w \in Workers : work[w] = NoWork
    /\ \A c \in Procs : work[c] # NoWork => cli[c].at \in {"up", "down"}

LEMMA CallFacts ==
  ASSUME TypeOK, NEW a \in Actors, NEW op, NEW p, Call(a, op, p)
  PROVE  /\ work'[a] = [op |-> op, on |-> {p}]
         /\ \A b \in Actors \ {a} : work'[b] = work[b]
  BY DEF Call, TypeOK

LEMMA ReturnFacts ==
  ASSUME TypeOK, NEW a \in Actors, Return(a)
  PROVE  /\ work'[a] = NoWork
         /\ \A b \in Actors \ {a} : work'[b] = work[b]
  BY DEF Return, TypeOK

LEMMA ActorSets == Procs \subseteq Actors /\ Workers \subseteq Actors /\ Workers \cap Procs = {}
  BY CliAssumption DEF Actors, CliAssumption

LEMMA BusyWorks ==
  ASSUME NEW a \in Actors, NEW op \in {"up", "spawn", "down"}, NEW p, Busy(a, op, p)
  PROVE  work[a] # NoWork
  BY DEF Busy, NoWork

\* Without work a command moves on freely; with it, only Return lets it go.
LEMMA WorkStep == ASSUME Alone PROVE TypeOK /\ WorkInv /\ [Next]_vars => WorkInv'
<1> SUFFICES ASSUME TypeOK, WorkInv, [Next]_vars PROVE WorkInv'
  OBVIOUS
<1> USE ActorSets
<1>1. ASSUME NEW c \in Procs, Lock(c) PROVE WorkInv'
  BY <1>1, GotoFacts DEF Lock, WorkInv
<1>2. ASSUME NEW c \in Procs, GateStops(c) PROVE WorkInv'
  BY <1>2, ExitFacts DEF GateStops, WorkInv
<1>3. ASSUME NEW c \in Procs, Lists(c) PROVE WorkInv'
  <2>1. cli[c].at = "list" /\ UNCHANGED <<work, late>>
    BY <1>3 DEF Lists
  <2>2. \A d \in Procs \ {c} : cli'[d] = cli[d]
    BY <1>3, ExitFacts, GotoFacts DEF Lists
  <2> QED
    BY <2>1, <2>2 DEF WorkInv
<1>4. ASSUME NEW c \in Procs, NEW p \in Profiles, GatePasses(c, p) PROVE WorkInv'
  <2>1. cli'[c].at = "up" /\ \A d \in Procs \ {c} : cli'[d] = cli[d]
    BY <1>4, GotoFacts DEF GatePasses
  <2>2. late' = late /\ \A b \in Actors \ {c} : work'[b] = work[b]
    BY <1>4, CallFacts DEF GatePasses
  <2> QED
    BY <2>1, <2>2 DEF WorkInv
<1>5. ASSUME NEW a \in Actors, NEW p \in Profiles, UpProbes(a, p) PROVE WorkInv'
  <2>1. work[a] # NoWork
    BY <1>5, BusyWorks DEF UpProbes
  <2> QED
    BY <1>5, <2>1, CallFacts DEF UpProbes, WorkInv, Actors
<1>6. ASSUME NEW c \in Procs, NEW p \in Profiles, UpReturns(c, p) PROVE WorkInv'
  <2>1. \A d \in Procs \ {c} : cli'[d] = cli[d]
    BY <1>6, ExitFacts DEF UpReturns
  <2> QED
    BY <1>6, <2>1, ReturnFacts DEF UpReturns, WorkInv
<1>7. ASSUME NEW c \in Procs, NEW p \in Profiles, Down(c, p) PROVE WorkInv'
  BY <1>7, CallFacts DEF Down, WorkInv
<1>8. ASSUME NEW c \in Procs, NEW p \in Profiles, DownReturns(c, p) PROVE WorkInv'
  <2>1. \A d \in Procs \ {c} : cli'[d] = cli[d]
    BY <1>8, ExitFacts, GotoFacts DEF DownReturns
  <2> QED
    BY <1>8, <2>1, ReturnFacts DEF DownReturns, WorkInv
<1>9. ASSUME NEW c \in Procs, NEW cmd \in Commands, NEW T, Run(c, cmd, T) PROVE WorkInv'
  BY <1>9 DEF Run, WorkInv, TypeOK
<1>10. ASSUME NEW w \in Workers, NEW p \in Profiles, TuiReturns(w, p) PROVE WorkInv'
  <2>1. work[w] # NoWork
    BY <1>10, BusyWorks DEF TuiReturns, UpDone, UpFailed, DownDone
  <2> QED
    BY <2>1 DEF WorkInv
<1>11. ASSUME UNCHANGED <<cli, work, late>> PROVE WorkInv'
  BY <1>11 DEF WorkInv
<1> QED
  BY <1>1, <1>2, <1>3, <1>4, <1>5, <1>6, <1>7, <1>8, <1>9, <1>10, <1>11
  DEF Next, Step, Alone, Deadline, TuiCalls, Drops, Dies, LateUp, WorkInv, vars

LEMMA WorkInit == Init => WorkInv
  BY ActorSets DEF Init, WorkInv

LEMMA WorkIsAlone == TypeOK /\ LockInv /\ WorkInv => Serialized
  BY DEF LockInv, WorkInv, Serialized, Running, Inside, Actors

\* acquire_lifecycle_lock: of any number of commands, at most one is in a
\* Tunnel::up or a Tunnel::down.
THEOREM LifecycleSerialized == ASSUME Alone PROVE Spec => []Serialized
<1>1. Init => LockInv
  BY DEF Init, LockInv, Inside, Asleep
<1> QED
  BY <1>1, LockStep, WorkInit, WorkStep, WorkIsAlone, TypeCorrect, PTL DEF Spec

\* A command that is raising a tunnel found none, and there is none still.
InstanceInv ==
    /\ \A p \in Profiles : live[p] <= 1
    /\ \A c \in Procs, p \in Profiles :
          Busy(c, "up", p) \/ Busy(c, "spawn", p) => live[p] = 0

LEMMA BusyOnOne ==
  ASSUME NEW a \in Actors, NEW op, NEW oq, NEW p, NEW q, Busy(a, op, p), Busy(a, oq, q)
  PROVE  op = oq /\ p = q
  BY DEF Busy

\* The only worker returns: nobody is left raising a tunnel.
LEMMA NobodyElse ==
  ASSUME TypeOK, LockInv, WorkInv, NEW c \in Procs, work[c] # NoWork,
         NEW d \in Procs, work[d] # NoWork
  PROVE  c = d
  BY WorkIsAlone DEF Serialized, Running, Actors

LEMMA InstanceStep ==
  ASSUME Alone
  PROVE  TypeOK /\ LockInv /\ WorkInv /\ InstanceInv /\ [Next]_vars => InstanceInv'
<1> SUFFICES ASSUME TypeOK, LockInv, WorkInv, InstanceInv, [Next]_vars PROVE InstanceInv'
  OBVIOUS
<1> USE ActorSets
<1>1. ASSUME NEW c \in Procs, NEW p \in Profiles, GatePasses(c, p) PROVE InstanceInv'
  <2>1. live' = live /\ live[p] = 0
    <3>1. live[p] \in Nat /\ ~(live[p] > 0)
      BY <1>1 DEF GatePasses, Active, TypeOK
    <3>2. live[p] = 0
      BY <3>1
    <3> QED
      BY <1>1, <3>2 DEF GatePasses
  <2>2. work'[c] = [op |-> "up", on |-> {p}] /\ \A b \in Actors \ {c} : work'[b] = work[b]
    BY <1>1, CallFacts DEF GatePasses
  <2> QED
    BY <2>1, <2>2 DEF InstanceInv, Busy
<1>2. ASSUME NEW c \in Procs, NEW p \in Profiles, UpProbes(c, p) PROVE InstanceInv'
  <2>1. live' = live /\ live[p] = 0
    BY <1>2 DEF UpProbes
  <2>2. work'[c] = [op |-> "spawn", on |-> {p}] /\ \A b \in Actors \ {c} : work'[b] = work[b]
    BY <1>2, CallFacts DEF UpProbes
  <2> QED
    BY <2>1, <2>2 DEF InstanceInv, Busy
<1>3. ASSUME NEW c \in Procs, NEW p \in Profiles, UpReturns(c, p) PROVE InstanceInv'
  <2>1. work[c] # NoWork /\ live[p] = 0
    BY <1>3, BusyWorks DEF UpReturns, UpDone, UpFailed, InstanceInv
  <2>2. \A d \in Procs : work'[d] = NoWork
    BY <1>3, <2>1, NobodyElse, ReturnFacts DEF UpReturns
  <2>3. \A q \in Profiles : live'[q] <= 1
    BY <1>3, <2>1 DEF UpReturns, UpDone, UpFailed, Downed, InstanceInv, TypeOK
  <2> QED
    BY <2>2, <2>3 DEF InstanceInv, Busy, NoWork
<1>4. ASSUME NEW c \in Procs, NEW p \in Profiles, Down(c, p) PROVE InstanceInv'
  <2>1. live' = live
    BY <1>4 DEF Down
  <2>2. work'[c] = [op |-> "down", on |-> {p}] /\ \A b \in Actors \ {c} : work'[b] = work[b]
    BY <1>4, CallFacts DEF Down
  <2> QED
    BY <2>1, <2>2 DEF InstanceInv, Busy
<1>5. ASSUME NEW c \in Procs, NEW p \in Profiles, DownReturns(c, p) PROVE InstanceInv'
  <2>1. work[c] # NoWork
    BY <1>5, BusyWorks DEF DownReturns, DownDone
  <2>2. \A d \in Procs : work'[d] = NoWork
    BY <1>5, <2>1, NobodyElse, ReturnFacts DEF DownReturns
  <2>3. \A q \in Profiles : live'[q] <= 1
    BY <1>5 DEF DownReturns, DownDone, Downed, InstanceInv, TypeOK
  <2> QED
    BY <2>2, <2>3 DEF InstanceInv, Busy, NoWork
<1>6. ASSUME NEW p \in Profiles, Drops(p) PROVE InstanceInv'
  <2>1. work' = work /\ \A q \in Profiles : live'[q] = 0 \/ live'[q] = live[q]
    BY <1>6 DEF Drops, TypeOK
  <2> QED
    BY <2>1 DEF InstanceInv, Busy
<1>7. ASSUME UNCHANGED <<work, live>> PROVE InstanceInv'
  BY <1>7 DEF InstanceInv, Busy
<1>8. ASSUME NEW w \in Workers, NEW p \in Profiles, UpProbes(w, p) \/ TuiReturns(w, p)
      PROVE  FALSE
  BY <1>8, BusyWorks DEF WorkInv, UpProbes, TuiReturns, UpDone, UpFailed, DownDone
<1> QED
  BY <1>1, <1>2, <1>3, <1>4, <1>5, <1>6, <1>7, <1>8
  DEF Next, Step, Lock, GateStops, Lists, Run, Alone, Deadline, TuiCalls, Dies, LateUp,
      WorkInv, vars

LEMMA InstanceInit == Init => InstanceInv
  BY ActorSets DEF Init, InstanceInv, Busy, NoWork

\* However many commands compete for a profile, its daemon is one: up never
\* spawns a second that would overwrite the pidfile of the first.
THEOREM OneInstanceAlone == ASSUME Alone PROVE Spec => []OneInstance
<1>1. Init => LockInv
  BY DEF Init, LockInv, Inside, Asleep
<1>2. InstanceInv => OneInstance
  BY DEF InstanceInv, OneInstance
<1> QED
  BY <1>1, <1>2, LockStep, WorkInit, WorkStep, InstanceInit, InstanceStep, TypeCorrect,
     PTL DEF Spec

\* The cleanup after a failed up finds nothing: no tunnel pays for it.
THEOREM UpHarmlessAlone == ASSUME Alone PROVE Spec => UpHarmless
<1> DEFINE Harmless ==
      \A c \in Procs, p \in Profiles :
          cli[c].at = "up" /\ cli[c]' # cli[c] => live[p]' >= live[p]
<1>1. TypeOK /\ WorkInv /\ InstanceInv /\ [Next]_vars => [Harmless]_vars
  <2> SUFFICES ASSUME TypeOK, WorkInv, InstanceInv, [Next]_vars, NEW c \in Procs,
                      NEW p \in Profiles, cli[c].at = "up", cli[c]' # cli[c]
               PROVE  live[p]' >= live[p]
    OBVIOUS
  <2> USE ActorSets
  <2>1. \A q \in Profiles : live[q] \in Nat
    BY DEF TypeOK
  <2>2. ASSUME NEW d \in Procs, NEW q \in Profiles, UpReturns(d, q) PROVE live[p]' >= live[p]
    BY <2>1, <2>2 DEF UpReturns, UpDone, UpFailed, Downed, InstanceInv, TypeOK
  <2>3. ASSUME live' = live PROVE live[p]' >= live[p]
    BY <2>1, <2>3
  <2>4. ASSUME NEW d \in Procs, NEW q \in Profiles, DownReturns(d, q) PROVE FALSE
    <3>1. cli'[c] = cli[c]
      BY <2>4, ExitFacts, GotoFacts DEF DownReturns
    <3> QED
      BY <3>1
  <2>5. ASSUME NEW w \in Workers, NEW q \in Profiles, UpProbes(w, q) \/ TuiReturns(w, q)
        PROVE  FALSE
    BY <2>5, BusyWorks DEF WorkInv, UpProbes, TuiReturns, UpDone, UpFailed, DownDone
  <2> QED
    BY <2>2, <2>3, <2>4, <2>5
    DEF Next, Step, Lock, GateStops, GatePasses, UpProbes, Lists, Down, Run, Alone, Deadline,
        TuiCalls, Drops, Dies, LateUp, WorkInv, vars
<1>2. Init => LockInv
  BY DEF Init, LockInv, Inside, Asleep
<1> QED
  BY <1>1, <1>2, LockStep, WorkInit, WorkStep, InstanceInit, InstanceStep, TypeCorrect,
     PTL DEF Spec, UpHarmless

\* What the gate has found for a tunnel that is coming up is true still, and a
\* command is one of the instance's.
GateInv ==
    /\ \A c \in Procs : cli[c].at # "idle" => cli[c].cmd \in Commands
    /\ \A c \in Procs, p \in Profiles :
          Busy(c, "up", p) \/ Busy(c, "spawn", p) => \A q \in Active : ~Clashes(p, q)
    /\ GateHolds

LEMMA ClashesBothWays == \A p, q : Clashes(p, q) <=> Clashes(q, p)
<1>1. \A p, q : {p, q} = {q, p}
  OBVIOUS
<1> QED
  BY <1>1 DEF Clashes

LEMMA NoClashWithItself == \A p : ~Clashes(p, p)
  BY DEF Clashes

CommandsKnown == \A c \in Procs : cli[c].at # "idle" => cli[c].cmd \in Commands
Raising(c, p) == Busy(c, "up", p) \/ Busy(c, "spawn", p)

LEMMA ClashesPrimed == \A p, q : Clashes(p, q)' <=> Clashes(p, q)
  BY DEF Clashes

\* Fewer tunnels up, no new raiser: nothing to check again.
LEMMA GateFrame ==
  ASSUME GateInv, Active' \subseteq Active, CommandsKnown',
         \A c \in Procs, p \in Profiles : Raising(c, p)' => Raising(c, p)
  PROVE  GateInv'
  BY ClashesPrimed DEF GateInv, GateHolds, CommandsKnown, Raising

\* One process calls Tunnel::up or Tunnel::down, on a tunnel it has checked.
LEMMA GateCall ==
  ASSUME GateInv, Active' = Active, CommandsKnown', NEW c \in Procs, NEW p \in Profiles,
         NEW op \in {"up", "spawn", "down"},
         work'[c] = [op |-> op, on |-> {p}], \A b \in Actors \ {c} : work'[b] = work[b],
         op # "down" => \A q \in Active : ~Clashes(p, q)
  PROVE  GateInv'
<1>1. ASSUME NEW d \in Procs, NEW r \in Profiles, Raising(d, r)'
      PROVE  \A q \in Active : ~Clashes(r, q)
  <2>1. CASE d = c
    BY <1>1, <2>1 DEF Raising, Busy
  <2>2. CASE d # c
    BY <1>1, <2>2, ActorSets DEF Raising, Busy, GateInv
  <2> QED
    BY <2>1, <2>2
<1> QED
  BY <1>1, ClashesPrimed DEF GateInv, GateHolds, CommandsKnown, Raising

LEMMA GateStep ==
  ASSUME Alone, "upYes" \notin Commands
  PROVE  TypeOK /\ LockInv /\ WorkInv /\ InstanceInv /\ GateInv /\ [Next]_vars => GateInv'
<1> SUFFICES ASSUME TypeOK, LockInv, WorkInv, InstanceInv, GateInv, [Next]_vars PROVE GateInv'
  OBVIOUS
<1> USE ActorSets
<1>a. CommandsKnown
  BY DEF GateInv, CommandsKnown
<1>b. ASSUME NEW c \in Procs, NEW at, NEW todo, Goto(c, at, todo), cli[c].at # "idle"
      PROVE  CommandsKnown'
  BY <1>a, <1>b, GotoFacts DEF CommandsKnown
<1>c. ASSUME NEW c \in Procs, Exit(c) PROVE CommandsKnown'
  <2>1. cli'[c].at = "idle"
    BY <1>c, ExitFacts DEF Asleep
  <2>2. \A d \in Procs \ {c} : cli'[d] = cli[d]
    BY <1>c, ExitFacts
  <2> QED
    BY <1>a, <2>1, <2>2 DEF CommandsKnown
<1>d. ASSUME NEW c \in Procs, Return(c), NEW d \in Procs, NEW p \in Profiles, Raising(d, p)'
      PROVE  Raising(d, p)
  <2>1. CASE d = c
    BY <1>d, <2>1, ReturnFacts DEF Raising, Busy, NoWork
  <2>2. CASE d # c
    BY <1>d, <2>2, ReturnFacts DEF Raising, Busy
  <2> QED
    BY <2>1, <2>2
<1>1. ASSUME NEW c \in Procs, NEW p \in Profiles, GatePasses(c, p) PROVE GateInv'
  <2>1. \A q \in Active : ~Clashes(p, q)
    BY <1>1, <1>a DEF GatePasses, CommandsKnown
  <2>2. CommandsKnown'
    BY <1>1, <1>b DEF GatePasses
  <2>3. Active' = Active /\ Call(c, "up", p)
    BY <1>1 DEF GatePasses, Active
  <2>4. work'[c] = [op |-> "up", on |-> {p}] /\ \A b \in Actors \ {c} : work'[b] = work[b]
    BY <2>3, ActorSets, CallFacts
  <2> QED
    BY <2>1, <2>2, <2>3, <2>4, GateCall
<1>2. ASSUME NEW c \in Procs, NEW p \in Profiles, UpProbes(c, p) PROVE GateInv'
  <2>1. \A q \in Active : ~Clashes(p, q)
    BY <1>2 DEF UpProbes, GateInv
  <2>2. CommandsKnown' /\ Active' = Active
    BY <1>2, <1>a DEF UpProbes, Active, CommandsKnown
  <2>3. PICK op \in {"up", "spawn", "down"} :
          work'[c] = [op |-> op, on |-> {p}] /\ \A b \in Actors \ {c} : work'[b] = work[b]
    BY <1>2, ActorSets, CallFacts DEF UpProbes
  <2> QED
    BY <2>1, <2>2, <2>3, GateCall
<1>3. ASSUME NEW c \in Procs, NEW p \in Profiles, UpReturns(c, p) PROVE GateInv'
  <2>1. work[c] # NoWork /\ \A q \in Active : ~Clashes(p, q)
    BY <1>3, BusyWorks DEF UpReturns, UpDone, UpFailed, GateInv
  <2>2. \A d \in Procs : work'[d] = NoWork
    BY <1>3, <2>1, NobodyElse, ReturnFacts DEF UpReturns
  <2>3. \A d \in Procs, q \in Profiles : ~Raising(d, q)'
    BY <2>2 DEF Raising, Busy, NoWork
  <2>4. CommandsKnown'
    BY <1>3, <1>c DEF UpReturns
  <2>5. Active' \subseteq Active \cup {p}
    BY <1>3 DEF UpReturns, UpDone, UpFailed, Downed, Active, TypeOK
  <2>6. GateHolds'
    BY <2>1, <2>5, ClashesPrimed, ClashesBothWays, NoClashWithItself DEF GateInv, GateHolds
  <2> QED
    BY <2>3, <2>4, <2>6 DEF GateInv, CommandsKnown, Raising
<1>4. ASSUME NEW c \in Procs, NEW p \in Profiles, Down(c, p) PROVE GateInv'
  <2>1. CommandsKnown' /\ Active' = Active
    BY <1>4, <1>a DEF Down, Active, CommandsKnown
  <2> QED
    BY <1>4, <2>1, CallFacts, GateCall DEF Down
<1>5. ASSUME NEW c \in Procs, NEW p \in Profiles, DownReturns(c, p) PROVE GateInv'
  <2>1. /\ \A q \in Profiles : live'[q] = live[q] \/ live'[q] = 0
        /\ dying' \subseteq dying \cup {q \in Profiles : live[q] > 0}
    BY <1>5 DEF DownReturns, DownDone, Downed, TypeOK
  <2>2. Active' \subseteq Active
    BY <2>1 DEF Active
  <2>3. CommandsKnown'
    BY <1>5, <1>b, <1>c DEF DownReturns
  <2> QED
    BY <1>5, <1>d, <2>2, <2>3, GateFrame DEF DownReturns
<1>6. ASSUME NEW p \in Profiles, Drops(p) PROVE GateInv'
  <2>1. Active' \subseteq Active
    BY <1>6 DEF Drops, Active, TypeOK
  <2> QED
    BY <1>6, <1>a, <2>1, GateFrame DEF Drops, CommandsKnown, Raising, Busy
<1>7. ASSUME UNCHANGED <<work, live, dying>>, CommandsKnown' PROVE GateInv'
  <2>1. Active' = Active
    BY <1>7 DEF Active
  <2> QED
    BY <1>7, <2>1, GateFrame DEF Raising, Busy
<1>8. ASSUME NEW c \in Procs, Lock(c) \/ GateStops(c) \/ Lists(c) PROVE GateInv'
  BY <1>7, <1>8, <1>b, <1>c DEF Lock, GateStops, Lists
<1>9. ASSUME NEW c \in Procs, NEW cmd \in Commands, NEW T, Run(c, cmd, T) PROVE GateInv'
  <2>1. CommandsKnown'
    BY <1>9, <1>a DEF Run, TypeOK, CommandsKnown
  <2> QED
    BY <1>9, <1>7, <2>1 DEF Run
<1>10. ASSUME NEW w \in Workers, NEW p \in Profiles, UpProbes(w, p) \/ TuiReturns(w, p)
       PROVE  FALSE
  BY <1>10, BusyWorks DEF WorkInv, UpProbes, TuiReturns, UpDone, UpFailed, DownDone
<1>11. ASSUME UNCHANGED vars PROVE GateInv'
  BY <1>7, <1>11, <1>a DEF vars, CommandsKnown
<1>12. ASSUME NEW p \in Profiles, Dies(p) PROVE GateInv'
  <2>1. Active' \subseteq Active
    BY <1>12 DEF Dies, Active
  <2> QED
    BY <1>12, <1>a, <2>1, GateFrame DEF Dies, CommandsKnown, Raising, Busy
<1> QED
  BY <1>1, <1>2, <1>3, <1>4, <1>5, <1>6, <1>8, <1>9, <1>10, <1>11, <1>12
  DEF Next, Step, Alone, Deadline, TuiCalls, LateUp, WorkInv

\* The gate's verdict outlives the time between the scan it reads and the tunnel
\* it admits: profiles that clash are never up together, unless someone says --yes.
THEOREM GateHoldsAlone ==
  ASSUME Alone, "upYes" \notin Commands
  PROVE  Spec => []GateHolds
<1>1. Init => LockInv
  BY DEF Init, LockInv, Inside, Asleep
<1>2. Init => GateInv
  <2> SUFFICES ASSUME Init PROVE GateInv
    OBVIOUS
  <2>1. Active = {}
    BY DEF Init, Active
  <2>2. \A c \in Procs : cli[c].at = "idle"
    BY DEF Init, Asleep
  <2> QED
    BY <2>1, <2>2 DEF GateInv, GateHolds
<1>3. GateInv => GateHolds
  BY DEF GateInv
<1> QED
  BY <1>1, <1>2, <1>3, LockStep, WorkInit, WorkStep, InstanceInit, InstanceStep, GateStep,
     TypeCorrect, PTL DEF Spec

-----------------------------------------------------------------------------
(* Beside a TUI *)

\* Only a command inside runs Tunnel::up or Tunnel::down, workers at any time.
CallInv == \A c \in Procs : work[c] # NoWork => cli[c].at \in {"up", "down"}

LEMMA CallStep == TypeOK /\ CallInv /\ [Next]_vars => CallInv'
<1> SUFFICES ASSUME TypeOK, CallInv, [Next]_vars PROVE CallInv'
  OBVIOUS
<1> USE ActorSets
<1>1. ASSUME NEW c \in Procs, Lock(c) PROVE CallInv'
  BY <1>1, GotoFacts DEF Lock, CallInv
<1>2. ASSUME NEW c \in Procs, GateStops(c) PROVE CallInv'
  BY <1>2, ExitFacts DEF GateStops, CallInv
<1>3. ASSUME NEW c \in Procs, Lists(c) PROVE CallInv'
  <2>1. cli[c].at = "list" /\ work' = work
    BY <1>3 DEF Lists
  <2>2. \A d \in Procs \ {c} : cli'[d] = cli[d]
    BY <1>3, ExitFacts, GotoFacts DEF Lists
  <2> QED
    BY <2>1, <2>2 DEF CallInv
<1>4. ASSUME NEW c \in Procs, NEW p \in Profiles, GatePasses(c, p) PROVE CallInv'
  <2>1. cli'[c].at = "up" /\ \A d \in Procs \ {c} : cli'[d] = cli[d]
    BY <1>4, GotoFacts DEF GatePasses
  <2>2. \A b \in Actors \ {c} : work'[b] = work[b]
    BY <1>4, CallFacts DEF GatePasses
  <2> QED
    BY <2>1, <2>2 DEF CallInv
<1>5. ASSUME NEW a \in Actors, NEW p \in Profiles, UpProbes(a, p) PROVE CallInv'
  <2>1. work[a] # NoWork
    BY <1>5, BusyWorks DEF UpProbes
  <2> QED
    BY <1>5, <2>1, CallFacts DEF UpProbes, CallInv
<1>6. ASSUME NEW c \in Procs, Return(c), \A d \in Procs \ {c} : cli'[d] = cli[d]
      PROVE  CallInv'
  BY <1>6, ReturnFacts DEF CallInv
<1>7. ASSUME NEW c \in Procs, NEW p \in Profiles,
             UpReturns(c, p) \/ DownReturns(c, p) \/ Deadline(c, p)
      PROVE  CallInv'
  BY <1>7, <1>6, ExitFacts, GotoFacts DEF UpReturns, DownReturns, Deadline
<1>8. ASSUME NEW c \in Procs, NEW p \in Profiles, Down(c, p) PROVE CallInv'
  BY <1>8, CallFacts DEF Down, CallInv
<1>9. ASSUME NEW c \in Procs, NEW cmd \in Commands, NEW T, Run(c, cmd, T) PROVE CallInv'
  BY <1>9 DEF Run, CallInv, TypeOK
<1>10. ASSUME NEW w \in Workers, cli' = cli, \A a \in Actors \ {w} : work'[a] = work[a]
       PROVE  CallInv'
  BY <1>10 DEF CallInv
<1>11. ASSUME NEW w \in Workers, NEW op \in {"up", "down"}, NEW p \in Profiles,
              TuiCalls(w, op, p) \/ TuiReturns(w, p)
       PROVE  CallInv'
  BY <1>10, <1>11, CallFacts, ReturnFacts DEF TuiCalls, TuiReturns
<1>12. ASSUME UNCHANGED <<cli, work>> PROVE CallInv'
  BY <1>12 DEF CallInv
<1> QED
  BY <1>1, <1>2, <1>3, <1>4, <1>5, <1>7, <1>8, <1>9, <1>11, <1>12
  DEF Next, Step, Drops, Dies, LateUp, vars

\* Who has seen no daemon of p and is about to spawn one.
Spawning(p) == {a \in Actors : Busy(a, "spawn", p)}

\* The daemons of a profile and those about to be are one for each actor that
\* can have looked at once: the workers, and the command that holds the lock.
EachInv ==
    /\ late \cap OpenVpn = {}
    /\ \A p \in Profiles \ OpenVpn : live[p] <= 1
    /\ \A p \in OpenVpn : live[p] + Cardinality(Spawning(p)) <= 1 + Cardinality(Workers)

LEMMA FewRaise ==
  ASSUME IsFiniteSet(Workers), NEW x, NEW S, S \subseteq Workers \cup {x}
  PROVE  /\ IsFiniteSet(S)
         /\ Cardinality(S) \in Nat
         /\ Cardinality(S) <= 1 + Cardinality(Workers)
<1>1. /\ IsFiniteSet(Workers \cup {x})
      /\ Cardinality(Workers \cup {x}) =
           IF x \in Workers THEN Cardinality(Workers) ELSE Cardinality(Workers) + 1
  BY FS_AddElement
<1>2. Cardinality(Workers) \in Nat
  BY FS_CardinalityType
<1>3. Cardinality(Workers \cup {x}) <= 1 + Cardinality(Workers)
  BY <1>1, <1>2
<1>4. IsFiniteSet(S) /\ Cardinality(S) <= Cardinality(Workers \cup {x})
  BY <1>1, FS_Subset
<1>5. Cardinality(S) \in Nat /\ Cardinality(Workers \cup {x}) \in Nat
  BY <1>1, <1>4, FS_CardinalityType
<1> QED
  BY <1>2, <1>3, <1>4, <1>5

\* Past its lock a command holds it.
LEMMA RaiserHoldsLock ==
  ASSUME LockInv, CallInv, NEW a \in Actors, work[a] # NoWork
  PROVE  a \in Workers \cup {lock}
  BY DEF LockInv, CallInv, Inside, Actors

LEMMA SpawnersFew ==
  ASSUME IsFiniteSet(Workers), LockInv, CallInv, NEW p \in Profiles
  PROVE  /\ IsFiniteSet(Spawning(p))
         /\ Cardinality(Spawning(p)) \in Nat
         /\ Spawning(p) \subseteq Workers \cup {lock}
<1>1. Spawning(p) \subseteq Workers \cup {lock}
  BY BusyWorks, RaiserHoldsLock DEF Spawning
<1> QED
  BY <1>1, FewRaise

\* A daemon less, a spawner less, or neither.
LEMMA EachFrame ==
  ASSUME IsFiniteSet(Workers), TypeOK, LockInv, CallInv, EachInv,
         live' \in [Profiles -> Nat],
         late' \cap OpenVpn = {},
         \A q \in Profiles : live'[q] <= live[q] \/ (q \notin OpenVpn /\ live'[q] <= 1),
         \A q \in Profiles : Spawning(q)' \subseteq Spawning(q)
  PROVE  EachInv'
<1>1. ASSUME NEW q \in Profiles \ OpenVpn PROVE live'[q] <= 1
  BY <1>1 DEF EachInv, TypeOK
<1>2. ASSUME NEW q \in OpenVpn
      PROVE  live'[q] + Cardinality(Spawning(q)') <= 1 + Cardinality(Workers)
  <2>1. q \in Profiles
    BY CliAssumption DEF CliAssumption
  <2>2. /\ Cardinality(Spawning(q)') \in Nat
        /\ Cardinality(Spawning(q)) \in Nat
        /\ Cardinality(Spawning(q)') <= Cardinality(Spawning(q))
    BY <2>1, SpawnersFew, FS_Subset, FS_CardinalityType
  <2>3. live[q] \in Nat /\ live'[q] \in Nat /\ live'[q] <= live[q]
    BY <2>1 DEF TypeOK
  <2>4. Cardinality(Workers) \in Nat
    BY FS_CardinalityType
  <2>5. live[q] + Cardinality(Spawning(q)) <= 1 + Cardinality(Workers)
    BY DEF EachInv
  <2> QED
    BY <2>2, <2>3, <2>4, <2>5
<1> QED
  BY <1>1, <1>2 DEF EachInv

LEMMA EachStep ==
  ASSUME IsFiniteSet(Workers)
  PROVE  TypeOK /\ LockInv /\ CallInv /\ EachInv /\ [Next]_vars => EachInv'
<1> SUFFICES ASSUME TypeOK, LockInv, CallInv, EachInv, [Next]_vars PROVE EachInv'
  OBVIOUS
<1> USE ActorSets
<1>0. /\ \A q \in Profiles : live[q] \in Nat
      /\ OpenVpn \subseteq Profiles
      /\ Cardinality(Workers) \in Nat
  BY CliAssumption, FS_CardinalityType DEF TypeOK, CliAssumption
<1>a. ASSUME NEW a \in Actors, NEW op \in Ops, op # "spawn", NEW S, NEW q,
             work'[a] = [op |-> op, on |-> S], \A b \in Actors \ {a} : work'[b] = work[b]
      PROVE  Spawning(q)' \subseteq Spawning(q)
  BY <1>a DEF Spawning, Busy
<1>b. ASSUME NEW a \in Actors, Return(a), NEW q
      PROVE  Spawning(q)' \subseteq Spawning(q)
  BY <1>b, <1>a, ReturnFacts DEF NoWork, Ops
<1>1. ASSUME NEW a \in Actors, NEW op \in {"up", "down"}, NEW p, Call(a, op, p),
             UNCHANGED <<late, live, dying>>
      PROVE  EachInv'
  <2>1. work'[a] = [op |-> op, on |-> {p}] /\ \A b \in Actors \ {a} : work'[b] = work[b]
    BY <1>1, CallFacts
  <2>2. op \in Ops /\ op # "spawn"
    BY <1>1 DEF Ops
  <2>3. \A q \in Profiles : Spawning(q)' \subseteq Spawning(q)
    BY <2>1, <2>2, <1>a
  <2> QED
    BY <1>0, <1>1, <2>3, EachFrame DEF EachInv, TypeOK
<1>2. ASSUME NEW a \in Actors, NEW p \in Profiles, UpProbes(a, p) PROVE EachInv'
  <2>1. /\ work'[a] = [op |-> "spawn", on |-> {p}]
        /\ \A b \in Actors \ {a} : work'[b] = work[b]
        /\ live[p] = 0 /\ live' = live /\ late' = late
    BY <1>2, CallFacts DEF UpProbes
  <2>2. \A q \in Profiles \ {p} : Spawning(q)' = Spawning(q)
    BY <1>2, <2>1 DEF Spawning, Busy, UpProbes
  <2>3. a \in Workers \cup {lock}
    BY <1>2, BusyWorks, RaiserHoldsLock DEF UpProbes
  <2>4. Spawning(p)' \subseteq Workers \cup {lock}
    BY <2>1, <2>3, SpawnersFew DEF Spawning, Busy
  <2>5. Cardinality(Spawning(p)') \in Nat /\ Cardinality(Spawning(p)') <= 1 + Cardinality(Workers)
    BY <2>4, FewRaise
  <2> QED
    BY <1>0, <2>1, <2>2, <2>5 DEF EachInv
<1>3. ASSUME NEW a \in Actors, NEW p \in Profiles, UpDone(a, p), Return(a), late' = late
      PROVE  EachInv'
  <2>1. live'[p] = live[p] + 1 /\ \A q \in Profiles \ {p} : live'[q] = live[q]
    BY <1>3 DEF UpDone, TypeOK
  <2>2. CASE p \notin OpenVpn
    <3>1. live' \in [Profiles -> Nat]
      BY <1>3, LiveTyped DEF TypeOK
    <3>2. \A q \in Profiles : live'[q] <= live[q] \/ (q \notin OpenVpn /\ live'[q] <= 1)
      BY <1>0, <1>3, <2>1, <2>2 DEF UpDone
    <3> QED
      BY <1>3, <1>b, <3>1, <3>2, EachFrame DEF EachInv
  <2>3. CASE p \in OpenVpn
    <3>1. Spawning(p)' = Spawning(p) \ {a} /\ a \in Spawning(p)
      BY <1>3, ReturnFacts DEF UpDone, Spawning, Busy, NoWork
    <3>2. /\ Cardinality(Spawning(p)) \in Nat
          /\ Cardinality(Spawning(p)') = Cardinality(Spawning(p)) - 1
      BY <3>1, SpawnersFew, FS_RemoveElement
    <3>3. ASSUME NEW q \in OpenVpn \ {p}
          PROVE  live'[q] + Cardinality(Spawning(q)') <= 1 + Cardinality(Workers)
      <4>1. Spawning(q)' = Spawning(q)
        BY <1>3, <3>3, ReturnFacts DEF UpDone, Spawning, Busy, NoWork
      <4> QED
        BY <1>0, <2>1, <3>3, <4>1 DEF EachInv
    <3>4. live'[p] + Cardinality(Spawning(p)') <= 1 + Cardinality(Workers)
      BY <1>0, <2>1, <2>3, <3>2 DEF EachInv
    <3>5. \A q \in Profiles \ OpenVpn : live'[q] <= 1
      BY <2>1, <2>3 DEF EachInv
    <3> QED
      BY <1>3, <3>3, <3>4, <3>5 DEF EachInv
  <2> QED
    BY <2>2, <2>3
<1>4. ASSUME NEW a \in Actors, NEW p \in Profiles, UpFailed(a, p) \/ DownDone(a, p),
             Return(a), late' = late
      PROVE  EachInv'
  <2>1. live' \in [Profiles -> Nat]
    BY <1>4, LiveTyped DEF TypeOK
  <2>2. \A q \in Profiles : live'[q] <= live[q]
    BY <1>0, <1>4 DEF UpFailed, DownDone, Downed, TypeOK
  <2> QED
    BY <1>4, <1>b, <2>1, <2>2, EachFrame DEF EachInv
<1>5. ASSUME NEW c \in Procs, NEW p \in Profiles, Deadline(c, p) PROVE EachInv'
  <2>1. live' = live /\ late' \cap OpenVpn = {} /\ Return(c)
    BY <1>5 DEF Deadline, EachInv
  <2> QED
    BY <1>0, <1>b, <2>1, EachFrame DEF TypeOK
<1>6. ASSUME NEW p \in Profiles, LateUp(p) \/ Drops(p) PROVE EachInv'
  <2>1. work' = work /\ late' \cap OpenVpn = {} /\ live' \in [Profiles -> Nat]
    BY <1>6 DEF LateUp, Drops, EachInv, TypeOK
  <2>2. \A q \in Profiles : live'[q] <= live[q] \/ (q \notin OpenVpn /\ live'[q] <= 1)
    BY <1>0, <1>6 DEF LateUp, Drops, EachInv, TypeOK
  <2>3. \A q \in Profiles : Spawning(q)' \subseteq Spawning(q)
    BY <2>1 DEF Spawning, Busy
  <2> QED
    BY <2>1, <2>2, <2>3, EachFrame
<1>7. ASSUME UNCHANGED <<work, late, live>> PROVE EachInv'
  BY <1>7 DEF EachInv, Spawning, Busy
<1>8. ASSUME NEW c \in Procs, Lock(c) \/ GateStops(c) \/ Lists(c) PROVE EachInv'
  BY <1>7, <1>8 DEF Lock, GateStops, Lists
<1>9. ASSUME NEW c \in Procs, NEW p \in Profiles, GatePasses(c, p) \/ Down(c, p)
      PROVE  EachInv'
  BY <1>1, <1>9 DEF GatePasses, Down
<1>10. ASSUME NEW c \in Procs, NEW p \in Profiles, UpReturns(c, p) \/ DownReturns(c, p)
       PROVE  EachInv'
  BY <1>3, <1>4, <1>10 DEF UpReturns, DownReturns
<1>11. ASSUME NEW w \in Workers, NEW op \in {"up", "down"}, NEW p \in Profiles,
              TuiCalls(w, op, p) \/ TuiReturns(w, p)
       PROVE  EachInv'
  BY <1>1, <1>3, <1>4, <1>11 DEF TuiCalls, TuiReturns
<1>12. ASSUME NEW c \in Procs, NEW cmd \in Commands, NEW T, Run(c, cmd, T) PROVE EachInv'
  BY <1>7, <1>12 DEF Run
<1>13. ASSUME NEW p \in Profiles, Dies(p) PROVE EachInv'
  BY <1>7, <1>13 DEF Dies
<1>14. CASE UNCHANGED vars
  BY <1>7, <1>14 DEF vars
<1> QED
  BY <1>2, <1>5, <1>6, <1>8, <1>9, <1>10, <1>11, <1>12, <1>13, <1>14 DEF Next, Step

\* Whatever the TUI's workers do beside the commands, the probe of Tunnel::up
\* keeps the daemons of a profile to one for each of them and one of the CLI:
\* of the commands, only the one that holds the flock can have probed.
THEOREM OneEachHolds == ASSUME IsFiniteSet(Workers) PROVE Spec => []OneEach
<1>1. Init => LockInv /\ CallInv
  BY ActorSets DEF Init, LockInv, CallInv, Inside, Asleep
<1>2. Init => EachInv
  <2> SUFFICES ASSUME Init PROVE EachInv
    OBVIOUS
  <2>1. \A p : Spawning(p) = {}
    BY DEF Init, Spawning, Busy, NoWork
  <2>2. Cardinality(Workers) \in Nat
    BY FS_CardinalityType
  <2>3. \A p : Cardinality(Spawning(p)) = 0
    BY <2>1, FS_EmptySet
  <2>4. \A p \in Profiles : live[p] = 0
    BY DEF Init
  <2>5. OpenVpn \subseteq Profiles /\ late = {}
    BY CliAssumption DEF Init, CliAssumption
  <2> QED
    BY <2>2, <2>3, <2>4, <2>5 DEF EachInv
<1>3. TypeOK /\ LockInv /\ CallInv /\ EachInv => OneEach
  <2> SUFFICES ASSUME TypeOK, LockInv, CallInv, EachInv, NEW p \in Profiles
               PROVE  live[p] <= 1 + Cardinality(Workers)
    BY DEF OneEach
  <2>1. live[p] \in Nat /\ Cardinality(Workers) \in Nat /\ Cardinality(Spawning(p)) \in Nat
    BY SpawnersFew, FS_CardinalityType DEF TypeOK
  <2> QED
    BY <2>1 DEF EachInv
<1> QED
  BY <1>1, <1>2, <1>3, LockStep, CallStep, EachStep, TypeCorrect, PTL DEF Spec
=============================================================================
