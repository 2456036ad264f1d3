------------------------- MODULE KillSwitch_proofs -------------------------
(* What holds of the kill switch for any set of tunnels, either backend and  *)
(* the faults each theorem names; and of the CIDR arithmetic its pass list   *)
(* and the conflict gates rest on, for addresses of any width.               *)
EXTENDS KillSwitch, CidrSets, FiniteSetTheorems, SequenceTheorems,
        WellFoundedInduction, TLAPS

-----------------------------------------------------------------------------
(* Decisions and rulesets *)

LEMMA ResolveTyped ==
  ASSUME NEW mode \in Modes, NEW old, NEW connected, NEW root
  PROVE  Resolve(mode, old, connected, root) \in KsStates
  BY DEF Resolve, DesiredState, Modes, KsStates

\* The decision never contradicts its mode, and only root gets to block.
LEMMA ResolveCoherent ==
  ASSUME NEW mode \in Modes, NEW old, NEW connected, NEW root \in BOOLEAN
  PROVE  /\ mode = "Off" => Resolve(mode, old, connected, root) = "Disabled"
         /\ Resolve(mode, old, connected, root) = "Blocking" => root /\ mode # "Off"
  BY DEF Resolve, DesiredState, Modes

\* A drop that leaves no tunnel blocks in every mode but Off.
LEMMA ResolveBlocks ==
  ASSUME NEW mode \in Modes, mode # "Off"
  PROVE  Resolve(mode, "Blocking", FALSE, TRUE) = "Blocking"
  BY DEF Resolve, DesiredState, Modes

LEMMA ListedIn ==
  ASSUME NEW S \in SUBSET Tunnels
  PROVE  Listed(S) \in SUBSET Tunnels
  BY DEF Listed

LEMMA RulesetTyped ==
  ASSUME NEW view \in Views
  PROVE  Ruleset(view) \in Rulesets /\ Ruleset(view).on
<1>1. view.ifaces \in SUBSET Tunnels /\ view.servers \in SUBSET Tunnels
  BY DEF Views
<1>2. Listed(view.ifaces) \in SUBSET Tunnels
  BY <1>1, ListedIn
<1> QED
  BY <1>1, <1>2 DEF Ruleset, Rulesets

LEMMA NoRulesTyped == NoRules \in Rulesets /\ ~NoRules.on
  BY DEF NoRules, Rulesets

\* However a load of rules ends: there are rules, or the failure is on record; and
\* with neither lapse the rules are the new ones.
LEMMA EnableEnds ==
  ASSUME fw \in Rulesets, NEW view \in Views, NEW e \in AfterEnable(fw, view)
  PROVE  /\ e.rules \in Rulesets /\ e.lapses \subseteq Lapses
         /\ e.rules.on \/ "install" \in e.lapses
         /\ e.lapses = {} \/ e.lapses \cap {"install", "remove"} # {}
         /\ e.lapses = {} => e.rules = Ruleset(view)
<1> DEFINE new == Ruleset(view)
<1>1. new \in Rulesets /\ new.on /\ NoRules \in Rulesets /\ new = Ruleset(view)
  BY RulesetTyped, NoRulesTyped
<1> HIDE DEF new
<1>2. Appended(fw, new) \in Rulesets /\ Appended(fw, new).on
  BY <1>1 DEF Appended, Rulesets
<1>3. \A r, l : Ended(r, l).rules = r /\ Ended(r, l).lapses = l
  BY DEF Ended
<1>4. \/ e = Ended(new, {})
      \/ \E r \in {fw, new, NoRules} : e = Ended(r, {"install"})
      \/ e = Ended(Appended(fw, new), {"remove"})
      \/ e = Ended(fw, {"remove", "install"})
  BY <1>1 DEF AfterEnable
<1> QED
  BY <1>1, <1>2, <1>3, <1>4 DEF Lapses

\* However a removal ends: no rules are left, or the lapse is on record.
LEMMA DisableEnds ==
  ASSUME fw \in Rulesets, NEW root, NEW e \in AfterDisable(fw, root)
  PROVE  /\ e.rules \in {fw, NoRules} /\ e.rules \in Rulesets /\ e.lapses \subseteq Lapses
         /\ ~e.rules.on \/ e.lapses \cap {"remove", "notroot"} # {}
<1>1. \A r, l : Ended(r, l).rules = r /\ Ended(r, l).lapses = l
  BY DEF Ended
<1>2. e \in {Ended(fw, {"notroot"}), Ended(NoRules, {}), Ended(fw, {"remove"})}
  BY DEF AfterDisable
<1> QED
  BY <1>1, <1>2, NoRulesTyped DEF Lapses

LEMMA ViewsTyped ==
  /\ \A c : TuiView(c) \in Views
  /\ \A k \in SUBSET Tunnels : ScannerView(k) \in Views
  BY DEF TuiView, ScannerView, Views

LEMMA FileRecords ==
  /\ NoFile \in Files
  /\ \A m \in Modes, s \in KsStates : Saved(m, s) \in Files /\ Saved(m, s) # NoFile
  /\ \A f \in Files : f # NoFile => f.mode \in Modes /\ f.state \in KsStates
<1>1. NoFile.kind = "absent"
  BY DEF NoFile
<1>2. \A m, s : Saved(m, s).kind = "v2" /\ Saved(m, s).mode = m /\ Saved(m, s).state = s
  BY DEF Saved
<1>3. \A m \in Modes, s \in KsStates : Saved(m, s) \in Files
  BY DEF Files
<1>4. ASSUME NEW f \in Files, f # NoFile
      PROVE  f.mode \in Modes /\ f.state \in KsStates
  <2>1. PICK m \in Modes, s \in KsStates : f = Saved(m, s)
    BY <1>4 DEF Files
  <2> QED
    BY <2>1, <1>2
<1>5. NoFile \in Files
  BY DEF Files
<1> QED
  BY <1>1, <1>2, <1>3, <1>4, <1>5

LEMMA DeadTyped == Dead \in Runtimes
  BY DEF Dead, Runtimes, Phases, Commands, Modes, KsStates

-----------------------------------------------------------------------------
(* The steps all processes share *)

LEMMA LapsesKept ==
  ASSUME NEW e, e.lapses \subseteq Lapses, lapses \subseteq Lapses
  PROVE  /\ LapsesAfter(e) \subseteq Lapses /\ e.lapses \subseteq LapsesAfter(e)
         /\ e.lapses = {} => LapsesAfter(e) = {}
  BY DEF LapsesAfter

\* A write that fails leaves the file and is on record.
LEMMA WriteEffect ==
  ASSUME NEW contents, NEW l, l \subseteq Lapses, Write(contents, l)
  PROVE  /\ file' \in {contents, file} /\ (file' = contents \/ "record" \in lapses')
         /\ l \subseteq lapses' /\ lapses' \subseteq Lapses
         /\ lapses' \subseteq l \cup {"record"}
  BY DEF Write, Lapses

\* disable_blocking followed by clear_state, at a launch or by a command.
LEMMA RecoverEffect ==
  ASSUME TypeOK, NEW root, Recover(root)
  PROVE  /\ fw' \in {fw, NoRules} /\ fw' \in Rulesets
         /\ file' \in {file, NoFile}
         /\ lapses' \subseteq Lapses
         /\ ~fw'.on \/ Loose'
<1>1. PICK e \in AfterDisable(fw, root) : fw' = e.rules /\ Write(NoFile, LapsesAfter(e))
  BY DEF Recover
<1>2. /\ e.rules \in {fw, NoRules} /\ e.rules \in Rulesets /\ e.lapses \subseteq Lapses
      /\ ~e.rules.on \/ e.lapses \cap {"remove", "notroot"} # {}
  BY DisableEnds DEF TypeOK
<1>3. LapsesAfter(e) \subseteq Lapses /\ e.lapses \subseteq LapsesAfter(e)
  BY <1>2, LapsesKept DEF TypeOK
<1>4. file' \in {file, NoFile} /\ LapsesAfter(e) \subseteq lapses' /\ lapses' \subseteq Lapses
  BY <1>1, <1>3, WriteEffect
<1> QED
  BY <1>1, <1>2, <1>3, <1>4 DEF Loose

\* What the first half of a sync does to its process, the others and the rules.
LEMMA SyncEffect ==
  ASSUME TypeOK, NEW p \in Procs, NEW mode \in Modes, NEW old, NEW view \in Views,
         SyncFirewall(p, mode, old, view),
         NEW new, new = Resolve(mode, old, view.ifaces # {}, proc[p].root)
  PROVE  /\ proc'[p].phase = "syncing" /\ proc'[p].mode = mode /\ proc'[p].state = new
         /\ proc'[p].root = proc[p].root
         /\ proc' \in [Procs -> Runtimes]
         /\ \A q \in Procs \ {p} : proc'[q] = proc[q]
         /\ fw' \in Rulesets /\ lapses' \subseteq Lapses
         /\ new = "Blocking" => fw'.on \/ "install" \in lapses'
         /\ new = "Blocking" /\ lapses' \cap {"install", "remove"} = {} => fw' = Ruleset(view)
         /\ new # "Blocking" /\ old = "Blocking" => ~fw'.on \/ Loose'
         /\ new # "Blocking" /\ old # "Blocking" => fw' = fw /\ lapses' = lapses
         /\ file' = file
<1>0. new \in KsStates /\ "syncing" \in Phases /\ proc[p] \in Runtimes
  BY ResolveTyped DEF Phases, TypeOK
<1>1. /\ proc' = [proc EXCEPT ![p] = [@ EXCEPT !.phase = "syncing", !.mode = mode, !.state = new]]
      /\ \/ new = "Blocking" /\ Call(AfterEnable(fw, view))
         \/ new # "Blocking" /\ old = "Blocking" /\ Call(AfterDisable(fw, proc[p].root))
         \/ new # "Blocking" /\ old # "Blocking" /\ UNCHANGED <<fw, file, lapses>>
  BY DEF SyncFirewall
<1>2. [proc[p] EXCEPT !.phase = "syncing", !.mode = mode, !.state = new] \in Runtimes
  BY <1>0 DEF Runtimes
<1>3. proc' \in [Procs -> Runtimes] /\ \A q \in Procs \ {p} : proc'[q] = proc[q]
  BY <1>1, <1>2 DEF TypeOK
<1>4. /\ proc'[p].phase = "syncing" /\ proc'[p].mode = mode /\ proc'[p].state = new
      /\ proc'[p].root = proc[p].root
  BY <1>0, <1>1 DEF TypeOK, Runtimes
<1>5. CASE new = "Blocking" /\ Call(AfterEnable(fw, view))
  <2>1. PICK e \in AfterEnable(fw, view) : fw' = e.rules /\ lapses' = LapsesAfter(e) /\ file' = file
    BY <1>5 DEF Call
  <2>2. /\ e.rules \in Rulesets /\ e.lapses \subseteq Lapses
        /\ e.rules.on \/ "install" \in e.lapses
        /\ e.lapses = {} \/ e.lapses \cap {"install", "remove"} # {}
        /\ e.lapses = {} => e.rules = Ruleset(view)
    BY EnableEnds DEF TypeOK
  <2>3. lapses' \subseteq Lapses /\ e.lapses \subseteq lapses'
    BY <2>1, <2>2, LapsesKept DEF TypeOK
  <2> QED
    BY <1>3, <1>4, <1>5, <2>1, <2>2, <2>3
<1>6. CASE new # "Blocking" /\ old = "Blocking" /\ Call(AfterDisable(fw, proc[p].root))
  <2>1. PICK e \in AfterDisable(fw, proc[p].root) :
           fw' = e.rules /\ lapses' = LapsesAfter(e) /\ file' = file
    BY <1>6 DEF Call
  <2>2. /\ e.rules \in Rulesets /\ e.lapses \subseteq Lapses
        /\ ~e.rules.on \/ e.lapses \cap {"remove", "notroot"} # {}
    BY DisableEnds DEF TypeOK
  <2>3. lapses' \subseteq Lapses /\ e.lapses \subseteq lapses'
    BY <2>1, <2>2, LapsesKept DEF TypeOK
  <2>4. ~fw'.on \/ Loose'
    BY <2>1, <2>2, <2>3 DEF Loose
  <2> QED
    BY <1>3, <1>4, <1>6, <2>1, <2>2, <2>3, <2>4
<1>7. CASE new # "Blocking" /\ old # "Blocking" /\ UNCHANGED <<fw, file, lapses>>
  BY <1>3, <1>4, <1>7 DEF TypeOK
<1> QED
  BY <1>1, <1>5, <1>6, <1>7

\* What a process knows when it starts: never that it is blocking.
LEMMA BootEffect ==
  ASSUME TypeOK, NEW p \in Procs, NEW cmd \in Commands, NEW root \in BOOLEAN, Boot(p, cmd, root)
  PROVE  /\ proc' \in [Procs -> Runtimes]
         /\ proc[p].phase = "down" /\ proc'[p].phase = "idle" /\ proc'[p].root = root
         /\ proc'[p].state # "Blocking"
         /\ file = NoFile => proc'[p].mode = "Off" /\ proc'[p].state = "Disabled"
         /\ file # NoFile => /\ proc'[p].mode = file.mode
                             /\ proc'[p].state \in {"Disabled", file.state}
         /\ \A q \in Procs \ {p} : proc'[q] = proc[q]
         /\ fw' \in Rulesets /\ lapses' \subseteq Lapses /\ file' \in {file, NoFile}
         /\ file # NoFile /\ file.state = "Blocking" => ~fw'.on \/ Loose'
         /\ ~(file # NoFile /\ file.state = "Blocking")
                => fw' = fw /\ file' = file /\ lapses' = lapses
<1> DEFINE blocking == file # NoFile /\ file.state = "Blocking"
           mode     == IF file # NoFile THEN file.mode ELSE "Off"
           state    == IF file # NoFile /\ ~blocking THEN file.state ELSE "Disabled"
<1>1. mode \in Modes /\ state \in KsStates /\ state # "Blocking" /\ "idle" \in Phases
  BY FileRecords DEF TypeOK, Modes, KsStates, Phases
<1>2. /\ proc[p].phase = "down"
      /\ proc' = [proc EXCEPT ![p] =
            [phase |-> "idle", cmd |-> cmd, root |-> root, mode |-> mode, state |-> state]]
      /\ IF blocking THEN Recover(root) ELSE UNCHANGED <<fw, file, lapses>>
  BY DEF Boot
<1>3. file = NoFile => mode = "Off" /\ state = "Disabled"
  OBVIOUS
<1>4. file # NoFile => mode = file.mode /\ state \in {"Disabled", file.state}
  OBVIOUS
<1>5. blocking <=> file # NoFile /\ file.state = "Blocking"
  OBVIOUS
<1> HIDE DEF blocking, mode, state
<1>6. [phase |-> "idle", cmd |-> cmd, root |-> root, mode |-> mode, state |-> state] \in Runtimes
  BY <1>1 DEF Runtimes
<1>7. proc' \in [Procs -> Runtimes] /\ \A q \in Procs \ {p} : proc'[q] = proc[q]
  BY <1>2, <1>6 DEF TypeOK
<1>8. /\ proc'[p].phase = "idle" /\ proc'[p].root = root
      /\ proc'[p].mode = mode /\ proc'[p].state = state
  BY <1>2 DEF TypeOK
<1>9. /\ fw' \in Rulesets /\ lapses' \subseteq Lapses /\ file' \in {file, NoFile}
      /\ blocking => ~fw'.on \/ Loose'
      /\ ~blocking => fw' = fw /\ file' = file /\ lapses' = lapses
  <2>1. CASE blocking
    BY <1>2, <2>1, RecoverEffect
  <2>2. CASE ~blocking
    BY <1>2, <2>2 DEF TypeOK
  <2> QED
    BY <2>1, <2>2
<1> QED
  BY <1>1, <1>2, <1>3, <1>4, <1>5, <1>7, <1>8, <1>9

-----------------------------------------------------------------------------
(* What a step can do to the processes, the rules and the file *)

BootStep(p) ==
  \E cmd \in Commands, root \in BOOLEAN :
    /\ Boot(p, cmd, root)
    /\ \A q \in Procs \ {p} : proc[q].phase = "down" \/ "beside" \in Faults

SyncStep(p) ==
  \E mode \in Modes, old \in KsStates, view \in Views :
    /\ SyncFirewall(p, mode, old, view)
    /\ proc[p].phase = "idle"
    /\ \/ old = proc[p].state
       \/ old = "Blocking" /\ proc[p].state = "Armed"

\* A process ends: it may save its state first, or die in mid-sync.
EndStep(p) ==
  /\ proc' = [proc EXCEPT ![p] = Dead]
  /\ fw' = fw
  /\ \/ proc[p].phase = "idle" /\ file' = file /\ lapses' = lapses
     \/ proc[p].phase = "idle" /\ Write(Saved(proc[p].mode, proc[p].state), lapses)
     \/ proc[p].phase = "syncing" /\ file' = file /\ lapses' = lapses \cup {"death"}

\* Nothing changes but the command a CLI process is left with.
QuietStep ==
  /\ fw' = fw /\ file' = file /\ lapses' = lapses
  /\ proc' \in {proc, [proc EXCEPT !["cli"].cmd = "status"]}

Shape ==
  \/ \E p \in Procs : BootStep(p)
  \/ \E p \in Procs : SyncStep(p)
  \/ \E p \in Procs : SaveState(p)
  \/ \E p \in Procs : EndStep(p)
  \/ QuietStep
  \/ CliRelease

LEMMA ProcFacts ==
  ASSUME TypeOK
  PROVE  /\ "tui" \in Procs /\ "cli" \in Procs
         /\ \A p \in Procs : proc[p] \in Runtimes
         /\ \A p \in Procs : /\ proc[p].mode \in Modes /\ proc[p].state \in KsStates
                             /\ proc[p].root \in BOOLEAN /\ proc[p].phase \in Phases
                             /\ proc[p].cmd \in Commands
<1>1. "tui" \in Procs /\ "cli" \in Procs
  BY DEF Procs
<1>2. \A p \in Procs : proc[p] \in Runtimes
  BY DEF TypeOK
<1> QED
  BY <1>1, <1>2 DEF Runtimes

LEMMA TuiSyncs ==
  ASSUME TypeOK, TuiIdle, NEW c, TuiSync(c)
  PROVE  SyncStep("tui")
  BY ProcFacts, ViewsTyped DEF TuiSync, SyncStep, TuiIdle

LEMMA CliSyncs ==
  ASSUME TypeOK, NEW cmd, CliIdle(cmd), NEW k \in SUBSET Tunnels, NEW mode \in Modes,
         CliSync(mode, k)
  PROVE  SyncStep("cli")
  BY ProcFacts, ViewsTyped DEF CliSync, SyncStep, CliIdle

LEMMA StepShape == TypeOK /\ [Next]_vars => Shape
<1> SUFFICES ASSUME TypeOK, [Next]_vars PROVE Shape
  OBVIOUS
<1>1. CASE \E root \in BOOLEAN : TuiStart(root)
  <2>1. BootStep("tui")
    BY <1>1 DEF TuiStart, BootStep, Procs, Commands
  <2> QED
    BY <2>1, ProcFacts DEF Shape
<1>2. CASE \E root \in BOOLEAN, cmd \in Commands \ {"none", "tui"} : CliStart(cmd, root)
  <2>1. BootStep("cli")
    BY <1>2 DEF CliStart, BootStep, Procs, Commands
  <2> QED
    BY <2>1, ProcFacts DEF Shape
<1>3. ASSUME NEW t \in Tunnels, TuiHandler(t) PROVE Shape
  <2>1. CASE Connect(t) \/ ConnectFailed(t) \/ ScanRefresh(t) \/ ScanAdopt(t)
    BY <2>1 DEF Connect, ConnectFailed, ScanRefresh, ScanAdopt, NoSync, Shape, QuietStep
  <2>2. CASE ConnectTimeout(t) \/ Disconnect(t) \/ ScanClosed(t) \/ ScanForceClose(t)
    <3>1. TuiIdle /\ TuiSync(conn')
      BY <2>2 DEF ConnectTimeout, Disconnect, ScanClosed, ScanForceClose
    <3> QED
      BY <3>1, TuiSyncs, ProcFacts DEF Shape
  <2>3. CASE ConnectOk(t)
    <3>1. TuiIdle /\ (TuiSync(conn') \/ NoSync)
      BY <2>3 DEF ConnectOk
    <3>2. CASE NoSync
      BY <3>2 DEF NoSync, Shape, QuietStep
    <3> QED
      BY <3>1, <3>2, TuiSyncs, ProcFacts DEF Shape
  <2>4. CASE ScanDrop(t)
    <3>1. CASE NoSync
      BY <3>1 DEF NoSync, Shape, QuietStep
    <3>2. CASE /\ TuiIdle /\ proc["tui"].state = "Armed"
               /\ SyncFirewall("tui", proc["tui"].mode, "Blocking", TuiView(conn'))
      <4>1. SyncStep("tui")
        BY <3>2, ProcFacts, ViewsTyped DEF SyncStep, TuiIdle, KsStates
      <4> QED
        BY <4>1, ProcFacts DEF Shape
    <3> QED
      BY <2>4, <3>1, <3>2 DEF ScanDrop
  <2> QED
    BY <1>3, <2>1, <2>2, <2>3, <2>4 DEF TuiHandler
<1>4. CASE ToggleKillswitch
  <2>1. NextMode(proc["tui"].mode) \in Modes
    BY ProcFacts DEF NextMode, Modes
  <2>2. SyncStep("tui")
    BY <1>4, <2>1, ProcFacts, ViewsTyped DEF ToggleKillswitch, SyncStep, TuiIdle
  <2> QED
    BY <2>2, ProcFacts DEF Shape
<1>5. CASE Quit
  BY <1>5, ProcFacts DEF Quit, TuiIdle, Shape, EndStep
<1>6. ASSUME NEW mode \in Modes, CliKillswitch(mode) PROVE Shape
  <2>1. kernel \in SUBSET Tunnels
    BY DEF TypeOK
  <2>2. SyncStep("cli")
    BY <1>6, <2>1, CliSyncs DEF CliKillswitch
  <2> QED
    BY <2>2, ProcFacts DEF Shape
<1>7. ASSUME NEW t \in Tunnels, CliUp(t) \/ CliDown(t) PROVE Shape
  <2>1. kernel' \in SUBSET Tunnels
    BY <1>7 DEF CliUp, CliDown, TypeOK
  <2>2. CASE (CliIdle("up") \/ CliIdle("down")) /\ CliSync(proc["cli"].mode, kernel')
    <3>1. SyncStep("cli")
      BY <2>1, <2>2, CliSyncs, ProcFacts
    <3> QED
      BY <3>1, ProcFacts DEF Shape
  <2>3. CASE \/ NoSync
             \/ /\ proc' = [proc EXCEPT !["cli"].cmd = "status"]
                /\ UNCHANGED <<fw, file, lapses>>
    BY <2>3 DEF NoSync, Shape, QuietStep
  <2> QED
    BY <1>7, <2>2, <2>3 DEF CliUp, CliDown
<1>8. CASE CliExit
  BY <1>8, ProcFacts DEF CliExit, Shape, EndStep
<1>9. CASE CliRelease
  BY <1>9 DEF Shape
<1>10. ASSUME NEW p \in Procs, SaveState(p) PROVE Shape
  BY <1>10 DEF Shape
<1>11. ASSUME NEW p \in Procs, Crash(p) PROVE Shape
  BY <1>11 DEF Crash, Shape, EndStep
<1>12. ASSUME NEW t \in Tunnels, TunnelDies(t) \/ ExternalUp(t) PROVE Shape
  BY <1>12 DEF TunnelDies, ExternalUp, Shape, QuietStep
<1>13. CASE UNCHANGED vars
  BY <1>13 DEF vars, Shape, QuietStep
<1> QED
  BY <1>1, <1>2, <1>3, <1>4, <1>5, <1>6, <1>7, <1>8, <1>9, <1>10, <1>11, <1>12, <1>13 DEF Next
-----------------------------------------------------------------------------
(* What each shape of step leaves behind *)

\* A sync: the process is in mid-sync, in a coherent pair, the others as before.
LEMMA SyncShape ==
  ASSUME TypeOK, NEW p \in Procs, SyncStep(p)
  PROVE  /\ proc[p].phase = "idle" /\ proc'[p].phase = "syncing"
         /\ proc'[p].root = proc[p].root
         /\ proc' \in [Procs -> Runtimes] /\ fw' \in Rulesets /\ lapses' \subseteq Lapses
         /\ \A q \in Procs \ {p} : proc'[q] = proc[q]
         /\ proc'[p].mode = "Off" => proc'[p].state = "Disabled"
         /\ proc'[p].state = "Blocking" => proc'[p].root /\ proc'[p].mode # "Off"
         /\ proc'[p].state = "Blocking" => fw'.on \/ "install" \in lapses'
         /\ proc'[p].state # "Blocking" =>
              \/ ~fw'.on \/ Loose'
              \/ proc[p].state # "Blocking" /\ fw' = fw /\ lapses' = lapses
         /\ file' = file
<1>1. PICK mode \in Modes, old \in KsStates, view \in Views :
         /\ SyncFirewall(p, mode, old, view)
         /\ proc[p].phase = "idle"
         /\ \/ old = proc[p].state
            \/ old = "Blocking" /\ proc[p].state = "Armed"
  BY DEF SyncStep
<1> DEFINE new == Resolve(mode, old, view.ifaces # {}, proc[p].root)
<1>2. /\ mode = "Off" => new = "Disabled"
      /\ new = "Blocking" => proc[p].root /\ mode # "Off"
  BY ProcFacts, ResolveCoherent
<1>3. new = Resolve(mode, old, view.ifaces # {}, proc[p].root)
  OBVIOUS
<1> HIDE DEF new
<1>4. /\ proc'[p].phase = "syncing" /\ proc'[p].mode = mode /\ proc'[p].state = new
      /\ proc'[p].root = proc[p].root
      /\ proc' \in [Procs -> Runtimes]
      /\ \A q \in Procs \ {p} : proc'[q] = proc[q]
      /\ fw' \in Rulesets /\ lapses' \subseteq Lapses
      /\ new = "Blocking" => fw'.on \/ "install" \in lapses'
      /\ new # "Blocking" /\ old = "Blocking" => ~fw'.on \/ Loose'
      /\ new # "Blocking" /\ old # "Blocking" => fw' = fw /\ lapses' = lapses
      /\ file' = file
  BY <1>1, <1>3, SyncEffect
<1> QED
  BY <1>1, <1>2, <1>4

LEMMA SaveShape ==
  ASSUME TypeOK, NEW p \in Procs, SaveState(p)
  PROVE  /\ proc[p].phase = "syncing" /\ proc'[p].phase = "idle"
         /\ proc'[p].mode = proc[p].mode /\ proc'[p].state = proc[p].state
         /\ proc'[p].root = proc[p].root
         /\ proc' \in [Procs -> Runtimes]
         /\ \A q \in Procs \ {p} : proc'[q] = proc[q]
         /\ fw' = fw
         /\ file' \in {file, Saved(proc[p].mode, proc[p].state)}
         /\ file' = Saved(proc[p].mode, proc[p].state) \/ "record" \in lapses'
         /\ lapses \subseteq lapses' /\ lapses' \subseteq Lapses
<1> DEFINE after == [proc[p] EXCEPT !.phase = "idle", !.cmd = AfterSync(proc[p].cmd)]
<1>1. proc[p] \in Runtimes /\ "idle" \in Phases /\ AfterSync(proc[p].cmd) \in Commands
  BY ProcFacts DEF Phases, AfterSync, Commands
<1>2. /\ after \in Runtimes
      /\ after.phase = "idle" /\ after.mode = proc[p].mode
      /\ after.state = proc[p].state /\ after.root = proc[p].root
  BY <1>1 DEF Runtimes
<1>3. proc' = [proc EXCEPT ![p] = after]
  BY DEF SaveState
<1> HIDE DEF after
<1>4. proc' \in [Procs -> Runtimes] /\ \A q \in Procs \ {p} : proc'[q] = proc[q]
  BY <1>2, <1>3 DEF TypeOK
<1>5. proc'[p] = after
  BY <1>3 DEF TypeOK
<1>6. Write(Saved(proc[p].mode, proc[p].state), lapses) /\ lapses \subseteq Lapses
  BY DEF SaveState, TypeOK
<1>7. /\ file' \in {file, Saved(proc[p].mode, proc[p].state)}
      /\ file' = Saved(proc[p].mode, proc[p].state) \/ "record" \in lapses'
      /\ lapses \subseteq lapses' /\ lapses' \subseteq Lapses
  BY <1>6, WriteEffect
<1> QED
  BY <1>2, <1>4, <1>5, <1>7 DEF SaveState

LEMMA EndShape ==
  ASSUME TypeOK, NEW p \in Procs, EndStep(p)
  PROVE  /\ proc'[p].phase = "down" /\ proc'[p].mode = "Off" /\ proc'[p].state = "Disabled"
         /\ proc' \in [Procs -> Runtimes]
         /\ \A q \in Procs \ {p} : proc'[q] = proc[q]
         /\ fw' = fw
         /\ proc[p].phase \in {"idle", "syncing"}
         /\ file' \in {file, Saved(proc[p].mode, proc[p].state)}
         /\ proc[p].phase = "idle" \/ "death" \in lapses'
         /\ lapses \subseteq lapses' /\ lapses' \subseteq Lapses
<1>1. proc' = [proc EXCEPT ![p] = Dead]
  BY DEF EndStep
<1>2. proc' \in [Procs -> Runtimes] /\ \A q \in Procs \ {p} : proc'[q] = proc[q]
  BY <1>1, DeadTyped DEF TypeOK
<1>3. proc'[p] = Dead
  BY <1>1 DEF TypeOK
<1>4. lapses \subseteq Lapses /\ "death" \in Lapses
  BY DEF TypeOK, Lapses
<1>5. CASE proc[p].phase = "idle" /\ Write(Saved(proc[p].mode, proc[p].state), lapses)
  <2>1. /\ file' \in {Saved(proc[p].mode, proc[p].state), file}
        /\ lapses \subseteq lapses' /\ lapses' \subseteq Lapses
    BY <1>4, <1>5, WriteEffect
  <2> QED
    BY <1>2, <1>3, <1>5, <2>1 DEF EndStep, Dead
<1>6. CASE \/ proc[p].phase = "idle" /\ file' = file /\ lapses' = lapses
           \/ /\ proc[p].phase = "syncing" /\ file' = file
              /\ lapses' = lapses \cup {"death"}
  BY <1>2, <1>3, <1>4, <1>6 DEF EndStep, Dead
<1> QED
  BY <1>5, <1>6 DEF EndStep

LEMMA QuietShape ==
  ASSUME TypeOK, QuietStep
  PROVE  /\ proc' \in [Procs -> Runtimes] /\ fw' = fw /\ file' = file /\ lapses' = lapses
         /\ \A p \in Procs : /\ proc'[p].phase = proc[p].phase /\ proc'[p].mode = proc[p].mode
                             /\ proc'[p].state = proc[p].state /\ proc'[p].root = proc[p].root
<1>1. CASE proc' = proc
  BY <1>1 DEF QuietStep, TypeOK
<1>2. CASE proc' = [proc EXCEPT !["cli"].cmd = "status"]
  <2>1. proc["cli"] \in Runtimes /\ "status" \in Commands
    BY ProcFacts DEF Commands
  <2>2. [proc["cli"] EXCEPT !.cmd = "status"] \in Runtimes
    BY <2>1 DEF Runtimes
  <2>3. proc' \in [Procs -> Runtimes] /\ \A q \in Procs \ {"cli"} : proc'[q] = proc[q]
    BY <1>2, <2>2 DEF TypeOK
  <2>4. proc'["cli"] = [proc["cli"] EXCEPT !.cmd = "status"]
    BY <1>2, ProcFacts DEF TypeOK
  <2>5. /\ proc'["cli"].phase = proc["cli"].phase /\ proc'["cli"].mode = proc["cli"].mode
        /\ proc'["cli"].state = proc["cli"].state /\ proc'["cli"].root = proc["cli"].root
    BY <2>1, <2>4 DEF Runtimes
  <2> QED
    BY <2>3, <2>5 DEF QuietStep
<1> QED
  BY <1>1, <1>2 DEF QuietStep

-----------------------------------------------------------------------------
(* Type correctness *)

Stored == file \in Files /\ lapses \subseteq Lapses

LEMMA ProcsTyped ==
  TypeOK /\ [Next]_vars => proc' \in [Procs -> Runtimes] /\ fw' \in Rulesets /\ Stored'
<1> SUFFICES ASSUME TypeOK, [Next]_vars
             PROVE  proc' \in [Procs -> Runtimes] /\ fw' \in Rulesets /\ Stored'
  OBVIOUS
<1>0. fw \in Rulesets /\ Stored /\ proc \in [Procs -> Runtimes]
  BY DEF TypeOK, Stored
<1>1. ASSUME NEW p \in Procs, BootStep(p)
      PROVE  proc' \in [Procs -> Runtimes] /\ fw' \in Rulesets /\ Stored'
  BY <1>0, <1>1, BootEffect, FileRecords DEF BootStep, Stored
<1>2. ASSUME NEW p \in Procs, SyncStep(p)
      PROVE  proc' \in [Procs -> Runtimes] /\ fw' \in Rulesets /\ Stored'
  BY <1>0, <1>2, SyncShape DEF Stored
<1>3. ASSUME NEW p \in Procs, SaveState(p)
      PROVE  proc' \in [Procs -> Runtimes] /\ fw' \in Rulesets /\ Stored'
  BY <1>0, <1>3, SaveShape, FileRecords, ProcFacts DEF Stored
<1>4. ASSUME NEW p \in Procs, EndStep(p)
      PROVE  proc' \in [Procs -> Runtimes] /\ fw' \in Rulesets /\ Stored'
  BY <1>0, <1>4, EndShape, FileRecords, ProcFacts DEF Stored
<1>5. CASE QuietStep
  BY <1>0, <1>5, QuietShape DEF Stored
<1>6. CASE CliRelease
  BY <1>0, <1>6, RecoverEffect, FileRecords DEF CliRelease, Stored
<1> QED
  BY <1>1, <1>2, <1>3, <1>4, <1>5, <1>6, StepShape DEF Shape

LEMMA TunnelsTyped ==
  TypeOK /\ [Next]_vars => conn' \in [Tunnels -> Entries] /\ kernel' \subseteq Tunnels
<1> SUFFICES ASSUME TypeOK, [Next]_vars
             PROVE  conn' \in [Tunnels -> Entries] /\ kernel' \subseteq Tunnels
  OBVIOUS
<1>0. conn \in [Tunnels -> Entries] /\ kernel \subseteq Tunnels
  BY DEF TypeOK
<1>1. [t \in Tunnels |-> "none"] \in [Tunnels -> Entries]
  BY DEF Entries
<1>2. \A t \in Tunnels, e \in Entries : [conn EXCEPT ![t] = e] \in [Tunnels -> Entries]
  BY <1>0
<1>3. ASSUME NEW t \in Tunnels, TuiHandler(t)
      PROVE  conn' \in [Tunnels -> Entries] /\ kernel' \subseteq Tunnels
  <2>1. \E e \in Entries : conn' = [conn EXCEPT ![t] = e]
    BY <1>3 DEF TuiHandler, Connect, ConnectOk, ConnectFailed, ConnectTimeout, Disconnect,
                ScanClosed, ScanForceClose, ScanDrop, ScanRefresh, ScanAdopt, Entries
  <2>2. kernel' \in {kernel, kernel \cup {t}, kernel \ {t}}
    BY <1>3 DEF TuiHandler, Connect, ConnectOk, ConnectFailed, ConnectTimeout, Disconnect,
                ScanClosed, ScanForceClose, ScanDrop, ScanRefresh, ScanAdopt
  <2> QED
    BY <1>0, <1>2, <2>1, <2>2
<1>4. ASSUME NEW t \in Tunnels, \/ CliUp(t)
                                \/ CliDown(t)
                                \/ TunnelDies(t)
                                \/ ExternalUp(t)
      PROVE  conn' \in [Tunnels -> Entries] /\ kernel' \subseteq Tunnels
  <2>1. conn' = conn /\ kernel' \in {kernel, kernel \cup {t}, kernel \ {t}}
    BY <1>4 DEF CliUp, CliDown, TunnelDies, ExternalUp
  <2> QED
    BY <1>0, <2>1
<1>5. CASE \/ \E root \in BOOLEAN : TuiStart(root)
           \/ Quit
           \/ \E p \in Procs : Crash(p)
  BY <1>0, <1>1, <1>5 DEF TuiStart, Quit, Crash
<1>6. CASE \/ \E root \in BOOLEAN, cmd \in Commands \ {"none", "tui"} : CliStart(cmd, root)
           \/ ToggleKillswitch
           \/ \E mode \in Modes : CliKillswitch(mode)
           \/ CliExit
           \/ CliRelease
  BY <1>0, <1>6 DEF CliStart, ToggleKillswitch, CliKillswitch, CliExit, CliRelease
<1>7. CASE UNCHANGED vars
  BY <1>0, <1>7 DEF vars
<1>8. ASSUME NEW p \in Procs, SaveState(p)
      PROVE  conn' \in [Tunnels -> Entries] /\ kernel' \subseteq Tunnels
  BY <1>0, <1>8 DEF SaveState
<1> QED
  BY <1>3, <1>4, <1>5, <1>6, <1>7, <1>8 DEF Next

LEMMA TypeInit == Init => TypeOK
<1>1. [t \in Tunnels |-> "none"] \in [Tunnels -> Entries]
  BY DEF Entries
<1>2. [p \in Procs |-> Dead] \in [Procs -> Runtimes]
  BY DeadTyped
<1> QED
  BY <1>1, <1>2, NoRulesTyped, FileRecords DEF Init, TypeOK

\* Every variable keeps its type under every fault.
THEOREM TypeCorrect == Spec => []TypeOK
<1>1. TypeOK /\ [Next]_vars => TypeOK'
  BY ProcsTyped, TunnelsTyped DEF TypeOK, Stored
<1> QED
  BY TypeInit, <1>1, PTL DEF Spec
-----------------------------------------------------------------------------
(* Coherence of mode and state, in memory and in the file *)

FileCoherent == file # NoFile /\ file.mode = "Off" => file.state = "Disabled"

PairInv == ModeStateCoherent /\ FileCoherent

LEMMA SavedFields ==
  \A m, s : Saved(m, s).mode = m /\ Saved(m, s).state = s
  BY DEF Saved

LEMMA PairInit == Init => PairInv
  BY DEF Init, PairInv, ModeStateCoherent, FileCoherent, Dead

LEMMA PairStep == TypeOK /\ PairInv /\ [Next]_vars => PairInv'
<1> SUFFICES ASSUME TypeOK, PairInv, [Next]_vars
             PROVE  ModeStateCoherent' /\ FileCoherent'
  BY DEF PairInv
<1>0. ModeStateCoherent /\ FileCoherent
  BY DEF PairInv
<1>1. ASSUME NEW p \in Procs, BootStep(p) PROVE ModeStateCoherent' /\ FileCoherent'
  <2>1. PICK cmd \in Commands, root \in BOOLEAN : Boot(p, cmd, root)
    BY <1>1 DEF BootStep
  <2>2. proc'[p].state # "Blocking" /\ (proc'[p].mode = "Off" => proc'[p].state = "Disabled")
    BY <1>0, <2>1, BootEffect DEF FileCoherent
  <2>3. \A q \in Procs \ {p} : proc'[q] = proc[q]
    BY <2>1, BootEffect
  <2>4. file' \in {file, NoFile}
    BY <2>1, BootEffect
  <2> QED
    BY <1>0, <2>2, <2>3, <2>4 DEF ModeStateCoherent, FileCoherent
<1>2. ASSUME NEW p \in Procs, SyncStep(p) PROVE ModeStateCoherent' /\ FileCoherent'
  BY <1>0, <1>2, SyncShape DEF ModeStateCoherent, FileCoherent
<1>3. ASSUME NEW p \in Procs, SaveState(p) PROVE ModeStateCoherent' /\ FileCoherent'
  BY <1>0, <1>3, SaveShape, SavedFields DEF ModeStateCoherent, FileCoherent
<1>4. ASSUME NEW p \in Procs, EndStep(p) PROVE ModeStateCoherent' /\ FileCoherent'
  BY <1>0, <1>4, EndShape, SavedFields DEF ModeStateCoherent, FileCoherent
<1>5. CASE QuietStep
  BY <1>0, <1>5, QuietShape DEF ModeStateCoherent, FileCoherent
<1>6. CASE CliRelease
  BY <1>0, <1>6, RecoverEffect DEF CliRelease, ModeStateCoherent, FileCoherent
<1> QED
  BY <1>1, <1>2, <1>3, <1>4, <1>5, <1>6, StepShape DEF Shape

\* No process holds a (mode, state) pair its mode cannot justify, under every
\* fault: desired_state, the root downgrade and the boot recovery agree.
THEOREM ModeStateCoherentHolds == Spec => []ModeStateCoherent
<1>1. Spec => []PairInv
  BY PairInit, PairStep, TypeCorrect, PTL DEF Spec
<1>2. PairInv => ModeStateCoherent
  BY DEF PairInv
<1> QED
  BY <1>1, <1>2, PTL

-----------------------------------------------------------------------------
(* The last drop blocks *)

\* A TUI that is not running has no registry.
DownForgets == Tui.phase = "down" => \A t \in Tunnels : conn[t] = "none"

LEMMA DownInit == Init => DownForgets
  BY DEF Init, DownForgets

LEMMA DownStep == TypeOK /\ DownForgets /\ [Next]_vars => DownForgets'
<1> SUFFICES ASSUME TypeOK, DownForgets, [Next]_vars, proc'["tui"].phase = "down"
             PROVE  \A t \in Tunnels : conn'[t] = "none"
  BY DEF DownForgets, Tui
<1>1. CASE \/ \E root \in BOOLEAN : TuiStart(root)
           \/ Quit
           \/ Crash("tui")
  BY <1>1 DEF TuiStart, Quit, Crash
<1>2. ASSUME NEW t \in Tunnels, TuiHandler(t) PROVE FALSE
  <2>1. TuiIdle /\ (NoSync \/ SyncStep("tui"))
    <3>1. CASE ScanDrop(t)
      <4>1. TuiIdle
        BY <3>1 DEF ScanDrop
      <4>2. CASE NoSync
        BY <4>1, <4>2
      <4>3. CASE /\ proc["tui"].state = "Armed"
                 /\ SyncFirewall("tui", proc["tui"].mode, "Blocking", TuiView(conn'))
        BY <4>1, <4>3, ProcFacts, ViewsTyped DEF SyncStep, TuiIdle, KsStates
      <4> QED
        BY <3>1, <4>1, <4>2, <4>3 DEF ScanDrop
    <3>2. CASE ~ScanDrop(t)
      <4>1. TuiIdle /\ (NoSync \/ TuiSync(conn'))
        BY <1>2, <3>2 DEF TuiHandler, Connect, ConnectOk, ConnectFailed, ConnectTimeout,
              Disconnect, ScanClosed, ScanForceClose, ScanRefresh, ScanAdopt
      <4> QED
        BY <4>1, TuiSyncs
    <3> QED
      BY <3>1, <3>2
  <2>2. CASE NoSync
    BY <2>1, <2>2 DEF NoSync, TuiIdle
  <2>3. CASE SyncStep("tui")
    BY <2>3, SyncShape, ProcFacts
  <2> QED
    BY <2>1, <2>2, <2>3
<1>3. CASE conn' = conn /\ proc'["tui"].phase = proc["tui"].phase
  BY <1>3 DEF DownForgets, Tui
<1>4. CASE ToggleKillswitch
  BY <1>4, ProcFacts DEF ToggleKillswitch, SyncFirewall, TypeOK
<1>5. ASSUME NEW cmd \in Commands, NEW root \in BOOLEAN, CliStart(cmd, root)
      PROVE  conn' = conn /\ proc'["tui"].phase = proc["tui"].phase
  BY <1>5, BootEffect, ProcFacts DEF CliStart, Procs
<1>6. ASSUME NEW mode \in Modes, CliKillswitch(mode)
      PROVE  conn' = conn /\ proc'["tui"].phase = proc["tui"].phase
  BY <1>6 DEF CliKillswitch, CliSync, SyncFirewall, TypeOK, Procs
<1>7. ASSUME NEW t \in Tunnels, \/ CliUp(t)
                                \/ CliDown(t)
                                \/ TunnelDies(t)
                                \/ ExternalUp(t)
      PROVE  conn' = conn /\ proc'["tui"].phase = proc["tui"].phase
  BY <1>7 DEF CliUp, CliDown, CliSync, SyncFirewall, NoSync, TunnelDies, ExternalUp, TypeOK, Procs
<1>8. ASSUME CliExit \/ CliRelease \/ Crash("cli")
      PROVE  conn' = conn /\ proc'["tui"].phase = proc["tui"].phase
  BY <1>8 DEF CliExit, CliRelease, Crash, TypeOK, Procs
<1>9. CASE SaveState("tui")
  BY <1>9, SaveShape, ProcFacts
<1>10. ASSUME SaveState("cli")
       PROVE  conn' = conn /\ proc'["tui"].phase = proc["tui"].phase
  BY <1>10, SaveShape, ProcFacts DEF SaveState, Procs
<1>11. CASE UNCHANGED vars
  BY <1>3, <1>11 DEF vars
<1> QED
  BY <1>1, <1>2, <1>3, <1>4, <1>5, <1>6, <1>7, <1>8, <1>9, <1>10, <1>11 DEF Next, Procs

\* ScanDrop is the only step that forgets a Connected tunnel in a running TUI.
LEMMA OnlyScanDrops ==
  ASSUME TypeOK, DownForgets, [Next]_vars, NEW t \in Tunnels, DropStep(t)
  PROVE  ScanDrop(t)
<1>1. conn \in [Tunnels -> Entries] /\ conn[t] \in {"bare", "full"} /\ conn'[t] = "none"
  BY DEF TypeOK, DropStep, IsConnected
<1>2. proc["tui"].phase # "down" /\ proc'["tui"].phase # "down"
  BY <1>1 DEF DownForgets, Tui, DropStep
<1>3. ~(\E root \in BOOLEAN : TuiStart(root))
  BY <1>2 DEF TuiStart, Boot
<1>4. ~Quit /\ ~Crash("tui")
  BY <1>2, ProcFacts DEF Quit, Crash, TypeOK, Dead
<1>5. conn' # conn
  BY <1>1
<1>6. PICK u \in Tunnels : TuiHandler(u)
  BY <1>3, <1>4, <1>5 DEF Next, CliStart, ToggleKillswitch, CliKillswitch, CliUp, CliDown,
        CliExit, CliRelease, SaveState, Crash, Procs, TunnelDies, ExternalUp, vars
<1>7. conn[u] = "opening" \/ conn[u] = "closing" \/ conn'[u] # "none" \/ ScanDrop(u)
  BY <1>6 DEF TuiHandler, Connect, ConnectOk, ConnectFailed, ConnectTimeout, Disconnect,
        ScanClosed, ScanForceClose, ScanRefresh, ScanAdopt, TypeOK
<1>8. \A v \in Tunnels \ {u} : conn'[v] = conn[v]
  BY <1>6 DEF TuiHandler, Connect, ConnectOk, ConnectFailed, ConnectTimeout, Disconnect,
        ScanClosed, ScanForceClose, ScanDrop, ScanRefresh, ScanAdopt, TypeOK
<1> QED
  BY <1>1, <1>7, <1>8

\* Armed with root, the TUI turns the firewall on in the very step that sees its
\* last Connected tunnel gone, whatever CLI commands run beside it and whatever
\* failed before, unless loading the rules fails in that step.
THEOREM ArmedDropBlocksHolds == Spec => ArmedDropBlocks
<1>1. ASSUME TypeOK, PairInv, DownForgets, [Next]_vars,
             NEW t \in Tunnels, DropStep(t), Tui.state = "Armed", Tui.root,
             \A u \in Tunnels \ {t} : ~IsConnected(conn[u])
      PROVE  fw'.on \/ "install" \in lapses'
  <2>1. ScanDrop(t)
    BY <1>1, OnlyScanDrops
  <2>2. proc["tui"].mode # "Off" /\ proc["tui"].mode \in Modes
    BY <1>1, ProcFacts DEF PairInv, ModeStateCoherent, Tui
  <2>3. SyncFirewall("tui", proc["tui"].mode, "Blocking", TuiView(conn'))
    BY <1>1, <2>1, <2>2 DEF ScanDrop, Tui
  <2>4. \A u \in Tunnels : ~IsConnected(conn'[u])
    BY <1>1, <2>1 DEF ScanDrop, TypeOK, IsConnected
  <2>5. (TuiView(conn').ifaces # {}) = FALSE
    BY <2>4 DEF TuiView
  <2>6. proc["tui"].root = TRUE
    BY <1>1, ProcFacts DEF Tui
  <2>7. "Blocking" = Resolve(proc["tui"].mode, "Blocking", TuiView(conn').ifaces # {}, proc["tui"].root)
    BY <2>2, <2>5, <2>6, ResolveBlocks
  <2> QED
    BY <1>1, <2>2, <2>3, <2>7, SyncEffect, ViewsTyped, ProcFacts
<1>2. TypeOK /\ PairInv /\ DownForgets /\ [Next]_vars
        => \A t \in Tunnels :
             /\ DropStep(t) /\ Tui.state = "Armed" /\ Tui.root
             /\ \A u \in Tunnels \ {t} : ~IsConnected(conn[u])
             => fw'.on \/ "install" \in lapses'
  BY <1>1
<1>3. Spec => []PairInv
  BY PairInit, PairStep, TypeCorrect, PTL DEF Spec
<1>4. Spec => []DownForgets
  BY DownInit, DownStep, TypeCorrect, PTL DEF Spec
<1> QED
  BY <1>2, <1>3, <1>4, TypeCorrect, PTL DEF Spec, ArmedDropBlocks
-----------------------------------------------------------------------------
(* One process at a time *)

OneProcess ==
  \A p \in Procs, q \in Procs : proc[p].phase # "down" /\ proc[q].phase # "down" => p = q

LEMMA OneInit == Init => OneProcess
  BY DEF Init, OneProcess, Dead

LEMMA OneStep ==
  ASSUME "beside" \notin Faults
  PROVE  TypeOK /\ OneProcess /\ [Next]_vars => OneProcess'
<1> SUFFICES ASSUME TypeOK, OneProcess, [Next]_vars PROVE OneProcess'
  OBVIOUS
<1>1. ASSUME NEW p \in Procs, BootStep(p) PROVE OneProcess'
  BY <1>1, BootEffect DEF BootStep, OneProcess
<1>2. ASSUME NEW p \in Procs, SyncStep(p) PROVE OneProcess'
  BY <1>2, SyncShape DEF OneProcess
<1>3. ASSUME NEW p \in Procs, SaveState(p) PROVE OneProcess'
  BY <1>3, SaveShape DEF OneProcess
<1>4. ASSUME NEW p \in Procs, EndStep(p) PROVE OneProcess'
  BY <1>4, EndShape DEF OneProcess
<1>5. CASE QuietStep
  BY <1>5, QuietShape DEF OneProcess
<1>6. CASE CliRelease
  BY <1>6 DEF CliRelease, OneProcess
<1> QED
  BY <1>1, <1>2, <1>3, <1>4, <1>5, <1>6, StepShape DEF Shape

LEMMA ReleaseAlone ==
  ASSUME TypeOK, "beside" \notin Faults, CliRelease
  PROVE  /\ \A p \in Procs : proc[p].phase = "down"
         /\ proc' = proc /\ (~fw'.on \/ Loose')
  BY RecoverEffect DEF CliRelease, Procs

-----------------------------------------------------------------------------
(* A process that believes it is blocking has rules installed *)

BlockInv ==
  \A p \in Procs :
    proc[p].phase # "down" /\ proc[p].state = "Blocking" => fw.on \/ "install" \in lapses

LEMMA BlockInit == Init => BlockInv
  BY DEF Init, BlockInv, Dead

LEMMA BlockStep ==
  ASSUME "beside" \notin Faults
  PROVE  TypeOK /\ OneProcess /\ BlockInv /\ [Next]_vars => BlockInv'
<1> SUFFICES ASSUME TypeOK, OneProcess, BlockInv, [Next]_vars PROVE BlockInv'
  OBVIOUS
<1>1. ASSUME NEW p \in Procs, BootStep(p) PROVE BlockInv'
  BY <1>1, BootEffect DEF BootStep, BlockInv
<1>2. ASSUME NEW p \in Procs, SyncStep(p) PROVE BlockInv'
  BY <1>2, SyncShape DEF BlockInv, OneProcess
<1>3. ASSUME NEW p \in Procs, SaveState(p) PROVE BlockInv'
  BY <1>3, SaveShape DEF BlockInv
<1>4. ASSUME NEW p \in Procs, EndStep(p) PROVE BlockInv'
  BY <1>4, EndShape DEF BlockInv
<1>5. CASE QuietStep
  BY <1>5, QuietShape DEF BlockInv
<1>6. CASE CliRelease
  BY <1>6, ReleaseAlone DEF BlockInv
<1> QED
  BY <1>1, <1>2, <1>3, <1>4, <1>5, <1>6, StepShape DEF Shape

\* A running TUI that believes it is blocking has rules installed or failed to
\* load them, through crashes, restarts, unprivileged starts and removals and
\* writes that fail, when processes do not overlap.
THEOREM BlockingIsEnforcedHolds ==
  ASSUME "beside" \notin Faults PROVE Spec => []BlockingIsEnforced
<1>1. Spec => []OneProcess
  BY OneInit, OneStep, TypeCorrect, PTL DEF Spec
<1>2. Spec => []BlockInv
  BY <1>1, BlockInit, BlockStep, TypeCorrect, PTL DEF Spec
<1>3. BlockInv => BlockingIsEnforced
  BY DEF BlockInv, BlockingIsEnforced, Tui, Procs
<1> QED
  BY <1>2, <1>3, PTL

-----------------------------------------------------------------------------
(* Rules are recorded, and removed on the way out of Blocking *)

OpenInv ==
  \A p \in Procs :
    proc[p].phase # "down" /\ proc[p].state # "Blocking" => ~fw.on \/ Loose

RecordInv == OpenInv /\ EngagedIsRecorded

LEMMA RecordInit == Init => RecordInv
  BY NoRulesTyped DEF Init, RecordInv, OpenInv, EngagedIsRecorded

LEMMA RecordStep ==
  ASSUME "beside" \notin Faults
  PROVE  TypeOK /\ OneProcess /\ RecordInv /\ [Next]_vars => RecordInv'
<1> SUFFICES ASSUME TypeOK, OneProcess, OpenInv, EngagedIsRecorded, [Next]_vars
             PROVE  OpenInv' /\ EngagedIsRecorded'
  BY DEF RecordInv
<1>1. ASSUME NEW p \in Procs, BootStep(p) PROVE OpenInv' /\ EngagedIsRecorded'
  <2>1. PICK cmd \in Commands, root \in BOOLEAN : Boot(p, cmd, root)
    BY <1>1 DEF BootStep
  <2>2. \A q \in Procs \ {p} : proc'[q] = proc[q] /\ proc[q].phase = "down"
    BY <1>1, <2>1, BootEffect DEF BootStep
  <2>3. ~MidSync
    BY <2>1, <2>2, BootEffect DEF MidSync
  <2>4. ~fw'.on \/ Loose'
    <3>1. CASE file # NoFile /\ file.state = "Blocking"
      BY <2>1, <3>1, BootEffect
    <3>2. CASE ~(file # NoFile /\ file.state = "Blocking")
      <4>1. fw' = fw /\ lapses' = lapses
        BY <2>1, <3>2, BootEffect
      <4> QED
        BY <2>3, <3>2, <4>1 DEF EngagedIsRecorded, Loose
    <3> QED
      BY <3>1, <3>2
  <2> QED
    BY <2>4 DEF OpenInv, EngagedIsRecorded
<1>2. ASSUME NEW p \in Procs, SyncStep(p) PROVE OpenInv' /\ EngagedIsRecorded'
  <2>1. /\ proc[p].phase = "idle" /\ proc'[p].phase = "syncing"
        /\ \A q \in Procs \ {p} : proc'[q] = proc[q] /\ proc[q].phase = "down"
    BY <1>2, SyncShape DEF OneProcess
  <2>2. proc'[p].state # "Blocking" => ~fw'.on \/ Loose'
    BY <1>2, <2>1, SyncShape DEF OpenInv, Loose
  <2> QED
    BY <2>1, <2>2 DEF OpenInv, EngagedIsRecorded, MidSync
<1>3. ASSUME NEW p \in Procs, SaveState(p) PROVE OpenInv' /\ EngagedIsRecorded'
  <2>1. proc[p].mode \in Modes /\ proc[p].state \in KsStates
    BY ProcFacts
  <2>2. /\ fw' = fw /\ proc[p].phase = "syncing" /\ (Loose => Loose')
        /\ \/ file' # NoFile /\ file'.state = proc[p].state
           \/ Loose'
    BY <1>3, <2>1, SaveShape, SavedFields, FileRecords DEF Loose
  <2>3. EngagedIsRecorded'
    BY <2>2 DEF EngagedIsRecorded, OpenInv
  <2> QED
    BY <1>3, <2>2, <2>3, SaveShape DEF OpenInv
<1>4. ASSUME NEW p \in Procs, EndStep(p) PROVE OpenInv' /\ EngagedIsRecorded'
  <2>1. /\ proc[p].phase # "down" /\ proc'[p].phase = "down" /\ fw' = fw
        /\ file' \in {file, Saved(proc[p].mode, proc[p].state)}
        /\ proc[p].phase = "idle" \/ Loose'
        /\ Loose => Loose'
    BY <1>4, EndShape DEF Loose
  <2>2. \A q \in Procs \ {p} : proc'[q] = proc[q] /\ proc[q].phase = "down"
    BY <1>4, <2>1, EndShape DEF OneProcess
  <2>3. proc[p].phase = "idle" => ~MidSync
    BY <2>2 DEF MidSync
  <2>4. proc[p].mode \in Modes /\ proc[p].state \in KsStates
    BY ProcFacts
  <2>5. fw.on => Loose' \/ (file' # NoFile /\ file'.state = "Blocking")
    BY <2>1, <2>3, <2>4, SavedFields, FileRecords DEF EngagedIsRecorded, OpenInv
  <2> QED
    BY <2>1, <2>2, <2>5 DEF OpenInv, EngagedIsRecorded
<1>5. CASE QuietStep
  BY <1>5, QuietShape DEF OpenInv, EngagedIsRecorded, MidSync, Loose
<1>6. CASE CliRelease
  BY <1>6, ReleaseAlone DEF OpenInv, EngagedIsRecorded
<1> QED
  BY <1>1, <1>2, <1>3, <1>4, <1>5, <1>6, StepShape DEF Shape

LEMMA RecordHolds ==
  ASSUME "beside" \notin Faults PROVE Spec => []RecordInv
<1>1. Spec => []OneProcess
  BY OneInit, OneStep, TypeCorrect, PTL DEF Spec
<1> QED
  BY <1>1, RecordInit, RecordStep, TypeCorrect, PTL DEF Spec

\* Between syncs installed rules are recorded in killswitch.state, where the next
\* launch finds them, or one of the four lapses of Loose came after the last
\* firewall call that worked: for every fault, when processes do not overlap.
THEOREM EngagedIsRecordedHolds ==
  ASSUME "beside" \notin Faults PROVE Spec => []EngagedIsRecorded
<1>1. RecordInv => EngagedIsRecorded
  BY DEF RecordInv
<1> QED
  BY <1>1, RecordHolds, PTL

\* A running TUI that does not believe it is blocking has left no rules behind, or
\* one of those lapses came after the last firewall call that worked.
THEOREM NotBlockingIsOpenHolds ==
  ASSUME "beside" \notin Faults PROVE Spec => []NotBlockingIsOpen
<1>1. RecordInv => NotBlockingIsOpen
  BY DEF RecordInv, OpenInv, NotBlockingIsOpen, Tui, Procs
<1> QED
  BY <1>1, RecordHolds, PTL

-----------------------------------------------------------------------------
(* No rule for a tunnel on its way out *)

\* NoStaleAccept between the halves of a sync as well.
AcceptInv ==
  /\ Tui.phase # "down" /\ Tui.state = "Blocking" /\ fw.on
  /\ lapses \cap {"install", "remove"} = {}
  => \A t \in fw.ifaces : conn[t] # "closing"

LEMMA ListedShrinks ==
  ASSUME NEW S
  PROVE  Listed(S) \subseteq S
  BY DEF Listed

\* A handler that brings the registry to conn' and then syncs: when it blocks and
\* the firewall did as told, the rules accept the tunnels of conn' only.
LEMMA TuiAccepts ==
  ASSUME TypeOK, NEW old, NEW mode \in Modes,
         SyncFirewall("tui", mode, old, TuiView(conn'))
  PROVE  AcceptInv'
<1>1. TuiView(conn') \in Views /\ TuiView(conn').ifaces = {t \in Tunnels : IsConnected(conn'[t])}
  BY ViewsTyped DEF TuiView
<1> DEFINE new == Resolve(mode, old, TuiView(conn').ifaces # {}, proc["tui"].root)
<1>2. new = Resolve(mode, old, TuiView(conn').ifaces # {}, proc["tui"].root)
  OBVIOUS
<1> HIDE DEF new
<1>3. /\ proc'["tui"].state = new
      /\ new = "Blocking" /\ lapses' \cap {"install", "remove"} = {}
           => fw' = Ruleset(TuiView(conn'))
  BY <1>1, <1>2, SyncEffect, ProcFacts
<1>4. Ruleset(TuiView(conn')).ifaces \subseteq TuiView(conn').ifaces
  BY ListedShrinks DEF Ruleset
<1> QED
  BY <1>1, <1>3, <1>4 DEF AcceptInv, IsConnected, Tui

LEMMA AcceptStep ==
  ASSUME "beside" \notin Faults
  PROVE  TypeOK /\ OneProcess /\ AcceptInv /\ [Next]_vars => AcceptInv'
<1> SUFFICES ASSUME TypeOK, OneProcess, AcceptInv, [Next]_vars PROVE AcceptInv'
  OBVIOUS
<1>0. fw \in Rulesets /\ fw.ifaces \subseteq Tunnels /\ conn \in [Tunnels -> Entries]
  BY DEF TypeOK, Rulesets
<1>a. ASSUME fw' = fw, lapses \subseteq lapses',
             proc'["tui"].state = proc["tui"].state, proc["tui"].phase # "down",
             \A t \in Tunnels : conn'[t] = "closing" => conn[t] = "closing"
      PROVE  AcceptInv'
  BY <1>0, <1>a DEF AcceptInv, Tui
<1>b. ASSUME proc'["tui"] = proc["tui"], proc["tui"].phase = "down" PROVE AcceptInv'
  BY <1>b DEF AcceptInv, Tui
<1>c. ASSUME NEW p \in Procs, proc[p].phase # "down", p # "tui",
             \A q \in Procs \ {p} : proc'[q] = proc[q]
      PROVE  AcceptInv'
  BY <1>b, <1>c, ProcFacts DEF OneProcess
<1>1. CASE \/ \E root \in BOOLEAN : TuiStart(root)
           \/ Quit
           \/ Crash("tui")
  <2>1. proc'["tui"].phase = "down" \/ proc'["tui"].state # "Blocking"
    BY <1>1, BootEffect, ProcFacts DEF TuiStart, Quit, Crash, TypeOK, Dead, Commands
  <2> QED
    BY <2>1 DEF AcceptInv, Tui
<1>2. ASSUME NEW t \in Tunnels, TuiHandler(t) PROVE AcceptInv'
  <2>1. CASE NoSync /\ ~Disconnect(t)
    <3>1. /\ proc["tui"].phase = "idle"
          /\ \A u \in Tunnels : conn'[u] = "closing" => conn[u] = "closing"
      BY <1>0, <1>2, <2>1 DEF TuiHandler, Connect, ConnectOk, ConnectFailed, ConnectTimeout,
         ScanClosed, ScanForceClose, ScanDrop, ScanRefresh, ScanAdopt, TuiIdle
    <3> QED
      BY <1>a, <2>1, <3>1 DEF NoSync
  <2>2. CASE TuiSync(conn')
    BY <2>2, TuiAccepts, ProcFacts DEF TuiSync
  <2>3. CASE ScanDrop(t) /\ ~NoSync
    BY <2>3, TuiAccepts, ProcFacts DEF ScanDrop
  <2> QED
    BY <1>2, <2>1, <2>2, <2>3 DEF TuiHandler, Connect, ConnectOk, ConnectFailed,
       ConnectTimeout, Disconnect, ScanClosed, ScanForceClose, ScanDrop, ScanRefresh, ScanAdopt
<1>3. CASE ToggleKillswitch
  <2>1. NextMode(proc["tui"].mode) \in Modes
    BY ProcFacts DEF NextMode, Modes
  <2>2. TuiView(conn') = TuiView(conn)
    BY <1>3 DEF ToggleKillswitch
  <2>3. SyncFirewall("tui", NextMode(proc["tui"].mode), proc["tui"].state, TuiView(conn'))
    BY <1>3, <2>2 DEF ToggleKillswitch
  <2> QED
    BY <2>1, <2>3, TuiAccepts
<1>4. ASSUME NEW cmd \in Commands, NEW root \in BOOLEAN, CliStart(cmd, root)
      PROVE  AcceptInv'
  BY <1>4, <1>b, BootEffect, ProcFacts DEF CliStart
<1>5. ASSUME NEW mode \in Modes, CliKillswitch(mode) PROVE AcceptInv'
  <2>1. \A q \in Procs \ {"cli"} : proc'[q] = proc[q]
    BY <1>5 DEF CliKillswitch, CliSync, SyncFirewall, TypeOK
  <2> QED
    BY <1>5, <1>c, <2>1, ProcFacts DEF CliKillswitch, CliIdle
<1>6. ASSUME NEW t \in Tunnels, CliUp(t) \/ CliDown(t) PROVE AcceptInv'
  <2>1. \A q \in Procs \ {"cli"} : proc'[q] = proc[q]
    BY <1>6 DEF CliUp, CliDown, CliSync, SyncFirewall, NoSync, TypeOK
  <2> QED
    BY <1>6, <1>c, <2>1, ProcFacts DEF CliUp, CliDown, CliIdle
<1>7. CASE CliRelease
  BY <1>7, <1>b, ReleaseAlone, ProcFacts
<1>8. CASE CliExit \/ Crash("cli")
  BY <1>8, <1>c, ProcFacts DEF CliExit, Crash, TypeOK
<1>9. CASE SaveState("tui")
  <2>1. /\ fw' = fw /\ lapses \subseteq lapses'
        /\ proc'["tui"].state = proc["tui"].state /\ proc["tui"].phase = "syncing"
    BY <1>9, SaveShape, ProcFacts
  <2>2. conn' = conn
    BY <1>9 DEF SaveState
  <2> QED
    BY <1>a, <2>1, <2>2
<1>10. CASE SaveState("cli")
  BY <1>10, <1>c, SaveShape, ProcFacts
<1>11. CASE UNCHANGED <<proc, conn, fw, lapses>>
  BY <1>11 DEF AcceptInv, Tui
<1> QED
  BY <1>1, <1>2, <1>3, <1>4, <1>5, <1>6, <1>7, <1>8, <1>9, <1>10, <1>11
  DEF Next, Procs, TunnelDies, ExternalUp, vars

\* The ruleset of a blocking TUI never lists a tunnel on its way out, for every
\* fault, when the last firewall call did as told and processes do not overlap:
\* the registry entry is updated before the sync.
THEOREM NoStaleAcceptHolds ==
  ASSUME "beside" \notin Faults PROVE Spec => []NoStaleAccept
<1>1. AcceptInv => NoStaleAccept
  BY DEF AcceptInv, NoStaleAccept
<1>2. Init => AcceptInv
  BY NoRulesTyped DEF Init, AcceptInv
<1>3. Spec => []OneProcess
  BY OneInit, OneStep, TypeCorrect, PTL DEF Spec
<1>4. Spec => []AcceptInv
  BY <1>2, <1>3, AcceptStep, TypeCorrect, PTL DEF Spec
<1> QED
  BY <1>1, <1>4, PTL
-----------------------------------------------------------------------------
(* Block-on-drop engages on a drop and on nothing else *)

DownIsOff == Tui.phase = "down" => Tui.mode = "Off"

LEMMA OffInit == Init => DownIsOff
  BY DEF Init, DownIsOff, Tui, Dead, Procs

LEMMA OffStep == TypeOK /\ DownIsOff /\ [Next]_vars => DownIsOff'
<1> SUFFICES ASSUME TypeOK, DownIsOff, [Next]_vars PROVE DownIsOff'
  OBVIOUS
<1>1. ASSUME NEW p \in Procs, BootStep(p) PROVE DownIsOff'
  BY <1>1, BootEffect, ProcFacts DEF BootStep, DownIsOff, Tui
<1>2. ASSUME NEW p \in Procs, SyncStep(p) PROVE DownIsOff'
  BY <1>2, SyncShape, ProcFacts DEF DownIsOff, Tui
<1>3. ASSUME NEW p \in Procs, SaveState(p) PROVE DownIsOff'
  BY <1>3, SaveShape, ProcFacts DEF DownIsOff, Tui
<1>4. ASSUME NEW p \in Procs, EndStep(p) PROVE DownIsOff'
  <2>1. proc'["tui"] = proc["tui"] \/ proc'["tui"] = Dead
    BY <1>4, ProcFacts DEF EndStep, TypeOK
  <2> QED
    BY <2>1 DEF DownIsOff, Tui, Dead
<1>5. CASE QuietStep
  <2>1. proc'["tui"] = proc["tui"]
    BY <1>5, ProcFacts DEF QuietStep, TypeOK
  <2> QED
    BY <2>1 DEF DownIsOff, Tui
<1>6. CASE CliRelease
  BY <1>6 DEF CliRelease, DownIsOff, Tui
<1> QED
  BY <1>1, <1>2, <1>3, <1>4, <1>5, <1>6, StepShape DEF Shape

\* A sync from the state the TUI is in: Auto keeps blocking, it does not start.
LEMMA AutoKeeps ==
  ASSUME TypeOK, BlockInv, TuiIdle, NEW mode \in Modes, NEW view \in Views,
         SyncFirewall("tui", mode, proc["tui"].state, view),
         proc'["tui"].mode = "Auto", fw'.on
  PROVE  fw.on \/ "install" \in lapses
<1> DEFINE old == proc["tui"].state
           new == Resolve(mode, old, view.ifaces # {}, proc["tui"].root)
<1>1. /\ proc'["tui"].mode = mode
      /\ new # "Blocking" /\ old # "Blocking" => fw' = fw
  BY SyncEffect, ProcFacts
<1>2. new = "Blocking" => old = "Blocking"
  BY <1>1 DEF Resolve, DesiredState
<1>3. old = "Blocking" => fw.on \/ "install" \in lapses
  BY ProcFacts DEF BlockInv, TuiIdle
<1> QED
  BY <1>1, <1>2, <1>3

LEMMA EngageStep ==
  ASSUME "beside" \notin Faults,
         TypeOK, OneProcess, BlockInv, DownIsOff, [Next]_vars,
         Tui.mode = "Auto", proc'["tui"].mode = "Auto", ~fw.on, fw'.on,
         "install" \notin lapses
  PROVE  \E t \in Tunnels : DropStep(t)
<1>0. proc["tui"].phase # "down" /\ proc["cli"].phase = "down"
  BY ProcFacts DEF DownIsOff, OneProcess, Tui
<1>a. \A c : TuiView(c) \in Views
  BY ViewsTyped
<1>b. ~(TuiIdle /\ TuiSync(conn'))
  BY <1>a, AutoKeeps, ProcFacts DEF TuiSync, TuiIdle
<1>c. fw' # fw
  OBVIOUS
<1>1. ASSUME NEW t \in Tunnels, TuiHandler(t) PROVE DropStep(t)
  <2>1. ScanDrop(t)
    BY <1>1, <1>b, <1>c DEF TuiHandler, Connect, ConnectOk, ConnectFailed, ConnectTimeout,
       Disconnect, ScanClosed, ScanForceClose, ScanRefresh, ScanAdopt, NoSync
  <2>2. SyncFirewall("tui", proc["tui"].mode, "Blocking", TuiView(conn'))
    BY <2>1, <1>c DEF ScanDrop, NoSync
  <2>3. proc'["tui"].phase = "syncing"
    BY <2>2, <1>a, SyncEffect, ProcFacts
  <2> QED
    BY <2>1, <2>3 DEF ScanDrop, DropStep, TypeOK
<1>2. ~ToggleKillswitch
  <2> SUFFICES ASSUME ToggleKillswitch PROVE FALSE
    OBVIOUS
  <2>1. NextMode(proc["tui"].mode) \in Modes
    BY ProcFacts DEF NextMode, Modes
  <2> QED
    BY <2>1, <1>a, AutoKeeps DEF ToggleKillswitch
<1>3. ~\E root \in BOOLEAN : TuiStart(root)
  BY <1>0 DEF TuiStart, Boot
<1>4. ~\E root \in BOOLEAN, cmd \in Commands \ {"none", "tui"} : CliStart(cmd, root)
  BY <1>0 DEF CliStart
<1>5. /\ ~Quit /\ ~CliExit /\ ~CliRelease
      /\ \A mode \in Modes : ~CliKillswitch(mode)
      /\ \A t \in Tunnels : ~CliUp(t) /\ ~CliDown(t)
  BY <1>0, <1>c DEF Quit, CliExit, CliRelease, CliKillswitch, CliUp, CliDown, CliIdle
<1>6. /\ \A p \in Procs : ~Crash(p)
      /\ \A t \in Tunnels : ~TunnelDies(t) /\ ~ExternalUp(t)
  BY <1>c DEF Crash, TunnelDies, ExternalUp
<1>7. \A p \in Procs : ~SaveState(p)
  BY <1>c, SaveShape
<1>8. ~UNCHANGED vars
  BY <1>c DEF vars
<1>9. \E t \in Tunnels : TuiHandler(t)
  BY <1>2, <1>3, <1>4, <1>5, <1>6, <1>7, <1>8 DEF Next
<1> QED
  BY <1>1, <1>9

\* In block-on-drop the TUI turns the firewall on only in the step that sees a
\* Connected tunnel gone, for every fault, when processes do not overlap and no
\* failed install is left for a later sync to make good.
THEOREM AutoEngagesOnlyOnDropHolds ==
  ASSUME "beside" \notin Faults PROVE Spec => AutoEngagesOnlyOnDrop
<1>1. Spec => []OneProcess
  BY OneInit, OneStep, TypeCorrect, PTL DEF Spec
<1>2. Spec => []BlockInv
  BY <1>1, BlockInit, BlockStep, TypeCorrect, PTL DEF Spec
<1>3. Spec => []DownIsOff
  BY OffInit, OffStep, TypeCorrect, PTL DEF Spec
<1>4. TypeOK /\ OneProcess /\ BlockInv /\ DownIsOff /\ [Next]_vars
        => (Tui.mode = "Auto" /\ proc'["tui"].mode = "Auto" /\ ~fw.on /\ fw'.on
              => "install" \in lapses \/ \E t \in Tunnels : DropStep(t))
  BY EngageStep
<1> QED
  BY <1>1, <1>2, <1>3, <1>4, TypeCorrect, PTL DEF Spec, AutoEngagesOnlyOnDrop

-----------------------------------------------------------------------------
(* Numbers: what an induction over them proves, as a fact about a set        *)

LEMMA LeastNumber ==
    ASSUME NEW T, T \subseteq Nat, T # {}
    PROVE  \E x \in T : \A y \in T : x <= y
<1> DEFINE U == {0 .. k : k \in T}
           R == StrictSubsetOrdering(Nat)
<1>1. \A k \in T : 0 .. k \subseteq Nat /\ IsFiniteSet(0 .. k)
  BY FS_Interval
<1>2. U \subseteq FiniteSubsetsOf(Nat) /\ U # {}
  BY <1>1 DEF FiniteSubsetsOf
<1>3. IsWellFoundedOn(R, FiniteSubsetsOf(Nat))
  BY FS_StrictSubsetOrderingWellFounded
<1> HIDE DEF R
<1>4. PICK u \in U : \A v \in U : ~(<<v, u>> \in R)
  BY <1>2, <1>3, WFMin
<1>5. PICK x \in T : u = 0 .. x
  BY <1>4
<1>6. ASSUME NEW y \in T PROVE x <= y
  <2>1. SUFFICES ASSUME ~(x <= y) PROVE FALSE
    OBVIOUS
  <2>2. x \in Nat /\ y \in Nat /\ y < x
    BY <2>1
  <2>3. 0 .. y \subseteq 0 .. x /\ 0 .. y # 0 .. x
    BY <2>2
  <2>4. <<0 .. y, 0 .. x>> \in R
    BY <1>1, <2>3 DEF R, StrictSubsetOrdering
  <2> QED  BY <1>4, <1>5, <2>4
<1> QED  BY <1>6

\* What holds of 0, and of each number after one it holds of, holds up to n.
LEMMA UpTo ==
    ASSUME NEW n \in Nat, NEW T, T \subseteq 0 .. n, 0 \in T,
           \A k \in 0 .. n : k < n /\ k \in T => k + 1 \in T
    PROVE  T = 0 .. n
<1> SUFFICES ASSUME (0 .. n) \ T # {} PROVE FALSE
  OBVIOUS
<1>1. PICK x \in (0 .. n) \ T : \A y \in (0 .. n) \ T : x <= y
  <2>1. (0 .. n) \ T \subseteq Nat
    OBVIOUS
  <2> QED  BY <2>1, LeastNumber
<1>2. x # 0 /\ x \in Nat /\ x <= n
  BY <1>1
<1>3. x - 1 \in 0 .. n /\ x - 1 < n /\ ~(x <= x - 1) /\ (x - 1) + 1 = x
  BY <1>2
<1>4. x - 1 \in T
  BY <1>1, <1>3
<1> QED  BY <1>1, <1>3, <1>4


\* A fold over the numbers up to n exists, and stays within X.
Stays(F, n, X)        == \A r \in X : \A k \in 1 .. n : F[<<r, k>>] \in X
FoldsFrom(g, F, n, x) == g[0] = x /\ \A k \in 1 .. n : g[k] = F[<<g[k - 1], k>>]

LEMMA FoldExists ==
    ASSUME NEW n \in Nat, NEW X, NEW x0 \in X, NEW F, Stays(F, n, X)
    PROVE  \E g \in [0 .. n -> X] : FoldsFrom(g, F, n, x0)
<1> DEFINE Folds(g, m) == /\ g \in [0 .. m -> X] /\ g[0] = x0
                          /\ \A k \in 1 .. m : g[k] = F[<<g[k - 1], k>>]
           T == {m \in 0 .. n : \E g : Folds(g, m)}
<1>1. 0 \in T
  <2> DEFINE g0 == [k \in 0 .. 0 |-> x0]
  <2>1. g0 \in [0 .. 0 -> X] /\ g0[0] = x0
    OBVIOUS
  <2> HIDE DEF g0
  <2>2. Folds(g0, 0)
    BY <2>1
  <2> HIDE DEF Folds
  <2>3. \E g : Folds(g, 0)
    BY <2>2
  <2> QED  BY <2>3
<1>2. ASSUME NEW m \in 0 .. n, m < n, m \in T PROVE m + 1 \in T
  <2>1. PICK g : Folds(g, m)
    BY <1>2
  <2> DEFINE h == [k \in 0 .. m + 1 |-> IF k = m + 1 THEN F[<<g[m], m + 1>>] ELSE g[k]]
  <2>2. m \in Nat /\ m \in 0 .. m /\ m + 1 \in 1 .. n /\ m + 1 \in 0 .. n
    BY <1>2
  <2>3. F[<<g[m], m + 1>>] \in X
    BY <2>1, <2>2 DEF Stays
  <2>4. \A k \in 0 .. m + 1 : k # m + 1 => k \in 0 .. m
    BY <2>2
  <2>5. h \in [0 .. m + 1 -> X]
    BY <2>1, <2>3, <2>4
  <2>6. \A k \in 0 .. m : k \in 0 .. m + 1 /\ k # m + 1
    BY <2>2
  <2>7. /\ \A k \in 0 .. m : h[k] = g[k]
        /\ h[m + 1] = F[<<g[m], m + 1>>]
    BY <2>2, <2>6
  <2>8. h[0] = x0
    BY <2>1, <2>2, <2>7
  <2> HIDE DEF h
  <2>9. ASSUME NEW k \in 1 .. m + 1 PROVE h[k] = F[<<h[k - 1], k>>]
    <3>1. CASE k = m + 1
      <4>1. k - 1 = m
        BY <2>2, <3>1
      <4> QED  BY <2>2, <2>7, <3>1, <4>1
    <3>2. CASE k # m + 1
      <4>1. k \in 1 .. m /\ k \in 0 .. m /\ k - 1 \in 0 .. m
        BY <2>2, <3>2
      <4> QED  BY <2>1, <2>7, <4>1
    <3> QED  BY <3>1, <3>2
  <2>10. Folds(h, m + 1)
    BY <2>5, <2>8, <2>9
  <2> QED  BY <2>2, <2>10
<1> HIDE DEF Folds
<1>3. T = 0 .. n
  <2>1. T \subseteq 0 .. n
    OBVIOUS
  <2> HIDE DEF T
  <2> QED  BY <1>1, <1>2, <2>1, UpTo
<1>4. \E g : Folds(g, n)
  BY <1>3
<1> QED  BY <1>4 DEF Folds, FoldsFrom

-----------------------------------------------------------------------------
(* CidrSets: powers of two and division                                      *)

\* There are 2^n sets of numbers from 1 to n, and so it doubles with n.
\* A power of two is the number of subsets: all that is known of ^ follows.
LEMMA PowerCounts ==
    ASSUME NEW n \in Nat
    PROVE  /\ IsFiniteSet(SUBSET (1 .. n)) /\ Cardinality(SUBSET (1 .. n)) \in Nat
           /\ 2^n = Cardinality(SUBSET (1 .. n))
<1>1. IsFiniteSet(1 .. n) /\ Cardinality(1 .. n) = n
  BY FS_Interval
<1>2. IsFiniteSet(SUBSET (1 .. n)) /\ Cardinality(SUBSET (1 .. n)) = 2^Cardinality(1 .. n)
  BY <1>1, FS_SUBSET
<1> QED  BY <1>1, <1>2, FS_CardinalityType

LEMMA PowerOfZero == 2^0 = 1
<1>1. 2^0 = Cardinality(SUBSET (1 .. 0))
  BY PowerCounts
<1>2. SUBSET (1 .. 0) = {{}}
  OBVIOUS
<1> QED  BY <1>1, <1>2, FS_Singleton

LEMMA PowerDoubles ==
    ASSUME NEW n \in Nat
    PROVE  2^(n + 1) = 2 * 2^n
<1> DEFINE S == SUBSET (1 .. n)
           T == {x \cup {n + 1} : x \in S}
           f == [x \in S |-> x \cup {n + 1}]
<1>1. SUBSET (1 .. n + 1) = S \cup T
  <2>1. ASSUME NEW y \in SUBSET (1 .. n + 1) PROVE y \in S \cup T
    <3>1. CASE n + 1 \in y
      <4>1. y \ {n + 1} \in S /\ y = (y \ {n + 1}) \cup {n + 1}
        BY <3>1
      <4> QED  BY <4>1
    <3>2. CASE n + 1 \notin y
      <4>1. y \in S
        BY <3>2
      <4> QED  BY <4>1
    <3> QED  BY <3>1, <3>2
  <2>2. S \cup T \subseteq SUBSET (1 .. n + 1)
    <3>1. 1 .. n \subseteq 1 .. n + 1 /\ n + 1 \in 1 .. n + 1
      OBVIOUS
    <3> QED  BY <3>1
  <2> QED  BY <2>1, <2>2
<1>2. S \cap T = {}
  OBVIOUS
<1>3. f \in Bijection(S, T)
  <2>1. \A x \in S : n + 1 \notin x
    OBVIOUS
  <2>2. \A x, y \in S : x \cup {n + 1} = y \cup {n + 1} => x = y
    BY <2>1
  <2> HIDE DEF S
  <2> QED  BY <2>2 DEF Bijection, Injection, Surjection, IsInjective
<1>4. IsFiniteSet(S) /\ Cardinality(S) \in Nat /\ Cardinality(S) = 2^n
  BY PowerCounts
<1>5. n + 1 \in Nat /\ 2^(n + 1) = Cardinality(SUBSET (1 .. n + 1))
  BY PowerCounts
<1> HIDE DEF S, T, f
<1>6. IsFiniteSet(T) /\ Cardinality(T) = Cardinality(S)
  <2>1. ExistsBijection(S, T)
    BY <1>3 DEF ExistsBijection
  <2> QED  BY <1>4, <2>1, FS_Bijection
<1>7. Cardinality(S \cup T) = Cardinality(S) + Cardinality(T) - Cardinality({})
  BY <1>2, <1>4, <1>6, FS_Union
<1>8. Cardinality({}) = 0
  BY FS_EmptySet
<1>9. Cardinality(S \cup T) = 2 * 2^n
  BY <1>4, <1>6, <1>7, <1>8
<1> QED  BY <1>1, <1>5, <1>9 DEF S

LEMMA PowerFacts == \A n \in Nat : 2^n \in Nat /\ 2^n > 0
<1> SUFFICES ASSUME NEW n \in Nat PROVE 2^n \in Nat /\ 2^n > 0
  OBVIOUS
<1> DEFINE T == {k \in 0 .. n : 2^k \in Nat /\ 2^k > 0}
<1>1. 0 \in T
  BY PowerOfZero
<1>2. ASSUME NEW k \in 0 .. n, k < n, k \in T PROVE k + 1 \in T
  <2>1. 2^(k + 1) = 2 * 2^k
    BY PowerDoubles
  <2> QED  BY <1>2, <2>1
<1>3. T = 0 .. n
  <2>1. T \subseteq 0 .. n
    OBVIOUS
  <2> HIDE DEF T
  <2> QED  BY <1>1, <1>2, <2>1, UpTo
<1> QED  BY <1>3

LEMMA PowerSplits ==
    ASSUME NEW j \in Nat, NEW n \in Nat
    PROVE  2^(j + n) = 2^n * 2^j
<1> DEFINE T == {k \in 0 .. n : 2^(j + k) = 2^k * 2^j}
<1>1. 0 \in T
  BY PowerOfZero, PowerFacts
<1>2. ASSUME NEW k \in 0 .. n, k < n, k \in T PROVE k + 1 \in T
  <2>1. 2^(k + 1) = 2 * 2^k /\ 2^((j + k) + 1) = 2 * 2^(j + k)
    BY PowerDoubles
  <2>2. 2^k \in Nat /\ 2^j \in Nat
    BY PowerFacts
  <2>3. 2^(j + k) = 2^k * 2^j /\ j + (k + 1) = (j + k) + 1 /\ k + 1 \in 0 .. n
    BY <1>2
  <2>4. 2^(j + (k + 1)) = 2 * (2^k * 2^j)
    BY <2>1, <2>3
  <2>5. \A a, b \in Nat : 2 * (a * b) = (2 * a) * b
    OBVIOUS
  <2>6. 2^(j + (k + 1)) = 2^(k + 1) * 2^j
    BY <2>1, <2>2, <2>4, <2>5
  <2> QED  BY <2>3, <2>6
<1>3. T = 0 .. n
  <2>1. T \subseteq 0 .. n
    OBVIOUS
  <2> HIDE DEF T
  <2> QED  BY <1>1, <1>2, <2>1, UpTo
<1> HIDE DEF T
<1>4. n \in T
  BY <1>3
<1> QED  BY <1>4 DEF T

LEMMA Division ==
    ASSUME NEW a \in Nat, NEW s \in Nat, s > 0
    PROVE  /\ a \div s \in Nat /\ a % s \in 0 .. s - 1
           /\ a = s * (a \div s) + (a % s)
OBVIOUS

LEMMA DivisionIsUnique ==
    ASSUME NEW s \in Nat, s > 0, NEW q \in Nat, NEW r \in 0 .. s - 1
    PROVE  (s * q + r) \div s = q /\ (s * q + r) % s = r
OBVIOUS

LEMMA DivisionTwice ==
    ASSUME NEW a \in Nat, NEW s \in Nat, s > 0, NEW q \in Nat, q > 0
    PROVE  (a \div s) \div q = a \div (s * q)
<1> DEFINE u == a \div s
           r == a % s
           v == u \div q
           t == u % q
<1>1. u \in Nat /\ r \in 0 .. s - 1 /\ a = s * u + r
  BY Division
<1> HIDE DEF u, r
<1>2. v \in Nat /\ t \in 0 .. q - 1 /\ u = q * v + t
  BY <1>1, Division
<1> HIDE DEF v, t
<1>3. s * t + r \in 0 .. s * q - 1
  <2>1. t + 1 <= q /\ t \in Nat
    BY <1>2
  <2>2. s * (t + 1) <= s * q /\ s * t \in Nat
    BY <2>1
  <2>3. s * (t + 1) = s * t + s
    BY <2>1
  <2> QED  BY <1>1, <2>2, <2>3
<1>4. a = (s * q) * v + (s * t + r)
  BY <1>1, <1>2
<1>5. s * q \in Nat /\ s * q > 0
  OBVIOUS
<1> QED  BY <1>2, <1>3, <1>4, <1>5, DivisionIsUnique DEF v, u

-----------------------------------------------------------------------------
(* CidrSets: blocks and ranges                                               *)

Span(r)     == r[1] .. r[2]
RangeSet    == {r \in (0 .. CidrTop) \X (0 .. CidrTop) : r[1] <= r[2]}
Covered(rs) == UNION {Span(rs[i]) : i \in DOMAIN rs}

\* One after the other, with at least one address between them.
Gapped(rs)  == \A i, j \in DOMAIN rs : i < j => rs[i][2] + 1 < rs[j][1]

LEMMA TopFacts == CidrTop \in Nat /\ CidrTop + 1 = 2^Width /\ Width \in Nat
BY CidrAssumption, PowerFacts DEF CidrTop

LEMMA SizeFacts ==
    ASSUME NEW k \in 0 .. Width
    PROVE  /\ 2^k \in Nat /\ 2^k > 0 /\ 2^k <= CidrTop + 1
           /\ \E m \in Nat : m > 0 /\ CidrTop + 1 = 2^k * m
<1>1. k \in Nat /\ Width - k \in Nat /\ Width = k + (Width - k)
  BY TopFacts
<1>2. 2^k \in Nat /\ 2^k > 0 /\ 2^(Width - k) \in Nat /\ 2^(Width - k) > 0
  BY <1>1, PowerFacts
<1>3. 2^(k + (Width - k)) = 2^(Width - k) * 2^k
  BY <1>1, PowerSplits
<1>4. CidrTop + 1 = 2^(Width - k) * 2^k
  BY <1>1, <1>3, TopFacts
<1> DEFINE p == 2^k
           m == 2^(Width - k)
<1>5. p \in Nat /\ m \in Nat /\ p > 0 /\ m > 0 /\ CidrTop + 1 = m * p
  BY <1>2, <1>4
<1> HIDE DEF p, m
<1>6. m * p = p * m /\ p <= p * m
  BY <1>5
<1>7. p \in Nat /\ p > 0 /\ p <= CidrTop + 1 /\ \E x \in Nat : x > 0 /\ CidrTop + 1 = p * x
  BY <1>5, <1>6
<1> QED  BY <1>7 DEF p

\* The addresses of a block are those of its range, which starts at a multiple of its size.
LEMMA BlockRange ==
    ASSUME NEW b \in Blocks
    PROVE  /\ ToRange(b) \in RangeSet
           /\ Addresses(b) = Span(ToRange(b))
           /\ 2^(Width - b.len) \in Nat /\ 2^(Width - b.len) > 0
           /\ ToRange(b)[1] % 2^(Width - b.len) = 0
           /\ ToRange(b)[2] = ToRange(b)[1] + 2^(Width - b.len) - 1
           /\ b.addr \in Addresses(b)
           /\ b.addr % 2^(Width - b.len) = 0 => ToRange(b)[1] = b.addr
<1> DEFINE s == 2^(Width - b.len)
           u == b.addr \div s
<1>1. b.addr \in 0 .. CidrTop /\ b.addr \in Nat /\ Width - b.len \in 0 .. Width
  BY TopFacts DEF Blocks
<1>2. s \in Nat /\ s > 0 /\ \E m \in Nat : m > 0 /\ CidrTop + 1 = s * m
  BY <1>1, SizeFacts
<1>3. PICK m \in Nat : m > 0 /\ CidrTop + 1 = s * m
  BY <1>2
<1>4. /\ Addresses(b) = {a \in 0 .. CidrTop : a \div s = u}
      /\ ToRange(b) = <<b.addr - (b.addr % s), b.addr - (b.addr % s) + s - 1>>
  BY DEF Addresses, ToRange
<1> HIDE DEF s
<1>5. u \in Nat /\ b.addr % s \in 0 .. s - 1 /\ b.addr = s * u + (b.addr % s)
  BY <1>1, <1>2, Division
<1> DEFINE r == b.addr % s
<1>7. b.addr \div s = u /\ b.addr % s = r
  OBVIOUS
<1> HIDE DEF u, r
<1>6. b.addr - r = s * u /\ s * u \in Nat /\ r \in 0 .. s - 1
  <2>1. u \in Nat /\ r \in 0 .. s - 1 /\ b.addr = s * u + r
    BY <1>5, <1>7
  <2>2. s * u \in Nat
    BY <1>2, <2>1
  <2> QED  BY <1>1, <1>2, <2>1, <2>2
<1>8. u + 1 <= m
  <2>1. SUFFICES ASSUME m <= u PROVE FALSE
    BY <1>3, <1>5
  <2>2. s * m <= s * u
    BY <1>2, <1>3, <1>5, <2>1
  <2>3. s * u <= b.addr /\ b.addr <= CidrTop
    BY <1>1, <1>2, <1>6, TopFacts
  <2> QED  BY <1>1, <1>3, <1>6, <2>2, <2>3, TopFacts
<1>9. s * u + s <= CidrTop + 1
  <2>1. s * (u + 1) <= s * m /\ s * (u + 1) = s * u + s
    BY <1>2, <1>3, <1>5, <1>8
  <2> QED  BY <1>3, <2>1, TopFacts
<1>10. ToRange(b) = <<s * u, s * u + s - 1>>
  BY <1>4, <1>6, <1>7
<1>11. ToRange(b) \in RangeSet
  BY <1>2, <1>6, <1>9, <1>10, TopFacts DEF RangeSet
<1>12. ASSUME NEW a \in 0 .. CidrTop PROVE a \div s = u <=> a \in s * u .. s * u + s - 1
  <2>1. a \in Nat /\ a \div s \in Nat /\ a % s \in 0 .. s - 1 /\ a = s * (a \div s) + (a % s)
    BY <1>2, Division, TopFacts
  <2>2. CASE a \div s = u
    <3> DEFINE w == a \div s
               v == a % s
    <3>1. w = u /\ v \in 0 .. s - 1 /\ a = s * w + v
      BY <2>1, <2>2
    <3> HIDE DEF w, v
    <3>2. a = s * u + v
      BY <3>1
    <3>3. a \in s * u .. s * u + s - 1
      BY <1>2, <1>6, <3>1, <3>2
    <3> QED  BY <2>2, <3>3
  <2>3. CASE a \in s * u .. s * u + s - 1
    <3>1. a - s * u \in 0 .. s - 1 /\ a = s * u + (a - s * u)
      BY <1>2, <1>6, <2>1, <2>3
    <3> QED  BY <1>2, <1>5, <2>3, <3>1, DivisionIsUnique
  <2> QED  BY <2>2, <2>3
<1>13. Addresses(b) = Span(ToRange(b))
  <2>1. s * u .. s * u + s - 1 \subseteq 0 .. CidrTop
    BY <1>2, <1>6, <1>9, TopFacts
  <2>2. Span(ToRange(b)) = s * u .. s * u + s - 1
    BY <1>10 DEF Span
  <2> DEFINE R == s * u .. s * u + s - 1
  <2>3. R \subseteq 0 .. CidrTop /\ (\A a \in 0 .. CidrTop : a \div s = u <=> a \in R)
    BY <1>12, <2>1
  <2> HIDE DEF R
  <2>4. {a \in 0 .. CidrTop : a \div s = u} = R
    BY <2>3
  <2> QED  BY <1>4, <2>2, <2>4 DEF R
<1>14. ToRange(b)[1] % s = 0
  <2>1. (s * u + 0) % s = 0
    <3>1. s \in Nat /\ s > 0 /\ u \in Nat /\ 0 \in 0 .. s - 1
      BY <1>2, <1>5
    <3> QED  BY <3>1, DivisionIsUnique
  <2>2. ToRange(b)[1] = s * u
    BY <1>10
  <2>3. s * u + 0 = s * u
    BY <1>6
  <2> QED  BY <2>1, <2>2, <2>3
<1>15. b.addr \in Addresses(b)
  BY <1>1, <1>4, <1>7
<1>16. b.addr % s = 0 => ToRange(b)[1] = b.addr
  BY <1>1, <1>4
<1> QED  BY <1>2, <1>10, <1>11, <1>13, <1>14, <1>15, <1>16 DEF s

\* A block is in another or apart from it, and which it is shows in the bits of the shorter prefix.
\* Blocks of a larger size are unions of blocks of a smaller one.
LEMMA Nested ==
    ASSUME NEW j \in 0 .. Width, NEW k \in 0 .. Width, j <= k, NEW a \in Nat
    PROVE  \E q \in Nat : q > 0 /\ 2^k = 2^j * q /\ (a \div 2^j) \div q = a \div 2^k
<1>1. j \in Nat /\ k - j \in Nat /\ k = j + (k - j)
  BY TopFacts
<1>2. 2^(j + (k - j)) = 2^(k - j) * 2^j
  BY <1>1, PowerSplits
<1> DEFINE s == 2^j
           q == 2^(k - j)
           S == 2^k
<1>3. s \in Nat /\ s > 0 /\ q \in Nat /\ q > 0 /\ S = q * s
  BY <1>1, <1>2, PowerFacts
<1> HIDE DEF s, q, S
<1>4. S = s * q
  BY <1>3
<1>5. (a \div s) \div q = a \div S
  BY <1>3, <1>4, DivisionTwice
<1> QED  BY <1>3, <1>4, <1>5 DEF s, S

\* Equal in the bits both masks keep is to share an address.
LEMMA IntersectsIsSharing ==
    ASSUME NEW b \in Blocks, NEW c \in Blocks
    PROVE  Intersects(b, c) <=> Addresses(b) \cap Addresses(c) # {}
<1>1. SUFFICES ASSUME NEW d \in Blocks, NEW e \in Blocks, d.len <= e.len
               PROVE  /\ d.addr \div 2^(Width - d.len) = e.addr \div 2^(Width - d.len)
                           <=> Addresses(d) \cap Addresses(e) # {}
  <2>1. b.len \in Nat /\ c.len \in Nat
    BY TopFacts DEF Blocks
  <2>2. CASE b.len < c.len
    BY <1>1, <2>1, <2>2 DEF Intersects
  <2>3. CASE ~(b.len < c.len)
    BY <1>1, <2>1, <2>3 DEF Intersects
  <2> QED  BY <2>2, <2>3
<1> DEFINE S == 2^(Width - d.len)
           s == 2^(Width - e.len)
<1>2. /\ Width - d.len \in 0 .. Width /\ Width - e.len \in 0 .. Width /\ Width - e.len <= Width - d.len
      /\ d.addr \in Nat /\ e.addr \in Nat /\ e.addr \in 0 .. CidrTop
  BY <1>1, TopFacts DEF Blocks
<1>3. ASSUME NEW x \in Nat, x \div s = e.addr \div s PROVE x \div S = e.addr \div S
  <2>1. PICK q \in Nat : q > 0 /\ S = s * q /\ (x \div s) \div q = x \div S
    BY <1>2, Nested
  <2>2. s \in Nat /\ s > 0
    BY <1>2, SizeFacts
  <2> HIDE DEF s, S
  <2>3. (e.addr \div s) \div q = e.addr \div S
    BY <1>2, <2>1, <2>2, DivisionTwice
  <2> QED  BY <1>3, <2>1, <2>3
<1>4. /\ Addresses(d) = {x \in 0 .. CidrTop : x \div S = d.addr \div S}
      /\ Addresses(e) = {x \in 0 .. CidrTop : x \div s = e.addr \div s}
  BY DEF Addresses
<1> HIDE DEF s, S
<1>5. ASSUME d.addr \div S = e.addr \div S PROVE e.addr \in Addresses(d) \cap Addresses(e)
  BY <1>2, <1>4, <1>5
<1>6. ASSUME NEW x \in Addresses(d) \cap Addresses(e) PROVE d.addr \div S = e.addr \div S
  BY <1>3, <1>4, <1>6, TopFacts
<1> QED  BY <1>5, <1>6 DEF S

\* Two siblings lie side by side, and the first of them starts the block they make up.
\* Two halves of one block: the second follows the first.
LEMMA SiblingsTouch ==
    ASSUME NEW b \in Blocks, NEW c \in Blocks, Siblings(b, c), b.addr < c.addr,
           b.addr % 2^(Width - b.len) = 0, c.addr % 2^(Width - c.len) = 0
    PROVE  c.addr = b.addr + 2^(Width - b.len) /\ b.addr % 2^(Width - b.len + 1) = 0
<1> DEFINE s == 2^(Width - b.len)
           S == 2^(Width - b.len + 1)
           i == b.addr \div s
           j == c.addr \div s
<1>1. /\ Width - b.len \in Nat /\ Width - b.len \in 0 .. Width
      /\ b.addr \in Nat /\ c.addr \in Nat /\ b.len = c.len
      /\ b.addr \div S = c.addr \div S
  BY TopFacts DEF Blocks, Siblings
<1>2. S = 2 * s /\ s \in Nat /\ s > 0
  BY <1>1, PowerDoubles, SizeFacts
<1>3. b.addr % s = 0 /\ c.addr % s = 0
  BY <1>1
<1> HIDE DEF s, S
<1>4. /\ i \in Nat /\ b.addr = s * i + (b.addr % s)
      /\ j \in Nat /\ c.addr = s * j + (c.addr % s)
  BY <1>1, <1>2, Division
<1>5. S = s * 2 /\ S \in Nat /\ S > 0
  BY <1>2
<1>6. i \div 2 = b.addr \div S /\ j \div 2 = c.addr \div S
  BY <1>1, <1>2, <1>5, DivisionTwice
<1> HIDE DEF i, j
<1>7. b.addr = s * i /\ c.addr = s * j
  BY <1>1, <1>2, <1>3, <1>4
<1>8. i < j
  <2>1. SUFFICES ASSUME j <= i PROVE FALSE
    BY <1>4
  <2>2. s * j <= s * i
    BY <1>2, <1>4, <2>1
  <2> QED  BY <1>1, <1>7, <2>2
<1>9. i \div 2 = j \div 2
  BY <1>1, <1>6
<1>10. j = i + 1 /\ \E u \in Nat : i = 2 * u
  BY <1>4, <1>8, <1>9
<1>11. PICK u \in Nat : i = 2 * u
  BY <1>10
<1>12. b.addr = S * u + 0
  BY <1>1, <1>2, <1>5, <1>7, <1>11
<1>13. b.addr % S = 0
  BY <1>5, <1>12, DivisionIsUnique
<1>14. c.addr = b.addr + s
  <2>1. s * (i + 1) = s * i + s
    BY <1>2, <1>4
  <2> QED  BY <1>7, <1>10, <2>1
<1> QED  BY <1>13, <1>14 DEF s, S

-----------------------------------------------------------------------------
(* CidrSets: sorting                                                         *)

LEMMA RangeFacts ==
    ASSUME NEW r \in RangeSet
    PROVE  r[1] \in 0 .. CidrTop /\ r[2] \in 0 .. CidrTop /\ r[1] <= r[2] /\ r = <<r[1], r[2]>>
BY DEF RangeSet

\* The place of a range is the number of those before it: a sorted order exists.
LEMMA SortFacts ==
    ASSUME NEW rs \in Seq(RangeSet)
    PROVE  /\ SortRanges(rs) \in Seq(RangeSet) /\ Len(SortRanges(rs)) = Len(rs)
           /\ \A i \in 1 .. Len(rs) : \E k \in 1 .. Len(rs) : SortRanges(rs)[i] = rs[k]
           /\ \A k \in 1 .. Len(rs) : \E i \in 1 .. Len(rs) : SortRanges(rs)[i] = rs[k]
           /\ \A i, j \in 1 .. Len(rs) : i <= j => SortRanges(rs)[i][1] <= SortRanges(rs)[j][1]
<1> DEFINE D == DOMAIN rs
           n == Len(rs)
           key(i) == rs[i][1]
           Earlier(j, i) == key(j) < key(i) \/ (key(j) = key(i) /\ j < i)
           Ahead(i) == {j \in D : Earlier(j, i)}
           rank(i) == Cardinality(Ahead(i)) + 1
           g == [i \in D |-> rank(i)]
           Sorts(p) == /\ \A k \in D : \E i \in D : p[i] = k
                       /\ \A i, j \in D : i < j => rs[p[i]][1] <= rs[p[j]][1]
<1>1. /\ n \in Nat /\ D = 1 .. n /\ IsFiniteSet(D) /\ Cardinality(D) = n
      /\ \A i \in D : i \in Nat /\ rs[i] \in RangeSet /\ key(i) \in Nat
  <2>1. n \in Nat /\ D = 1 .. n /\ \A i \in D : rs[i] \in RangeSet
    OBVIOUS
  <2>2. IsFiniteSet(1 .. n) /\ Cardinality(1 .. n) = n
    BY <2>1, FS_Interval
  <2> QED  BY <2>1, <2>2, RangeFacts, TopFacts
<1> HIDE DEF key, n, D
<1>2. ASSUME NEW i \in D
      PROVE  IsFiniteSet(Ahead(i)) /\ Cardinality(Ahead(i)) \in Nat /\ Cardinality(Ahead(i)) < n
  <2>1. Ahead(i) \subseteq D \ {i}
    <3>1. \A j \in D : Earlier(j, i) => j # i
      BY <1>1
    <3> HIDE DEF Earlier
    <3> QED  BY <3>1
  <2> HIDE DEF Ahead
  <2>2. IsFiniteSet(D \ {i}) /\ Cardinality(D \ {i}) = n - 1
    <3>1. IsFiniteSet(D) /\ Cardinality(D) = n
      BY <1>1
    <3> QED  BY <3>1, FS_RemoveElement
  <2>3. IsFiniteSet(Ahead(i)) /\ Cardinality(Ahead(i)) <= Cardinality(D \ {i})
    BY <2>1, <2>2, FS_Subset
  <2>4. Cardinality(Ahead(i)) \in Nat
    BY <2>3, FS_CardinalityType
  <2> QED  BY <1>1, <2>2, <2>3, <2>4
<1>3. ASSUME NEW i \in D, NEW j \in D, Earlier(i, j)
      PROVE  rank(i) < rank(j)
  <2>1. Ahead(i) \subseteq Ahead(j) /\ i \in Ahead(j) /\ i \notin Ahead(i)
    BY <1>1, <1>3
  <2>2. IsFiniteSet(Ahead(j)) /\ Cardinality(Ahead(i)) \in Nat /\ Cardinality(Ahead(j)) \in Nat
    BY <1>2
  <2> HIDE DEF Ahead
  <2>3. Cardinality(Ahead(i)) <= Cardinality(Ahead(j)) /\ Cardinality(Ahead(j)) # Cardinality(Ahead(i))
    BY <2>1, <2>2, FS_Subset
  <2> QED  BY <2>2, <2>3
<1>5. \A i, j \in D : i # j => Earlier(i, j) \/ Earlier(j, i)
  BY <1>1
<1> HIDE DEF Ahead, Earlier
<1>4. \A i \in D : rank(i) \in D
  <2> TAKE i \in D
  <2>1. Cardinality(Ahead(i)) \in Nat /\ Cardinality(Ahead(i)) < n
    BY <1>2
  <2> QED  BY <1>1, <2>1
<1>6. \A i \in D : rank(i) \in Nat
  BY <1>2
<1> HIDE DEF rank
<1>7. \A i, j \in D : rank(i) = rank(j) => i = j
  BY <1>3, <1>5, <1>6
<1>8. g \in Injection(D, D)
  <2>1. g \in [D -> D]
    BY <1>4
  <2> QED  BY <1>7, <2>1 DEF Injection, IsInjective
<1>9. g \in Surjection(D, D)
  BY <1>1, <1>8, FS_Injection
<1>10. \A k \in D : \E i \in D : rank(i) = k
  <2>1. \A k \in D : \E i \in D : g[i] = k
    BY <1>9 DEF Surjection
  <2> QED  BY <2>1
<1> DEFINE f == [k \in D |-> CHOOSE i \in D : rank(i) = k]
<1>11. \A k \in D : f[k] \in D /\ rank(f[k]) = k
  BY <1>10
<1>12. f \in [D -> D]
  BY <1>11
<1> HIDE DEF f, g
<1>13. Sorts(f)
  <2>1. \A k \in D : f[rank(k)] = k
    BY <1>4, <1>7, <1>11
  <2>2. ASSUME NEW i \in D, NEW j \in D, i < j PROVE rs[f[i]][1] <= rs[f[j]][1]
    <3>1. f[i] \in D /\ f[j] \in D /\ rank(f[i]) = i /\ rank(f[j]) = j /\ i \in Nat /\ j \in Nat
      BY <1>1, <1>11
    <3>2. ~Earlier(f[j], f[i])
      <4>1. Earlier(f[j], f[i]) => rank(f[j]) < rank(f[i])
        BY <1>3, <3>1
      <4>2. rank(f[j]) < rank(f[i]) => j < i
        BY <3>1
      <4> QED  BY <2>2, <3>1, <4>1, <4>2
    <3>3. ~(key(f[j]) < key(f[i]))
      BY <3>2 DEF Earlier
    <3> QED  BY <1>1, <3>1, <3>3 DEF key
  <2> QED  BY <1>4, <2>1, <2>2
<1> DEFINE p == CHOOSE q \in [D -> D] : Sorts(q)
<1>14. SortRanges(rs) = [i \in D |-> rs[p[i]]]
  BY DEF SortRanges, D
<1>15. p \in [D -> D] /\ Sorts(p)
  <2> HIDE DEF Sorts
  <2> QED  BY <1>12, <1>13
<1> HIDE DEF p
<1> DEFINE s == [i \in D |-> rs[p[i]]]
<1>16. \A i \in D : s[i] = rs[p[i]] /\ s[i] \in RangeSet
  BY <1>1, <1>15
<1>17. s \in Seq(RangeSet) /\ Len(s) = n
  BY <1>1, <1>16
<1>18. \A i \in D : \E k \in D : s[i] = rs[k]
  BY <1>15, <1>16
<1>19. \A k \in D : \E i \in D : s[i] = rs[k]
  BY <1>15, <1>16
<1>20. \A i, j \in D : i <= j => s[i][1] <= s[j][1]
  <2> TAKE i, j \in D
  <2>1. i < j => s[i][1] <= s[j][1]
    BY <1>15, <1>16
  <2>2. i = j => s[i][1] <= s[j][1]
    BY <1>16, RangeFacts, TopFacts
  <2> QED  BY <1>1, <2>1, <2>2
<1> HIDE DEF s
<1>21. SortRanges(rs) = s
  BY <1>14 DEF s
<1> QED  BY <1>1, <1>17, <1>18, <1>19, <1>20, <1>21 DEF n

-----------------------------------------------------------------------------
(* CidrSets: merging                                                         *)

LEMMA CoveredFacts ==
    ASSUME NEW rs \in Seq(RangeSet)
    PROVE  /\ Len(rs) \in Nat /\ DOMAIN rs = 1 .. Len(rs)
           /\ \A i \in 1 .. Len(rs) : rs[i] \in RangeSet
           /\ \A x : x \in Covered(rs) <=> \E i \in 1 .. Len(rs) : x \in Span(rs[i])
<1>1. Len(rs) \in Nat /\ DOMAIN rs = 1 .. Len(rs) /\ \A i \in 1 .. Len(rs) : rs[i] \in RangeSet
  OBVIOUS
<1> QED  BY <1>1 DEF Covered

\* A range is added behind all others.
LEMMA Appended1 ==
    ASSUME NEW rs \in Seq(RangeSet), NEW r \in RangeSet,
           Gapped(rs), \A i \in 1 .. Len(rs) : rs[i][2] + 1 < r[1]
    PROVE  /\ Append(rs, r) \in Seq(RangeSet) /\ Gapped(Append(rs, r))
           /\ Covered(Append(rs, r)) = Covered(rs) \cup Span(r)
           /\ Len(Append(rs, r)) = Len(rs) + 1 /\ Append(rs, r)[Len(rs) + 1] = r
           /\ \A i \in 1 .. Len(rs) : Append(rs, r)[i] = rs[i]
<1> DEFINE a == Append(rs, r)
           n == Len(rs)
<1>1. n \in Nat /\ DOMAIN rs = 1 .. n
  OBVIOUS
<1>2. /\ a \in Seq(RangeSet) /\ Len(a) = n + 1 /\ DOMAIN a = 1 .. n + 1 /\ a[n + 1] = r
      /\ \A i \in 1 .. n : a[i] = rs[i]
  OBVIOUS
<1>3. \A i \in 1 .. n + 1 : i \in 1 .. n \/ i = n + 1
  BY <1>1
<1>4. 1 .. n \subseteq 1 .. n + 1 /\ n + 1 \in 1 .. n + 1
  BY <1>1
<1> HIDE DEF a
<1>5. Gapped(a)
  <2> SUFFICES ASSUME NEW i \in 1 .. n + 1, NEW j \in 1 .. n + 1, i < j PROVE a[i][2] + 1 < a[j][1]
    BY <1>2 DEF Gapped
  <2>1. i \in 1 .. n
    BY <1>1
  <2>2. CASE j \in 1 .. n
    BY <1>1, <1>2, <2>1, <2>2 DEF Gapped
  <2>3. CASE j = n + 1
    BY <1>2, <2>1, <2>3
  <2> QED  BY <1>3, <2>2, <2>3
<1>6. Covered(a) = Covered(rs) \cup Span(r)
  <2>1. \A x : x \in Covered(a) <=> \E i \in 1 .. n + 1 : x \in Span(a[i])
    BY <1>2, CoveredFacts
  <2>2. \A x : x \in Covered(rs) <=> \E i \in 1 .. n : x \in Span(rs[i])
    BY CoveredFacts
  <2>3. \A x : x \in Covered(a) <=> x \in Covered(rs) \/ x \in Span(r)
    BY <1>2, <1>3, <1>4, <2>1, <2>2
  <2> QED  BY <2>3
<1> QED  BY <1>2, <1>5, <1>6 DEF a

MergeInv(s, acc, k) ==
    /\ acc \in Seq(RangeSet) /\ Gapped(acc)
    /\ Covered(acc) = UNION {Span(s[i]) : i \in 1 .. k}
    /\ acc # <<>> => k > 0 /\ acc[Len(acc)][1] <= s[k][1]

LEMMA JoinedType ==
    ASSUME NEW acc \in Seq(RangeSet), NEW r \in RangeSet
    PROVE  Joined(acc, r) \in Seq(RangeSet)
<1>1. CASE acc = <<>> \/ r[1] > Next1(Last(acc)[2])
  BY <1>1 DEF Joined
<1>2. CASE ~(acc = <<>> \/ r[1] > Next1(Last(acc)[2])) /\ r[2] > Last(acc)[2]
  <2>1. Len(acc) \in 1 .. Len(acc) /\ acc[Len(acc)] \in RangeSet
    BY <1>2
  <2>2. <<acc[Len(acc)][1], r[2]>> \in RangeSet
    BY <1>2, <2>1, RangeFacts, TopFacts DEF RangeSet, Last
  <2>3. [acc EXCEPT ![Len(acc)] = <<acc[Len(acc)][1], r[2]>>] \in Seq(RangeSet)
    BY <2>1, <2>2
  <2> QED  BY <1>2, <2>3 DEF Joined, Last
<1>3. CASE ~(acc = <<>> \/ r[1] > Next1(Last(acc)[2])) /\ ~(r[2] > Last(acc)[2])
  BY <1>3 DEF Joined
<1> QED  BY <1>1, <1>2, <1>3

LEMMA MergeStep ==
    ASSUME NEW s \in Seq(RangeSet), NEW k \in Nat, k + 1 \in 1 .. Len(s), NEW acc, MergeInv(s, acc, k),
           \A i, j \in 1 .. Len(s) : i <= j => s[i][1] <= s[j][1]
    PROVE  MergeInv(s, Joined(acc, s[k + 1]), k + 1)
<1> DEFINE r == s[k + 1]
           n == Len(acc)
           U(m) == UNION {Span(s[i]) : i \in 1 .. m}
           new == Joined(acc, r)
<1>1. /\ r \in RangeSet /\ r[1] \in 0 .. CidrTop /\ r[2] \in 0 .. CidrTop /\ r[1] <= r[2]
      /\ acc \in Seq(RangeSet) /\ Gapped(acc) /\ n \in Nat /\ DOMAIN acc = 1 .. n
      /\ \A i \in 1 .. n : acc[i] \in RangeSet
  <2>1. acc \in Seq(RangeSet) /\ Gapped(acc)
    BY DEF MergeInv
  <2>2. n \in Nat /\ DOMAIN acc = 1 .. n /\ \A i \in 1 .. n : acc[i] \in RangeSet
    BY <2>1, CoveredFacts
  <2>3. r \in RangeSet
    OBVIOUS
  <2> HIDE DEF r
  <2>4. r[1] \in 0 .. CidrTop /\ r[2] \in 0 .. CidrTop /\ r[1] <= r[2]
    BY <2>3, RangeFacts
  <2> QED  BY <2>1, <2>2, <2>3, <2>4
<1>2. U(k + 1) = U(k) \cup Span(r)
  <2>1. 1 .. k + 1 = (1 .. k) \cup {k + 1}
    OBVIOUS
  <2> QED  BY <2>1
<1>3. Covered(acc) = U(k)
  BY DEF MergeInv
<1>4. acc # <<>> => k \in 1 .. Len(s) /\ acc[n][1] <= s[k][1] /\ s[k][1] <= r[1] /\ n > 0
  BY DEF MergeInv
<1>9. r[1] \in Nat /\ r[2] \in Nat
  BY <1>1
<1> HIDE DEF r, n, U
<1>8. ASSUME \A i \in 1 .. n : acc[i][2] + 1 < r[1], new = Append(acc, r)
      PROVE  MergeInv(s, new, k + 1)
  <2> DEFINE a == Append(acc, r)
  <2>1. /\ a \in Seq(RangeSet) /\ Gapped(a) /\ Covered(a) = Covered(acc) \cup Span(r)
        /\ Len(a) = n + 1 /\ a[n + 1] = r
    BY <1>1, <1>8, Appended1 DEF n
  <2> HIDE DEF a, new
  <2>2. a[Len(a)][1] <= r[1]
    BY <1>1, <2>1
  <2>3. new = a
    BY <1>8 DEF a
  <2>4. Covered(a) = U(k + 1)
    BY <1>2, <1>3, <2>1
  <2>5. MergeInv(s, a, k + 1)
    BY <2>1, <2>2, <2>4 DEF MergeInv, r, U
  <2> QED  BY <2>3, <2>5
<1>5. CASE acc = <<>>
  <2>1. \A i \in 1 .. n : acc[i][2] + 1 < r[1]
    BY <1>5 DEF n
  <2>2. new = Append(acc, r)
    BY <1>5 DEF Joined
  <2> QED  BY <1>8, <2>1, <2>2 DEF r
<1>6. CASE acc # <<>> /\ r[1] > Next1(Last(acc)[2])
  <2>1. acc[n] \in RangeSet /\ acc[n][2] \in 0 .. CidrTop /\ acc[n][1] <= acc[n][2] /\ acc[n][1] \in 0 .. CidrTop
    <3>1. n \in 1 .. n
      BY <1>1, <1>4, <1>6
    <3>2. acc[n] \in RangeSet
      BY <1>1, <3>1
    <3> QED  BY <3>2, RangeFacts
  <2>2. acc[n][2] + 1 < r[1]
    BY <1>1, <1>6, <2>1, TopFacts DEF Next1, Last, n
  <2>3. ASSUME NEW i \in 1 .. n PROVE acc[i][2] + 1 < r[1]
    <3>1. CASE i = n
      BY <2>2, <3>1
    <3>2. CASE i < n
      <4>1. acc[i][2] + 1 < acc[n][1]
        <5>1. i \in DOMAIN acc /\ n \in DOMAIN acc
          BY <1>1, <3>2
        <5>2. Gapped(acc)
          BY <1>1
        <5> QED  BY <3>2, <5>1, <5>2 DEF Gapped
      <4>2. acc[i][2] \in 0 .. CidrTop
        <5>1. acc[i] \in RangeSet
          BY <1>1
        <5> QED  BY <5>1, RangeFacts
      <4>3. acc[n][1] <= acc[n][2] /\ acc[n][1] \in Nat /\ acc[n][2] \in Nat
        BY <2>1
      <4>4. acc[i][2] \in Nat
        BY <4>2, TopFacts
      <4> DEFINE x == acc[i][2]
                 y == acc[n][1]
                 z == acc[n][2]
                 w == r[1]
      <4>5. /\ x \in Nat /\ y \in Nat /\ z \in Nat /\ w \in Nat
            /\ x + 1 < y /\ y <= z /\ z + 1 < w
        BY <1>9, <2>2, <4>1, <4>3, <4>4
      <4> HIDE DEF x, y, z, w
      <4>6. x + 1 < w
        BY <4>5
      <4> QED  BY <4>6 DEF x, w
    <3> QED  BY <1>1, <3>1, <3>2
  <2>4. new = Append(acc, r)
    BY <1>6 DEF Joined
  <2> QED  BY <1>8, <2>3, <2>4 DEF r
<1>7. CASE acc # <<>> /\ ~(r[1] > Next1(Last(acc)[2]))
  <2> DEFINE cur == acc[n]
  <2>1. /\ n \in 1 .. n /\ cur \in RangeSet /\ cur[2] \in 0 .. CidrTop /\ cur[1] \in 0 .. CidrTop /\ cur[1] <= cur[2]
    <3>1. n \in 1 .. n
      BY <1>1, <1>4, <1>7
    <3>2. cur \in RangeSet
      BY <1>1, <3>1
    <3> HIDE DEF cur
    <3> QED  BY <3>1, <3>2, RangeFacts
  <2>2. r[1] <= cur[2] + 1 /\ cur[1] <= r[1]
    <3>1. s[k] \in RangeSet /\ s[k][1] \in 0 .. CidrTop
      BY <1>4, <1>7, RangeFacts
    <3> QED  BY <1>1, <1>4, <1>7, <2>1, <3>1, TopFacts DEF Next1, Last, n
  <2> HIDE DEF cur
  <2>3. CASE r[2] > cur[2]
    <3> DEFINE both == <<cur[1], r[2]>>
    <3>1. new = [acc EXCEPT ![n] = both]
      BY <1>7, <2>3 DEF Joined, Last, cur, n
    <3>2. both \in RangeSet /\ both[1] = cur[1] /\ both[2] = r[2]
      BY <1>1, <2>1, <2>3, TopFacts DEF RangeSet
    <3>3. Span(both) = Span(cur) \cup Span(r)
      <4> DEFINE x == cur[1]
                 y == cur[2]
                 z == r[1]
                 w == r[2]
      <4>1. /\ x \in Nat /\ y \in Nat /\ z \in Nat /\ w \in Nat
            /\ x <= z /\ z <= y + 1 /\ y < w
        BY <1>9, <2>1, <2>2, <2>3
      <4> HIDE DEF x, y, z, w
      <4>2. x .. w = (x .. y) \cup (z .. w)
        BY <4>1
      <4> QED  BY <4>2 DEF x, y, z, w, Span
    <3> HIDE DEF both
    <3>4. /\ new \in Seq(RangeSet) /\ Len(new) = n /\ DOMAIN new = 1 .. n /\ new[n] = both
          /\ \A i \in 1 .. n : i # n => new[i] = acc[i]
      BY <1>1, <2>1, <3>1, <3>2 DEF n
    <3> HIDE DEF new
    <3>5. Gapped(new)
      <4> SUFFICES ASSUME NEW i \in 1 .. n, NEW j \in 1 .. n, i < j PROVE new[i][2] + 1 < new[j][1]
        BY <3>4 DEF Gapped
      <4>1. acc[i][2] + 1 < acc[j][1]
        BY <1>1 DEF Gapped
      <4>2. i # n /\ new[i] = acc[i]
        BY <1>1, <3>4
      <4> QED  BY <3>2, <3>4, <4>1, <4>2 DEF cur
    <3>6. Covered(new) = U(k + 1)
      <4>1. \A x : x \in Covered(new) <=> \E i \in 1 .. n : x \in Span(new[i])
        BY <3>4, CoveredFacts
      <4>2. \A x : x \in Covered(acc) <=> \E i \in 1 .. n : x \in Span(acc[i])
        BY <1>1, CoveredFacts DEF n
      <4>3. \A x : x \in Covered(new) <=> x \in Covered(acc) \/ x \in Span(r)
        BY <2>1, <3>3, <3>4, <4>1, <4>2 DEF cur
      <4> QED  BY <1>2, <1>3, <4>3
    <3>7. k + 1 > 0 /\ new[Len(new)][1] <= r[1]
      BY <2>2, <3>2, <3>4
    <3> QED  BY <3>4, <3>5, <3>6, <3>7 DEF MergeInv, r, U, new
  <2>4. CASE ~(r[2] > cur[2])
    <3>1. new = acc
      BY <1>7, <2>4 DEF Joined, Last, cur, n
    <3>2. Span(r) \subseteq Span(cur)
      <4>1. cur[1] \in Nat /\ cur[2] \in Nat
        BY <2>1
      <4>2. cur[1] <= r[1] /\ r[2] <= cur[2]
        BY <1>9, <2>2, <2>4, <4>1
      <4> QED  BY <1>9, <4>1, <4>2 DEF Span
    <3>3. Span(cur) \subseteq Covered(acc)
      BY <1>1, <2>1, CoveredFacts DEF cur, n
    <3>4. Covered(acc) = U(k + 1)
      BY <1>2, <1>3, <3>2, <3>3
    <3>5. acc[Len(acc)][1] <= r[1]
      BY <2>2 DEF cur, n
    <3> QED  BY <1>1, <3>1, <3>4, <3>5 DEF MergeInv, r, U
  <2> QED  BY <2>3, <2>4
<1> QED  BY <1>5, <1>6, <1>7 DEF r, new

\* The merged ranges cover what the ranges cover, and two of them are never adjacent.
LEMMA MergeFold ==
    ASSUME NEW rs \in Seq(RangeSet)
    PROVE  \E c \in [0 .. Len(rs) -> Seq(RangeSet)] :
               /\ c[0] = <<>> /\ MergeRanges(rs) = c[Len(rs)]
               /\ \A k \in 1 .. Len(rs) : c[k] = Joined(c[k - 1], SortRanges(rs)[k])
<1> DEFINE n == Len(rs)
           s == SortRanges(rs)
           X == Seq(RangeSet)
           Eq(g) == g = [k \in 0 .. n |-> IF k = 0 THEN <<>> ELSE Joined(g[k - 1], s[k])]
           c == CHOOSE g : Eq(g)
           F == [a \in X \X (1 .. n) |-> Joined(a[1], s[a[2]])]
<1>1. n \in Nat /\ (\A k \in 1 .. n : s[k] \in RangeSet) /\ <<>> \in X
  <2>1. n \in Nat /\ s \in Seq(RangeSet) /\ Len(s) = n
    BY SortFacts
  <2> HIDE DEF s, n
  <2> QED  BY <2>1
<1> HIDE DEF n
<1>2. \A r \in X : \A k \in 1 .. n : F[<<r, k>>] = Joined(r, s[k]) /\ F[<<r, k>>] \in X
  <2> TAKE r \in X
  <2> TAKE k \in 1 .. n
  <2>1. F[<<r, k>>] = Joined(r, s[k])
    OBVIOUS
  <2> QED  BY <1>1, <2>1, JoinedType
<1> HIDE DEF F, s
<1>3. PICK f \in [0 .. n -> X] : FoldsFrom(f, F, n, <<>>)
  <2>1. Stays(F, n, X)
    BY <1>2 DEF Stays
  <2> HIDE DEF X
  <2> QED  BY <1>1, <2>1, FoldExists
<1>4. \A k \in 1 .. n : k - 1 \in 0 .. n /\ k \in 0 .. n
  BY <1>1
<1> HIDE DEF X
<1>5. /\ f[0] = <<>>
      /\ \A k \in 1 .. n : f[k] = Joined(f[k - 1], s[k])
  BY <1>2, <1>3, <1>4 DEF FoldsFrom
<1>6. Eq(f)
  <2>1. \A k \in 0 .. n : k # 0 => k \in 1 .. n
    BY <1>1
  <2>2. \A k \in 0 .. n : f[k] = IF k = 0 THEN <<>> ELSE Joined(f[k - 1], s[k])
    BY <1>5, <2>1
  <2> QED  BY <1>3, <2>2
<1> HIDE DEF Eq
<1>7. Eq(c)
  BY <1>6
<1>8. MergeRanges(rs) = c[n]
  BY DEF MergeRanges, Eq, n, s
<1> HIDE DEF c
<1>9. /\ c[0] = <<>>
      /\ \A k \in 1 .. n : c[k] = Joined(c[k - 1], s[k])
  <2>1. c = [k \in 0 .. n |-> IF k = 0 THEN <<>> ELSE Joined(c[k - 1], s[k])]
    BY <1>7 DEF Eq
  <2>2. 0 \in 0 .. n /\ \A k \in 1 .. n : k \in 0 .. n /\ k # 0
    BY <1>1
  <2> QED  BY <2>1, <2>2
<1>10. c \in [0 .. n -> X]
  <2> DEFINE T == {k \in 0 .. n : c[k] \in X}
  <2>1. 0 \in T
    BY <1>1, <1>9
  <2>2. ASSUME NEW k \in 0 .. n, k < n, k \in T PROVE k + 1 \in T
    <3>1. k + 1 \in 1 .. n /\ (k + 1) - 1 = k /\ k + 1 \in 0 .. n
      BY <1>1, <2>2
    <3>2. s[k + 1] \in RangeSet /\ c[k] \in Seq(RangeSet)
      BY <1>1, <2>2, <3>1 DEF X
    <3>3. c[k + 1] \in X
      BY <1>9, <3>1, <3>2, JoinedType DEF X
    <3> QED  BY <3>1, <3>3
  <2>3. T = 0 .. n
    <3>1. T \subseteq 0 .. n
      OBVIOUS
    <3> HIDE DEF T
    <3> QED  BY <1>1, <2>1, <2>2, <3>1, UpTo
  <2>4. c = [k \in 0 .. n |-> c[k]]
    BY <1>7 DEF Eq
  <2> QED  BY <2>3, <2>4
<1> QED  BY <1>8, <1>9, <1>10 DEF n, s, X

LEMMA MergeFacts ==
    ASSUME NEW rs \in Seq(RangeSet)
    PROVE  /\ MergeRanges(rs) \in Seq(RangeSet) /\ Gapped(MergeRanges(rs))
           /\ Covered(MergeRanges(rs)) = Covered(rs)
<1> DEFINE n == Len(rs)
           s == SortRanges(rs)
<1>1. n \in Nat /\ s \in Seq(RangeSet) /\ Len(s) = n
      /\ \A i, j \in 1 .. Len(s) : i <= j => s[i][1] <= s[j][1]
  BY SortFacts
<1>2. PICK c \in [0 .. n -> Seq(RangeSet)] :
          /\ c[0] = <<>> /\ MergeRanges(rs) = c[n]
          /\ \A k \in 1 .. n : c[k] = Joined(c[k - 1], s[k])
  BY MergeFold
<1>3. Covered(rs) = UNION {Span(s[i]) : i \in 1 .. n}
  <2>1. \A x : x \in Covered(rs) <=> \E i \in 1 .. n : x \in Span(rs[i])
    BY CoveredFacts
  <2>2. /\ \A i \in 1 .. n : \E k \in 1 .. n : s[i] = rs[k]
        /\ \A k \in 1 .. n : \E i \in 1 .. n : s[i] = rs[k]
    BY SortFacts
  <2> HIDE DEF s, n
  <2> QED  BY <2>1, <2>2
<1> HIDE DEF s, n
<1> DEFINE T == {k \in 0 .. n : MergeInv(s, c[k], k)}
<1>4. 0 \in T
  <2>1. <<>> \in Seq(RangeSet) /\ Gapped(<<>>) /\ Covered(<<>>) = {}
    BY DEF Gapped, Covered
  <2>2. 1 .. 0 = {} /\ 0 \in 0 .. n
    BY <1>1
  <2>3. MergeInv(s, <<>>, 0)
    BY <2>1, <2>2 DEF MergeInv
  <2> QED  BY <1>2, <2>2, <2>3
<1>5. ASSUME NEW k \in 0 .. n, k < n, k \in T PROVE k + 1 \in T
  <2>1. k \in Nat /\ k + 1 \in 1 .. n /\ k + 1 \in 0 .. n /\ (k + 1) - 1 = k
    BY <1>1, <1>5
  <2>2. c[k + 1] = Joined(c[k], s[k + 1])
    BY <1>2, <2>1
  <2>3. MergeInv(s, c[k], k)
    BY <1>5
  <2>4. MergeInv(s, Joined(c[k], s[k + 1]), k + 1)
    BY <1>1, <2>1, <2>3, MergeStep
  <2> QED  BY <2>1, <2>2, <2>4
<1>6. T = 0 .. n
  <2>1. T \subseteq 0 .. n
    OBVIOUS
  <2> HIDE DEF T
  <2> QED  BY <1>1, <1>4, <1>5, <2>1, UpTo
<1>7. MergeInv(s, MergeRanges(rs), n)
  <2>1. n \in 0 .. n
    BY <1>1
  <2> QED  BY <1>2, <1>6, <2>1
<1> QED  BY <1>3, <1>7 DEF MergeInv

-----------------------------------------------------------------------------
(* CidrSets: subtracting ranges from one                                     *)

Cuts == [cursor : 0 .. CidrTop, done : BOOLEAN, out : Seq(RangeSet)]

\* What is left before the cursor is known; the first k removed ranges are behind it.
CutInv(acc, range, rs, k) ==
    /\ acc \in Cuts /\ Gapped(acc.out) /\ range[1] <= acc.cursor
    /\ ~acc.done =>
           /\ acc.cursor <= range[2]
           /\ \A i \in 1 .. Len(acc.out) : acc.out[i][2] + 1 < acc.cursor
           /\ \A i \in 1 .. k : rs[i][2] < acc.cursor \/ rs[i][1] > range[2]
    /\ \A x : x \in Covered(acc.out) <=>
                  x \in Span(range) \ Covered(rs) /\ (acc.done \/ x < acc.cursor)

LEMMA CutType ==
    ASSUME NEW acc \in Cuts, NEW r \in RangeSet, NEW range \in RangeSet
    PROVE  CutOut(acc, r, range) \in Cuts
<1> DEFINE new == CutOut(acc, r, range)
<1>1. /\ r[1] \in 0 .. CidrTop /\ r[2] \in 0 .. CidrTop
      /\ acc.cursor \in 0 .. CidrTop /\ acc.out \in Seq(RangeSet) /\ CidrTop \in Nat
  BY RangeFacts, TopFacts DEF Cuts
<1>2. Next1(r[2]) \in 0 .. CidrTop
  BY <1>1 DEF Next1
<1>3. r[1] > acc.cursor => Append(acc.out, <<acc.cursor, r[1] - 1>>) \in Seq(RangeSet)
  <2>1. r[1] > acc.cursor => <<acc.cursor, r[1] - 1>> \in RangeSet
    BY <1>1 DEF RangeSet
  <2> QED  BY <1>1, <2>1
<1> QED  BY <1>1, <1>2, <1>3 DEF CutOut, Cuts

LEMMA CutStep ==
    ASSUME NEW rs \in Seq(RangeSet), Gapped(rs), NEW range \in RangeSet,
           NEW k \in Nat, k + 1 \in 1 .. Len(rs), NEW acc, CutInv(acc, range, rs, k)
    PROVE  CutInv(CutOut(acc, rs[k + 1], range), range, rs, k + 1)
<1> DEFINE r == rs[k + 1]
           cur == acc.cursor
           o == acc.out
           new == CutOut(acc, r, range)
           m == Len(o)
<1>1. /\ rs[k + 1] \in RangeSet /\ acc \in Cuts /\ cur \in 0 .. CidrTop /\ o \in Seq(RangeSet)
      /\ acc.done \in BOOLEAN /\ CidrTop \in Nat /\ range[1] <= cur /\ m \in Nat
  BY TopFacts DEF CutInv, Cuts
<1>2. /\ r[1] \in 0 .. CidrTop /\ r[2] \in 0 .. CidrTop /\ r[1] <= r[2]
      /\ range[1] \in 0 .. CidrTop /\ range[2] \in 0 .. CidrTop
  BY <1>1, RangeFacts
<1>3. \A i \in 1 .. k + 1 : i \in 1 .. k \/ i = k + 1
  OBVIOUS
<1> HIDE DEF cur, o, r, m
<1>4. CASE acc.done \/ r[2] < cur \/ r[1] > range[2]
  <2>1. new = acc
    BY <1>4 DEF CutOut, cur
  <2>2. CASE acc.done
    BY <2>1, <2>2 DEF CutInv, r
  <2>3. CASE ~acc.done
    <3>1. \A i \in 1 .. k + 1 : rs[i][2] < cur \/ rs[i][1] > range[2]
      BY <1>3, <1>4, <2>3 DEF CutInv, r, cur
    <3> QED  BY <2>1, <3>1 DEF CutInv, r, cur
  <2> QED  BY <2>2, <2>3
<1>5. CASE ~(acc.done \/ r[2] < cur \/ r[1] > range[2])
  <2> DEFINE piece == <<cur, r[1] - 1>>
             out1 == IF r[1] > cur THEN Append(o, piece) ELSE o
             nx == Next1(r[2])
             dn == nx > range[2] \/ r[2] = CidrTop
  <2>1. new.cursor = nx /\ new.done = dn /\ new.out = out1
    BY <1>5 DEF CutOut, cur, o
  <2>2. new \in Cuts
    BY <1>1, CutType DEF r
  <2>3. /\ cur <= range[2] /\ \A i \in 1 .. m : o[i][2] + 1 < cur
        /\ \A i \in 1 .. k : rs[i][2] < cur \/ rs[i][1] > range[2]
        /\ Gapped(o)
    BY <1>5 DEF CutInv, cur, o, m
  <2>4. \A i \in 1 .. m : o[i] \in RangeSet
    BY <1>1 DEF m
  <2>5. nx \in 0 .. CidrTop /\ (r[2] < CidrTop => nx = r[2] + 1) /\ (r[2] = CidrTop => nx = r[2])
    BY <1>1, <1>2 DEF Next1
  <2>6. range[1] <= nx /\ (~dn => nx <= range[2] /\ nx = r[2] + 1 /\ cur < nx)
    BY <1>1, <1>2, <1>5, <2>5
  <2>7. \A i \in 1 .. Len(rs) : rs[i][1] \in 0 .. CidrTop /\ rs[i][2] \in 0 .. CidrTop /\ rs[i][1] <= rs[i][2]
    <3> TAKE i \in 1 .. Len(rs)
    <3>1. rs[i] \in RangeSet
      OBVIOUS
    <3> QED  BY <3>1, RangeFacts
  <2>8. \A i \in 1 .. Len(rs) : i > k + 1 => r[2] < rs[i][1]
    <3> TAKE i \in 1 .. Len(rs)
    <3>1. i > k + 1 => r[2] + 1 < rs[i][1]
      BY DEF Gapped, r
    <3> QED  BY <1>2, <2>7, <3>1
  \* Between the cursor and the range nothing is removed.
  <2>9. ASSUME NEW x, x \in cur .. r[1] - 1 PROVE x \in Span(range) /\ x \notin Covered(rs)
    <3>1. x \in Span(range)
      BY <1>1, <1>2, <1>5, <2>9 DEF Span
    <3>2. ASSUME NEW i \in 1 .. Len(rs) PROVE x \notin Span(rs[i])
      <4>1. CASE i \in 1 .. k
        <5>1. rs[i][2] < cur \/ rs[i][1] > range[2]
          BY <2>3, <4>1
        <5>2. cur <= x /\ x <= range[2] /\ x \in Nat
          BY <1>1, <1>2, <1>5, <2>9
        <5>3. rs[i][1] \in Nat /\ rs[i][2] \in Nat /\ cur \in Nat /\ range[2] \in Nat
          BY <1>1, <1>2, <2>7
        <5>4. ~(rs[i][1] <= x /\ x <= rs[i][2])
          BY <5>1, <5>2, <5>3
        <5> QED  BY <5>4 DEF Span
      <4>2. CASE i = k + 1
        BY <1>1, <1>2, <2>9, <4>2 DEF Span, r
      <4>3. CASE i > k + 1
        <5>1. r[2] < rs[i][1] /\ rs[i][1] \in Nat /\ rs[i][2] \in Nat
          BY <1>1, <2>7, <2>8, <4>3
        <5>2. x < r[1] /\ r[1] <= r[2] /\ x \in Int /\ r[1] \in Nat /\ r[2] \in Nat
          BY <1>1, <1>2, <2>9
        <5>3. ~(rs[i][1] <= x)
          BY <5>1, <5>2
        <5> QED  BY <5>1, <5>2, <5>3 DEF Span
      <4> QED  BY <4>1, <4>2, <4>3
    <3> QED  BY <3>1, <3>2, CoveredFacts
  <2>10. Span(r) \subseteq Covered(rs)
    BY CoveredFacts DEF r
  <2> HIDE DEF nx, dn
  <2>11. /\ out1 \in Seq(RangeSet) /\ Gapped(out1)
         /\ \A x : x \in Covered(out1) <=> x \in Covered(o) \/ (r[1] > cur /\ x \in cur .. r[1] - 1)
         /\ ~dn => \A i \in 1 .. Len(out1) : out1[i][2] + 1 < nx
    <3>1. CASE r[1] > cur
      <4>1. piece \in RangeSet /\ piece[1] = cur /\ piece[2] = r[1] - 1
        <5>1. r[1] - 1 \in 0 .. CidrTop /\ cur <= r[1] - 1
          BY <1>1, <1>2, <3>1
        <5>2. piece[1] = cur /\ piece[2] = r[1] - 1
          OBVIOUS
        <5>3. piece \in (0 .. CidrTop) \X (0 .. CidrTop)
          BY <1>1, <5>1
        <5> HIDE DEF piece
        <5> QED  BY <5>1, <5>2, <5>3 DEF RangeSet
      <4>2. Span(piece) = cur .. r[1] - 1
        BY <4>1 DEF Span
      <4> HIDE DEF piece
      <4> DEFINE a == Append(o, piece)
      <4>3. /\ a \in Seq(RangeSet) /\ Gapped(a) /\ Covered(a) = Covered(o) \cup Span(piece)
            /\ Len(a) = m + 1 /\ a[m + 1] = piece /\ \A i \in 1 .. m : a[i] = o[i]
        BY <1>1, <2>3, <4>1, Appended1 DEF m
      <4> HIDE DEF a
      <4>4. out1 = a
        BY <3>1 DEF a
      <4> HIDE DEF out1
      <4>5. ~dn => \A i \in 1 .. m + 1 : a[i][2] + 1 < nx
        <5> SUFFICES ASSUME ~dn, NEW i \in 1 .. m + 1 PROVE a[i][2] + 1 < nx
          OBVIOUS
        <5>1. CASE i \in 1 .. m
          <6>1. o[i] \in RangeSet /\ a[i] = o[i]
            BY <2>4, <4>3, <5>1
          <6>2. a[i][2] \in 0 .. CidrTop
            BY <6>1, RangeFacts
          <6>3. a[i][2] + 1 < cur
            BY <2>3, <5>1, <6>1
          <6>4. cur < nx /\ nx \in 0 .. CidrTop
            BY <2>5, <2>6
          <6>5. cur \in Nat /\ nx \in Nat /\ a[i][2] \in Nat
            BY <1>1, <6>2, <6>4
          <6> QED  BY <6>3, <6>4, <6>5
        <5>2. CASE i = m + 1
          <6>1. a[i][2] = r[1] - 1
            BY <4>1, <4>3, <5>2
          <6>2. nx = r[2] + 1 /\ r[1] <= r[2] /\ r[1] \in Nat /\ r[2] \in Nat
            BY <1>1, <1>2, <2>6
          <6> QED  BY <6>1, <6>2
        <5> QED  BY <1>1, <5>1, <5>2
      <4> QED  BY <3>1, <4>2, <4>3, <4>4, <4>5
    <3>2. CASE ~(r[1] > cur)
      <4>1. out1 = o
        BY <3>2
      <4> HIDE DEF out1
      <4>2. ~dn => \A i \in 1 .. m : o[i][2] + 1 < nx
        <5> SUFFICES ASSUME ~dn, NEW i \in 1 .. m PROVE o[i][2] + 1 < nx
          OBVIOUS
        <5>1. o[i] \in RangeSet
          BY <2>4
        <5>2. o[i][2] \in 0 .. CidrTop
          BY <5>1, RangeFacts
        <5> QED  BY <1>1, <2>3, <2>5, <2>6, <5>2
      <4> QED  BY <1>1, <2>3, <3>2, <4>1, <4>2 DEF m
    <3> QED  BY <3>1, <3>2
  <2>12. ~dn => \A i \in 1 .. k + 1 : rs[i][2] < nx \/ rs[i][1] > range[2]
    <3> SUFFICES ASSUME ~dn, NEW i \in 1 .. k + 1 PROVE rs[i][2] < nx \/ rs[i][1] > range[2]
      OBVIOUS
    <3>1. CASE i \in 1 .. k
      BY <1>1, <2>3, <2>5, <2>6, <2>7, <3>1
    <3>2. CASE i = k + 1
      BY <1>2, <2>6, <3>2 DEF r
    <3> QED  BY <1>3, <3>1, <3>2
  <2> HIDE DEF out1
  <2>13. ASSUME NEW x
         PROVE  x \in Covered(out1) <=> x \in Span(range) \ Covered(rs) /\ (dn \/ x < nx)
    <3>1. x \in Covered(o) <=> x \in Span(range) \ Covered(rs) /\ x < cur
      BY <1>5 DEF CutInv, cur, o
    <3>2. x \in Span(range) => (dn \/ x < nx <=> x <= r[2])
      BY <1>1, <1>2, <2>5 DEF Span, dn
    <3>3. CASE x \in Span(range) \ Covered(rs)
      <4>1. x \notin Span(r) /\ x \in Nat
        BY <1>2, <2>10, <3>3 DEF Span
      <4>2. x <= r[2] <=> x < cur \/ (r[1] > cur /\ x \in cur .. r[1] - 1)
        BY <1>1, <1>2, <1>5, <4>1 DEF Span
      <4> QED  BY <2>11, <3>1, <3>2, <3>3, <4>2
    <3>4. CASE x \notin Span(range) \ Covered(rs)
      BY <2>9, <2>11, <3>1, <3>4
    <3> QED  BY <3>3, <3>4
  <2> QED  BY <2>1, <2>2, <2>6, <2>11, <2>12, <2>13 DEF CutInv, r
<1> QED  BY <1>4, <1>5

LEMMA CutFold ==
    ASSUME NEW rs \in Seq(RangeSet), NEW range \in RangeSet
    PROVE  \E c \in [0 .. Len(rs) -> Cuts] :
               /\ c[0] = [cursor |-> range[1], done |-> FALSE, out |-> <<>>]
               /\ \A k \in 1 .. Len(rs) : c[k] = CutOut(c[k - 1], rs[k], range)
               /\ SubtractFromRange(range, rs)
                    = IF ~c[Len(rs)].done /\ c[Len(rs)].cursor <= range[2]
                      THEN Append(c[Len(rs)].out, <<c[Len(rs)].cursor, range[2]>>)
                      ELSE c[Len(rs)].out
<1> DEFINE n == Len(rs)
           start == [cursor |-> range[1], done |-> FALSE, out |-> <<>>]
           Eq(g) == g = [k \in 0 .. n |-> IF k = 0 THEN start ELSE CutOut(g[k - 1], rs[k], range)]
           c == CHOOSE g : Eq(g)
           F == [a \in Cuts \X (1 .. n) |-> CutOut(a[1], rs[a[2]], range)]
<1>1. n \in Nat /\ (\A k \in 1 .. n : rs[k] \in RangeSet) /\ start \in Cuts
  BY RangeFacts DEF Cuts
<1> HIDE DEF start, n
<1>2. \A r \in Cuts : \A k \in 1 .. n : F[<<r, k>>] = CutOut(r, rs[k], range) /\ F[<<r, k>>] \in Cuts
  <2> TAKE r \in Cuts
  <2> TAKE k \in 1 .. n
  <2>1. F[<<r, k>>] = CutOut(r, rs[k], range)
    OBVIOUS
  <2> HIDE DEF F
  <2> QED  BY <1>1, <2>1, CutType
<1> HIDE DEF F
<1>3. PICK f \in [0 .. n -> Cuts] : FoldsFrom(f, F, n, start)
  <2>1. Stays(F, n, Cuts)
    BY <1>2 DEF Stays
  <2> QED  BY <1>1, <2>1, FoldExists
<1>4. \A k \in 1 .. n : k - 1 \in 0 .. n /\ k \in 0 .. n
  BY <1>1
<1>5. /\ f[0] = start
      /\ \A k \in 1 .. n : f[k] = CutOut(f[k - 1], rs[k], range)
  <2>1. \A k \in 1 .. n : f[k - 1] \in Cuts
    BY <1>3, <1>4
  <2> QED  BY <1>2, <1>3, <2>1 DEF FoldsFrom
<1>6. Eq(f)
  <2>1. \A k \in 0 .. n : k # 0 => k \in 1 .. n
    BY <1>1
  <2>2. \A k \in 0 .. n : f[k] = IF k = 0 THEN start ELSE CutOut(f[k - 1], rs[k], range)
    BY <1>5, <2>1
  <2> QED  BY <1>3, <2>2
<1> HIDE DEF Eq
<1>7. Eq(c)
  BY <1>6
<1>8. SubtractFromRange(range, rs) = IF ~c[n].done /\ c[n].cursor <= range[2]
                                     THEN Append(c[n].out, <<c[n].cursor, range[2]>>) ELSE c[n].out
  BY DEF SubtractFromRange, Eq, n, start
<1> HIDE DEF c
<1>9. /\ c[0] = start
      /\ \A k \in 1 .. n : c[k] = CutOut(c[k - 1], rs[k], range)
  <2>1. c = [k \in 0 .. n |-> IF k = 0 THEN start ELSE CutOut(c[k - 1], rs[k], range)]
    BY <1>7 DEF Eq
  <2>2. 0 \in 0 .. n /\ \A k \in 1 .. n : k \in 0 .. n /\ k # 0
    BY <1>1
  <2> QED  BY <2>1, <2>2
<1>10. c \in [0 .. n -> Cuts]
  <2> DEFINE T == {k \in 0 .. n : c[k] \in Cuts}
  <2>1. 0 \in T
    BY <1>1, <1>9
  <2>2. ASSUME NEW k \in 0 .. n, k < n, k \in T PROVE k + 1 \in T
    <3>1. k + 1 \in 1 .. n /\ (k + 1) - 1 = k /\ k + 1 \in 0 .. n
      BY <1>1, <2>2
    <3>2. rs[k + 1] \in RangeSet /\ c[k] \in Cuts
      BY <1>1, <2>2, <3>1
    <3>3. c[k + 1] \in Cuts
      BY <1>9, <3>1, <3>2, CutType
    <3> QED  BY <3>1, <3>3
  <2>3. T = 0 .. n
    <3>1. T \subseteq 0 .. n
      OBVIOUS
    <3> HIDE DEF T
    <3> QED  BY <1>1, <2>1, <2>2, <3>1, UpTo
  <2>4. c = [k \in 0 .. n |-> c[k]]
    BY <1>7 DEF Eq
  <2> QED  BY <2>3, <2>4
<1> QED  BY <1>8, <1>9, <1>10 DEF n, start

\* subtract_from_range leaves exactly the addresses in no removed range.
LEMMA SubtractFacts ==
    ASSUME NEW rs \in Seq(RangeSet), Gapped(rs), NEW range \in RangeSet
    PROVE  /\ SubtractFromRange(range, rs) \in Seq(RangeSet)
           /\ Gapped(SubtractFromRange(range, rs))
           /\ Covered(SubtractFromRange(range, rs)) = Span(range) \ Covered(rs)
<1> DEFINE n == Len(rs)
           start == [cursor |-> range[1], done |-> FALSE, out |-> <<>>]
           result == SubtractFromRange(range, rs)
<1>1. n \in Nat /\ range[1] \in 0 .. CidrTop /\ range[2] \in 0 .. CidrTop /\ range[1] <= range[2]
      /\ CidrTop \in Nat
  BY RangeFacts, TopFacts
<1>2. PICK c \in [0 .. n -> Cuts] :
          /\ c[0] = start
          /\ \A k \in 1 .. n : c[k] = CutOut(c[k - 1], rs[k], range)
          /\ result = IF ~c[n].done /\ c[n].cursor <= range[2]
                      THEN Append(c[n].out, <<c[n].cursor, range[2]>>) ELSE c[n].out
  BY CutFold
<1> DEFINE T == {k \in 0 .. n : CutInv(c[k], range, rs, k)}
<1>4. 0 \in T
  <2>1. /\ start \in Cuts /\ start.out = <<>> /\ start.cursor = range[1] /\ start.done = FALSE
    BY <1>1 DEF Cuts
  <2>2. 1 .. 0 = {} /\ 0 \in 0 .. n /\ Len(<<>>) = 0
    BY <1>1
  <2>3. Gapped(<<>>) /\ Covered(<<>>) = {}
    BY DEF Gapped, Covered
  <2>4. \A x : ~(x \in Span(range) /\ x < range[1])
    BY <1>1 DEF Span
  <2> HIDE DEF start, n
  <2>5. CutInv(start, range, rs, 0)
    BY <1>1, <2>1, <2>2, <2>3, <2>4 DEF CutInv
  <2> QED  BY <1>2, <2>2, <2>5
<1> HIDE DEF start
<1>5. ASSUME NEW k \in 0 .. n, k < n, k \in T PROVE k + 1 \in T
  <2>1. k \in Nat /\ k + 1 \in 1 .. n /\ k + 1 \in 0 .. n /\ (k + 1) - 1 = k
    BY <1>1, <1>5
  <2>2. c[k + 1] = CutOut(c[k], rs[k + 1], range)
    BY <1>2, <2>1
  <2>3. CutInv(c[k], range, rs, k)
    BY <1>5
  <2>4. CutInv(CutOut(c[k], rs[k + 1], range), range, rs, k + 1)
    BY <2>1, <2>3, CutStep
  <2> QED  BY <2>1, <2>2, <2>4
<1>6. T = 0 .. n
  <2>1. T \subseteq 0 .. n
    OBVIOUS
  <2> HIDE DEF T
  <2> QED  BY <1>1, <1>4, <1>5, <2>1, UpTo
<1> DEFINE e == c[n]
<1>7. CutInv(e, range, rs, n)
  <2>1. n \in 0 .. n
    BY <1>1
  <2> QED  BY <1>6, <2>1
<1>8. result = IF ~e.done /\ e.cursor <= range[2] THEN Append(e.out, <<e.cursor, range[2]>>) ELSE e.out
  BY <1>2
<1> HIDE DEF e, result
<1>9. CASE e.done
  <2>1. result = e.out
    BY <1>8, <1>9
  <2>2. e.out \in Seq(RangeSet) /\ Gapped(e.out)
    BY <1>7 DEF CutInv, Cuts
  <2>3. Covered(e.out) = Span(range) \ Covered(rs)
    BY <1>7, <1>9 DEF CutInv
  <2> QED  BY <2>1, <2>2, <2>3 DEF result
<1>10. CASE ~e.done
  <2> DEFINE o == e.out
             piece == <<e.cursor, range[2]>>
  <2>1. /\ e.cursor \in 0 .. CidrTop /\ o \in Seq(RangeSet) /\ Gapped(o)
        /\ e.cursor <= range[2] /\ range[1] <= e.cursor
        /\ \A i \in 1 .. Len(o) : o[i][2] + 1 < e.cursor
        /\ \A i \in 1 .. n : rs[i][2] < e.cursor \/ rs[i][1] > range[2]
        /\ \A x : x \in Covered(o) <=> x \in Span(range) \ Covered(rs) /\ x < e.cursor
    BY <1>7, <1>10 DEF CutInv, Cuts
  <2>2. piece \in RangeSet /\ piece[1] = e.cursor /\ Span(piece) = e.cursor .. range[2]
    BY <1>1, <2>1 DEF RangeSet, Span
  <2>3. result = Append(o, piece)
    BY <1>8, <1>10, <2>1
  <2> HIDE DEF piece, o
  <2>4. /\ result \in Seq(RangeSet) /\ Gapped(result) /\ Covered(result) = Covered(o) \cup Span(piece)
    BY <2>1, <2>2, <2>3, Appended1
  <2>5. ASSUME NEW x, x \in e.cursor .. range[2] PROVE x \in Span(range) \ Covered(rs)
    <3>1. x \in Span(range)
      BY <1>1, <2>1, <2>5 DEF Span
    <3>2. ASSUME NEW i \in 1 .. Len(rs) PROVE x \notin Span(rs[i])
      <4>1. rs[i] \in RangeSet
        OBVIOUS
      <4>2. rs[i][1] \in 0 .. CidrTop /\ rs[i][2] \in 0 .. CidrTop
        BY <4>1, RangeFacts
      <4>3. rs[i][2] < e.cursor \/ rs[i][1] > range[2]
        BY <2>1
      <4> QED  BY <1>1, <2>1, <2>5, <4>2, <4>3 DEF Span
    <3> QED  BY <3>1, <3>2, CoveredFacts
  <2>6. ASSUME NEW x, x \in Span(range) PROVE x < e.cursor \/ x \in e.cursor .. range[2]
    BY <1>1, <2>1, <2>6 DEF Span
  <2>7. Covered(result) = Span(range) \ Covered(rs)
    BY <2>1, <2>2, <2>4, <2>5, <2>6
  <2> QED  BY <2>4, <2>7 DEF result
<1> QED  BY <1>7, <1>9, <1>10 DEF CutInv, Cuts

-----------------------------------------------------------------------------
(* CidrSets: a range as blocks                                               *)

\* max_block_log2_u64: a single address always fits, so a largest block does.
LEMMA LargestFitFacts ==
    ASSUME NEW first \in 0 .. CidrTop, NEW last \in 0 .. CidrTop, first <= last
    PROVE  /\ LargestFit(first, last) \in 0 .. Width
           /\ Aligned(LargestFit(first, last), first, last)
           /\ \A j \in (LargestFit(first, last) + 1) .. Width : ~Aligned(j, first, last)
<1> DEFINE Fit(k) == Aligned(k, first, last)
           T == {d \in 0 .. Width : Fit(Width - d)}
<1>1. first \in Nat /\ last \in Nat /\ Width \in Nat
  BY TopFacts
<1>2. Fit(0)
  <2>1. first % 1 = 0 /\ 1 <= (last - first) + 1
    BY <1>1
  <2> QED  BY <2>1, PowerOfZero DEF Aligned
<1> HIDE DEF Fit
<1>3. T \subseteq Nat /\ T # {}
  <2>1. Width \in 0 .. Width /\ Width - Width = 0
    BY <1>1
  <2>2. Width \in T
    BY <1>2, <2>1
  <2> QED  BY <2>2
<1>4. PICK d \in T : \A e \in T : d <= e
  <2> HIDE DEF T
  <2> QED  BY <1>3, LeastNumber
<1>5. Width - d \in 0 .. Width /\ Fit(Width - d)
  BY <1>1
<1>6. ASSUME NEW j \in (Width - d) + 1 .. Width PROVE ~Fit(j)
  <2>1. Width - j \in 0 .. Width /\ Width - (Width - j) = j /\ ~(d <= Width - j)
    BY <1>1, <1>5
  <2> QED  BY <1>4, <2>1
<1>7. \E k \in 0 .. Width : Fit(k) /\ \A j \in (k + 1) .. Width : ~Fit(j)
  BY <1>5, <1>6
<1>8. LargestFit(first, last) = CHOOSE k \in 0 .. Width : Fit(k) /\ \A j \in (k + 1) .. Width : ~Fit(j)
  BY DEF LargestFit, Fit
<1>9. /\ LargestFit(first, last) \in 0 .. Width /\ Fit(LargestFit(first, last))
      /\ \A j \in (LargestFit(first, last) + 1) .. Width : ~Fit(j)
  BY <1>7, <1>8
<1> QED  BY <1>9 DEF Fit

Size(b)  == 2^(Width - b.len)

\* The blocks cover first .. last, in order, each as large as it can be.
Tiles(out, first, last) ==
    /\ out \in Seq(Blocks)
    /\ \A i \in 1 .. Len(out) :
           /\ out[i].addr % Size(out[i]) = 0 /\ first <= out[i].addr
           /\ out[i].addr + Size(out[i]) <= last + 1
           /\ \A j \in (Width - out[i].len) + 1 .. Width : ~Aligned(j, out[i].addr, last)
    /\ \A i, j \in 1 .. Len(out) : i < j => out[i].addr + Size(out[i]) <= out[j].addr
    /\ \A x \in first .. last : \E i \in 1 .. Len(out) :
           x \in out[i].addr .. (out[i].addr + Size(out[i])) - 1

LEMMA BlockFacts ==
    ASSUME NEW b \in Blocks
    PROVE  /\ b.addr \in 0 .. CidrTop /\ b.len \in 0 .. Width
           /\ Size(b) \in Nat /\ Size(b) > 0
           /\ b.addr % Size(b) = 0 => Addresses(b) = b.addr .. (b.addr + Size(b)) - 1
<1>1. b.addr \in 0 .. CidrTop /\ b.len \in 0 .. Width
  BY DEF Blocks
<1>2. /\ Size(b) \in Nat /\ Size(b) > 0 /\ Addresses(b) = Span(ToRange(b))
      /\ ToRange(b)[2] = ToRange(b)[1] + Size(b) - 1
      /\ b.addr % Size(b) = 0 => ToRange(b)[1] = b.addr
  BY BlockRange DEF Size
<1> HIDE DEF Size
<1>3. CidrTop \in Nat /\ b.addr + Size(b) - 1 = (b.addr + Size(b)) - 1
  BY <1>1, <1>2, TopFacts
<1> QED  BY <1>1, <1>2, <1>3 DEF Span

LEMMA TileStep ==
    ASSUME NEW a \in 0 .. CidrTop, NEW last \in 0 .. CidrTop, a <= last,
           NEW rest, Tiles(rest, a + 2^LargestFit(a, last), last)
    PROVE  Tiles(<<[addr |-> a, len |-> Width - LargestFit(a, last)]>> \o rest, a, last)
<1> DEFINE k == LargestFit(a, last)
           b == [addr |-> a, len |-> Width - k]
           s == 2^k
           out == <<b>> \o rest
           m == Len(rest)
<1>1. k \in 0 .. Width /\ Aligned(k, a, last) /\ \A j \in (k + 1) .. Width : ~Aligned(j, a, last)
  BY LargestFitFacts
<1>2. Width \in Nat /\ CidrTop \in Nat /\ s \in Nat /\ s > 0
  BY <1>1, SizeFacts, TopFacts
<1>3. a % s = 0 /\ a + s <= last + 1
  BY <1>1, <1>2 DEF Aligned
<1> HIDE DEF k
<1>4. b \in Blocks /\ b.addr = a /\ Width - b.len = k
  BY <1>1, <1>2 DEF Blocks
<1>5. Size(b) = s
  BY <1>4 DEF Size
<1> HIDE DEF b, s
<1>6. rest \in Seq(Blocks) /\ m \in Nat /\ \A i \in 1 .. m : rest[i] \in Blocks
  BY DEF Tiles
<1>7. /\ out \in Seq(Blocks) /\ Len(out) = m + 1 /\ out[1] = b
      /\ \A i \in 1 .. m : out[i + 1] = rest[i]
  <2>1. <<b>> \in Seq(Blocks) /\ Len(<<b>>) = 1 /\ <<b>>[1] = b
    BY <1>4
  <2>2. /\ out \in Seq(Blocks) /\ Len(out) = 1 + m
        /\ \A i \in 1 .. 1 + m : out[i] = IF i <= 1 THEN <<b>>[i] ELSE rest[i - 1]
    BY <1>6, <2>1, ConcatProperties
  <2> HIDE DEF out, m
  <2>3. \A i \in 1 .. m : i + 1 \in 1 .. 1 + m /\ ~(i + 1 <= 1) /\ (i + 1) - 1 = i
    BY <1>6
  <2> QED  BY <1>6, <2>1, <2>2, <2>3
<1>8. \A i \in 1 .. m + 1 : i = 1 \/ (i - 1 \in 1 .. m /\ i = (i - 1) + 1)
  BY <1>6
<1>9. \A i \in 1 .. m : i + 1 \in 1 .. m + 1
  BY <1>6
<1>10. /\ \A i \in 1 .. m :
              /\ rest[i].addr % Size(rest[i]) = 0 /\ a + s <= rest[i].addr
              /\ rest[i].addr + Size(rest[i]) <= last + 1
              /\ \A j \in (Width - rest[i].len) + 1 .. Width : ~Aligned(j, rest[i].addr, last)
       /\ \A i, j \in 1 .. m : i < j => rest[i].addr + Size(rest[i]) <= rest[j].addr
       /\ \A x \in a + s .. last : \E i \in 1 .. m :
              x \in rest[i].addr .. (rest[i].addr + Size(rest[i])) - 1
  BY DEF Tiles, k, s
<1>11. \A i \in 1 .. m : rest[i].addr \in 0 .. CidrTop
  BY <1>6, BlockFacts
<1> HIDE DEF out, m
<1>12. ASSUME NEW i \in 1 .. m + 1
       PROVE  /\ out[i].addr % Size(out[i]) = 0 /\ a <= out[i].addr
              /\ out[i].addr + Size(out[i]) <= last + 1
              /\ \A j \in (Width - out[i].len) + 1 .. Width : ~Aligned(j, out[i].addr, last)
  <2>1. CASE i = 1
    BY <1>1, <1>2, <1>3, <1>4, <1>5, <1>7, <2>1
  <2>2. CASE i - 1 \in 1 .. m /\ i = (i - 1) + 1
    <3>1. out[i] = rest[i - 1]
      BY <1>7, <2>2
    <3>2. a <= rest[i - 1].addr
      BY <1>2, <1>10, <1>11, <2>2
    <3> QED  BY <1>10, <2>2, <3>1, <3>2
  <2> QED  BY <1>8, <2>1, <2>2
<1>13. ASSUME NEW i \in 1 .. m + 1, NEW j \in 1 .. m + 1, i < j
       PROVE  out[i].addr + Size(out[i]) <= out[j].addr
  <2>1. j - 1 \in 1 .. m /\ j = (j - 1) + 1
    BY <1>6, <1>8, <1>13
  <2>2. out[j] = rest[j - 1]
    BY <1>7, <2>1
  <2>3. CASE i = 1
    BY <1>4, <1>5, <1>7, <1>10, <2>1, <2>2, <2>3
  <2>4. CASE i - 1 \in 1 .. m /\ i = (i - 1) + 1
    <3>1. out[i] = rest[i - 1] /\ i - 1 < j - 1
      BY <1>7, <1>13, <2>4
    <3> QED  BY <1>10, <2>1, <2>2, <2>4, <3>1
  <2> QED  BY <1>8, <2>3, <2>4
<1>14. ASSUME NEW x \in a .. last
       PROVE  \E i \in 1 .. m + 1 : x \in out[i].addr .. (out[i].addr + Size(out[i])) - 1
  <2>1. CASE x < a + s
    <3>1. x \in a .. (a + s) - 1 /\ 1 \in 1 .. m + 1
      BY <1>2, <1>6, <2>1
    <3> QED  BY <1>4, <1>5, <1>7, <3>1
  <2>2. CASE ~(x < a + s)
    <3>1. x \in a + s .. last
      BY <1>2, <2>2
    <3>2. PICK i \in 1 .. m : x \in rest[i].addr .. (rest[i].addr + Size(rest[i])) - 1
      BY <1>10, <3>1
    <3> QED  BY <1>7, <1>9, <3>2
  <2> QED  BY <2>1, <2>2
<1>15. Tiles(out, a, last)
  BY <1>7, <1>12, <1>13, <1>14 DEF Tiles
<1> QED  BY <1>15 DEF out, b, k

\* The blocks from the first address on are built from the last one back.
LEMMA RangeToCidrsTiles ==
    ASSUME NEW range \in RangeSet
    PROVE  Tiles(RangeToCidrs(range), range[1], range[2])
<1> DEFINE N == CidrTop + 1
           last == range[2]
           Fit(a) == LargestFit(a, last)
           Then(g, a) == IF a > last THEN <<>>
                         ELSE <<[addr |-> a, len |-> Width - Fit(a)]>> \o g[a + 2^Fit(a)]
           Eq(g, m) == g = [a \in m .. N |-> Then(g, a)]
           c == CHOOSE g : g = [a \in 0 .. N |->
                    IF a > last THEN <<>>
                    ELSE LET k == LargestFit(a, last)
                         IN <<[addr |-> a, len |-> Width - k]>> \o g[a + 2^k]]
<1>1. N \in Nat /\ range[1] \in 0 .. CidrTop /\ last \in 0 .. CidrTop /\ CidrTop \in Nat
  BY TopFacts, RangeFacts
<1>2. ASSUME NEW a \in 0 .. N, ~(a > last)
      PROVE  /\ a \in 0 .. CidrTop /\ a <= last
             /\ a + 2^Fit(a) \in a + 1 .. N
  <2>1. a \in 0 .. CidrTop /\ a <= last
    BY <1>1, <1>2
  <2>2. Fit(a) \in 0 .. Width /\ Aligned(Fit(a), a, last)
    BY <1>1, <2>1, LargestFitFacts
  <2>3. 2^Fit(a) \in Nat /\ 2^Fit(a) > 0 /\ 2^Fit(a) <= (last - a) + 1
    BY <2>2, SizeFacts DEF Aligned
  <2> QED  BY <1>1, <2>1, <2>3
<1>3. RangeToCidrs(range) = c[range[1]]
  BY DEF RangeToCidrs
<1> HIDE DEF N, last, Fit
<1> DEFINE T == {d \in 0 .. N : \E g : Eq(g, N - d)}
<1>4. 0 \in T
  <2>1. 0 \in 0 .. N /\ N - 0 = N /\ N > last /\ N .. N = {N}
    BY <1>1 DEF N
  <2> DEFINE g == [a \in N .. N |-> <<>>]
  <2>2. \A a \in N .. N : Then(g, a) = <<>>
    BY <2>1
  <2> HIDE DEF Then
  <2>3. Eq(g, N)
    BY <2>2
  <2> HIDE DEF g, Eq
  <2>4. \E h : Eq(h, N - 0)
    BY <2>1, <2>3
  <2> QED  BY <2>1, <2>4
<1>5. ASSUME NEW d \in 0 .. N, d < N, d \in T PROVE d + 1 \in T
  <2> DEFINE m == N - d
             l == m - 1
  <2>1. d + 1 \in 0 .. N /\ N - (d + 1) = l /\ l \in 0 .. N /\ m \in 0 .. N
    BY <1>1, <1>5
  <2>2. PICK g : Eq(g, m)
    BY <1>5
  <2>3. /\ \A a \in l .. N : a = l \/ a \in m .. N
        /\ m .. N \subseteq l .. N /\ l \notin m .. N /\ l \in l .. N
        /\ \A a \in l .. N : a \in 0 .. N
        /\ \A a \in l .. N : a + 1 .. N \subseteq m .. N
    BY <1>1, <2>1
  <2> HIDE DEF m, l
  <2> DEFINE h == [a \in l .. N |-> IF a = l THEN Then(g, l) ELSE g[a]]
  <2>4. \A a \in m .. N : g[a] = h[a]
    BY <2>3
  <2>5. \A a \in m .. N : g[a] = Then(g, a)
    <3> HIDE DEF Then
    <3> QED  BY <2>2
  <2>6. h[l] = Then(g, l)
    BY <2>3
  <2> HIDE DEF h
  <2>7. \A a \in l .. N : Then(g, a) = Then(h, a)
    <3> TAKE a \in l .. N
    <3>1. ~(a > last) => a + 2^Fit(a) \in m .. N
      <4> SUFFICES ASSUME ~(a > last) PROVE a + 2^Fit(a) \in m .. N
        OBVIOUS
      <4>1. a \in 0 .. N
        BY <2>3
      <4>2. a + 2^Fit(a) \in a + 1 .. N
        BY <1>2, <4>1
      <4> QED  BY <2>3, <4>2
    <3> QED  BY <2>4, <3>1
  <2> HIDE DEF Then
  <2>8. \A a \in l .. N : h[a] = Then(h, a)
    <3> TAKE a \in l .. N
    <3>1. CASE a = l
      BY <2>3, <2>6, <2>7, <3>1
    <3>2. CASE a \in m .. N
      BY <2>4, <2>5, <2>7, <3>2
    <3> QED  BY <2>3, <3>1, <3>2
  <2>9. h = [a \in l .. N |-> h[a]]
    BY DEF h
  <2>10. Eq(h, l)
    BY <2>8, <2>9
  <2> HIDE DEF Eq
  <2>11. \E f : Eq(f, N - (d + 1))
    BY <2>1, <2>10
  <2> QED  BY <2>1, <2>11
<1>6. T = 0 .. N
  <2>1. T \subseteq 0 .. N
    OBVIOUS
  <2> HIDE DEF T
  <2> QED  BY <1>1, <1>4, <1>5, <2>1, UpTo
<1>7. \E g : Eq(g, 0)
  <2>1. N \in 0 .. N /\ N - N = 0
    BY <1>1
  <2>2. N \in T
    BY <1>6, <2>1
  <2> HIDE DEF Eq
  <2> QED  BY <2>1, <2>2
<1>8. Eq(c, 0)
  <2>1. c = CHOOSE g : Eq(g, 0)
    BY DEF Eq, Then, Fit
  <2> HIDE DEF c, Eq
  <2> QED  BY <1>7, <2>1
<1> HIDE DEF c
<1>9. \A a \in 0 .. N : c[a] = Then(c, a)
  <2> HIDE DEF Then
  <2> QED  BY <1>8
<1> HIDE DEF Eq
<1> DEFINE U == {d \in 0 .. N : \A a \in N - d .. N : Tiles(c[a], a, last)}
<1>10. ASSUME NEW a \in 0 .. N, a > last PROVE Tiles(c[a], a, last)
  <2>1. c[a] = <<>>
    BY <1>9, <1>10
  <2>2. a .. last = {} /\ 1 .. 0 = {} /\ Len(<<>>) = 0 /\ <<>> \in Seq(Blocks)
    BY <1>1, <1>10
  <2> QED  BY <2>1, <2>2 DEF Tiles
<1>11. 0 \in U
  <2>1. 0 \in 0 .. N /\ N - 0 = N /\ N > last /\ N .. N = {N} /\ N \in 0 .. N
    BY <1>1 DEF N
  <2> QED  BY <1>10, <2>1
<1>12. ASSUME NEW d \in 0 .. N, d < N, d \in U PROVE d + 1 \in U
  <2>1. d + 1 \in 0 .. N
    BY <1>1, <1>12
  <2>2. ASSUME NEW a \in N - (d + 1) .. N PROVE Tiles(c[a], a, last)
    <3>1. a \in 0 .. N /\ a + 1 .. N \subseteq N - d .. N
      BY <1>1, <2>1
    <3>2. CASE a > last
      BY <1>10, <3>1, <3>2
    <3>3. CASE ~(a > last)
      <4>1. c[a] = <<[addr |-> a, len |-> Width - Fit(a)]>> \o c[a + 2^Fit(a)]
        BY <1>9, <3>1, <3>3
      <4>2. a \in 0 .. CidrTop /\ a <= last /\ a + 2^Fit(a) \in N - d .. N
        BY <1>2, <3>1, <3>3
      <4>3. Tiles(c[a + 2^Fit(a)], a + 2^Fit(a), last)
        BY <1>12, <4>2
      <4> QED  BY <1>1, <4>1, <4>2, <4>3, TileStep DEF Fit
    <3> QED  BY <3>2, <3>3
  <2> QED  BY <2>1, <2>2
<1>13. U = 0 .. N
  <2>1. U \subseteq 0 .. N
    OBVIOUS
  <2> HIDE DEF U
  <2> QED  BY <1>1, <1>11, <1>12, <2>1, UpTo
<1>14. Tiles(c[range[1]], range[1], last)
  <2>1. N \in U /\ range[1] \in N - N .. N
    BY <1>1, <1>13 DEF N
  <2> QED  BY <2>1
<1> QED  BY <1>3, <1>14 DEF last

-----------------------------------------------------------------------------
(* CidrSets: lists put one behind the other                                  *)

\* The elements of the first k lists, in order; Rel holds of an earlier and a later one.
FlatInv(out, ss, k, B, Rel) ==
    /\ out \in Seq(B)
    /\ \A p \in 1 .. Len(out) : \E i \in 1 .. k : \E a \in 1 .. Len(ss[i]) : out[p] = ss[i][a]
    /\ \A i \in 1 .. k : \A a \in 1 .. Len(ss[i]) : \E p \in 1 .. Len(out) : out[p] = ss[i][a]
    /\ \A p, q \in 1 .. Len(out) : p < q => <<out[p], out[q]>> \in Rel

Ranked(ss, Rel) ==
    /\ \A i \in 1 .. Len(ss) : \A a, b \in 1 .. Len(ss[i]) : a < b => <<ss[i][a], ss[i][b]>> \in Rel
    /\ \A i, j \in 1 .. Len(ss) : i < j =>
           \A a \in 1 .. Len(ss[i]) : \A b \in 1 .. Len(ss[j]) : <<ss[i][a], ss[j][b]>> \in Rel

LEMMA FlatStep ==
    ASSUME NEW B, NEW Rel, NEW ss \in Seq(Seq(B)), Ranked(ss, Rel),
           NEW k \in Nat, k + 1 \in 1 .. Len(ss), NEW out, FlatInv(out, ss, k, B, Rel)
    PROVE  FlatInv(out \o ss[k + 1], ss, k + 1, B, Rel)
<1> DEFINE t == ss[k + 1]
           new == out \o t
           n == Len(out)
           m == Len(t)
<1>1. t \in Seq(B) /\ out \in Seq(B) /\ n \in Nat /\ m \in Nat
  BY DEF FlatInv
<1>2. /\ new \in Seq(B) /\ Len(new) = n + m
      /\ \A p \in 1 .. n + m : new[p] = IF p <= n THEN out[p] ELSE t[p - n]
  BY <1>1, ConcatProperties
<1> HIDE DEF new, n, m
<1>3. \A p \in 1 .. n + m : (p \in 1 .. n /\ new[p] = out[p]) \/ (p - n \in 1 .. m /\ new[p] = t[p - n])
  BY <1>1, <1>2
<1>4. (\A p \in 1 .. n : p \in 1 .. n + m /\ new[p] = out[p])
      /\ \A a \in 1 .. m : n + a \in 1 .. n + m /\ new[n + a] = t[a]
  <2>1. \A p \in 1 .. n : p \in 1 .. n + m /\ new[p] = out[p]
    BY <1>1, <1>2
  <2>2. ASSUME NEW a \in 1 .. m PROVE n + a \in 1 .. n + m /\ new[n + a] = t[a]
    <3>1. n + a \in 1 .. n + m /\ ~(n + a <= n) /\ (n + a) - n = a
      BY <1>1
    <3> QED  BY <1>2, <3>1
  <2> QED  BY <2>1, <2>2
<1>5. \A i \in 1 .. k + 1 : i \in 1 .. k \/ i = k + 1
  OBVIOUS
<1>6. (\A i \in 1 .. k : i \in 1 .. k + 1) /\ k + 1 \in 1 .. k + 1
  OBVIOUS
<1>7. ASSUME NEW p \in 1 .. n + m
      PROVE  \E i \in 1 .. k + 1 : \E a \in 1 .. Len(ss[i]) : new[p] = ss[i][a]
  <2>1. CASE p \in 1 .. n /\ new[p] = out[p]
    <3>1. PICK i \in 1 .. k : \E a \in 1 .. Len(ss[i]) : out[p] = ss[i][a]
      BY <2>1 DEF FlatInv, n
    <3>2. i \in 1 .. k + 1
      BY <1>6
    <3> QED  BY <2>1, <3>1, <3>2
  <2>2. CASE p - n \in 1 .. m /\ new[p] = t[p - n]
    BY <1>6, <2>2 DEF m
  <2> QED  BY <1>3, <2>1, <2>2
<1>8. ASSUME NEW i \in 1 .. k + 1, NEW a \in 1 .. Len(ss[i])
      PROVE  \E p \in 1 .. n + m : new[p] = ss[i][a]
  <2>1. CASE i \in 1 .. k
    BY <1>4, <2>1 DEF FlatInv, n
  <2>2. CASE i = k + 1
    BY <1>4, <2>2 DEF m
  <2> QED  BY <1>5, <2>1, <2>2
<1>9. ASSUME NEW p \in 1 .. n + m, NEW q \in 1 .. n + m, p < q
      PROVE  <<new[p], new[q]>> \in Rel
  <2>1. CASE q \in 1 .. n
    <3>1. p \in 1 .. n
      BY <1>1, <1>9, <2>1
    <3> QED  BY <1>4, <1>9, <2>1, <3>1 DEF FlatInv, n
  <2>2. CASE p \in 1 .. n /\ q - n \in 1 .. m /\ new[q] = t[q - n]
    <3>1. PICK i \in 1 .. k : \E a \in 1 .. Len(ss[i]) : out[p] = ss[i][a]
      BY <2>2 DEF FlatInv, n
    <3>2. i \in 1 .. Len(ss) /\ i < k + 1
      OBVIOUS
    <3>3. new[p] = out[p]
      BY <1>4, <2>2
    <3> QED  BY <2>2, <3>1, <3>2, <3>3 DEF Ranked, m
  <2>3. CASE p - n \in 1 .. m /\ new[p] = t[p - n] /\ q - n \in 1 .. m /\ new[q] = t[q - n]
    <3>1. p - n < q - n
      BY <1>1, <1>9
    <3> QED  BY <2>3, <3>1 DEF Ranked, m
  <2>4. p \in 1 .. n \/ (p - n \in 1 .. m /\ new[p] = t[p - n])
    BY <1>3
  <2>5. q \in 1 .. n \/ (q - n \in 1 .. m /\ new[q] = t[q - n])
    BY <1>3
  <2> QED  BY <2>1, <2>2, <2>3, <2>4, <2>5
<1>10. FlatInv(new, ss, k + 1, B, Rel)
  BY <1>2, <1>7, <1>8, <1>9 DEF FlatInv
<1> QED  BY <1>10 DEF new

LEMMA FlattenFacts ==
    ASSUME NEW B, NEW Rel, NEW ss \in Seq(Seq(B)), Ranked(ss, Rel)
    PROVE  FlatInv(FlattenSeq(ss), ss, Len(ss), B, Rel)
<1> DEFINE n == Len(ss)
           X == Seq(B)
           Eq(g) == g = [i \in 1 .. n |-> IF i = 1 THEN ss[i] ELSE g[i - 1] \o ss[i]]
           c == CHOOSE g : Eq(g)
           d == [k \in 0 .. n |-> IF k = 0 THEN <<>> ELSE c[k]]
           F == [a \in X \X (1 .. n) |-> a[1] \o ss[a[2]]]
<1>1. n \in Nat /\ (\A k \in 1 .. n : ss[k] \in X) /\ <<>> \in X
  OBVIOUS
<1>2. FlattenSeq(ss) = IF n = 0 THEN ss ELSE c[n]
  BY DEF FlattenSeq
<1>3. n = 0 => ss = <<>>
  OBVIOUS
<1> HIDE DEF n
<1>4. ASSUME NEW r \in X, NEW t \in X PROVE r \o t \in X
  BY <1>4, ConcatProperties
<1>5. \A r \in X : \A k \in 1 .. n : F[<<r, k>>] = r \o ss[k] /\ F[<<r, k>>] \in X
  <2> TAKE r \in X
  <2> TAKE k \in 1 .. n
  <2>1. F[<<r, k>>] = r \o ss[k]
    OBVIOUS
  <2> HIDE DEF F, X
  <2> QED  BY <1>1, <1>4, <2>1
<1> HIDE DEF F
<1>6. PICK f \in [0 .. n -> X] : FoldsFrom(f, F, n, <<>>)
  <2>1. Stays(F, n, X)
    BY <1>5 DEF Stays
  <2> HIDE DEF X
  <2> QED  BY <1>1, <2>1, FoldExists
<1>7. \A k \in 1 .. n : k - 1 \in 0 .. n /\ k \in 0 .. n
  BY <1>1
<1>8. /\ f[0] = <<>>
      /\ \A k \in 1 .. n : f[k] = f[k - 1] \o ss[k]
  <2>1. \A k \in 1 .. n : f[k - 1] \in X
    BY <1>6, <1>7
  <2> HIDE DEF X
  <2> QED  BY <1>5, <1>6, <2>1 DEF FoldsFrom
<1>9. \A k \in 1 .. n : <<>> \o ss[k] = ss[k]
  BY <1>1, ConcatEmptySeq
<1>10. \E g : Eq(g)
  <2> DEFINE g == [i \in 1 .. n |-> f[i]]
  <2>1. ASSUME NEW i \in 1 .. n PROVE g[i] = IF i = 1 THEN ss[i] ELSE g[i - 1] \o ss[i]
    <3>1. CASE i = 1
      <4>1. f[i] = f[i - 1] \o ss[i] /\ i - 1 = 0
        <5>1. f[i] = f[i - 1] \o ss[i]
          BY <1>8
        <5>2. i - 1 = 0
          BY <3>1
        <5> QED  BY <5>1, <5>2
      <4>2. f[i] = ss[i]
        BY <1>8, <1>9, <4>1
      <4> QED  BY <3>1, <4>2
    <3>2. CASE i # 1
      <4>1. i - 1 \in 1 .. n
        BY <1>1, <3>2
      <4> QED  BY <1>8, <3>2, <4>1
    <3> QED  BY <3>1, <3>2
  <2>2. g = [i \in 1 .. n |-> g[i]]
    OBVIOUS
  <2> HIDE DEF g
  <2>3. Eq(g)
    BY <2>1, <2>2
  <2> HIDE DEF Eq
  <2> QED  BY <2>3
<1>11. Eq(c)
  <2> HIDE DEF Eq
  <2> QED  BY <1>10
<1> HIDE DEF c, X
<1>12. \A i \in 1 .. n : c[i] = IF i = 1 THEN ss[i] ELSE c[i - 1] \o ss[i]
  BY <1>11
<1> HIDE DEF Eq
<1>13. d[0] = <<>> /\ \A k \in 1 .. n : d[k] = c[k]
  <2>1. 0 \in 0 .. n /\ \A k \in 1 .. n : k \in 0 .. n /\ k # 0
    BY <1>1
  <2> QED  BY <2>1
<1> HIDE DEF d
<1>14. ASSUME NEW k \in 1 .. n PROVE d[k] = d[k - 1] \o ss[k]
  <2>1. CASE k = 1
    <3>1. d[k] = ss[k] /\ k - 1 = 0
      BY <1>12, <1>13, <2>1
    <3>2. d[k - 1] = <<>>
      BY <1>13, <3>1
    <3> QED  BY <1>9, <3>1, <3>2
  <2>2. CASE k # 1
    <3>1. k - 1 \in 1 .. n
      BY <1>1, <2>2
    <3> QED  BY <1>12, <1>13, <2>2, <3>1
  <2> QED  BY <2>1, <2>2
<1>15. FlattenSeq(ss) = d[n]
  <2>1. n # 0 => n \in 1 .. n
    BY <1>1
  <2> QED  BY <1>2, <1>3, <1>13, <2>1
<1> DEFINE T == {k \in 0 .. n : FlatInv(d[k], ss, k, B, Rel)}
<1>16. 0 \in T
  <2>1. 1 .. 0 = {} /\ Len(<<>>) = 0 /\ <<>> \in Seq(B) /\ 0 \in 0 .. n
    BY <1>1
  <2>2. FlatInv(<<>>, ss, 0, B, Rel)
    BY <2>1 DEF FlatInv
  <2> QED  BY <1>13, <2>1, <2>2
<1>17. ASSUME NEW k \in 0 .. n, k < n, k \in T PROVE k + 1 \in T
  <2>1. k \in Nat /\ k + 1 \in 1 .. n /\ k + 1 \in 0 .. n /\ (k + 1) - 1 = k
    BY <1>1, <1>17
  <2>2. d[k + 1] = d[k] \o ss[k + 1]
    BY <1>14, <2>1
  <2>3. FlatInv(d[k], ss, k, B, Rel)
    BY <1>17
  <2>4. FlatInv(d[k] \o ss[k + 1], ss, k + 1, B, Rel)
    BY <2>1, <2>3, FlatStep DEF n
  <2> QED  BY <2>1, <2>2, <2>4
<1>18. T = 0 .. n
  <2>1. T \subseteq 0 .. n
    OBVIOUS
  <2> HIDE DEF T
  <2> QED  BY <1>1, <1>16, <1>17, <2>1, UpTo
<1>19. FlatInv(d[n], ss, n, B, Rel)
  <2>1. n \in 0 .. n
    BY <1>1
  <2> QED  BY <1>18, <2>1
<1> QED  BY <1>15, <1>19 DEF n

-----------------------------------------------------------------------------
(* CidrSets: the blocks of separate ranges                                   *)

KeptApart(b, c) == /\ Addresses(b) \cap Addresses(c) = {}
               /\ ~Siblings(b, c) /\ ~Siblings(c, b)
ApartPairs  == {p \in Blocks \X Blocks : KeptApart(p[1], p[2])}

\* The canonical list of blocks of the addresses S.
Exact(out, S) ==
    /\ out \in Seq(Blocks) /\ Union(out) = S
    /\ \A i \in 1 .. Len(out) : out[i].addr % Size(out[i]) = 0
    /\ \A i, j \in 1 .. Len(out) : i < j => <<out[i], out[j]>> \in ApartPairs

LEMMA UnionFacts ==
    ASSUME NEW bs \in Seq(Blocks)
    PROVE  /\ Len(bs) \in Nat /\ DOMAIN bs = 1 .. Len(bs)
           /\ \A i \in 1 .. Len(bs) : bs[i] \in Blocks
           /\ \A x : x \in Union(bs) <=> \E i \in 1 .. Len(bs) : x \in Addresses(bs[i])
<1>1. Len(bs) \in Nat /\ DOMAIN bs = 1 .. Len(bs) /\ \A i \in 1 .. Len(bs) : bs[i] \in Blocks
  OBVIOUS
<1> QED  BY <1>1 DEF Union

LEMMA SiblingsFacts ==
    ASSUME NEW b \in Blocks, NEW c \in Blocks, b.addr % Size(b) = 0, c.addr % Size(c) = 0,
           b.addr < c.addr, Siblings(b, c) \/ Siblings(c, b)
    PROVE  /\ b.len = c.len /\ b.len > 0 /\ c.addr = b.addr + Size(b)
           /\ b.addr % 2^((Width - b.len) + 1) = 0
<1>1. Siblings(b, c) /\ b.len = c.len /\ b.len > 0
  BY DEF Siblings
<1>2. c.addr = b.addr + Size(b) /\ b.addr % 2^(Width - b.len + 1) = 0
  BY <1>1, SiblingsTouch DEF Size
<1> QED  BY <1>1, <1>2

\* Each block is as large as it can be, so no two could be written as one.
LEMMA TilesExact ==
    ASSUME NEW r \in RangeSet
    PROVE  Exact(RangeToCidrs(r), Span(r))
<1> DEFINE out == RangeToCidrs(r)
           n == Len(out)
           last == r[2]
<1>1. /\ out \in Seq(Blocks) /\ n \in Nat /\ \A i \in 1 .. n : out[i] \in Blocks
      /\ r[1] \in 0 .. CidrTop /\ last \in 0 .. CidrTop /\ CidrTop \in Nat /\ Width \in Nat
  BY RangeToCidrsTiles, RangeFacts, TopFacts DEF Tiles
<1>2. /\ \A i \in 1 .. n :
             /\ out[i].addr % Size(out[i]) = 0 /\ r[1] <= out[i].addr
             /\ out[i].addr + Size(out[i]) <= last + 1
             /\ \A j \in (Width - out[i].len) + 1 .. Width : ~Aligned(j, out[i].addr, last)
      /\ \A i, j \in 1 .. n : i < j => out[i].addr + Size(out[i]) <= out[j].addr
      /\ \A x \in r[1] .. last : \E i \in 1 .. n :
             x \in out[i].addr .. (out[i].addr + Size(out[i])) - 1
  BY RangeToCidrsTiles DEF Tiles
<1> HIDE DEF out, n, last
<1>3. ASSUME NEW i \in 1 .. n
      PROVE  /\ out[i].addr \in Nat /\ out[i].len \in 0 .. Width
             /\ Size(out[i]) \in Nat /\ Size(out[i]) > 0
             /\ Addresses(out[i]) = out[i].addr .. (out[i].addr + Size(out[i])) - 1
  <2>1. out[i] \in Blocks /\ out[i].addr % Size(out[i]) = 0
    BY <1>1, <1>2
  <2> QED  BY <1>1, <2>1, BlockFacts
<1>4. Union(out) = Span(r)
  <2>1. \A x : x \in Union(out) <=> \E i \in 1 .. n : x \in Addresses(out[i])
    BY <1>1, UnionFacts DEF n
  <2>2. ASSUME NEW i \in 1 .. n PROVE Addresses(out[i]) \subseteq r[1] .. last
    <3>1. r[1] <= out[i].addr /\ out[i].addr + Size(out[i]) <= last + 1
      BY <1>2
    <3>2. /\ out[i].addr \in Nat /\ Size(out[i]) \in Nat
          /\ Addresses(out[i]) = out[i].addr .. (out[i].addr + Size(out[i])) - 1
      BY <1>3
    <3> QED  BY <1>1, <3>1, <3>2
  <2>3. \A x \in r[1] .. last : \E i \in 1 .. n : x \in Addresses(out[i])
    BY <1>2, <1>3
  <2>4. Span(r) = r[1] .. last
    BY DEF Span, last
  <2> QED  BY <2>1, <2>2, <2>3, <2>4
<1>5. ASSUME NEW i \in 1 .. n, NEW j \in 1 .. n, i < j
      PROVE  <<out[i], out[j]>> \in ApartPairs
  <2> DEFINE b == out[i]
             c == out[j]
  <2>1. /\ b \in Blocks /\ c \in Blocks /\ b.addr + Size(b) <= c.addr
        /\ b.addr % Size(b) = 0 /\ c.addr % Size(c) = 0
        /\ b.addr \in Nat /\ c.addr \in Nat /\ Size(b) \in Nat /\ Size(b) > 0 /\ Size(c) \in Nat
        /\ Addresses(b) = b.addr .. (b.addr + Size(b)) - 1
        /\ Addresses(c) = c.addr .. (c.addr + Size(c)) - 1
        /\ b.len \in 0 .. Width
        /\ c.addr + Size(c) <= last + 1
        /\ \A k \in (Width - b.len) + 1 .. Width : ~Aligned(k, b.addr, last)
    BY <1>1, <1>2, <1>3, <1>5
  <2> HIDE DEF b, c
  <2>2. Addresses(b) \cap Addresses(c) = {}
    BY <2>1
  <2>3. ASSUME Siblings(b, c) \/ Siblings(c, b) PROVE FALSE
    <3>1. /\ b.len = c.len /\ b.len > 0 /\ c.addr = b.addr + Size(b)
          /\ b.addr % 2^((Width - b.len) + 1) = 0
      <4>1. b.addr < c.addr
        BY <2>1
      <4> QED  BY <2>1, <2>3, <4>1, SiblingsFacts
    <3> DEFINE k == (Width - b.len) + 1
    <3>2. k \in (Width - b.len) + 1 .. Width /\ Width - b.len \in Nat
      <4>1. Width \in Nat /\ b.len \in 0 .. Width /\ b.len > 0
        BY <1>1, <2>1, <3>1
      <4> QED  BY <4>1
    <3>3. 2^k = 2 * Size(b) /\ Size(c) = Size(b)
      BY <3>1, <3>2, PowerDoubles DEF Size
    <3>4. 2^k <= (last - b.addr) + 1
      <4>1. /\ last \in Nat /\ b.addr \in Nat /\ Size(b) \in Nat
            /\ c.addr = b.addr + Size(b) /\ c.addr + Size(b) <= last + 1
        BY <1>1, <2>1, <3>1, <3>3
      <4>2. 2 * Size(b) <= (last - b.addr) + 1
        BY <4>1
      <4> QED  BY <3>3, <4>2
    <3>5. Aligned(k, b.addr, last)
      BY <3>1, <3>4 DEF Aligned
    <3> QED  BY <2>1, <3>2, <3>5
  <2> QED  BY <2>1, <2>2, <2>3 DEF ApartPairs, KeptApart, b, c
<1>6. Exact(out, Span(r))
  BY <1>1, <1>2, <1>4, <1>5 DEF Exact, n
<1> QED  BY <1>6 DEF out

\* Blocks of ranges with a gap between them share nothing and are no halves.
LEMMA FarBlocks ==
    ASSUME NEW r \in RangeSet, NEW q \in RangeSet, Far(r, q), NEW b \in Blocks, NEW c \in Blocks,
           b.addr % Size(b) = 0, c.addr % Size(c) = 0,
           Addresses(b) \subseteq Span(r), Addresses(c) \subseteq Span(q)
    PROVE  <<b, c>> \in ApartPairs
<1>1. /\ r[1] \in 0 .. CidrTop /\ r[2] \in 0 .. CidrTop /\ q[1] \in 0 .. CidrTop /\ q[2] \in 0 .. CidrTop
      /\ CidrTop \in Nat
  BY RangeFacts, TopFacts
<1>2. /\ b.addr \in Nat /\ c.addr \in Nat /\ Size(b) \in Nat /\ Size(c) \in Nat /\ Size(b) > 0 /\ Size(c) > 0
      /\ Addresses(b) = b.addr .. (b.addr + Size(b)) - 1
      /\ Addresses(c) = c.addr .. (c.addr + Size(c)) - 1
  BY <1>1, BlockFacts
<1>3. /\ r[1] <= b.addr /\ (b.addr + Size(b)) - 1 <= r[2]
      /\ q[1] <= c.addr /\ (c.addr + Size(c)) - 1 <= q[2]
  <2>1. /\ b.addr \in Addresses(b) /\ (b.addr + Size(b)) - 1 \in Addresses(b)
        /\ c.addr \in Addresses(c) /\ (c.addr + Size(c)) - 1 \in Addresses(c)
    BY <1>2
  <2>2. /\ b.addr \in r[1] .. r[2] /\ (b.addr + Size(b)) - 1 \in r[1] .. r[2]
        /\ c.addr \in q[1] .. q[2] /\ (c.addr + Size(c)) - 1 \in q[1] .. q[2]
    BY <2>1 DEF Span
  <2> QED  BY <1>1, <2>2
<1>6. \/ (b.addr + Size(b)) - 1 < c.addr /\ c.addr # b.addr + Size(b)
      \/ (c.addr + Size(c)) - 1 < b.addr /\ b.addr # c.addr + Size(c)
  <2>3. b.addr \in Nat /\ c.addr \in Nat /\ Size(b) \in Nat /\ Size(c) \in Nat
    BY <1>2
  <2>4. r[1] \in Nat /\ r[2] \in Nat /\ q[1] \in Nat /\ q[2] \in Nat
    BY <1>1
  <2>1. CASE r[2] + 1 < q[1]
    <3>1. (b.addr + Size(b)) - 1 <= r[2] /\ q[1] <= c.addr
      BY <1>3
    <3> QED  BY <2>1, <2>3, <2>4, <3>1
  <2>2. CASE q[2] + 1 < r[1]
    <3>1. (c.addr + Size(c)) - 1 <= q[2] /\ r[1] <= b.addr
      BY <1>3
    <3> QED  BY <2>2, <2>3, <2>4, <3>1
  <2> QED  BY <2>1, <2>2 DEF Far
<1>4. Addresses(b) \cap Addresses(c) = {}
  BY <1>2, <1>6
<1>5. ASSUME Siblings(b, c) \/ Siblings(c, b) PROVE FALSE
  <2>1. CASE b.addr < c.addr
    <3>1. c.addr = b.addr + Size(b)
      BY <1>5, <2>1, SiblingsFacts
    <3> QED  BY <1>2, <1>6, <2>1, <3>1
  <2>2. CASE c.addr < b.addr
    <3>1. b.addr = c.addr + Size(c)
      BY <1>5, <2>2, SiblingsFacts
    <3> QED  BY <1>2, <1>6, <2>2, <3>1
  <2>3. b.addr # c.addr
    BY <1>2, <1>6
  <2> QED  BY <1>2, <2>1, <2>2, <2>3
<1> QED  BY <1>4, <1>5 DEF ApartPairs, KeptApart

\* Lists that are exact, of sets within ranges far from each other, put together.
LEMMA FlattenExact ==
    ASSUME NEW ss \in Seq(Seq(Blocks)), NEW rs \in Seq(RangeSet), Len(rs) = Len(ss), NEW S,
           \A i, j \in 1 .. Len(ss) : i < j => Far(rs[i], rs[j]),
           \A i \in 1 .. Len(ss) : Exact(ss[i], S[i]) /\ S[i] \subseteq Span(rs[i])
    PROVE  Exact(FlattenSeq(ss), UNION {S[i] : i \in 1 .. Len(ss)})
<1> DEFINE n == Len(ss)
           out == FlattenSeq(ss)
<1>1. n \in Nat /\ \A i \in 1 .. n : ss[i] \in Seq(Blocks) /\ rs[i] \in RangeSet
  OBVIOUS
<1>2. ASSUME NEW i \in 1 .. n, NEW a \in 1 .. Len(ss[i])
      PROVE  /\ ss[i][a] \in Blocks /\ ss[i][a].addr % Size(ss[i][a]) = 0
             /\ Addresses(ss[i][a]) \subseteq S[i]
  <2>1. ss[i] \in Seq(Blocks) /\ Union(ss[i]) = S[i] /\ ss[i][a].addr % Size(ss[i][a]) = 0
    BY DEF Exact
  <2> QED  BY <2>1, UnionFacts
<1>3. Ranked(ss, ApartPairs)
  <2>1. ASSUME NEW i \in 1 .. n, NEW a \in 1 .. Len(ss[i]), NEW b \in 1 .. Len(ss[i]), a < b
        PROVE  <<ss[i][a], ss[i][b]>> \in ApartPairs
    BY <2>1 DEF Exact
  <2>2. ASSUME NEW i \in 1 .. n, NEW j \in 1 .. n, i < j,
               NEW a \in 1 .. Len(ss[i]), NEW b \in 1 .. Len(ss[j])
        PROVE  <<ss[i][a], ss[j][b]>> \in ApartPairs
    <3>1. Addresses(ss[i][a]) \subseteq Span(rs[i]) /\ Addresses(ss[j][b]) \subseteq Span(rs[j])
      BY <1>2
    <3>2. rs[i] \in RangeSet /\ rs[j] \in RangeSet /\ Far(rs[i], rs[j])
      BY <1>1, <2>2
    <3> QED  BY <1>2, <3>1, <3>2, FarBlocks
  <2> QED  BY <2>1, <2>2 DEF Ranked
<1>4. FlatInv(out, ss, n, Blocks, ApartPairs)
  BY <1>3, FlattenFacts
<1> HIDE DEF out, n
<1>5. /\ out \in Seq(Blocks)
      /\ \A p \in 1 .. Len(out) : \E i \in 1 .. n : \E a \in 1 .. Len(ss[i]) : out[p] = ss[i][a]
      /\ \A i \in 1 .. n : \A a \in 1 .. Len(ss[i]) : \E p \in 1 .. Len(out) : out[p] = ss[i][a]
      /\ \A p, q \in 1 .. Len(out) : p < q => <<out[p], out[q]>> \in ApartPairs
  BY <1>4 DEF FlatInv
<1>6. ASSUME NEW p \in 1 .. Len(out) PROVE out[p].addr % Size(out[p]) = 0
  <2>1. PICK i \in 1 .. n : \E a \in 1 .. Len(ss[i]) : out[p] = ss[i][a]
    BY <1>5
  <2>2. PICK a \in 1 .. Len(ss[i]) : out[p] = ss[i][a]
    BY <2>1
  <2> QED  BY <1>2, <2>2
<1>7. Union(out) = UNION {S[i] : i \in 1 .. n}
  <2>1. \A x : x \in Union(out) <=> \E p \in 1 .. Len(out) : x \in Addresses(out[p])
    BY <1>5, UnionFacts
  <2>2. ASSUME NEW i \in 1 .. n, NEW x \in S[i] PROVE x \in Union(out)
    <3>1. ss[i] \in Seq(Blocks) /\ x \in Union(ss[i])
      BY DEF Exact, n
    <3>2. PICK a \in 1 .. Len(ss[i]) : x \in Addresses(ss[i][a])
      BY <3>1, UnionFacts
    <3> QED  BY <1>5, <2>1, <3>2
  <2>3. ASSUME NEW x \in Union(out) PROVE \E i \in 1 .. n : x \in S[i]
    <3>1. PICK p \in 1 .. Len(out) : x \in Addresses(out[p])
      BY <2>1
    <3>2. PICK i \in 1 .. n : \E a \in 1 .. Len(ss[i]) : out[p] = ss[i][a]
      BY <1>5
    <3>3. PICK a \in 1 .. Len(ss[i]) : out[p] = ss[i][a]
      BY <3>2
    <3> QED  BY <1>2, <3>1, <3>3
  <2> QED  BY <2>2, <2>3
<1>8. Exact(out, UNION {S[i] : i \in 1 .. n})
  BY <1>5, <1>6, <1>7 DEF Exact
<1> QED  BY <1>8 DEF out, n

-----------------------------------------------------------------------------
(* CidrSets: the pass list                                                   *)

LEMMA RangesFacts ==
    ASSUME NEW bs \in Seq(Blocks)
    PROVE  /\ Ranges(bs) \in Seq(RangeSet) /\ Len(Ranges(bs)) = Len(bs)
           /\ \A i \in 1 .. Len(bs) : Ranges(bs)[i] = ToRange(bs[i])
           /\ Covered(Ranges(bs)) = Union(bs)
<1> DEFINE rs == Ranges(bs)
           n == Len(bs)
<1>1. n \in Nat /\ DOMAIN bs = 1 .. n /\ \A i \in 1 .. n : bs[i] \in Blocks
  BY UnionFacts
<1>2. \A i \in 1 .. n : ToRange(bs[i]) \in RangeSet /\ Addresses(bs[i]) = Span(ToRange(bs[i]))
  BY <1>1, BlockRange
<1>3. rs = [i \in 1 .. n |-> ToRange(bs[i])]
  BY <1>1 DEF Ranges
<1>4. rs \in Seq(RangeSet) /\ Len(rs) = n /\ \A i \in 1 .. n : rs[i] = ToRange(bs[i])
  BY <1>1, <1>2, <1>3
<1> HIDE DEF rs, n
<1>5. Covered(rs) = Union(bs)
  <2>1. \A x : x \in Union(bs) <=> \E i \in 1 .. n : x \in Addresses(bs[i])
    BY UnionFacts DEF n
  <2>2. \A x : x \in Covered(rs) <=> \E i \in 1 .. n : x \in Span(rs[i])
    BY <1>4, CoveredFacts
  <2>3. \A i \in 1 .. n : Span(rs[i]) = Addresses(bs[i])
    BY <1>2, <1>4
  <2>4. \A x : x \in Covered(rs) <=> x \in Union(bs)
    BY <2>1, <2>2, <2>3
  <2> QED  BY <2>4
<1> QED  BY <1>4, <1>5 DEF rs, n

\* cidr_subtract: base without removed, in its canonical blocks.
LEMMA SubtractExact ==
    ASSUME NEW bs \in Seq(Blocks), NEW removed \in Seq(Blocks), Separate(bs)
    PROVE  Exact(CidrSubtract(bs, removed), Union(bs) \ Union(removed))
<1> DEFINE n == Len(bs)
           gone == MergeRanges(Ranges(removed))
           pieces == [i \in DOMAIN bs |-> SubtractFromRange(ToRange(bs[i]), gone)]
           parts(i) == [j \in DOMAIN pieces[i] |-> RangeToCidrs(pieces[i][j])]
           cidrs == [i \in DOMAIN bs |-> FlattenSeq(parts(i))]
           S == [i \in 1 .. n |-> Covered(pieces[i])]
<1>1. n \in Nat /\ DOMAIN bs = 1 .. n /\ \A i \in 1 .. n : bs[i] \in Blocks
  BY UnionFacts
<1>2. gone \in Seq(RangeSet) /\ Gapped(gone) /\ Covered(gone) = Union(removed)
  BY RangesFacts, MergeFacts
<1>3. CidrSubtract(bs, removed) = FlattenSeq(cidrs)
  BY DEF CidrSubtract
<1>4. cidrs = [i \in 1 .. n |-> FlattenSeq(parts(i))] /\ pieces = [i \in 1 .. n |-> SubtractFromRange(ToRange(bs[i]), gone)]
  BY <1>1
<1> HIDE DEF gone, n
<1>5. ASSUME NEW i \in 1 .. n
      PROVE  /\ ToRange(bs[i]) \in RangeSet /\ Addresses(bs[i]) = Span(ToRange(bs[i]))
             /\ pieces[i] \in Seq(RangeSet) /\ Gapped(pieces[i])
             /\ Covered(pieces[i]) = Span(ToRange(bs[i])) \ Union(removed)
  <2>1. ToRange(bs[i]) \in RangeSet /\ Addresses(bs[i]) = Span(ToRange(bs[i]))
    BY <1>1, BlockRange
  <2>2. pieces[i] = SubtractFromRange(ToRange(bs[i]), gone)
    BY <1>4
  <2> QED  BY <1>2, <2>1, <2>2, SubtractFacts
<1> HIDE DEF pieces
<1>6. ASSUME NEW i \in 1 .. n
      PROVE  Exact(FlattenSeq(parts(i)), Covered(pieces[i]))
  <2> DEFINE rs == pieces[i]
             m == Len(rs)
             ps == parts(i)
             C == [j \in 1 .. m |-> Span(rs[j])]
  <2>1. rs \in Seq(RangeSet) /\ Gapped(rs) /\ m \in Nat /\ DOMAIN rs = 1 .. m
        /\ \A j \in 1 .. m : rs[j] \in RangeSet
    BY <1>5, CoveredFacts
  <2>2. ps = [j \in 1 .. m |-> RangeToCidrs(rs[j])]
    BY <2>1
  <2> HIDE DEF rs, m, ps
  <2>3. \A j \in 1 .. m : Exact(RangeToCidrs(rs[j]), Span(rs[j]))
    BY <2>1, TilesExact
  <2>4. \A j \in 1 .. m : RangeToCidrs(rs[j]) \in Seq(Blocks)
    BY <2>3 DEF Exact
  <2>5. ps \in Seq(Seq(Blocks)) /\ Len(ps) = m /\ \A j \in 1 .. m : ps[j] = RangeToCidrs(rs[j])
    BY <2>1, <2>2, <2>4
  <2>6. \A j, k \in 1 .. m : j < k => Far(rs[j], rs[k])
    BY <2>1 DEF Gapped, Far
  <2>7. \A j \in 1 .. m : Exact(ps[j], C[j]) /\ C[j] \subseteq Span(rs[j])
    BY <2>3, <2>5
  <2>8. Covered(rs) = UNION {C[j] : j \in 1 .. m}
    BY <2>1 DEF Covered
  <2> HIDE DEF C
  <2>9. Exact(FlattenSeq(ps), UNION {C[j] : j \in 1 .. m})
    <3>1. ps \in Seq(Seq(Blocks)) /\ rs \in Seq(RangeSet) /\ Len(rs) = Len(ps)
      BY <2>1, <2>5 DEF m
    <3>2. \A k, j \in 1 .. Len(ps) : k < j => Far(rs[k], rs[j])
      BY <2>5, <2>6
    <3>3. \A j \in 1 .. Len(ps) : Exact(ps[j], C[j]) /\ C[j] \subseteq Span(rs[j])
      BY <2>5, <2>7
    <3>4. Exact(FlattenSeq(ps), UNION {C[j] : j \in 1 .. Len(ps)})
      BY <3>1, <3>2, <3>3, FlattenExact
    <3> QED  BY <2>5, <3>4
  <2> QED  BY <2>8, <2>9 DEF ps, rs
<1> DEFINE rs == [i \in 1 .. n |-> ToRange(bs[i])]
<1>7. rs \in Seq(RangeSet) /\ Len(rs) = n /\ \A i \in 1 .. n : rs[i] = ToRange(bs[i])
  BY <1>1, <1>5
<1> HIDE DEF rs, parts
<1>8. \A i \in 1 .. n : FlattenSeq(parts(i)) \in Seq(Blocks)
  BY <1>6 DEF Exact
<1>9. cidrs \in Seq(Seq(Blocks)) /\ Len(cidrs) = n /\ \A i \in 1 .. n : cidrs[i] = FlattenSeq(parts(i))
  BY <1>1, <1>4, <1>8
<1> HIDE DEF cidrs
<1>10. \A i, j \in 1 .. n : i < j => Far(rs[i], rs[j])
  <2> SUFFICES ASSUME NEW i \in 1 .. n, NEW j \in 1 .. n, i < j PROVE Far(rs[i], rs[j])
    OBVIOUS
  <2>1. i # j
    BY <1>1
  <2>2. Far(ToRange(bs[i]), ToRange(bs[j]))
    BY <1>1, <2>1 DEF Separate
  <2> QED  BY <1>7, <2>2
<1>11. \A i \in 1 .. n : Exact(cidrs[i], S[i]) /\ S[i] \subseteq Span(rs[i])
  BY <1>5, <1>6, <1>7, <1>9
<1>12. UNION {S[i] : i \in 1 .. n} = Union(bs) \ Union(removed)
  <2>1. \A x : x \in Union(bs) <=> \E i \in 1 .. n : x \in Addresses(bs[i])
    BY UnionFacts DEF n
  <2>2. \A i \in 1 .. n : S[i] = Addresses(bs[i]) \ Union(removed)
    BY <1>5
  <2> HIDE DEF S
  <2> QED  BY <2>1, <2>2
<1> HIDE DEF S
<1>13. Exact(FlattenSeq(cidrs), UNION {S[i] : i \in 1 .. n})
  <2>1. cidrs \in Seq(Seq(Blocks)) /\ rs \in Seq(RangeSet) /\ Len(rs) = Len(cidrs)
    BY <1>7, <1>9
  <2>2. \A i, j \in 1 .. Len(cidrs) : i < j => Far(rs[i], rs[j])
    BY <1>9, <1>10
  <2>3. \A i \in 1 .. Len(cidrs) : Exact(cidrs[i], S[i]) /\ S[i] \subseteq Span(rs[i])
    BY <1>9, <1>11
  <2>4. Exact(FlattenSeq(cidrs), UNION {S[i] : i \in 1 .. Len(cidrs)})
    BY <2>1, <2>2, <2>3, FlattenExact
  <2> QED  BY <1>9, <2>4
<1> QED  BY <1>3, <1>12, <1>13

LEMMA PassListFacts ==
    ASSUME CidrTypeOK
    PROVE  PassListIsExact
<1> DEFINE out == CidrSubtract(base, declared)
<1>1. base \in Seq(Blocks) /\ declared \in Seq(Blocks) /\ Separate(base)
  BY CidrAssumption, BaseAssumption DEF CidrTypeOK
<1>2. Exact(out, Union(base) \ Union(declared))
  BY <1>1, SubtractExact
<1> HIDE DEF out
<1>3. DOMAIN out = 1 .. Len(out) /\ Len(out) \in Nat
  BY <1>2 DEF Exact
<1>4. ASSUME NEW i \in DOMAIN out, NEW j \in DOMAIN out, i # j
      PROVE  Addresses(out[i]) \cap Addresses(out[j]) = {} /\ ~Siblings(out[i], out[j])
  <2>1. CASE i < j
    <3>1. KeptApart(out[i], out[j])
      BY <1>2, <1>3, <2>1 DEF Exact, ApartPairs
    <3> QED  BY <3>1 DEF KeptApart
  <2>2. CASE j < i
    <3>1. KeptApart(out[j], out[i])
      BY <1>2, <1>3, <2>2 DEF Exact, ApartPairs
    <3> QED  BY <3>1 DEF KeptApart
  <2> QED  BY <1>3, <1>4, <2>1, <2>2
<1>5. \A i \in DOMAIN out : out[i].addr % 2^(Width - out[i].len) = 0
  BY <1>2, <1>3 DEF Exact, Size
<1>6. Union(out) = Union(base) \ Union(declared)
  BY <1>2 DEF Exact
<1> QED  BY <1>4, <1>5, <1>6 DEF PassListIsExact, out

-----------------------------------------------------------------------------
(* CidrSets: routes                                                          *)

\* How far the first k ranges reach; -1 once an address before them all is in none.
ReachInv(e, s, k) ==
    /\ e \in -1 .. CidrTop
    /\ \/ e = -1 /\ k = 0
       \/ e >= 0 /\ \A x \in 0 .. CidrTop : x <= e <=> \E i \in 1 .. k : x \in Span(s[i])
       \/ e = -1 /\ k > 0 /\ \E x \in 0 .. CidrTop :
                                 x < s[k][1] /\ \A i \in 1 .. k : x \notin Span(s[i])

LEMMA ReachType ==
    ASSUME NEW e \in -1 .. CidrTop, NEW r \in RangeSet
    PROVE  Reach(e, r) \in -1 .. CidrTop
BY RangeFacts, TopFacts DEF Reach

LEMMA ReachStep ==
    ASSUME NEW s \in Seq(RangeSet), NEW k \in Nat, k + 1 \in 1 .. Len(s), NEW e, ReachInv(e, s, k),
           \A i, j \in 1 .. Len(s) : i <= j => s[i][1] <= s[j][1]
    PROVE  ReachInv(Reach(e, s[k + 1]), s, k + 1)
<1> DEFINE r == s[k + 1]
           new == Reach(e, r)
           In(x, m) == \E i \in 1 .. m : x \in Span(s[i])
<1>1. s[k + 1] \in RangeSet /\ e \in -1 .. CidrTop /\ CidrTop \in Nat
  BY TopFacts DEF ReachInv
<1>2. r[1] \in 0 .. CidrTop /\ r[2] \in 0 .. CidrTop /\ r[1] <= r[2]
  BY <1>1, RangeFacts
<1>3. \A x : In(x, k + 1) <=> In(x, k) \/ x \in Span(r)
  <2>1. \A i \in 1 .. k + 1 : i \in 1 .. k \/ i = k + 1
    OBVIOUS
  <2>2. (\A i \in 1 .. k : i \in 1 .. k + 1) /\ k + 1 \in 1 .. k + 1
    OBVIOUS
  <2> QED  BY <2>1, <2>2
<1> HIDE DEF r, In
<1>4. new = IF r[1] > Next1(e) THEN -1 ELSE IF r[2] > e THEN r[2] ELSE e
  BY DEF Reach
<1>5. new \in -1 .. CidrTop
  BY <1>1, ReachType DEF r
<1> HIDE DEF new
<1>6. Next1(e) = IF e = CidrTop THEN e ELSE e + 1
  BY DEF Next1
<1>7. ASSUME e >= 0, \A x \in 0 .. CidrTop : x <= e <=> In(x, k)
      PROVE  \/ new >= 0 /\ \A x \in 0 .. CidrTop : x <= new <=> In(x, k + 1)
             \/ new = -1 /\ \E x \in 0 .. CidrTop : x < r[1] /\ ~In(x, k + 1)
  <2>1. CASE r[1] > Next1(e)
    <3>1. new = -1 /\ e + 1 \in 0 .. CidrTop /\ e + 1 < r[1] /\ ~(e + 1 <= e)
      BY <1>1, <1>2, <1>4, <1>6, <1>7, <2>1
    <3>2. e + 1 \notin Span(r)
      BY <1>2, <3>1 DEF Span
    <3> QED  BY <1>3, <1>7, <3>1, <3>2
  <2>2. CASE ~(r[1] > Next1(e))
    <3>1. new >= 0 /\ r[1] <= e + 1 /\ new = IF r[2] > e THEN r[2] ELSE e
      BY <1>1, <1>2, <1>4, <1>6, <1>7, <2>2
    <3>2. \A x \in 0 .. CidrTop : x <= new <=> x <= e \/ x \in Span(r)
      BY <1>1, <1>2, <3>1 DEF Span
    <3> QED  BY <1>3, <1>7, <3>1, <3>2
  <2> QED  BY <2>1, <2>2
<1>8. ASSUME e = -1, k = 0
      PROVE  \/ new >= 0 /\ \A x \in 0 .. CidrTop : x <= new <=> In(x, k + 1)
             \/ new = -1 /\ \E x \in 0 .. CidrTop : x < r[1] /\ ~In(x, k + 1)
  <2>1. \A x : ~In(x, k)
    BY <1>8 DEF In
  <2>2. CASE r[1] > 0
    <3>1. new = -1 /\ 0 \in 0 .. CidrTop /\ 0 \notin Span(r)
      BY <1>1, <1>2, <1>4, <1>6, <1>8, <2>2 DEF Span
    <3> QED  BY <1>3, <2>1, <2>2, <3>1
  <2>3. CASE ~(r[1] > 0)
    <3>1. new = r[2] /\ r[1] = 0
      BY <1>1, <1>2, <1>4, <1>6, <1>8, <2>3
    <3>2. \A x \in 0 .. CidrTop : x <= r[2] <=> x \in Span(r)
      BY <1>2, <3>1 DEF Span
    <3> QED  BY <1>2, <1>3, <2>1, <3>1, <3>2
  <2> QED  BY <2>2, <2>3
<1>9. ASSUME e = -1, k > 0, NEW x \in 0 .. CidrTop, x < s[k][1], ~In(x, k)
      PROVE  new = -1 /\ \E y \in 0 .. CidrTop : y < r[1] /\ ~In(y, k + 1)
  <2>1. s[k][1] <= r[1] /\ s[k][1] \in 0 .. CidrTop
    <3>1. k \in 1 .. Len(s) /\ k <= k + 1
      BY <1>9
    <3>2. s[k] \in RangeSet
      BY <3>1
    <3> QED  BY <3>1, <3>2, RangeFacts DEF r
  <2>2. x < r[1]
    BY <1>2, <1>9, <2>1
  <2>3. new = -1 /\ x \notin Span(r)
    BY <1>1, <1>2, <1>4, <1>6, <1>9, <2>2 DEF Span
  <2> QED  BY <1>3, <1>9, <2>2, <2>3
<1>10. \/ e = -1 /\ k = 0
       \/ e >= 0 /\ \A x \in 0 .. CidrTop : x <= e <=> In(x, k)
       \/ e = -1 /\ k > 0 /\ \E x \in 0 .. CidrTop : x < s[k][1] /\ ~In(x, k)
  BY DEF ReachInv, In
<1>11. \/ new >= 0 /\ \A x \in 0 .. CidrTop : x <= new <=> In(x, k + 1)
       \/ new = -1 /\ k + 1 > 0 /\ \E x \in 0 .. CidrTop : x < r[1] /\ ~In(x, k + 1)
  BY <1>7, <1>8, <1>9, <1>10
<1> QED  BY <1>5, <1>11 DEF ReachInv, In, new, r

\* covers_full_u32 reaches the last address exactly when nothing is left out.
LEMMA CoversFacts ==
    ASSUME NEW rs \in Seq(RangeSet)
    PROVE  CoversFull(rs) <=> Covered(rs) = 0 .. CidrTop
<1> DEFINE n == Len(rs)
           s == SortRanges(rs)
           Far1 == -1 .. CidrTop
           Eq(g) == g = [k \in 0 .. n |-> IF k = 0 THEN -1 ELSE Reach(g[k - 1], s[k])]
           c == CHOOSE g : Eq(g)
           F == [a \in Far1 \X (1 .. n) |-> Reach(a[1], s[a[2]])]
<1>1. /\ n \in Nat /\ s \in Seq(RangeSet) /\ Len(s) = n
      /\ \A i, j \in 1 .. Len(s) : i <= j => s[i][1] <= s[j][1]
  BY SortFacts
<1>2. \A x : x \in Covered(rs) <=> \E i \in 1 .. n : x \in Span(s[i])
  <2>1. \A x : x \in Covered(rs) <=> \E i \in 1 .. n : x \in Span(rs[i])
    BY CoveredFacts
  <2>2. /\ \A i \in 1 .. n : \E k \in 1 .. n : s[i] = rs[k]
        /\ \A k \in 1 .. n : \E i \in 1 .. n : s[i] = rs[k]
    BY SortFacts
  <2> HIDE DEF s, n
  <2> QED  BY <2>1, <2>2
<1>3. CoversFull(rs) <=> c[n] = CidrTop
  BY DEF CoversFull
<1> HIDE DEF n, s
<1>4. -1 \in Far1 /\ CidrTop \in Nat /\ \A k \in 1 .. n : s[k] \in RangeSet
  BY <1>1, TopFacts
<1>5. \A e \in Far1 : \A k \in 1 .. n : F[<<e, k>>] = Reach(e, s[k]) /\ F[<<e, k>>] \in Far1
  <2> TAKE e \in Far1
  <2> TAKE k \in 1 .. n
  <2>1. F[<<e, k>>] = Reach(e, s[k])
    OBVIOUS
  <2> HIDE DEF F
  <2> QED  BY <1>4, <2>1, ReachType
<1> HIDE DEF F, Far1
<1>6. PICK f \in [0 .. n -> Far1] : FoldsFrom(f, F, n, -1)
  <2>1. Stays(F, n, Far1)
    BY <1>5 DEF Stays
  <2> QED  BY <1>1, <1>4, <2>1, FoldExists
<1>7. \A k \in 1 .. n : k - 1 \in 0 .. n /\ k \in 0 .. n
  BY <1>1
<1>8. /\ f[0] = -1
      /\ \A k \in 1 .. n : f[k] = Reach(f[k - 1], s[k])
  <2>1. \A k \in 1 .. n : f[k - 1] \in Far1
    BY <1>6, <1>7
  <2> QED  BY <1>5, <1>6, <2>1 DEF FoldsFrom
<1>9. Eq(f)
  <2>1. \A k \in 0 .. n : k # 0 => k \in 1 .. n
    BY <1>1
  <2>2. \A k \in 0 .. n : f[k] = IF k = 0 THEN -1 ELSE Reach(f[k - 1], s[k])
    BY <1>8, <2>1
  <2> QED  BY <1>6, <2>2
<1>10. Eq(c)
  <2> HIDE DEF Eq
  <2> QED  BY <1>9
<1> HIDE DEF c
<1>11. /\ c[0] = -1
       /\ \A k \in 1 .. n : c[k] = Reach(c[k - 1], s[k])
  <2>1. 0 \in 0 .. n /\ \A k \in 1 .. n : k \in 0 .. n /\ k # 0
    BY <1>1
  <2> QED  BY <1>10, <2>1
<1> DEFINE T == {k \in 0 .. n : ReachInv(c[k], s, k)}
<1>12. 0 \in T
  <2>1. ReachInv(-1, s, 0) /\ 0 \in 0 .. n
    BY <1>1, <1>4 DEF ReachInv, Far1
  <2> QED  BY <1>11, <2>1
<1>13. ASSUME NEW k \in 0 .. n, k < n, k \in T PROVE k + 1 \in T
  <2>1. k \in Nat /\ k + 1 \in 1 .. n /\ k + 1 \in 0 .. n /\ (k + 1) - 1 = k
    BY <1>1, <1>13
  <2>2. c[k + 1] = Reach(c[k], s[k + 1])
    BY <1>11, <2>1
  <2>3. ReachInv(c[k], s, k)
    BY <1>13
  <2>4. ReachInv(Reach(c[k], s[k + 1]), s, k + 1)
    BY <1>1, <2>1, <2>3, ReachStep
  <2> QED  BY <2>1, <2>2, <2>4
<1>14. T = 0 .. n
  <2>1. T \subseteq 0 .. n
    OBVIOUS
  <2> HIDE DEF T
  <2> QED  BY <1>1, <1>12, <1>13, <2>1, UpTo
<1> DEFINE e == c[n]
<1>15. ReachInv(e, s, n)
  <2>1. n \in 0 .. n
    BY <1>1
  <2> QED  BY <1>14, <2>1
<1> HIDE DEF e
<1>16. Covered(rs) \subseteq 0 .. CidrTop
  <2>1. ASSUME NEW i \in 1 .. n PROVE Span(s[i]) \subseteq 0 .. CidrTop
    <3>1. s[i] \in RangeSet
      BY <1>4
    <3>2. s[i][1] \in 0 .. CidrTop /\ s[i][2] \in 0 .. CidrTop
      BY <3>1, RangeFacts
    <3> QED  BY <1>4, <3>2 DEF Span
  <2> QED  BY <1>2, <2>1
<1>17. e = CidrTop <=> Covered(rs) = 0 .. CidrTop
  <2>1. 0 \in 0 .. CidrTop /\ CidrTop \in 0 .. CidrTop /\ -1 # CidrTop
    BY <1>4
  <2>2. CASE e = -1 /\ n = 0
    <3>1. 0 \notin Covered(rs)
      BY <1>2, <2>2
    <3> QED  BY <2>1, <2>2, <3>1
  <2>3. CASE e >= 0 /\ \A x \in 0 .. CidrTop : x <= e <=> \E i \in 1 .. n : x \in Span(s[i])
    <3>1. \A x \in 0 .. CidrTop : x <= e <=> x \in Covered(rs)
      BY <1>2, <2>3
    <3>2. e \in -1 .. CidrTop
      BY <1>15 DEF ReachInv
    <3>3. e = CidrTop <=> \A x \in 0 .. CidrTop : x <= e
      BY <1>4, <2>1, <2>3, <3>2
    <3> QED  BY <1>16, <3>1, <3>3
  <2>4. CASE e = -1 /\ \E x \in 0 .. CidrTop : \A i \in 1 .. n : x \notin Span(s[i])
    BY <1>2, <2>1, <2>4
  <2> QED  BY <1>15, <2>2, <2>3, <2>4 DEF ReachInv
<1> QED  BY <1>3, <1>17 DEF e

LEMMA RoutesFacts ==
    ASSUME CidrTypeOK
    PROVE  RoutesAreSets
<1>1. base \in Seq(Blocks) /\ declared \in Seq(Blocks) /\ CidrTop \in Nat
  BY CidrAssumption, TopFacts DEF CidrTypeOK
<1>2. CoversFull(Ranges(declared)) <=> Union(declared) = 0 .. CidrTop
  BY <1>1, RangesFacts, CoversFacts
<1>3. \A x : x \in Union(declared) <=> \E i \in DOMAIN declared : x \in Addresses(declared[i])
  BY DEF Union
<1>4. \A i \in DOMAIN declared : declared[i] \in Blocks
  BY <1>1
<1>5. Union(declared) \subseteq 0 .. CidrTop
  BY <1>3 DEF Addresses
<1>6. ASSUME NEW i \in DOMAIN declared, declared[i].len = 0
      PROVE  Union(declared) = 0 .. CidrTop
  <2> DEFINE b == declared[i]
  <2>1. b \in Blocks
    BY <1>4
  <2>2. 2^(Width - b.len) = CidrTop + 1
    <3>1. Width - b.len = Width
      BY <1>6, TopFacts
    <3> QED  BY <3>1, TopFacts
  <2>3. /\ ToRange(b) \in RangeSet /\ Addresses(b) = Span(ToRange(b))
        /\ ToRange(b)[2] = ToRange(b)[1] + (CidrTop + 1) - 1
    BY <2>1, <2>2, BlockRange
  <2> HIDE DEF b
  <2>4. ToRange(b)[1] \in 0 .. CidrTop /\ ToRange(b)[2] \in 0 .. CidrTop
    BY <2>3, RangeFacts
  <2>5. ToRange(b)[1] = 0 /\ ToRange(b)[2] = CidrTop
    BY <1>1, <2>3, <2>4
  <2>6. Addresses(b) = 0 .. CidrTop
    BY <2>3, <2>5 DEF Span
  <2> QED  BY <1>3, <1>5, <2>6 DEF b
<1>7. ClaimsDefaultRoute(declared) <=> Union(declared) = 0 .. CidrTop
  BY <1>2, <1>6 DEF ClaimsDefaultRoute
<1>8. {b \in Blocks : \E i \in DOMAIN declared : Intersects(b, declared[i])}
        = {b \in Blocks : Addresses(b) \cap Union(declared) # {}}
  <2>1. ASSUME NEW b \in Blocks
        PROVE  (\E i \in DOMAIN declared : Intersects(b, declared[i]))
                 <=> Addresses(b) \cap Union(declared) # {}
    <3>1. \A i \in DOMAIN declared :
              Intersects(b, declared[i]) <=> Addresses(b) \cap Addresses(declared[i]) # {}
      BY <1>4, IntersectsIsSharing
    <3> QED  BY <1>3, <3>1
  <2> QED  BY <2>1
<1>9. OverlappingCidrs(base, declared)
        = Filtered(base, {b \in Blocks : Addresses(b) \cap Union(declared) # {}})
  BY <1>8 DEF OverlappingCidrs
<1> QED  BY <1>7, <1>9 DEF RoutesAreSets

\* The base is one of the code's lists, and what the tunnels declare are blocks
\* (cidr_subtract and claims_default_route_v4 take lists of valid Cidr values).
THEOREM CidrTypeCorrect == CidrSpec => []CidrTypeOK
<1>1. CidrInit => CidrTypeOK
  BY DEF CidrInit, CidrTypeOK
<1>2. CidrTypeOK /\ [Declare]_cidrVars => CidrTypeOK'
  <2>1. CASE Declare
    BY <2>1 DEF Declare, CidrTypeOK
  <2>2. CASE UNCHANGED cidrVars
    BY <2>2 DEF cidrVars, CidrTypeOK
  <2> QED  BY <2>1, <2>2
<1> QED  BY <1>1, <1>2, PTL DEF CidrSpec

\* Whatever is declared, and in whatever order, a set of routes is taken for a
\* default route exactly when it covers every address, and a block is reported
\* as overlapping exactly when it shares an address (claims_default_route_v4,
\* overlapping_cidrs).
THEOREM RoutesAreSetsHolds == CidrSpec => []RoutesAreSets
<1>1. CidrTypeOK => RoutesAreSets
  BY RoutesFacts
<1> QED  BY <1>1, CidrTypeCorrect, PTL

\* On addresses of any width the list of private networks let through is exactly
\* the base without what is declared, in its canonical blocks, and the tests of
\* the conflict gates are set arithmetic (cidr_subtract, claims_default_route_v4,
\* overlapping_cidrs).
THEOREM CidrsAreSetsHolds == CidrSpec => []CidrsAreSets
<1>1. CidrTypeOK => CidrsAreSets
  BY RoutesFacts, PassListFacts DEF CidrsAreSets
<1> QED  BY <1>1, CidrTypeCorrect, PTL
=============================================================================
