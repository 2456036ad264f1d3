------------------------- MODULE VortixApp_proofs -------------------------
(* What holds of the control plane for any catalogue, any retry budget, any  *)
(* number of commands and every fault: types, the worker behind each         *)
(* Connecting entry, and the teardown behind a queued connect.               *)
EXTENDS VortixApp, FiniteSetTheorems, TLAPS

-----------------------------------------------------------------------------
(* The profiles are numbers, so a set of them has a first *)

\* Least is well defined: the profiles are well ordered by their id.
LEMMA LeastExists ==
  ASSUME NEW S \in SUBSET Nat, S # {}
  PROVE  \E m \in S : \A q \in S : m <= q
<1> DEFINE Below == {0..m : m \in S}
<1>1. Below # {} /\ Below \subseteq FiniteSubsetsOf(Nat)
  <2>1. \A m \in S : 0..m \in SUBSET Nat /\ IsFiniteSet(0..m)
    BY FS_Interval
  <2> QED
    BY <2>1 DEF FiniteSubsetsOf
<1>2. PICK B \in Below : \A C \in Below : ~(<<C, B>> \in StrictSubsetOrdering(Nat))
  <2> HIDE DEF Below
  <2> QED
    BY <1>1, FS_StrictSubsetOrderingWellFounded, WFMin
<1>3. PICK m \in S : B = 0..m
  OBVIOUS
<1>4. ASSUME NEW q \in S, q < m PROVE FALSE
  <2>1. 0..q \in Below /\ 0..q \subseteq 0..m /\ 0..q # 0..m
    BY <1>4
  <2>2. 0..q \in SUBSET Nat /\ 0..m \in SUBSET Nat
    OBVIOUS
  <2> QED
    BY <1>2, <1>3, <2>1, <2>2 DEF StrictSubsetOrdering
<1> QED
  BY <1>4

LEMMA LeastIsIn ==
  ASSUME NEW S \in SUBSET Profiles, S # {}
  PROVE  Least(S) \in S
<1>1. S \in SUBSET Nat
  BY AppAssumption DEF AppAssumption, Profiles
<1>2. \E m \in S : \A q \in S : m <= q
  BY <1>1, LeastExists
<1> QED
  BY <1>2 DEF Least

\* legacy_state shows an entry of the registry, or none.
LEMMA LegacyIsProfile ==
  ASSUME NEW c, NEW pr \in Profiles \cup {None}
  PROVE  LegacyProfile(c, pr) \in Profiles \cup {None}
<1>1. Active(c) \in SUBSET Profiles
  BY DEF Active
<1> QED
  BY <1>1, LeastIsIn DEF LegacyProfile

LEMMA LegacyShown ==
  ASSUME NEW c, NEW pr \in Profiles \cup {None}, NEW state, Legacy(c, pr, state)
  PROVE  LegacyProfile(c, pr) \in Profiles /\ c[LegacyProfile(c, pr)] = state
  BY LegacyIsProfile DEF Legacy

-----------------------------------------------------------------------------
(* Type correctness *)

LEMMA FirstAttempt == 1 \in Attempts
  BY AppAssumption DEF AppAssumption, Attempts

LEMMA Constants == None \notin Profiles /\ Profiles \subseteq Nat
  BY AppAssumption DEF AppAssumption, None, Profiles

LEMMA RetryRecords ==
  NoRetry \in Retries /\ [n |-> 1, auto |-> TRUE] \in Retries
  BY FirstAttempt DEF NoRetry, Retries

LEMMA ScanRecords ==
  /\ NoScan \in Scans
  /\ NoSync \in Dispatches
  BY DEF NoScan, NoSync, Scans, Dispatches, ConnStates

LEMMA ConnectTyped ==
  ASSUME NEW c \in [Profiles -> ConnStates], NEW pr \in Profiles \cup {None},
         NEW q \in Profiles, NEW forced, Connect(c, pr, q, forced),
         jobs \in [Profiles -> [JobKinds -> Nat]], overlay \in Profiles \cup {None}
  PROVE  /\ conn' \in [Profiles -> ConnStates]
         /\ primary' \in Profiles \cup {None}
         /\ jobs' \in [Profiles -> [JobKinds -> Nat]]
         /\ overlay' \in Profiles \cup {None}
  BY DEF Connect, ConnStates, JobKinds

LEMMA RecomputeTyped ==
  ASSUME NEW c, NEW r \in Profiles \cup {None}
  PROVE  Recompute(c, r) \in Profiles \cup {None}
  BY DEF Recompute

LEMMA UpdateTyped ==
  ASSUME conn \in [Profiles -> ConnStates], NEW p, NEW s \in ConnStates
  PROVE  Update(p, s) \in [Profiles -> ConnStates]
  BY DEF Update

LEMMA FinishTyped ==
  ASSUME jobs \in [Profiles -> [JobKinds -> Nat]], NEW p \in Profiles, NEW kind \in JobKinds,
         NEW result, Finish(p, kind, result)
  PROVE  jobs' \in [Profiles -> [JobKinds -> Nat]]
  BY DEF Finish

\* One more down worker for each profile of S.
LEMMA MoreDownTyped ==
  ASSUME jobs \in [Profiles -> [JobKinds -> Nat]], NEW S
  PROVE  [p \in Profiles |-> IF p \in S THEN [jobs[p] EXCEPT !.down = @ + 1] ELSE jobs[p]]
            \in [Profiles -> [JobKinds -> Nat]]
<1>1. ASSUME NEW p \in Profiles PROVE [jobs[p] EXCEPT !.down = @ + 1] \in [JobKinds -> Nat]
  <2>1. jobs[p] \in [JobKinds -> Nat]
    OBVIOUS
  <2>2. "down" \in JobKinds
    BY DEF JobKinds
  <2> QED
    BY <2>1, <2>2
<1> QED
  BY <1>1

LEMMA DownedTyped ==
  ASSUME NEW k \in KernelStates PROVE Downed(k) \subseteq KernelStates
  BY DEF Downed, KernelStates

LEMMA CleanupTyped ==
  ASSUME kernel \in [Profiles -> KernelStates], NEW p \in Profiles, Cleanup(p)
  PROVE  kernel' \in [Profiles -> KernelStates]
  BY DownedTyped DEF Cleanup

LEMMA DisconnectTyped ==
  ASSUME TypeOK, NEW S, Disconnect(S)
  PROVE  /\ conn' \in [Profiles -> ConnStates]
         /\ primary' \in Profiles \cup {None}
         /\ jobs' \in [Profiles -> [JobKinds -> Nat]]
         /\ retry' \in [Profiles -> Retries]
         /\ scan' \in Scans
<1> USE DEF TypeOK
<1>1. conn' \in [Profiles -> ConnStates]
  BY DEF Disconnect, ConnStates
<1>2. primary' \in Profiles \cup {None}
  BY RecomputeTyped DEF Disconnect
<1>3. jobs' \in [Profiles -> [JobKinds -> Nat]]
  BY MoreDownTyped DEF Disconnect
<1>4. retry' \in [Profiles -> Retries] /\ scan' \in Scans
  BY RetryRecords, ScanRecords DEF Disconnect
<1> QED
  BY <1>1, <1>2, <1>3, <1>4

LEMMA AdvanceTyped ==
  ASSUME NEW rest \in Dispatches, Advance(rest)
  PROVE  sync' \in Dispatches
  BY ScanRecords DEF Advance

LEMMA EntryDoneTyped ==
  ASSUME sync \in Dispatches, NEW p, EntryDone(p)
  PROVE  sync' \in Dispatches
<1>1. [sync EXCEPT !.todo = @ \ {p}] \in Dispatches
  BY DEF Dispatches
<1> QED
  BY <1>1, AdvanceTyped DEF EntryDone

LEMMA EventTyped ==
  ASSUME env \in 0..MaxEnv, NEW kind, Event(kind)
  PROVE  env' \in 0..MaxEnv
  BY AppAssumption DEF AppAssumption, Event

LEMMA CommandTyped ==
  ASSUME user \in 0..MaxUser, NEW key, Command(key)
  PROVE  user' \in 0..MaxUser
  BY AppAssumption DEF AppAssumption, Command

LEMMA TypeInit == Init => TypeOK
  BY RetryRecords, ScanRecords, AppAssumption
  DEF Init, TypeOK, ConnStates, KernelStates, JobKinds, AppAssumption

\* One step per handler: a handler's helpers have been typed above.
LEMMA TypeStep == TypeOK /\ [Next]_vars => TypeOK'
<1> SUFFICES ASSUME TypeOK, [Next]_vars PROVE TypeOK'
  OBVIOUS
<1> USE DEF TypeOK
<1>1. ASSUME NEW p \in Profiles, Toggle(p) PROVE TypeOK'
  <2>1. UNCHANGED <<route, kernel, sync, timers, last, env>> /\ user' \in 0..MaxUser
    BY <1>1, CommandTyped DEF Toggle, AtKeyboard
  <2>2. CASE conn[p] = "connected"
    <3>1. Disconnect({p}) /\ UNCHANGED <<pending, overlay>>
      BY <1>1, <2>2 DEF Toggle
    <3> QED
      BY <2>1, <3>1, DisconnectTyped
  <2>3. CASE conn[p] # "connected"
    <3>1. retry' \in [Profiles -> Retries] /\ scan' = scan
      BY <1>1, <2>3, RetryRecords DEF Toggle
    <3>2. CASE UNCHANGED <<conn, primary, jobs>> /\ pending' \in {p, pending} /\ overlay' \in {p, overlay}
      BY <2>1, <2>3, <3>1, <3>2
    <3>3. CASE Connect(conn, primary, p, FALSE) /\ UNCHANGED pending
      BY <2>1, <2>3, <3>1, <3>3, ConnectTyped
    <3> QED
      BY <1>1, <2>3, <3>2, <3>3 DEF Toggle
  <2> QED
    BY <2>2, <2>3
<1>2. ASSUME NEW p \in Profiles, DisconnectProfile(p) PROVE TypeOK'
  BY <1>2, DisconnectTyped, CommandTyped DEF DisconnectProfile, AtKeyboard
<1>3. ASSUME DisconnectLegacy PROVE TypeOK'
  <2>1. UNCHANGED <<route, kernel, sync, timers, pending, overlay, last, env>> /\ user' \in 0..MaxUser
    BY <1>3, CommandTyped DEF DisconnectLegacy, AtKeyboard
  <2>2. CASE Disconnect(LegacyTarget)
    BY <2>1, <2>2, DisconnectTyped
  <2>3. CASE ~Disconnect(LegacyTarget)
    <3>1. /\ scan' = NoScan /\ primary' = Recompute(conn, route) /\ UNCHANGED <<conn, retry>>
          /\ jobs' = [p \in Profiles |->
                IF p \in LegacyTarget THEN [jobs[p] EXCEPT !.down = @ + 1] ELSE jobs[p]]
      BY <1>3, <2>3 DEF DisconnectLegacy
    <3>2. jobs' \in [Profiles -> [JobKinds -> Nat]]
      BY <3>1, MoreDownTyped
    <3> QED
      BY <2>1, <3>1, <3>2, ScanRecords, RecomputeTyped
  <2> QED
    BY <2>2, <2>3
<1>4. ASSUME DisconnectAll PROVE TypeOK'
  BY <1>4, DisconnectTyped, CommandTyped DEF DisconnectAll, AtKeyboard
<1>5. ASSUME NEW p \in Profiles, CancelConnect(p) PROVE TypeOK'
  <2>1. conn' \in [Profiles -> ConnStates] /\ primary' \in Profiles \cup {None}
    BY <1>5, UpdateTyped, RecomputeTyped DEF CancelConnect, ConnStates
  <2> QED
    BY <1>5, <2>1, CommandTyped DEF CancelConnect, AtKeyboard
<1>6. ASSUME Reconnect PROVE TypeOK'
  <2>1. UNCHANGED <<route, kernel, sync, timers, last, env>> /\ user' \in 0..MaxUser
    BY <1>6, CommandTyped DEF Reconnect, AtKeyboard
  <2>2. CASE pending' = LegacyProfile(conn, primary) /\ Disconnect(LegacyTarget) /\ UNCHANGED overlay
    BY <2>1, <2>2, DisconnectTyped, LegacyIsProfile
  <2>3. CASE last # None /\ Connect(conn, primary, last, FALSE) /\ UNCHANGED <<pending, retry, scan>>
    BY <2>1, <2>3, ConnectTyped
  <2> QED
    BY <1>6, <2>2, <2>3 DEF Reconnect
<1>7. ASSUME ConfirmTakeover PROVE TypeOK'
  BY <1>7, ConnectTyped, CommandTyped DEF ConfirmTakeover
<1>8. ASSUME SwitchExclusive PROVE TypeOK'
  BY <1>8, DisconnectTyped, CommandTyped DEF SwitchExclusive
<1>9. ASSUME Dismiss PROVE TypeOK'
  BY <1>9 DEF Dismiss
<1>10. ASSUME NEW p \in Profiles, UpWorker(p) PROVE TypeOK'
  <2>1. jobs' \in [Profiles -> [JobKinds -> Nat]]
    BY <1>10, FinishTyped DEF UpWorker, UpSucceeds, UpFails, JobKinds
  <2>2. kernel' \in [Profiles -> KernelStates]
    BY <1>10 DEF UpWorker, UpSucceeds, UpFails, KernelStates
  <2> QED
    BY <1>10, <2>1, <2>2 DEF UpWorker, UpSucceeds, UpFails, Registry
<1>11. ASSUME NEW p \in Profiles, DownWorker(p) PROVE TypeOK'
  <2>1. jobs' \in [Profiles -> [JobKinds -> Nat]]
    BY <1>11, FinishTyped DEF DownWorker, JobKinds
  <2>2. kernel' \in [Profiles -> KernelStates]
    BY <1>11, DownedTyped DEF DownWorker
  <2> QED
    BY <1>11, <2>1, <2>2 DEF DownWorker, Registry
<1>12. ASSUME NEW p \in Profiles, Exits(p) PROVE TypeOK'
  BY <1>12 DEF Exits, Registry, KernelStates
<1>13. ASSUME NEW p \in Profiles, ConnectSucceeded(p) PROVE TypeOK'
  <2>1. jobs' \in [Profiles -> [JobKinds -> Nat]]
    BY <1>13, FinishTyped DEF ConnectSucceeded, Deliver, JobKinds
  <2>2. conn' \in [Profiles -> ConnStates] /\ primary' \in Profiles \cup {None}
    BY <1>13, UpdateTyped, RecomputeTyped DEF ConnectSucceeded, ConnStates
  <2>3. retry' \in [Profiles -> Retries] /\ last' \in Profiles \cup {None}
    BY <1>13, RetryRecords DEF ConnectSucceeded
  <2> QED
    BY <1>13, <2>1, <2>2, <2>3 DEF ConnectSucceeded
<1>14. ASSUME NEW p \in Profiles, ConnectFailed(p) PROVE TypeOK'
  <2>1. jobs' \in [Profiles -> [JobKinds -> Nat]]
    BY <1>14, FinishTyped DEF ConnectFailed, Deliver, JobKinds
  <2>2. conn' \in [Profiles -> ConnStates] /\ primary' \in Profiles \cup {None}
    BY <1>14, UpdateTyped, RecomputeTyped DEF ConnectFailed, ConnStates
  <2>3. kernel' \in [Profiles -> KernelStates]
    BY <1>14, CleanupTyped DEF ConnectFailed
  <2>4. retry' \in [Profiles -> Retries] /\ timers' \in [Profiles -> [Attempts -> Nat]]
    <3> DEFINE next == retry[p].n + 1
    <3>1. next \in Nat /\ next >= 1
      <4>1. retry[p] \in Retries
        OBVIOUS
      <4>2. retry[p].n \in {0} \cup Attempts
        BY <4>1 DEF Retries
      <4> QED
        BY <4>2 DEF Attempts
    <3>2. next <= MaxRetries => next \in Attempts
      BY <3>1, AppAssumption DEF AppAssumption, Attempts
    <3>3. next <= MaxRetries => [retry EXCEPT ![p].n = next] \in [Profiles -> Retries]
      BY <3>2 DEF Retries
    <3>4. next <= MaxRetries =>
            [timers EXCEPT ![p][next] = @ + 1] \in [Profiles -> [Attempts -> Nat]]
      BY <3>2
    <3> QED
      BY <1>14, <3>3, <3>4, RetryRecords DEF ConnectFailed
  <2> QED
    BY <1>14, <2>1, <2>2, <2>3, <2>4 DEF ConnectFailed
<1>15. ASSUME NEW p \in Profiles, NEW a \in Attempts, RetryConnect(p, a) PROVE TypeOK'
  <2>1. timers' \in [Profiles -> [Attempts -> Nat]]
    BY <1>15 DEF RetryConnect
  <2>2. UNCHANGED <<route, kernel, scan, sync, pending, last, user, env>>
    BY <1>15 DEF RetryConnect
  <2>3. CASE UNCHANGED <<conn, primary, jobs, overlay>> /\ retry' \in {retry, [retry EXCEPT ![p] = NoRetry]}
    BY <2>1, <2>2, <2>3, RetryRecords
  <2>4. CASE Connect(conn, primary, p, FALSE) /\ UNCHANGED retry
    BY <2>1, <2>2, <2>4, ConnectTyped
  <2> QED
    BY <1>15, <2>3, <2>4 DEF RetryConnect
<1>16. ASSUME ConnectTimeout PROVE TypeOK'
  <2>1. LegacyProfile(conn, primary) \in Profiles
    BY <1>16, LegacyShown DEF ConnectTimeout
  <2>2. conn' \in [Profiles -> ConnStates] /\ primary' \in Profiles \cup {None}
    BY <1>16, UpdateTyped, RecomputeTyped DEF ConnectTimeout, ConnStates
  <2>3. kernel' \in [Profiles -> KernelStates] /\ retry' \in [Profiles -> Retries]
    BY <1>16, <2>1, CleanupTyped, RetryRecords DEF ConnectTimeout
  <2> QED
    BY <1>16, <2>2, <2>3, EventTyped DEF ConnectTimeout
<1>17. ASSUME TakeScan PROVE TypeOK'
  <2>1. scan' \in Scans
    <3>1. PICK r \in {None} \cup {p \in DefaultRoute : kernel[p] # "off"} :
            scan' = [taken |-> TRUE, sessions |-> Sessions, route |-> r]
      BY <1>17 DEF TakeScan
    <3>2. r \in Profiles \cup {None} /\ Sessions \in SUBSET Profiles
      BY AppAssumption DEF AppAssumption, Sessions
    <3> QED
      BY <3>1, <3>2 DEF Scans
  <2> QED
    BY <1>17, <2>1 DEF TakeScan
<1>18. ASSUME BeginSync PROVE TypeOK'
  <2> DEFINE known == {p \in Profiles : conn[p] # "absent"}
             new   == [todo |-> known, adopt |-> scan.sessions \ known,
                       seen |-> scan.sessions, snap |-> conn]
  <2>1. new \in Dispatches /\ scan.route \in Profiles \cup {None}
    BY DEF Dispatches, Scans
  <2>2. sync' \in Dispatches /\ route' \in Profiles \cup {None} /\ scan' \in Scans
    BY <1>18, <2>1, ScanRecords DEF BeginSync
  <2> QED
    BY <1>18, <2>2 DEF BeginSync
<1>19. ASSUME NEW p \in Profiles, SyncComplete(p) PROVE TypeOK'
  <2> DEFINE c  == Update(p, "absent")
             pr == Recompute(c, route)
  <2>1. c \in [Profiles -> ConnStates] /\ pr \in Profiles \cup {None}
    BY UpdateTyped, RecomputeTyped DEF ConnStates
  <2>2. sync' \in Dispatches /\ scan' \in Scans /\ pending' \in Profiles \cup {None}
    BY <1>19, EntryDoneTyped, ScanRecords DEF SyncComplete
  <2>3. UNCHANGED <<route, kernel, retry, timers, last, user, env>>
    BY <1>19 DEF SyncComplete
  <2>4. CASE pending # None /\ Connect(c, pr, pending, FALSE)
    <3> HIDE DEF c, pr
    <3> QED
      BY <2>1, <2>2, <2>3, <2>4, ConnectTyped
  <2>5. CASE conn' = c /\ primary' = pr /\ UNCHANGED <<jobs, overlay>>
    BY <2>1, <2>2, <2>3, <2>5
  <2> QED
    BY <1>19, <2>4, <2>5 DEF SyncComplete
<1>20. ASSUME NEW p \in Profiles, SyncForce(p) PROVE TypeOK'
  <2>1. conn' \in [Profiles -> ConnStates] /\ primary' \in Profiles \cup {None}
    BY <1>20, UpdateTyped, RecomputeTyped DEF SyncForce, ConnStates
  <2>2. sync' \in Dispatches /\ kernel' \in [Profiles -> KernelStates]
    BY <1>20, EntryDoneTyped, CleanupTyped DEF SyncForce
  <2> QED
    BY <1>20, <2>1, <2>2 DEF SyncForce
<1>21. ASSUME NEW p \in Profiles, SyncRefresh(p) PROVE TypeOK'
  <2>1. sync' \in Dispatches /\ primary' \in Profiles \cup {None}
    BY <1>21, EntryDoneTyped, RecomputeTyped DEF SyncRefresh
  <2> QED
    BY <1>21, <2>1 DEF SyncRefresh
<1>22. ASSUME NEW p \in Profiles, SyncDrop(p) PROVE TypeOK'
  <2>1. conn' \in [Profiles -> ConnStates] /\ primary' \in Profiles \cup {None}
    BY <1>22, UpdateTyped, RecomputeTyped DEF SyncDrop, ConnStates
  <2>2. sync' \in Dispatches
    BY <1>22, EntryDoneTyped DEF SyncDrop
  <2>3. retry' \in [Profiles -> Retries]
    BY <1>22, RetryRecords DEF SyncDrop
  <2>4. timers' \in [Profiles -> [Attempts -> Nat]]
    <3>1. [timers EXCEPT ![p][1] = @ + 1] \in [Profiles -> [Attempts -> Nat]]
      BY FirstAttempt
    <3> QED
      BY <1>22, <3>1 DEF SyncDrop
  <2> QED
    BY <1>22, <2>1, <2>2, <2>3, <2>4 DEF SyncDrop
<1>23. ASSUME NEW p \in Profiles, SyncSkip(p) PROVE TypeOK'
  BY <1>23, EntryDoneTyped DEF SyncSkip
<1>24. ASSUME NEW p \in Profiles, SyncAdopt(p) PROVE TypeOK'
  <2>1. [sync EXCEPT !.adopt = @ \ {p}] \in Dispatches
    BY DEF Dispatches
  <2>2. sync' \in Dispatches
    BY <1>24, <2>1, AdvanceTyped DEF SyncAdopt
  <2>3. conn' \in [Profiles -> ConnStates] /\ primary' \in Profiles \cup {None}
    BY <1>24, UpdateTyped, RecomputeTyped DEF SyncAdopt, ConnStates
  <2> QED
    BY <1>24, <2>2, <2>3 DEF SyncAdopt
<1>25. ASSUME NEW p \in Profiles, TunnelDrops(p) \/ ExternalUp(p) PROVE TypeOK'
  BY <1>25, EventTyped DEF TunnelDrops, ExternalUp, Registry, KernelStates
<1>26. ASSUME NetworkChanged PROVE TypeOK'
  <2>1. retry' \in [Profiles -> Retries]
    BY <1>26, RetryRecords DEF NetworkChanged
  <2>2. timers' \in [Profiles -> [Attempts -> Nat]]
    <3>1. \A p \in Profiles : [timers[p] EXCEPT ![1] = @ + 1] \in [Attempts -> Nat]
      BY FirstAttempt
    <3> QED
      BY <1>26, <3>1 DEF NetworkChanged
  <2> QED
    BY <1>26, <2>1, <2>2, EventTyped DEF NetworkChanged
<1>27. CASE UNCHANGED vars
  BY <1>27 DEF vars
<1> QED
  BY <1>1, <1>2, <1>3, <1>4, <1>5, <1>6, <1>7, <1>8, <1>9, <1>10, <1>11, <1>12, <1>13,
     <1>14, <1>15, <1>16, <1>17, <1>18, <1>19, <1>20, <1>21, <1>22, <1>23, <1>24, <1>25,
     <1>26, <1>27
  DEF Next, UserStep, WorkerStep, MessageStep, ScannerStep, OutsideStep, SyncStep

\* Every handler, worker and fault keeps the types; in particular a retry
\* attempt never exceeds connect_max_retries, and no job count goes negative.
THEOREM TypeCorrect == Spec => []TypeOK
  BY TypeInit, TypeStep, PTL DEF Spec

-----------------------------------------------------------------------------
(* The worker behind a Connecting entry *)

\* What will end an attempt of profile p: running workers and their results.
Attempting(p) == jobs[p].up + jobs[p].upOk + jobs[p].upErr

LEMMA AttemptingCounts ==
  ASSUME TypeOK, NEW p \in Profiles
  PROVE  /\ \A k \in JobKinds : jobs[p][k] \in Nat
         /\ Attempting(p) \in Nat
  BY DEF TypeOK, Attempting, JobKinds

\* A handler that neither starts nor ends a worker and sets no entry Connecting.
LEMMA NoNewAttempt ==
  ASSUME ConnectingHasJob,
         \A p \in Profiles : conn'[p] = "connecting" => conn[p] = "connecting",
         \A p \in Profiles : Attempting(p)' = Attempting(p)
  PROVE  ConnectingHasJob'
  BY DEF ConnectingHasJob, Attempting

LEMMA UpdateStarts ==
  ASSUME TypeOK, NEW q, NEW s, s # "connecting"
  PROVE  \A p \in Profiles : Update(q, s)[p] = "connecting" => conn[p] = "connecting"
  BY DEF TypeOK, Update

LEMMA JobsKept ==
  ASSUME UNCHANGED jobs
  PROVE  \A p \in Profiles : Attempting(p)' = Attempting(p)
  BY DEF Attempting

LEMMA DisconnectKeepsJobs ==
  ASSUME TypeOK, ConnectingHasJob, NEW S, Disconnect(S)
  PROVE  ConnectingHasJob'
<1>1. \A p \in Profiles : conn'[p] = "connecting" => conn[p] = "connecting"
  BY DEF Disconnect
<1>2. \A p \in Profiles : Attempting(p)' = Attempting(p)
  BY DEF Disconnect, Attempting, TypeOK, JobKinds
<1> QED
  BY <1>1, <1>2, NoNewAttempt

LEMMA ConnectHasJob ==
  ASSUME TypeOK, ConnectingHasJob, NEW c \in [Profiles -> ConnStates], NEW pr,
         NEW q \in Profiles, NEW forced, Connect(c, pr, q, forced),
         \A p \in Profiles : c[p] = "connecting" => conn[p] = "connecting"
  PROVE  ConnectingHasJob'
<1>1. CASE conn' = c /\ jobs' = jobs
  BY <1>1, NoNewAttempt, JobsKept
<1>2. CASE /\ conn' = [c EXCEPT ![q] = "connecting"]
           /\ jobs' = [jobs EXCEPT ![q].up = @ + 1]
  <2>1. \A p \in Profiles \ {q} : conn'[p] = c[p] /\ jobs'[p] = jobs[p]
    BY <1>2 DEF TypeOK
  <2>2. jobs'[q] = [jobs[q] EXCEPT !.up = @ + 1]
    BY <1>2 DEF TypeOK
  <2>3. Attempting(q)' > 0
    BY <2>2, AttemptingCounts DEF Attempting, JobKinds, TypeOK
  <2> QED
    BY <2>1, <2>3 DEF ConnectingHasJob, Attempting
<1> QED
  BY <1>1, <1>2 DEF Connect

\* A delivered result takes one job away from an entry that is Connecting no
\* longer; a finished worker turns one job into another.
LEMMA FinishKeepsJobs ==
  ASSUME TypeOK, ConnectingHasJob, NEW q \in Profiles, NEW kind \in JobKinds, NEW result,
         Finish(q, kind, result),
         \A p \in Profiles : conn'[p] = "connecting" => conn[p] = "connecting",
         \/ conn'[q] # "connecting"
         \/ kind = "up" /\ result \in {"upOk", "upErr"}
         \/ kind = "down"
  PROVE  ConnectingHasJob'
<1>1. \A p \in Profiles \ {q} : jobs'[p] = jobs[p]
  BY DEF Finish, TypeOK
<1>2. \A p \in Profiles \ {q} : conn'[p] = "connecting" => Attempting(p)' > 0
  BY <1>1 DEF ConnectingHasJob, Attempting
<1>3. jobs'[q] = [k \in JobKinds |-> IF k = kind THEN jobs[q][k] - 1
                                     ELSE IF k = result THEN jobs[q][k] + 1 ELSE jobs[q][k]]
  BY DEF Finish, TypeOK, JobKinds
<1>4. CASE kind = "up" /\ result \in {"upOk", "upErr"}
  BY <1>3, <1>4, <1>2, AttemptingCounts DEF ConnectingHasJob, Attempting, JobKinds
<1>5. CASE kind = "down"
  <2>1. Attempting(q)' >= Attempting(q)
    BY <1>3, <1>5, AttemptingCounts DEF Attempting, JobKinds
  <2>2. conn[q] = "connecting" => Attempting(q) > 0
    BY DEF ConnectingHasJob, Attempting
  <2>3. Attempting(q) \in Nat /\ (Attempting(q)' >= Attempting(q) /\ Attempting(q) > 0
                                    => Attempting(q)' > 0)
    BY <1>3, <1>5, AttemptingCounts DEF Attempting, JobKinds
  <2> QED
    BY <1>2, <2>1, <2>2, <2>3 DEF ConnectingHasJob, Attempting
<1>6. CASE conn'[q] # "connecting"
  BY <1>2, <1>6 DEF ConnectingHasJob, Attempting
<1> QED
  BY <1>4, <1>5, <1>6

LEMMA HasJobStep == TypeOK /\ ConnectingHasJob /\ [Next]_vars => ConnectingHasJob'
<1> SUFFICES ASSUME TypeOK, ConnectingHasJob, [Next]_vars PROVE ConnectingHasJob'
  OBVIOUS
<1>0. conn \in [Profiles -> ConnStates]
  BY DEF TypeOK
<1>1. ASSUME UNCHANGED <<conn, jobs>> PROVE ConnectingHasJob'
  BY <1>1 DEF ConnectingHasJob
<1>2. ASSUME NEW S, Disconnect(S) PROVE ConnectingHasJob'
  BY <1>2, DisconnectKeepsJobs
<1>3. ASSUME NEW q \in Profiles, NEW forced, Connect(conn, primary, q, forced)
      PROVE  ConnectingHasJob'
  BY <1>0, <1>3, ConnectHasJob
<1>4. ASSUME NEW q, NEW s, s # "connecting", conn' = Update(q, s), UNCHANGED jobs
      PROVE  ConnectingHasJob'
  BY <1>4, UpdateStarts, JobsKept, NoNewAttempt
<1>5. ASSUME NEW p \in Profiles, Toggle(p) PROVE ConnectingHasJob'
  <2>1. \/ UNCHANGED <<conn, jobs>> \/ Disconnect({p}) \/ Connect(conn, primary, p, FALSE)
    BY <1>5 DEF Toggle
  <2> QED
    BY <1>1, <1>2, <1>3, <2>1
<1>6. ASSUME NEW p \in Profiles, DisconnectProfile(p) PROVE ConnectingHasJob'
  BY <1>2, <1>6 DEF DisconnectProfile
<1>7. ASSUME DisconnectLegacy PROVE ConnectingHasJob'
  <2>1. CASE Disconnect(LegacyTarget)
    BY <1>2, <2>1
  <2>2. CASE ~Disconnect(LegacyTarget)
    <3>1. /\ UNCHANGED conn
          /\ jobs' = [p \in Profiles |->
                IF p \in LegacyTarget THEN [jobs[p] EXCEPT !.down = @ + 1] ELSE jobs[p]]
      BY <1>7, <2>2 DEF DisconnectLegacy
    <3>2. \A p \in Profiles : Attempting(p)' = Attempting(p)
      BY <3>1 DEF Attempting, TypeOK, JobKinds
    <3> QED
      BY <3>1, <3>2, NoNewAttempt
  <2> QED
    BY <2>1, <2>2
<1>8. ASSUME DisconnectAll PROVE ConnectingHasJob'
  BY <1>2, <1>8 DEF DisconnectAll
<1>9. ASSUME NEW p \in Profiles, CancelConnect(p) PROVE ConnectingHasJob'
  BY <1>4, <1>9 DEF CancelConnect
<1>10. ASSUME Reconnect PROVE ConnectingHasJob'
  <2>1. \/ Disconnect(LegacyTarget)
        \/ last # None /\ Connect(conn, primary, last, FALSE)
    BY <1>10 DEF Reconnect
  <2>2. last # None => last \in Profiles
    BY DEF TypeOK
  <2> QED
    BY <1>2, <1>3, <2>1, <2>2
<1>11. ASSUME ConfirmTakeover PROVE ConnectingHasJob'
  <2>1. overlay \in Profiles /\ Connect(conn, primary, overlay, TRUE)
    BY <1>11 DEF ConfirmTakeover, TypeOK
  <2> QED
    BY <1>3, <2>1
<1>12. ASSUME SwitchExclusive PROVE ConnectingHasJob'
  BY <1>1, <1>2, <1>12 DEF SwitchExclusive
<1>13. ASSUME NEW p \in Profiles, UpWorker(p) PROVE ConnectingHasJob'
  <2>1. /\ Finish(p, "up", "upOk") \/ Finish(p, "up", "upErr")
        /\ UNCHANGED conn
    BY <1>13 DEF UpWorker, UpSucceeds, UpFails, Registry
  <2> QED
    BY <2>1, FinishKeepsJobs DEF JobKinds
<1>14. ASSUME NEW p \in Profiles, DownWorker(p) PROVE ConnectingHasJob'
  <2>1. Finish(p, "down", "none") /\ UNCHANGED conn
    BY <1>14 DEF DownWorker, Registry
  <2> QED
    BY <2>1, FinishKeepsJobs DEF JobKinds
<1>15. ASSUME NEW p \in Profiles, ConnectSucceeded(p) PROVE ConnectingHasJob'
  <2>1. Finish(p, "upOk", "none")
    BY <1>15 DEF ConnectSucceeded, Deliver
  <2>2. \/ UNCHANGED conn /\ conn[p] # "connecting"
        \/ conn' = Update(p, "connected")
    BY <1>15 DEF ConnectSucceeded, Relevant
  <2>3. \A q \in Profiles : conn'[q] = "connecting" => conn[q] = "connecting"
    BY <2>2, UpdateStarts
  <2>4. conn'[p] # "connecting"
    BY <1>0, <2>2 DEF Update
  <2> QED
    BY <2>1, <2>3, <2>4, FinishKeepsJobs DEF JobKinds
<1>16. ASSUME NEW p \in Profiles, ConnectFailed(p) PROVE ConnectingHasJob'
  <2>1. Finish(p, "upErr", "none")
    BY <1>16 DEF ConnectFailed, Deliver
  <2>2. \/ UNCHANGED conn /\ conn[p] # "connecting"
        \/ conn' = Update(p, "marker")
    BY <1>16 DEF ConnectFailed, Relevant
  <2>3. \A q \in Profiles : conn'[q] = "connecting" => conn[q] = "connecting"
    BY <2>2, UpdateStarts
  <2>4. conn'[p] # "connecting"
    BY <1>0, <2>2 DEF Update
  <2> QED
    BY <2>1, <2>3, <2>4, FinishKeepsJobs DEF JobKinds
<1>17. ASSUME NEW p \in Profiles, NEW a \in Attempts, RetryConnect(p, a) PROVE ConnectingHasJob'
  <2>1. UNCHANGED <<conn, jobs>> \/ Connect(conn, primary, p, FALSE)
    BY <1>17 DEF RetryConnect
  <2> QED
    BY <1>1, <1>3, <2>1
<1>18. ASSUME ConnectTimeout PROVE ConnectingHasJob'
  BY <1>4, <1>18 DEF ConnectTimeout
<1>19. ASSUME NEW p \in Profiles, SyncComplete(p) PROVE ConnectingHasJob'
  <2> DEFINE c  == Update(p, "absent")
             pr == Recompute(c, route)
  <2>1. CASE pending # None /\ Connect(c, pr, pending, FALSE)
    <3>1. c \in [Profiles -> ConnStates] /\ pending \in Profiles
      BY <1>0, <2>1, UpdateTyped DEF TypeOK, ConnStates
    <3>2. \A q \in Profiles : c[q] = "connecting" => conn[q] = "connecting"
      BY UpdateStarts
    <3> HIDE DEF c, pr
    <3> QED
      BY <2>1, <3>1, <3>2, ConnectHasJob
  <2>2. CASE conn' = c /\ UNCHANGED jobs
    BY <1>4, <2>2
  <2> QED
    BY <1>19, <2>1, <2>2 DEF SyncComplete
<1>20. ASSUME NEW p \in Profiles, SyncForce(p) \/ SyncDrop(p) \/ SyncAdopt(p)
       PROVE  ConnectingHasJob'
  BY <1>4, <1>20 DEF SyncForce, SyncDrop, SyncAdopt
<1>21. ASSUME NEW p \in Profiles,
              \/ Exits(p) \/ SyncRefresh(p) \/ SyncSkip(p) \/ TunnelDrops(p) \/ ExternalUp(p)
       PROVE  ConnectingHasJob'
  BY <1>1, <1>21 DEF Exits, SyncRefresh, SyncSkip, TunnelDrops, ExternalUp, Registry
<1>22. ASSUME Dismiss \/ TakeScan \/ BeginSync \/ NetworkChanged \/ UNCHANGED vars
       PROVE  ConnectingHasJob'
  BY <1>1, <1>22 DEF Dismiss, TakeScan, BeginSync, NetworkChanged, vars
<1> QED
  BY <1>5, <1>6, <1>7, <1>8, <1>9, <1>10, <1>11, <1>12, <1>13, <1>14, <1>15, <1>16, <1>17,
     <1>18, <1>19, <1>20, <1>21, <1>22
  DEF Next, UserStep, WorkerStep, MessageStep, ScannerStep, OutsideStep, SyncStep

\* Through every interleaving of keys, results, timeouts, adoptions and drops,
\* an entry that shows Connecting has an attempt that will end it.
THEOREM ConnectingHasJobHolds == Spec => []ConnectingHasJob
<1>1. Init => ConnectingHasJob
  BY DEF Init, ConnectingHasJob
<1> QED
  BY <1>1, TypeInit, TypeStep, HasJobStep, PTL DEF Spec

-----------------------------------------------------------------------------
(* Takeovers *)

\* What NoSilentTakeover says of a step: nothing that goes for the default
\* route starts beside another such tunnel, except the profile of the dialog.
NoRival == \A p \in DefaultRoute : jobs'[p].up > jobs[p].up /\ overlay # p
               => \A q \in DefaultRoute \ {p} : conn'[q] \notin {"connected", "connecting"}

LEMMA NothingStarts ==
  ASSUME TypeOK, \A p \in Profiles : jobs'[p].up \in {jobs[p].up, jobs[p].up - 1}
  PROVE  NoRival
<1>1. \A p \in Profiles : jobs[p].up \in Nat
  BY AttemptingCounts DEF JobKinds
<1>2. \A p \in DefaultRoute : ~(jobs'[p].up > jobs[p].up)
  BY <1>1, AppAssumption DEF AppAssumption
<1> QED
  BY <1>2 DEF NoRival

LEMMA DisconnectStartsNothing ==
  ASSUME TypeOK, NEW S, Disconnect(S)
  PROVE  NoRival
<1>1. \A p \in Profiles : jobs'[p].up = jobs[p].up
  BY DEF Disconnect, TypeOK, JobKinds
<1> QED
  BY <1>1, NothingStarts

LEMMA FinishStartsNothing ==
  ASSUME TypeOK, NEW q \in Profiles, NEW kind \in JobKinds, NEW result, result # "up",
         Finish(q, kind, result)
  PROVE  NoRival
<1>1. \A p \in Profiles \ {q} : jobs'[p] = jobs[p]
  BY DEF Finish, TypeOK
<1>2. jobs'[q].up \in {jobs[q].up, jobs[q].up - 1}
  BY DEF Finish, TypeOK, JobKinds
<1>3. \A p \in Profiles : jobs'[p].up \in {jobs[p].up, jobs[p].up - 1}
  BY <1>1, <1>2
<1> QED
  BY <1>3, NothingStarts

\* detect_conflict, or the dialog, stands before every start.
LEMMA ConnectHasNoRival ==
  ASSUME TypeOK, NEW c \in [Profiles -> ConnStates], NEW pr, NEW q \in Profiles,
         NEW forced, Connect(c, pr, q, forced), forced => overlay = q
  PROVE  NoRival
<1>1. CASE jobs' = jobs
  BY <1>1, NothingStarts
<1>2. CASE /\ forced \/ ~Conflict(c, q)
           /\ conn' = [c EXCEPT ![q] = "connecting"]
           /\ jobs' = [jobs EXCEPT ![q].up = @ + 1]
  <2>1. \A p \in Profiles \ {q} : jobs'[p] = jobs[p] /\ conn'[p] = c[p]
    BY <1>2 DEF TypeOK
  <2>2. \A p \in Profiles \ {q} : ~(jobs'[p].up > jobs[p].up)
    BY <2>1, AttemptingCounts DEF JobKinds
  <2>3. ASSUME q \in DefaultRoute, overlay # q
        PROVE  \A r \in DefaultRoute \ {q} : conn'[r] \notin {"connected", "connecting"}
    BY <1>2, <2>1, <2>3, AppAssumption DEF AppAssumption, Conflict
  <2> QED
    BY <2>2, <2>3, AppAssumption DEF AppAssumption, NoRival
<1> QED
  BY <1>1, <1>2 DEF Connect

LEMMA NoRivalStep == TypeOK /\ [Next]_vars => [NoRival]_vars
<1> SUFFICES ASSUME TypeOK, Next PROVE NoRival
  OBVIOUS
<1>0. conn \in [Profiles -> ConnStates]
  BY DEF TypeOK
<1>1. ASSUME UNCHANGED jobs PROVE NoRival
  BY <1>1, NothingStarts
<1>2. ASSUME NEW S, Disconnect(S) PROVE NoRival
  BY <1>2, DisconnectStartsNothing
<1>3. ASSUME NEW q \in Profiles, Connect(conn, primary, q, FALSE) PROVE NoRival
  BY <1>0, <1>3, ConnectHasNoRival
<1>4. ASSUME NEW p \in Profiles, Toggle(p) PROVE NoRival
  <2>1. \/ UNCHANGED jobs \/ Disconnect({p}) \/ Connect(conn, primary, p, FALSE)
    BY <1>4 DEF Toggle
  <2> QED
    BY <1>1, <1>2, <1>3, <2>1
<1>5. ASSUME NEW p \in Profiles, DisconnectProfile(p) \/ CancelConnect(p) PROVE NoRival
  BY <1>1, <1>2, <1>5 DEF DisconnectProfile, CancelConnect
<1>6. ASSUME DisconnectLegacy PROVE NoRival
  <2>1. CASE Disconnect(LegacyTarget)
    BY <1>2, <2>1
  <2>2. CASE jobs' = [p \in Profiles |->
                IF p \in LegacyTarget THEN [jobs[p] EXCEPT !.down = @ + 1] ELSE jobs[p]]
    <3>1. \A p \in Profiles : jobs'[p].up = jobs[p].up
      BY <2>2 DEF TypeOK, JobKinds
    <3> QED
      BY <3>1, NothingStarts
  <2> QED
    BY <1>6, <2>1, <2>2 DEF DisconnectLegacy
<1>7. ASSUME DisconnectAll PROVE NoRival
  BY <1>2, <1>7 DEF DisconnectAll
<1>8. ASSUME Reconnect PROVE NoRival
  <2>1. \/ Disconnect(LegacyTarget)
        \/ last # None /\ Connect(conn, primary, last, FALSE)
    BY <1>8 DEF Reconnect
  <2>2. last # None => last \in Profiles
    BY DEF TypeOK
  <2> QED
    BY <1>2, <1>3, <2>1, <2>2
<1>9. ASSUME ConfirmTakeover PROVE NoRival
  <2>1. overlay \in Profiles /\ Connect(conn, primary, overlay, TRUE)
    BY <1>9 DEF ConfirmTakeover, TypeOK
  <2> QED
    BY <1>0, <2>1, ConnectHasNoRival
<1>10. ASSUME SwitchExclusive PROVE NoRival
  BY <1>1, <1>2, <1>10 DEF SwitchExclusive
<1>11. ASSUME NEW p \in Profiles, UpWorker(p) \/ DownWorker(p) PROVE NoRival
  BY <1>11, FinishStartsNothing DEF UpWorker, UpSucceeds, UpFails, DownWorker, JobKinds
<1>12. ASSUME NEW p \in Profiles, ConnectSucceeded(p) \/ ConnectFailed(p) PROVE NoRival
  BY <1>12, FinishStartsNothing DEF ConnectSucceeded, ConnectFailed, Deliver, JobKinds
<1>13. ASSUME NEW p \in Profiles, NEW a \in Attempts, RetryConnect(p, a) PROVE NoRival
  BY <1>1, <1>3, <1>13 DEF RetryConnect
<1>14. ASSUME NEW p \in Profiles, SyncComplete(p) PROVE NoRival
  <2> DEFINE c  == Update(p, "absent")
             pr == Recompute(c, route)
  <2>1. CASE pending # None /\ Connect(c, pr, pending, FALSE)
    <3>1. c \in [Profiles -> ConnStates] /\ pending \in Profiles
      BY <1>0, <2>1, UpdateTyped DEF TypeOK, ConnStates
    <3> HIDE DEF c, pr
    <3> QED
      BY <2>1, <3>1, ConnectHasNoRival
  <2>2. CASE UNCHANGED jobs
    BY <1>1, <2>2
  <2> QED
    BY <1>14, <2>1, <2>2 DEF SyncComplete
<1>15. ASSUME NEW p \in Profiles,
              \/ SyncForce(p) \/ SyncDrop(p) \/ SyncAdopt(p) \/ SyncRefresh(p) \/ SyncSkip(p)
              \/ Exits(p) \/ TunnelDrops(p) \/ ExternalUp(p)
       PROVE  NoRival
  BY <1>1, <1>15
  DEF SyncForce, SyncDrop, SyncAdopt, SyncRefresh, SyncSkip, Exits, TunnelDrops, ExternalUp
<1>16. ASSUME Dismiss \/ ConnectTimeout \/ TakeScan \/ BeginSync \/ NetworkChanged PROVE NoRival
  BY <1>1, <1>16 DEF Dismiss, ConnectTimeout, TakeScan, BeginSync, NetworkChanged
<1> QED
  BY <1>4, <1>5, <1>6, <1>7, <1>8, <1>9, <1>10, <1>11, <1>12, <1>13, <1>14, <1>15, <1>16
  DEF Next, UserStep, WorkerStep, MessageStep, ScannerStep, OutsideStep, SyncStep

\* Keys, the queue, retries and reconnects alike: a second default route comes
\* up only by the takeover dialog.
THEOREM NoSilentTakeoverHolds == Spec => NoSilentTakeover
<1>1. TypeOK /\ [Next]_vars => [NoRival]_vars
  BY NoRivalStep
<1> QED
  BY <1>1, TypeInit, TypeStep, PTL DEF Spec, NoSilentTakeover, NoRival

-----------------------------------------------------------------------------
(* The primary *)

LEMMA RecomputedIsUp ==
  ASSUME primary' = Recompute(conn', route) PROVE PrimaryIsUp'
  BY DEF PrimaryIsUp, Recompute

\* Starting a connect keeps the primary up, whichever profile is started.
LEMMA ConnectKeepsPrimary ==
  ASSUME NEW c \in [Profiles -> ConnStates], NEW pr, NEW q \in Profiles, NEW forced,
         Connect(c, pr, q, forced), pr # None => c[pr] \in {"connected", "connecting"}
  PROVE  PrimaryIsUp'
<1>1. primary' = pr /\ (conn' = c \/ conn' = [c EXCEPT ![q] = "connecting"])
  BY DEF Connect
<1>2. CASE conn' = c
  BY <1>1, <1>2 DEF PrimaryIsUp
<1>3. CASE conn' = [c EXCEPT ![q] = "connecting"]
  <2>1. conn'[q] = "connecting" /\ \A p : p # q => conn'[p] = c[p]
    BY <1>3
  <2> QED
    BY <1>1, <2>1 DEF PrimaryIsUp
<1> QED
  BY <1>1, <1>2, <1>3

LEMMA PrimaryStep == TypeOK /\ PrimaryIsUp /\ [Next]_vars => PrimaryIsUp'
<1> SUFFICES ASSUME TypeOK, PrimaryIsUp, [Next]_vars PROVE PrimaryIsUp'
  OBVIOUS
<1>0. conn \in [Profiles -> ConnStates]
  BY DEF TypeOK
<1>1. ASSUME UNCHANGED <<conn, primary>> PROVE PrimaryIsUp'
  BY <1>1 DEF PrimaryIsUp
<1>2. ASSUME NEW S, Disconnect(S) PROVE PrimaryIsUp'
  BY <1>2, RecomputedIsUp DEF Disconnect
<1>3. ASSUME NEW q \in Profiles, NEW forced, Connect(conn, primary, q, forced)
      PROVE  PrimaryIsUp'
  BY <1>0, <1>3, ConnectKeepsPrimary DEF PrimaryIsUp
<1>4. ASSUME NEW p \in Profiles, Toggle(p) PROVE PrimaryIsUp'
  <2>1. \/ UNCHANGED <<conn, primary>> \/ Disconnect({p}) \/ Connect(conn, primary, p, FALSE)
    BY <1>4 DEF Toggle
  <2> QED
    BY <1>1, <1>2, <1>3, <2>1
<1>5. ASSUME NEW p \in Profiles, DisconnectProfile(p) \/ CancelConnect(p) PROVE PrimaryIsUp'
  BY <1>2, <1>5, RecomputedIsUp DEF DisconnectProfile, CancelConnect
<1>6. ASSUME DisconnectLegacy \/ DisconnectAll PROVE PrimaryIsUp'
  BY <1>2, <1>6, RecomputedIsUp DEF DisconnectLegacy, DisconnectAll
<1>7. ASSUME Reconnect PROVE PrimaryIsUp'
  <2>1. \/ Disconnect(LegacyTarget)
        \/ last # None /\ Connect(conn, primary, last, FALSE)
    BY <1>7 DEF Reconnect
  <2>2. last # None => last \in Profiles
    BY DEF TypeOK
  <2> QED
    BY <1>2, <1>3, <2>1, <2>2
<1>8. ASSUME ConfirmTakeover PROVE PrimaryIsUp'
  <2>1. overlay \in Profiles /\ Connect(conn, primary, overlay, TRUE)
    BY <1>8 DEF ConfirmTakeover, TypeOK
  <2> QED
    BY <1>3, <2>1
<1>9. ASSUME SwitchExclusive PROVE PrimaryIsUp'
  BY <1>1, <1>2, <1>9 DEF SwitchExclusive
<1>10. ASSUME NEW p \in Profiles, ConnectSucceeded(p) \/ ConnectFailed(p) PROVE PrimaryIsUp'
  BY <1>1, <1>10, RecomputedIsUp DEF ConnectSucceeded, ConnectFailed
<1>11. ASSUME NEW p \in Profiles, NEW a \in Attempts, RetryConnect(p, a) PROVE PrimaryIsUp'
  BY <1>1, <1>3, <1>11 DEF RetryConnect
<1>12. ASSUME ConnectTimeout PROVE PrimaryIsUp'
  BY <1>12, RecomputedIsUp DEF ConnectTimeout
<1>13. ASSUME NEW p \in Profiles, SyncComplete(p) PROVE PrimaryIsUp'
  <2> DEFINE c  == Update(p, "absent")
             pr == Recompute(c, route)
  <2>1. c \in [Profiles -> ConnStates] /\ (pr # None => c[pr] \in {"connected", "connecting"})
    BY <1>0 DEF Update, ConnStates, Recompute
  <2>2. CASE pending # None /\ Connect(c, pr, pending, FALSE)
    <3>1. pending \in Profiles
      BY <2>2 DEF TypeOK
    <3> HIDE DEF c, pr
    <3> QED
      BY <2>1, <2>2, <3>1, ConnectKeepsPrimary
  <2>3. CASE conn' = c /\ primary' = pr
    BY <2>1, <2>3 DEF PrimaryIsUp
  <2> QED
    BY <1>13, <2>2, <2>3 DEF SyncComplete
<1>14. ASSUME NEW p \in Profiles, SyncForce(p) \/ SyncDrop(p) \/ SyncAdopt(p) PROVE PrimaryIsUp'
  BY <1>14, RecomputedIsUp DEF SyncForce, SyncDrop, SyncAdopt
<1>15. ASSUME NEW p \in Profiles, SyncRefresh(p) \/ SyncSkip(p) PROVE PrimaryIsUp'
  BY <1>15 DEF SyncRefresh, SyncSkip, PrimaryIsUp, Recompute
<1>16. ASSUME NEW p \in Profiles,
              UpWorker(p) \/ DownWorker(p) \/ Exits(p) \/ TunnelDrops(p) \/ ExternalUp(p)
       PROVE  PrimaryIsUp'
  BY <1>1, <1>16
  DEF UpWorker, UpSucceeds, UpFails, DownWorker, Exits, TunnelDrops, ExternalUp, Registry
<1>17. ASSUME Dismiss \/ TakeScan \/ BeginSync \/ NetworkChanged \/ UNCHANGED vars
       PROVE  PrimaryIsUp'
  BY <1>1, <1>17 DEF Dismiss, TakeScan, BeginSync, NetworkChanged, vars
<1> QED
  BY <1>4, <1>5, <1>6, <1>7, <1>8, <1>9, <1>10, <1>11, <1>12, <1>13, <1>14, <1>15, <1>16, <1>17
  DEF Next, UserStep, WorkerStep, MessageStep, ScannerStep, OutsideStep, SyncStep

\* Whatever is torn down, cancelled, dropped or taken over, primary does not
\* outlive the tunnel it names.
THEOREM PrimaryIsUpHolds == Spec => []PrimaryIsUp
<1>1. Init => PrimaryIsUp
  BY DEF Init, PrimaryIsUp
<1> QED
  BY <1>1, TypeInit, TypeStep, PrimaryStep, PTL DEF Spec

-----------------------------------------------------------------------------
(* The teardown behind a queued connect *)

\* A dispatch knows of every teardown among the entries it has still to visit:
\* none starts under way, so no arm takes one for a drop or adopts over it.
DispatchKnows ==
    /\ \A p \in sync.todo : conn[p] = "disconnecting" => sync.snap[p] = "disconnecting"
    /\ \A p \in sync.adopt : conn[p] # "disconnecting"

QueueInv == TypeOK /\ PendingHasTeardown /\ PrimaryIsUp /\ DispatchKnows

Teardowns == {p \in Profiles : conn[p] = "disconnecting"}

LEMMA IdleKnows ==
  ASSUME sync = NoSync PROVE DispatchKnows
  BY DEF DispatchKnows, NoSync

\* A legacy view that shows nothing: nothing is up, coming up or going down.
LEMMA DownIsIdle ==
  ASSUME QueueInv, LegacyDown(conn, primary)
  PROVE  Teardowns = {} /\ pending = None
<1>1. Active(conn) \in SUBSET Profiles
  BY DEF Active
<1>2. CASE primary # None
  <2>1. LegacyProfile(conn, primary) = primary
    BY <1>2 DEF LegacyProfile, QueueInv, PrimaryIsUp
  <2> QED
    BY <1>2, <2>1 DEF LegacyDown, Legacy, QueueInv, PrimaryIsUp
<1>3. CASE primary = None /\ Active(conn) # {}
  <2>1. LegacyProfile(conn, primary) \in Active(conn)
    BY <1>1, <1>3, LeastIsIn DEF LegacyProfile
  <2> QED
    BY <1>1, <2>1, Constants DEF LegacyDown, Legacy, Active
<1>4. CASE Active(conn) = {}
  BY <1>4 DEF Active, Teardowns, QueueInv, PendingHasTeardown
<1> QED
  BY <1>2, <1>3, <1>4

\* What disconnect_specific leaves: its profiles in teardown, the rest as was.
LEMMA DisconnectQueue ==
  ASSUME QueueInv, Idle, UNCHANGED sync, NEW S \in SUBSET Profiles, Disconnect(S),
         pending' = pending \/ S # {}
  PROVE  PendingHasTeardown' /\ DispatchKnows'
<1>1. \A p \in Profiles : conn[p] = "disconnecting" \/ p \in S => conn'[p] = "disconnecting"
  BY DEF Disconnect
<1>2. PendingHasTeardown'
  BY <1>1 DEF QueueInv, PendingHasTeardown
<1>3. DispatchKnows'
  BY DEF Idle, DispatchKnows, NoSync
<1> QED
  BY <1>2, <1>3

LEMMA ConnectTeardowns ==
  ASSUME NEW c \in [Profiles -> ConnStates], NEW pr, NEW q \in Profiles, NEW forced,
         Connect(c, pr, q, forced)
  PROVE  \A p \in Profiles : conn'[p] = "disconnecting" => c[p] = "disconnecting"
  BY DEF Connect

\* A connect that a message starts on an idle registry.
LEMMA FreshConnect ==
  ASSUME QueueInv, Idle, UNCHANGED sync, NEW q \in Profiles,
         Connect(conn, primary, q, FALSE), pending = None, UNCHANGED pending
  PROVE  PendingHasTeardown' /\ DispatchKnows'
<1>1. DispatchKnows'
  BY DEF Idle, DispatchKnows, NoSync
<1> QED
  BY <1>1 DEF PendingHasTeardown

\* An arm of the dispatch that ends entry q, which is no teardown.
LEMMA ArmQueue ==
  ASSUME QueueInv, NEW q, NEW s \in ConnStates, s # "disconnecting",
         conn' = Update(q, s),
         \/ pending' = None
         \/ pending' = pending /\ (q \in Profiles => conn[q] # "disconnecting"),
         \/ sync' = NoSync
         \/ /\ sync'.todo \subseteq sync.todo /\ sync'.adopt \subseteq sync.adopt
            /\ sync'.snap = sync.snap /\ sync \in Dispatches
  PROVE  PendingHasTeardown' /\ DispatchKnows'
<1>0. conn \in [Profiles -> ConnStates]
  BY DEF QueueInv, TypeOK
<1>1. \A p \in Profiles : conn'[p] = "disconnecting" => conn[p] = "disconnecting"
  BY <1>0 DEF Update
<1>2. PendingHasTeardown'
  BY <1>0 DEF QueueInv, PendingHasTeardown, Update
<1>3. CASE sync' = NoSync
  BY <1>2, <1>3 DEF DispatchKnows, NoSync
<1>4. CASE /\ sync'.todo \subseteq sync.todo /\ sync'.adopt \subseteq sync.adopt
           /\ sync'.snap = sync.snap /\ sync \in Dispatches
  <2>1. sync.todo \subseteq Profiles /\ sync.adopt \subseteq Profiles
    BY <1>4 DEF Dispatches
  <2>2. DispatchKnows'
    BY <1>1, <1>4, <2>1 DEF QueueInv, DispatchKnows
  <2> QED
    BY <1>2, <2>2
<1> QED
  BY <1>3, <1>4

LEMMA EntryDoneShrinks ==
  ASSUME sync \in Dispatches, NEW p, EntryDone(p)
  PROVE  \/ sync' = NoSync
         \/ /\ sync'.todo \subseteq sync.todo /\ sync'.adopt \subseteq sync.adopt
            /\ sync'.snap = sync.snap /\ sync \in Dispatches
  BY DEF EntryDone, Advance, Dispatches

LEMMA QueueStep ==
  ASSUME "switch" \notin Keys, QueueInv, [Next]_vars
  PROVE  PendingHasTeardown' /\ DispatchKnows'
<1> DEFINE Goal == PendingHasTeardown' /\ DispatchKnows'
<1>0. TypeOK /\ conn \in [Profiles -> ConnStates] /\ sync \in Dispatches
  BY DEF QueueInv, TypeOK
<1>a. ASSUME UNCHANGED <<conn, sync, pending>> PROVE Goal
  BY <1>a DEF QueueInv, PendingHasTeardown, DispatchKnows
<1>b. ASSUME Idle, UNCHANGED sync, NEW S \in SUBSET Profiles, Disconnect(S),
             pending' = pending \/ S # {}
      PROVE  Goal
  BY <1>b, DisconnectQueue
<1>1. ASSUME NEW p \in Profiles, Toggle(p) PROVE Goal
  <2>1. Idle /\ UNCHANGED sync
    BY <1>1 DEF Toggle, AtKeyboard, Command
  <2>2. CASE Disconnect({p}) /\ UNCHANGED pending
    <3>1. {p} \in SUBSET Profiles
      OBVIOUS
    <3> QED
      BY <1>b, <2>1, <2>2, <3>1
  <2>3. CASE UNCHANGED <<conn, pending>>
    BY <1>a, <2>1, <2>3
  <2>4. CASE /\ Legacy(conn, primary, "disconnecting")
             /\ pending' = p /\ UNCHANGED conn
    <3>1. LegacyProfile(conn, primary) \in Profiles
          /\ conn[LegacyProfile(conn, primary)] = "disconnecting"
      BY <1>0, <2>4, LegacyShown DEF TypeOK
    <3>2. PendingHasTeardown'
      BY <2>4, <3>1 DEF PendingHasTeardown
    <3> QED
      BY <2>1, <2>4, <3>2 DEF QueueInv, DispatchKnows
  <2>5. CASE /\ LegacyDown(conn, primary) /\ Connect(conn, primary, p, FALSE)
             /\ UNCHANGED pending
    BY <2>1, <2>5, DownIsIdle, FreshConnect
  <2> QED
    BY <1>1, <2>2, <2>3, <2>4, <2>5 DEF Toggle
<1>2. ASSUME NEW p \in Profiles, DisconnectProfile(p) PROVE Goal
  <2>1. {p} \in SUBSET Profiles
    OBVIOUS
  <2> QED
    BY <1>b, <1>2, <2>1 DEF DisconnectProfile, AtKeyboard, Command
<1>3. ASSUME DisconnectLegacy PROVE Goal
  <2>1. Idle /\ UNCHANGED <<sync, pending>>
    BY <1>3 DEF DisconnectLegacy, AtKeyboard, Command
  <2>2. CASE Disconnect(LegacyTarget)
    <3>1. LegacyTarget \in SUBSET Profiles
      BY <1>0, LegacyIsProfile DEF LegacyTarget, LegacyDown, TypeOK
    <3> QED
      BY <1>b, <2>1, <2>2, <3>1
  <2>3. CASE UNCHANGED conn
    BY <1>a, <2>1, <2>3
  <2> QED
    BY <1>3, <2>2, <2>3 DEF DisconnectLegacy
<1>4. ASSUME DisconnectAll PROVE Goal
  <2>1. Active(conn) \in SUBSET Profiles
    BY DEF Active
  <2> QED
    BY <1>b, <1>4, <2>1 DEF DisconnectAll, AtKeyboard, Command
<1>5. ASSUME NEW p \in Profiles, CancelConnect(p) PROVE Goal
  BY <1>0, <1>5, ArmQueue DEF CancelConnect, ConnStates, AtKeyboard, Command, Idle
<1>6. ASSUME Reconnect PROVE Goal
  <2>1. Idle /\ UNCHANGED sync
    BY <1>6 DEF Reconnect, AtKeyboard, Command
  <2>2. CASE Legacy(conn, primary, "connected") /\ Disconnect(LegacyTarget)
    <3>1. /\ LegacyProfile(conn, primary) \in Profiles
          /\ conn[LegacyProfile(conn, primary)] = "connected"
      BY <1>0, <2>2, LegacyShown DEF TypeOK
    <3>2. LegacyTarget \in SUBSET Profiles /\ LegacyTarget # {}
      BY <3>1, Constants DEF LegacyTarget, LegacyDown, Legacy
    <3> QED
      BY <1>b, <2>1, <2>2, <3>2
  <2>3. CASE /\ LegacyDown(conn, primary) /\ last # None
             /\ Connect(conn, primary, last, FALSE) /\ UNCHANGED pending
    <3>1. last \in Profiles
      BY <1>0, <2>3 DEF TypeOK
    <3> QED
      BY <2>1, <2>3, <3>1, DownIsIdle, FreshConnect
  <2> QED
    BY <1>6, <2>2, <2>3 DEF Reconnect
<1>7. ASSUME ConfirmTakeover PROVE Goal
  <2>1. Idle /\ UNCHANGED sync /\ pending' = None
    BY <1>7 DEF ConfirmTakeover, Command
  <2> QED
    BY <2>1 DEF PendingHasTeardown, DispatchKnows, Idle, NoSync
<1>8. ASSUME NEW p \in Profiles, ConnectSucceeded(p) PROVE Goal
  <2>1. CASE UNCHANGED conn
    BY <1>a, <1>8, <2>1 DEF ConnectSucceeded
  <2>2. CASE Relevant(p) /\ conn' = Update(p, "connected")
    BY <1>0, <1>8, <2>2, ArmQueue DEF ConnectSucceeded, Deliver, Idle, ConnStates, Relevant
  <2> QED
    BY <1>8, <2>1, <2>2 DEF ConnectSucceeded
<1>9. ASSUME NEW p \in Profiles, ConnectFailed(p) PROVE Goal
  <2>1. CASE UNCHANGED <<conn, pending>>
    BY <1>a, <1>9, <2>1 DEF ConnectFailed
  <2>2. CASE /\ Relevant(p) /\ conn' = Update(p, "marker")
             /\ pending' = None \/ pending' = pending
    BY <1>0, <1>9, <2>2, ArmQueue DEF ConnectFailed, Deliver, Idle, ConnStates, Relevant
  <2> QED
    BY <1>9, <2>1, <2>2 DEF ConnectFailed
<1>10. ASSUME NEW p \in Profiles, NEW a \in Attempts, RetryConnect(p, a) PROVE Goal
  <2>1. Idle /\ UNCHANGED <<sync, pending>>
    BY <1>10 DEF RetryConnect
  <2>2. CASE UNCHANGED conn
    BY <1>a, <2>1, <2>2
  <2>3. CASE Active(conn) = {} /\ Connect(conn, primary, p, FALSE)
    <3>1. pending = None
      BY <2>3 DEF QueueInv, PendingHasTeardown, Active
    <3> QED
      BY <2>1, <2>3, <3>1, FreshConnect
  <2> QED
    BY <1>10, <2>2, <2>3 DEF RetryConnect
<1>11. ASSUME ConnectTimeout PROVE Goal
  BY <1>0, <1>11, ArmQueue DEF ConnectTimeout, Idle, ConnStates
<1>12. ASSUME BeginSync PROVE Goal
  <2> DEFINE known == {p \in Profiles : conn[p] # "absent"}
             new   == [todo |-> known, adopt |-> scan.sessions \ known,
                       seen |-> scan.sessions, snap |-> conn]
  <2>1. sync' = NoSync \/ sync' = new
    BY <1>12 DEF BeginSync
  <2>2. UNCHANGED <<conn, pending>>
    BY <1>12 DEF BeginSync
  <2>3. scan.sessions \subseteq Profiles
    BY <1>0 DEF TypeOK, Scans
  <2>4. DispatchKnows'
    BY <2>1, <2>2, <2>3 DEF DispatchKnows, NoSync
  <2> QED
    BY <2>2, <2>4 DEF QueueInv, PendingHasTeardown
<1>13. ASSUME NEW p \in Profiles, SyncComplete(p) PROVE Goal
  <2> DEFINE c  == Update(p, "absent")
             pr == Recompute(c, route)
  <2>0. /\ c \in [Profiles -> ConnStates]
        /\ \A q \in Profiles : c[q] = "disconnecting" => conn[q] = "disconnecting"
    BY <1>0 DEF Update, ConnStates
  <2>1. EntryDone(p) /\ pending' = None
    BY <1>13 DEF SyncComplete
  <2>2. \A q \in Profiles : conn'[q] = "disconnecting" => conn[q] = "disconnecting"
    <3>1. CASE pending # None /\ Connect(c, pr, pending, FALSE)
      <4>1. pending \in Profiles
        BY <1>0, <3>1 DEF TypeOK
      <4> HIDE DEF c, pr
      <4> QED
        BY <2>0, <3>1, <4>1, ConnectTeardowns
    <3>2. CASE conn' = c
      BY <2>0, <3>2
    <3> QED
      BY <1>13, <3>1, <3>2 DEF SyncComplete
  <2>3. sync.todo \subseteq Profiles /\ sync.adopt \subseteq Profiles
    BY <1>0 DEF Dispatches
  <2>4. DispatchKnows'
    <3>1. CASE sync' = NoSync
      BY <3>1 DEF DispatchKnows, NoSync
    <3>2. CASE sync' # NoSync
      BY <1>0, <2>1, <2>2, <2>3, <3>2, EntryDoneShrinks DEF QueueInv, DispatchKnows
    <3> QED
      BY <3>1, <3>2
  <2> QED
    BY <2>1, <2>2, <2>4 DEF PendingHasTeardown
<1>14. ASSUME NEW p \in Profiles, SyncForce(p) PROVE Goal
  BY <1>0, <1>14, ArmQueue, EntryDoneShrinks DEF SyncForce, ConnStates
<1>15. ASSUME NEW p \in Profiles, SyncDrop(p) PROVE Goal
  <2>1. p \in sync.todo /\ sync.snap[p] = "connected"
    <3>1. sync.todo \in SUBSET Profiles
      BY <1>0 DEF Dispatches
    <3> QED
      BY <1>15, <3>1, LeastIsIn DEF SyncDrop, Entry
  <2>2. conn[p] # "disconnecting"
    BY <2>1 DEF QueueInv, DispatchKnows
  <2> QED
    BY <1>0, <1>15, <2>2, ArmQueue, EntryDoneShrinks DEF SyncDrop, ConnStates
<1>16. ASSUME NEW p \in Profiles, SyncAdopt(p) PROVE Goal
  <2>1. conn[p] # "disconnecting"
    BY <1>16 DEF SyncAdopt, QueueInv, DispatchKnows
  <2>2. \/ sync' = NoSync
        \/ /\ sync'.todo \subseteq sync.todo /\ sync'.adopt \subseteq sync.adopt
           /\ sync'.snap = sync.snap /\ sync \in Dispatches
    BY <1>0, <1>16 DEF SyncAdopt, Advance, Dispatches
  <2> QED
    BY <1>0, <1>16, <2>1, <2>2, ArmQueue DEF SyncAdopt, ConnStates
<1>17. ASSUME NEW p \in Profiles, SyncRefresh(p) \/ SyncSkip(p) PROVE Goal
  <2>1. EntryDone(p) /\ UNCHANGED <<conn, pending>>
    BY <1>17 DEF SyncRefresh, SyncSkip
  <2>2. DispatchKnows'
    BY <1>0, <2>1, EntryDoneShrinks DEF QueueInv, DispatchKnows, NoSync
  <2> QED
    BY <2>1, <2>2 DEF QueueInv, PendingHasTeardown
<1>18. ASSUME NEW p \in Profiles,
              UpWorker(p) \/ DownWorker(p) \/ Exits(p) \/ TunnelDrops(p) \/ ExternalUp(p)
       PROVE  Goal
  BY <1>a, <1>18
  DEF UpWorker, UpSucceeds, UpFails, DownWorker, Exits, TunnelDrops, ExternalUp, Registry
<1>19. ASSUME Dismiss \/ TakeScan \/ NetworkChanged \/ UNCHANGED vars PROVE Goal
  BY <1>a, <1>19 DEF Dismiss, TakeScan, NetworkChanged, vars
<1>20. ~SwitchExclusive
  BY DEF SwitchExclusive, Command
<1> QED
  <2> HIDE DEF Goal
  <2>1. Goal
    BY <1>1, <1>2, <1>3, <1>4, <1>5, <1>6, <1>7, <1>8, <1>9, <1>10, <1>11, <1>12, <1>13,
       <1>14, <1>15, <1>16, <1>17, <1>18, <1>19, <1>20
    DEF Next, UserStep, WorkerStep, MessageStep, ScannerStep, OutsideStep, SyncStep
  <2> QED
    BY <2>1 DEF Goal

\* As long as nobody presses `y` in the takeover dialog, a queued connect has
\* the teardown it waits for, whatever drops, fails, lingers or is adopted.
THEOREM PendingHasTeardownHolds ==
  ASSUME "switch" \notin Keys
  PROVE  Spec => []PendingHasTeardown
<1>1. Init => QueueInv
  <2>1. Init => PendingHasTeardown /\ PrimaryIsUp /\ DispatchKnows
    BY IdleKnows DEF Init, PendingHasTeardown, PrimaryIsUp
  <2> QED
    BY <2>1, TypeInit DEF QueueInv
<1>2. QueueInv /\ [Next]_vars => QueueInv'
  BY QueueStep, PrimaryStep, TypeStep DEF QueueInv
<1>3. QueueInv => PendingHasTeardown
  BY DEF QueueInv
<1> QED
  BY <1>1, <1>2, <1>3, PTL DEF Spec
=============================================================================
