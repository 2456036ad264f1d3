-------------------------- MODULE Observation_proofs -------------------------
(* What vortix believes about the outside: the cached real addresses and the *)
(* verdict of the Security Guard panel, for any number of rounds, moves and  *)
(* claimed families; and the sweep of the scanner, for any list of profiles  *)
(* and any changes of interfaces and processes under it.                     *)
EXTENDS Telemetry, Scanner, TLAPS

-----------------------------------------------------------------------------
(* Telemetry: definitions                                                    *)

\* An answer of an exit comes from a tunnel that takes that family.
MailInv ==
    /\ mail \in Seq(Messages)
    /\ "v6" \notin claims =>
          \A i \in 1..Len(mail) : mail[i].what = "ip6" => mail[i].val # "exit"

\* A tunnel that is up and not unseen is in the scanner's word, and no scan on its
\* way says otherwise.
WordInv ==
    kernel = "up" /\ ~unseen => scan # "down" /\ (known.ticked => known.count = 1)

\* The file holds what the App holds.
CacheInv ==
    /\ real \in [Families -> AddressKinds]
    /\ cache = real
    /\ \A f \in Families : real[f] = "exit" => f \in raced

TeleInv ==
    /\ unseen \in BOOLEAN
    /\ kernel \in {"down", "up"}
    /\ scan \in {"none", "down", "up"}
    /\ MailInv /\ WordInv /\ CacheInv

-----------------------------------------------------------------------------

LEMMA ProbeKinds ==
  ASSUME NEW f \in Families
  PROVE  PathOf(f) \in AddressKinds /\ (f \notin claims => PathOf(f) # "exit")
  BY DEF PathOf, AddressKinds

LEMMA MessageTyped ==
  ASSUME NEW w \in {"ip", "ip6", "dns"}, NEW v \in AddressKinds
  PROVE  [what |-> w, val |-> v] \in Messages
  BY DEF Messages

LEMMA MessageFields ==
  ASSUME NEW m \in Messages
  PROVE  m.val \in AddressKinds
  BY DEF Messages

LEMMA AppendKeeps ==
  ASSUME MailInv, UNCHANGED claims, NEW m \in Messages,
         "v6" \notin claims /\ m.what = "ip6" => m.val # "exit",
         mail' = Append(mail, m)
  PROVE  MailInv'
<1>1. mail' \in Seq(Messages) /\ Len(mail') = Len(mail) + 1
  BY DEF MailInv
<1>2. \A i \in 1..Len(mail') : mail'[i] = m \/ (i \in 1..Len(mail) /\ mail'[i] = mail[i])
  BY <1>1 DEF MailInv
<1> QED
  BY <1>1, <1>2 DEF MailInv

LEMMA TailKeeps ==
  ASSUME MailInv, UNCHANGED claims, mail # <<>>, mail' = Tail(mail)
  PROVE  MailInv' /\ Head(mail) \in Messages /\ Head(mail) = mail[1] /\ 1 \in 1..Len(mail)
<1>1. Len(mail) \in Nat \ {0} /\ Head(mail) = mail[1] /\ mail[1] \in Messages
  BY DEF MailInv
<1>2. mail' \in Seq(Messages) /\ Len(mail') = Len(mail) - 1
  BY DEF MailInv
<1>3. \A i \in 1..Len(mail') : i + 1 \in 1..Len(mail) /\ mail'[i] = mail[i + 1]
  BY <1>1, <1>2 DEF MailInv
<1> QED
  BY <1>1, <1>2, <1>3 DEF MailInv

\* The address of an exit is kept only while the scanner has not seen its tunnel.
LEMMA KeepKeeps ==
  ASSUME TeleInv, NEW f \in Families, NEW val \in AddressKinds, Keep(f, val),
         f = "v6" /\ "v6" \notin claims => val # "exit"
  PROVE  CacheInv'
<1>1. CASE SafeToCache(f) /\ (f = "v4" \/ val # "none")
  <2>1. real' = [real EXCEPT ![f] = val] /\ cache' = real'
    BY <1>1 DEF Keep, TeleInv, CacheInv
  <2>2. val = "exit" => kernel = "down" \/ unseen
    BY <1>1 DEF SafeToCache, DisconnectSafe, TeleInv, WordInv
  <2>3. /\ val = "exit" => raced' = raced \cup {f}
        /\ val # "exit" => raced' = raced \ {f}
    BY <1>1, <2>2 DEF Keep
  <2> QED
    BY <2>1, <2>3 DEF TeleInv, CacheInv
<1>2. CASE ~(SafeToCache(f) /\ (f = "v4" \/ val # "none"))
  BY <1>2 DEF Keep, TeleInv, CacheInv
<1> QED
  BY <1>1, <1>2

LEMMA TeleStart == TeleInit => TeleInv
<1> SUFFICES ASSUME TeleInit PROVE TeleInv
  OBVIOUS
<1>1. MailInv
  BY DEF TeleInit, MailInv
<1>2. CacheInv
  <2>1. "none" \in AddressKinds /\ "none" # "exit"
    BY DEF AddressKinds
  <2>2. real = [f \in Families |-> "none"] /\ cache = real
    BY DEF TeleInit, Unknown
  <2> QED
    BY <2>1, <2>2 DEF CacheInv
<1>3. WordInv
  BY DEF TeleInit, WordInv
<1> QED
  BY <1>1, <1>2, <1>3 DEF TeleInit, TeleInv

LEMMA TeleStep == TeleInv /\ [TeleNext]_teleVars => TeleInv'
<1> SUFFICES ASSUME TeleInv, [TeleNext]_teleVars PROVE TeleInv'
  OBVIOUS
<1>a. ASSUME UNCHANGED <<kernel, scan, known, unseen>>, MailInv', CacheInv' PROVE TeleInv'
  BY <1>a DEF TeleInv, WordInv
<1>b. ASSUME UNCHANGED <<mail, claims>> PROVE MailInv'
  BY <1>b DEF TeleInv, MailInv
<1>c. ASSUME UNCHANGED <<real, cache, raced>> PROVE CacheInv'
  BY <1>c DEF TeleInv, CacheInv
<1>1. CASE FetchRound \/ DnsLeak \/ ConnectProfile \/ ConnectResult \/ Disconnects
  BY <1>1, <1>a, <1>b, <1>c
  DEF FetchRound, DnsLeak, ConnectProfile, ConnectResult, Disconnects
<1>2. CASE FetchIp
  <2>1. PICK n \in Rounds, val \in {PathOf("v4"), "unavailable"} :
          mail' = Append(mail, [what |-> "ip", val |-> val])
    BY <1>2 DEF FetchIp
  <2>2. val \in AddressKinds
    BY ProbeKinds DEF Families, AddressKinds
  <2>3. UNCHANGED <<claims, kernel, scan, known, unseen, real, cache, raced>>
    BY <1>2 DEF FetchIp
  <2>4. MailInv'
    BY <2>1, <2>2, <2>3, MessageTyped, AppendKeeps DEF TeleInv
  <2> QED
    BY <1>a, <1>c, <2>3, <2>4
<1>3. CASE FetchSecurity
  <2>1. PICK n \in Rounds, val \in {PathOf("v6"), "none"} :
          mail' = mail \o <<[what |-> "dns", val |-> "none"], [what |-> "ip6", val |-> val]>>
    BY <1>3 DEF FetchSecurity
  <2>2. val \in AddressKinds /\ ("v6" \notin claims => val # "exit")
    BY ProbeKinds DEF Families, AddressKinds
  <2>3. UNCHANGED <<claims, kernel, scan, known, unseen, real, cache, raced>>
    BY <1>3 DEF FetchSecurity
  <2>4. MailInv'
    <3> DEFINE dns == [what |-> "dns", val |-> "none"]
               ip6 == [what |-> "ip6", val |-> val]
    <3>1. dns \in Messages /\ ip6 \in Messages
      BY <2>2, MessageTyped DEF AddressKinds
    <3>2. mail \in Seq(Messages) /\ <<dns, ip6>> \in Seq(Messages)
      BY <3>1 DEF TeleInv, MailInv
    <3> HIDE DEF dns, ip6
    <3>3. mail' = mail \o <<dns, ip6>>
      BY <2>1 DEF dns, ip6
    <3>4. mail' \in Seq(Messages) /\ Len(mail') = Len(mail) + 2
      BY <3>2, <3>3
    <3>5. \A i \in 1..Len(mail') :
            mail'[i] = dns \/ mail'[i] = ip6 \/ (i \in 1..Len(mail) /\ mail'[i] = mail[i])
      BY <3>2, <3>3, <3>4
    <3>6. dns.what = "dns" /\ ("v6" \notin claims => ip6.val # "exit")
      BY <2>2 DEF dns, ip6
    <3> QED
      BY <2>3, <3>4, <3>5, <3>6 DEF TeleInv, MailInv
  <2> QED
    BY <1>a, <1>c, <2>3, <2>4
<1>4. CASE HandleTelemetry
  <2> DEFINE m == Head(mail)
  <2>1. /\ MailInv' /\ m \in Messages
        /\ m.what = "ip6" /\ "v6" \notin claims => m.val # "exit"
    BY <1>4, TailKeeps DEF HandleTelemetry, TeleInv, MailInv
  <2>2. m.val \in AddressKinds
    BY <2>1, MessageFields
  <2>3. PublicIp(m) \/ PublicIpv6(m) \/ Dns(m)
    BY <1>4 DEF HandleTelemetry
  <2> HIDE DEF m
  <2>4. CASE PublicIp(m)
    <3>1. "v4" \in Families /\ "v4" # "v6" /\ Keep("v4", m.val)
      BY <2>4 DEF PublicIp, Families
    <3> QED
      BY <1>4, <1>a, <2>1, <2>2, <3>1, KeepKeeps DEF HandleTelemetry
  <2>5. CASE PublicIpv6(m)
    <3>1. "v6" \in Families /\ m.what = "ip6" /\ Keep("v6", m.val)
      BY <2>5 DEF PublicIpv6, Families
    <3> QED
      BY <1>4, <1>a, <2>1, <2>2, <3>1, KeepKeeps DEF HandleTelemetry
  <2>6. CASE Dns(m)
    BY <1>4, <1>a, <1>c, <2>1, <2>6 DEF HandleTelemetry, Dns
  <2> QED
    BY <2>3, <2>4, <2>5, <2>6
<1>5. CASE TunnelUp \/ TunnelDown \/ External
  <2>1. UNCHANGED <<claims, mail, scan, known, real, cache, raced>>
    BY <1>5 DEF TunnelUp, TunnelDown, External
  <2>2. kernel' \in {"down", "up"} /\ unseen' \in BOOLEAN /\ (kernel' = "up" => unseen')
    BY <1>5 DEF TunnelUp, TunnelDown, External
  <2> QED
    BY <1>b, <1>c, <2>1, <2>2 DEF TeleInv, WordInv
<1>6. CASE GatherSystemState
  BY <1>6, <1>b, <1>c DEF GatherSystemState, TeleInv, WordInv
<1>7. CASE SyncSystemState
  <2>1. UNCHANGED <<claims, mail, kernel, real, cache, raced>>
    BY <1>7 DEF SyncSystemState
  <2>2. /\ scan' = "none" /\ scan # "none"
        /\ scan = "up" => known'.count = 1
        /\ unseen' = (unseen /\ scan = "down")
    BY <1>7 DEF SyncSystemState
  <2> QED
    BY <1>b, <1>c, <2>1, <2>2 DEF TeleInv, WordInv
<1>8. CASE RestartTui
  <2>1. /\ UNCHANGED <<kernel, claims, cache, raced>> /\ mail' = <<>> /\ real' = cache
        /\ unseen' = FALSE /\ scan' = "none" /\ known'.ticked = FALSE
    BY <1>8 DEF RestartTui
  <2>2. MailInv'
    BY <2>1 DEF MailInv
  <2> QED
    BY <2>1, <2>2 DEF TeleInv, WordInv, CacheInv
<1>9. CASE UNCHANGED teleVars
  BY <1>9, <1>a, <1>b, <1>c DEF teleVars
<1> QED
  BY <1>1, <1>2, <1>3, <1>4, <1>5, <1>6, <1>7, <1>8, <1>9 DEF TeleNext

\* Whatever the order in which probes answer, scans end and tunnels come and go:
\* under PROTECTED the home address is on display only when the App cannot know it
\* for what it is, and the address of an exit is never kept once a scan has shown
\* its tunnel.
THEOREM LeakIsSeenHolds == TeleSpec => []LeakIsSeen
<1>1. TeleInv => LeakIsSeen
  <2> SUFFICES ASSUME TeleInv PROVE LeakIsSeen
    OBVIOUS
  <2>1. RealIsHome
    BY DEF TeleInv, CacheInv, RealIsHome
  <2>2. ASSUME Verdict = "PROTECTED", shown.v4 = "home"
        PROVE  real["v4"] \in {"none", "unavailable"} \/ "v4" \in raced
    <3>1. ~Ipv4Leaking
      BY <2>2 DEF Verdict, VerdictForProtected
    <3>2. real["v4"] \in AddressKinds /\ (real["v4"] = "exit" => "v4" \in raced)
      BY DEF TeleInv, CacheInv, Families
    <3> QED
      BY <2>2, <3>1, <3>2 DEF Ipv4Leaking, AddressKinds
  <2> QED
    BY <2>1, <2>2 DEF LeakIsSeen
<1> QED
  BY <1>1, TeleStart, TeleStep, PTL DEF TeleSpec

-----------------------------------------------------------------------------
(* Types                                                                   *)

\* The variables the verdict's argument does not need.
RestTyped ==
    /\ claims \in RouteSets /\ entry \in Entries
    /\ known \in [ticked : BOOLEAN, count : 0..1]
    /\ shown \in [v4 : AddressKinds, v6 : AddressKinds, dns : LeakKinds]
    /\ asking \subseteq (Rounds \X {"ip", "sec"})
    /\ leaks \subseteq {"probe", "skip"}
    /\ budget \in [rounds : 0..MaxRounds, moves : 0..MaxMoves]
    /\ raced \subseteq Families

LEMMA ShownSet ==
  ASSUME NEW s \in [v4 : AddressKinds, v6 : AddressKinds, dns : LeakKinds],
         NEW a \in AddressKinds, NEW k \in LeakKinds
  PROVE  /\ [s EXCEPT !.v4 = a] \in [v4 : AddressKinds, v6 : AddressKinds, dns : LeakKinds]
         /\ [s EXCEPT !.v6 = a] \in [v4 : AddressKinds, v6 : AddressKinds, dns : LeakKinds]
         /\ [s EXCEPT !.dns = k] \in [v4 : AddressKinds, v6 : AddressKinds, dns : LeakKinds]
OBVIOUS

LEMMA NothingShown ==
  [v4 |-> "none", v6 |-> "none", dns |-> "unknown"]
     \in [v4 : AddressKinds, v6 : AddressKinds, dns : LeakKinds]
BY DEF AddressKinds, LeakKinds

LEMMA MovesCounted ==
  ASSUME RestTyped, Moves
  PROVE  budget' \in [rounds : 0..MaxRounds, moves : 0..MaxMoves]
BY TelemetryAssumption DEF RestTyped, Moves

LEMMA RacedKept ==
  ASSUME RestTyped, NEW f \in Families, NEW val, Keep(f, val)
  PROVE  raced' \subseteq Families
BY DEF RestTyped, Keep

LEMMA RestStart == TeleInit => RestTyped
BY NothingShown, TelemetryAssumption DEF TeleInit, RestTyped, Entries

LEMMA RestStep == TeleInv /\ RestTyped /\ [TeleNext]_teleVars => RestTyped'
<1> SUFFICES ASSUME TeleInv, RestTyped, [TeleNext]_teleVars PROVE RestTyped'
  OBVIOUS
<1> USE DEF RestTyped
<1>1. CASE FetchRound
  <2>1. budget.rounds + 1 \in Rounds
    BY <1>1, TelemetryAssumption DEF FetchRound, Rounds
  <2>2. asking' \subseteq (Rounds \X {"ip", "sec"})
    BY <1>1, <2>1 DEF FetchRound
  <2>3. budget' \in [rounds : 0..MaxRounds, moves : 0..MaxMoves]
    BY <1>1, TelemetryAssumption DEF FetchRound
  <2> QED  BY <1>1, <2>2, <2>3 DEF FetchRound
<1>2. CASE FetchIp \/ FetchSecurity
  <2>1. asking' \subseteq asking
    BY <1>2 DEF FetchIp, FetchSecurity
  <2> QED  BY <1>2, <2>1 DEF FetchIp, FetchSecurity
<1>3. CASE HandleTelemetry
  <2> DEFINE m == Head(mail)
  <2>1. m \in Messages /\ (PublicIp(m) \/ PublicIpv6(m) \/ Dns(m))
    BY <1>3, TailKeeps DEF HandleTelemetry, TeleInv
  <2>2. m.val \in AddressKinds
    BY <2>1, MessageFields
  <2>3. UNCHANGED <<claims, entry, known, asking, budget>>
    BY <1>3 DEF HandleTelemetry
  <2> HIDE DEF m
  <2>4. CASE PublicIp(m)
    <3>1. raced' \subseteq Families
      BY <2>4, RacedKept DEF PublicIp, Families
    <3> QED  BY <2>2, <2>3, <2>4, <3>1, ShownSet DEF PublicIp
  <2>5. CASE PublicIpv6(m)
    <3>1. raced' \subseteq Families
      BY <2>5, RacedKept DEF PublicIpv6, Families
    <3> QED  BY <2>2, <2>3, <2>5, <3>1, ShownSet DEF PublicIpv6
  <2>6. CASE Dns(m)
    BY <2>3, <2>6 DEF Dns
  <2> QED  BY <2>1, <2>4, <2>5, <2>6
<1>4. CASE DnsLeak
  <2>1. PICK k \in leaks, status \in LeakKinds :
          leaks' = leaks \ {k} /\ shown' = [shown EXCEPT !.dns = status]
    BY <1>4 DEF DnsLeak, LeakKinds
  <2>2. UNCHANGED <<claims, entry, known, asking, budget, raced>>
    BY <1>4 DEF DnsLeak
  <2> QED  BY <2>1, <2>2, ShownSet
<1>5. CASE ConnectProfile \/ Disconnects \/ External
  <2>1. Moves /\ UNCHANGED <<claims, known, shown, asking, leaks, raced>>
    BY <1>5 DEF ConnectProfile, Disconnects, External
  <2>2. entry' \in Entries
    BY <1>5 DEF ConnectProfile, Disconnects, External, Entries
  <2> QED  BY <2>1, <2>2, MovesCounted
<1>6. CASE TunnelUp \/ TunnelDown \/ ConnectResult \/ GatherSystemState
  BY <1>6 DEF TunnelUp, TunnelDown, ConnectResult, GatherSystemState, Entries
<1>7. CASE SyncSystemState
  <2>1. known' \in [ticked : BOOLEAN, count : 0..1]
    BY <1>7 DEF SyncSystemState
  <2>2. entry' \in Entries
    BY <1>7 DEF SyncSystemState, Entries
  <2>3. shown' \in [v4 : AddressKinds, v6 : AddressKinds, dns : LeakKinds]
    BY <1>7, NothingShown DEF SyncSystemState
  <2> QED  BY <1>7, <2>1, <2>2, <2>3 DEF SyncSystemState
<1>8. CASE RestartTui
  <2>1. known' \in [ticked : BOOLEAN, count : 0..1] /\ entry' \in Entries
    BY <1>8 DEF RestartTui, Entries
  <2>2. Moves /\ UNCHANGED <<claims, raced>> /\ asking' = {} /\ leaks' = {}
    BY <1>8 DEF RestartTui
  <2>3. shown' \in [v4 : AddressKinds, v6 : AddressKinds, dns : LeakKinds]
    BY <1>8, NothingShown DEF RestartTui
  <2> QED  BY <2>1, <2>2, <2>3, MovesCounted
<1>9. CASE UNCHANGED teleVars
  BY <1>9 DEF teleVars
<1> QED
  BY <1>1, <1>2, <1>3, <1>4, <1>5, <1>6, <1>7, <1>8, <1>9 DEF TeleNext

\* What the App shows, keeps and asks for keeps its type, whatever is answered when.
THEOREM TeleTypeCorrect == TeleSpec => []TeleTypeOK
<1>1. TeleInv /\ RestTyped => TeleTypeOK
  BY DEF TeleInv, MailInv, CacheInv, RestTyped, TeleTypeOK
<1> QED
  BY <1>1, TeleStart, TeleStep, RestStart, RestStep, PTL DEF TeleSpec

-----------------------------------------------------------------------------
(* Scanner: definitions                                                      *)

\* An interface, and who may own one.
Owner       == ScanProfiles \union {Foreign}
IfaceNames  == Wireguards \union DeviceNames
Device      == [name : IfaceNames, of : Owner, inet : BOOLEAN]
Report      == [of : ScanProfiles, iface : IfaceNames \union {""}, sure : BOOLEAN]
Pairs       == Owner \X IfaceNames
ScanStages  == {"idle", "ps", "profile", "wg", "addr", "device", "shown"}
Sweep       == [pc : ScanStages, todo : Seq(ScanProfiles), pids : SUBSET Openvpns, seen : Seq(Device),
                found : IfaceNames \union {""}, sure : BOOLEAN, out : Seq(Report), changes : Nat,
                failures : Nat, ever : SUBSET Pairs, always : SUBSET Pairs, ran : SUBSET Openvpns]

\* A device of one name and of one owner; WireGuard's is named for its profile,
\* and an OpenVPN that has one is running.
Own(d)      == d.of \in Wireguards => d.name = d.of /\ d.inet
DevicesInv ==
    /\ devices \in Seq(Device) /\ running \subseteq Openvpns
    /\ logs \in [Openvpns -> DeviceNames \union {""}]
    /\ \A i, j \in DOMAIN devices :
          devices[i].name = devices[j].name \/ devices[i].of = devices[j].of => i = j
    /\ \A i \in DOMAIN devices : Own(devices[i]) /\ (devices[i].of \notin Wireguards => devices[i].of \in running)

\* What the history variables of the sweep know of the system.
HistoryInv ==
    /\ sweep.always \subseteq Owners(devices) /\ Owners(devices) \subseteq sweep.ever
    /\ sweep.always \subseteq sweep.ever
    /\ running \subseteq sweep.ran /\ sweep.pids \subseteq sweep.ran
    /\ \A t \in sweep.ever : IF t[1] \in Wireguards THEN t[2] = t[1] ELSE t[1] \in sweep.ran

Scanning == {"profile", "wg", "addr", "device"}
AtOne    == {"wg", "addr", "device"}
StageInv ==
    /\ sweep.pc \in AtOne => sweep.todo # <<>>
    /\ sweep.pc = "wg" => Cur \in Wireguards
    /\ sweep.pc \in {"addr", "device"} => Cur \notin Wireguards /\ Cur \in sweep.ran
    /\ sweep.pc \in {"idle", "ps"} => sweep.out = <<>>
    /\ sweep.pc = "ps" => sweep.todo = ScanList
    /\ sweep.pc = "shown" => sweep.todo = <<>>

\* An unfailing sweep has every tunnel that was up throughout still before it, or in its
\* report; knows the process of every OpenVPN one; and has its device in the listing.
Due(p)  == p \in ReportedNames(sweep.out) \/ \E i \in DOMAIN sweep.todo : sweep.todo[i] = p
DueInv ==
    sweep.failures = 0 =>
        \A t \in sweep.always :
            /\ sweep.pc \notin {"idle"} /\ t[1] # Foreign => Due(t[1])
            /\ sweep.pc \in Scanning /\ t[1] # Foreign /\ t[1] \notin Wireguards => t[1] \in sweep.pids
            /\ sweep.pc = "device" /\ t[1] = Cur =>
                  \E i \in DOMAIN sweep.seen : sweep.seen[i] = [name |-> t[2], of |-> t[1], inet |-> TRUE]

SeenInv ==
    sweep.pc = "device" /\ sweep.failures = 0 =>
        \A i \in DOMAIN sweep.seen :
            sweep.seen[i].inet => <<sweep.seen[i].of, sweep.seen[i].name>> \in sweep.ever

Steady(p) == sweep.failures = 0 /\ sweep.ran = {p} /\ sweep.ever \subseteq sweep.always
Entry1(r) ==
    /\ IF r.of \in Wireguards THEN r.iface = r.of /\ \E t \in sweep.ever : t[1] = r.of ELSE r.of \in sweep.ran
    /\ r.of \notin Wireguards /\ Steady(r.of) =>
          <<r.of, r.iface>> \in sweep.ever \/ sweep.ever \subseteq Wireguards \X Wireguards
ReportInv == \A i \in DOMAIN sweep.out : Entry1(sweep.out[i])

ViewInv ==
    /\ IF sweep.pc = "shown" THEN view.marked \subseteq ScanProfiles ELSE view = NoView
    /\ StatusOfOneTunnel

ScanInv == sweep \in Sweep /\ DevicesInv /\ HistoryInv /\ StageInv /\ DueInv /\ SeenInv /\ ReportInv /\ ViewInv

-----------------------------------------------------------------------------
LEMMA SweepFields ==
    \A x \in Sweep :
        /\ x.pc \in ScanStages /\ x.todo \in Seq(ScanProfiles) /\ x.pids \subseteq Openvpns
        /\ x.seen \in Seq(Device) /\ x.found \in IfaceNames \union {""} /\ x.sure \in BOOLEAN
        /\ x.out \in Seq(Report) /\ x.changes \in Nat /\ x.failures \in Nat
        /\ x.ever \subseteq Pairs /\ x.always \subseteq Pairs /\ x.ran \subseteq Openvpns
BY DEF Sweep

LEMMA DeviceFields ==
    /\ \A d \in Device : d.name \in IfaceNames /\ d.of \in Owner /\ d.inet \in BOOLEAN
    /\ \A n \in IfaceNames, o \in Owner, b \in BOOLEAN :
          LET d == [name |-> n, of |-> o, inet |-> b]
          IN  d \in Device /\ d.name = n /\ d.of = o /\ d.inet = b
    /\ \A d, e \in Device : d.name = e.name /\ d.of = e.of /\ d.inet = e.inet => d = e
BY DEF Device

LEMMA ReportFields ==
    /\ \A r \in Report : r.of \in ScanProfiles /\ r.iface \in IfaceNames \union {""} /\ r.sure \in BOOLEAN
    /\ \A o \in ScanProfiles, n \in IfaceNames \union {""}, b \in BOOLEAN :
          LET r == [of |-> o, iface |-> n, sure |-> b] IN r \in Report /\ r.of = o /\ r.iface = n
BY DEF Report

LEMMA ListFacts ==
    ASSUME NEW S, NEW s \in Seq(S)
    PROVE  /\ Len(s) \in Nat /\ DOMAIN s = 1 .. Len(s) /\ \A i \in DOMAIN s : s[i] \in S
           /\ \A d \in S : /\ Append(s, d) \in Seq(S) /\ DOMAIN Append(s, d) = 1 .. Len(s) + 1
                           /\ \A i \in DOMAIN s : Append(s, d)[i] = s[i]
                           /\ Append(s, d)[Len(s) + 1] = d
           /\ \A k \in DOMAIN s, d \in S :
                  LET t == [s EXCEPT ![k] = d]
                  IN  t \in Seq(S) /\ DOMAIN t = DOMAIN s /\ \A i \in DOMAIN s : t[i] = IF i = k THEN d ELSE s[i]
           /\ s # <<>> => /\ Head(s) \in S /\ Head(s) = s[1] /\ 1 \in DOMAIN s /\ Tail(s) \in Seq(S)
                          /\ \A i \in DOMAIN Tail(s) : i + 1 \in DOMAIN s /\ Tail(s)[i] = s[i + 1]
                          /\ \A i \in DOMAIN s : i # 1 => i - 1 \in DOMAIN Tail(s) /\ Tail(s)[i - 1] = s[i]
<1>1. Len(s) \in Nat /\ DOMAIN s = 1 .. Len(s) /\ \A i \in DOMAIN s : s[i] \in S
  OBVIOUS
<1>2. ASSUME NEW d \in S
      PROVE  /\ Append(s, d) \in Seq(S) /\ DOMAIN Append(s, d) = 1 .. Len(s) + 1
             /\ \A i \in DOMAIN s : Append(s, d)[i] = s[i]
             /\ Append(s, d)[Len(s) + 1] = d
  OBVIOUS
<1>3. ASSUME NEW k \in DOMAIN s, NEW d \in S
      PROVE  LET t == [s EXCEPT ![k] = d]
             IN  t \in Seq(S) /\ DOMAIN t = DOMAIN s /\ \A i \in DOMAIN s : t[i] = IF i = k THEN d ELSE s[i]
  OBVIOUS
<1>4. ASSUME s # <<>>
      PROVE  /\ Head(s) \in S /\ Head(s) = s[1] /\ 1 \in DOMAIN s /\ Tail(s) \in Seq(S)
             /\ \A i \in DOMAIN Tail(s) : i + 1 \in DOMAIN s /\ Tail(s)[i] = s[i + 1]
             /\ \A i \in DOMAIN s : i # 1 => i - 1 \in DOMAIN Tail(s) /\ Tail(s)[i - 1] = s[i]
  BY <1>4
<1> QED  BY <1>1, <1>2, <1>3, <1>4

LEMMA OwnersOf ==
    ASSUME devices \in Seq(Device)
    PROVE  /\ Owners(devices) \subseteq Pairs
           /\ \A t \in Owners(devices) : t = <<t[1], t[2]>> /\
                 \E i \in DOMAIN devices : devices[i] = [name |-> t[2], of |-> t[1], inet |-> TRUE]
           /\ \A i \in DOMAIN devices : devices[i].inet =>
                 <<devices[i].of, devices[i].name>> \in Owners(devices)
<1>1. \A i \in DOMAIN devices : devices[i] \in Device
  OBVIOUS
<1>2. Owners(devices) \subseteq Pairs
  BY <1>1, DeviceFields DEF Owners, Pairs
<1>3. \A i \in DOMAIN devices : devices[i].inet => <<devices[i].of, devices[i].name>> \in Owners(devices)
  BY DEF Owners
<1>4. ASSUME NEW t \in Owners(devices)
      PROVE  t = <<t[1], t[2]>> /\
             \E i \in DOMAIN devices : devices[i] = [name |-> t[2], of |-> t[1], inet |-> TRUE]
  <2>1. PICK i \in DOMAIN devices : devices[i].inet /\ t = <<devices[i].of, devices[i].name>>
    BY <1>4 DEF Owners
  <2>2. devices[i] \in Device
    BY <1>1, <2>1
  <2>3. devices[i] = [name |-> t[2], of |-> t[1], inet |-> TRUE]
    BY <2>1, <2>2 DEF Device
  <2> QED  BY <2>1, <2>3
<1> QED  BY <1>2, <1>3, <1>4

LEMMA ScanInvInit == ScannerInit => ScanInv
<1> SUFFICES ASSUME ScannerInit PROVE ScanInv
  OBVIOUS
<1>1. sweep \in Sweep
  <2>1. <<>> \in Seq(ScanProfiles) /\ <<>> \in Seq(Device) /\ <<>> \in Seq(Report)
    OBVIOUS
  <2>2. "idle" \in ScanStages /\ "" \in IfaceNames \union {""} /\ 0 \in Nat
    BY DEF ScanStages
  <2> QED  BY <2>1, <2>2 DEF ScannerInit, NoSweep, Sweep
<1>2. devices = <<>> /\ DOMAIN devices = {} /\ devices \in Seq(Device)
  <2>1. devices = <<>>
    BY DEF ScannerInit
  <2>2. <<>> \in Seq(Device) /\ DOMAIN <<>> = {}
    OBVIOUS
  <2> QED  BY <2>1, <2>2
<1>3. Owners(devices) = {}
  BY <1>2 DEF Owners
<1>4. DevicesInv
  BY <1>2 DEF DevicesInv, ScannerInit
<1>5. /\ sweep.pc = "idle" /\ sweep.todo = <<>> /\ sweep.out = <<>> /\ sweep.ever = {}
      /\ sweep.always = {} /\ sweep.ran = {} /\ sweep.pids = {} /\ running = {} /\ view = NoView
  BY DEF ScannerInit, NoSweep
<1>6. HistoryInv /\ StageInv /\ DueInv /\ SeenInv
  BY <1>3, <1>5 DEF HistoryInv, StageInv, DueInv, SeenInv, AtOne, Scanning
<1>7. ReportInv
  <2>1. DOMAIN sweep.out = {}
    BY <1>5
  <2> QED  BY <2>1 DEF ReportInv
<1>8. ViewInv
  BY <1>5 DEF ViewInv, StatusOfOneTunnel
<1> QED  BY <1>1, <1>4, <1>6, <1>7, <1>8 DEF ScanInv

-----------------------------------------------------------------------------
(* The system changes                                                         *)

\* The device p loses.
LEMMA LessSpec ==
    ASSUME DevicesInv, NEW p \in Owner
    PROVE  LET ds == DevicesLess(p) IN
           /\ ds \in Seq(Device)
           /\ \A i \in DOMAIN ds : ds[i].of # p
           /\ \E f \in [DOMAIN ds -> DOMAIN devices] :
                 /\ \A i \in DOMAIN ds : ds[i] = devices[f[i]]
                 /\ \A i, j \in DOMAIN ds : f[i] = f[j] => i = j
<1>1. CASE ~HasDevice(p)
  <2>1. DevicesLess(p) = devices
    BY <1>1 DEF DevicesLess
  <2>2. \A i \in DOMAIN devices : devices[i].of # p
    BY <1>1 DEF HasDevice
  <2> DEFINE f == [i \in DOMAIN devices |-> i]
  <2>3. f \in [DOMAIN devices -> DOMAIN devices] /\ (\A i \in DOMAIN devices : devices[i] = devices[f[i]])
        /\ \A i, j \in DOMAIN devices : f[i] = f[j] => i = j
    OBVIOUS
  <2> HIDE DEF f
  <2> QED  BY <2>1, <2>2, <2>3 DEF DevicesInv
<1>2. CASE HasDevice(p)
  <2> DEFINE K == CHOOSE i \in DOMAIN devices : devices[i].of = p
             f == [i \in 1 .. Len(devices) - 1 |-> IF i < K THEN i ELSE i + 1]
             ds == DevicesLess(p)
  <2>0. devices \in Seq(Device)
    BY DEF DevicesInv
  <2>1. devices \in Seq(Device) /\ DOMAIN devices = 1 .. Len(devices) /\ Len(devices) \in Nat
    BY <2>0
  <2>2. K \in DOMAIN devices /\ devices[K].of = p
    BY <1>2 DEF HasDevice
  <2>3. ds = [i \in 1 .. Len(devices) - 1 |-> devices[IF i < K THEN i ELSE i + 1]]
    BY <1>2 DEF DevicesLess
  <2>4. \A i \in DOMAIN devices : devices[i].of = p => i = K
    BY <2>2 DEF DevicesInv
  <2> HIDE DEF K
  <2>5. \A i \in 1 .. Len(devices) - 1 :
           (IF i < K THEN i ELSE i + 1) \in DOMAIN devices /\ (IF i < K THEN i ELSE i + 1) # K
    BY <2>1, <2>2
  <2>6. f \in [1 .. Len(devices) - 1 -> DOMAIN devices] /\ \A i \in 1 .. Len(devices) - 1 : f[i] # K
    BY <2>5
  <2>7. \A i, j \in 1 .. Len(devices) - 1 : f[i] = f[j] => i = j
    BY <2>1, <2>2
  <2>8. DOMAIN ds = 1 .. Len(devices) - 1 /\ Len(devices) - 1 \in Nat
        /\ \A i \in DOMAIN ds : ds[i] = devices[f[i]]
    BY <2>1, <2>2, <2>3
  <2> HIDE DEF f, ds
  <2>9. \A i \in DOMAIN ds : ds[i] \in Device
    <3>1. \A i \in DOMAIN devices : devices[i] \in Device
      BY <2>1
    <3> QED  BY <2>6, <2>8, <3>1
  <2>10. ds = [i \in 1 .. Len(devices) - 1 |-> ds[i]]
    BY <2>3, <2>8
  <2>11. ds \in Seq(Device)
    BY <2>8, <2>9, <2>10
  <2>12. \A i \in DOMAIN ds : ds[i].of # p
    BY <2>4, <2>6, <2>8
  <2> QED  BY <2>6, <2>7, <2>8, <2>11, <2>12 DEF ds
<1> QED  BY <1>1, <1>2

\* Each change keeps the devices apart.
LEMMA DevicesKept == ScanInv /\ SystemChanges => DevicesInv'
<1> SUFFICES ASSUME ScanInv, SystemChanges PROVE DevicesInv'
  OBVIOUS
<1>0. DevicesInv
  BY DEF ScanInv
<1>01. devices \in Seq(Device)
  BY <1>0 DEF DevicesInv
<1>1. running \subseteq Openvpns /\ logs \in [Openvpns -> DeviceNames \union {""}]
  BY <1>0 DEF DevicesInv
<1>2. /\ Len(devices) \in Nat /\ DOMAIN devices = 1 .. Len(devices)
      /\ \A i \in DOMAIN devices : devices[i] \in Device
  BY <1>01, ListFacts
<1>3. Openvpns \cap Wireguards = {}
  BY ScannerAssumption DEF Openvpns
\* A new device at the end.
<1>4. ASSUME NEW p \in Owner, NEW d \in Device, ~HasDevice(p), d.of = p, Own(d),
             p \notin Wireguards => p \in running, \A i \in DOMAIN devices : devices[i].name # d.name,
             devices' = Append(devices, d), running' = running,
             logs' \in [Openvpns -> DeviceNames \union {""}]
      PROVE  DevicesInv'
  <2>1. /\ devices' \in Seq(Device) /\ DOMAIN devices' = 1 .. Len(devices) + 1
        /\ \A i \in DOMAIN devices : devices'[i] = devices[i]
        /\ devices'[Len(devices) + 1] = d
    <3>1. /\ Append(devices, d) \in Seq(Device) /\ DOMAIN Append(devices, d) = 1 .. Len(devices) + 1
          /\ \A i \in DOMAIN devices : Append(devices, d)[i] = devices[i]
          /\ Append(devices, d)[Len(devices) + 1] = d
      BY <1>01, ListFacts
    <3>2. devices' = Append(devices, d)
      BY <1>4
    <3> QED  BY <3>1, <3>2
  <2>2. \A i \in DOMAIN devices' : i \in DOMAIN devices \/ i = Len(devices) + 1
    BY <1>2, <2>1
  <2>3. \A i \in DOMAIN devices : devices[i].of # p
    BY <1>4, Zenon DEF HasDevice
  <2>4. ASSUME NEW i \in DOMAIN devices', NEW j \in DOMAIN devices',
               devices'[i].name = devices'[j].name \/ devices'[i].of = devices'[j].of
        PROVE  i = j
    BY <1>0, <1>4, <2>1, <2>2, <2>3, <2>4 DEF DevicesInv
  <2>5. ASSUME NEW i \in DOMAIN devices'
        PROVE  Own(devices'[i]) /\ (devices'[i].of \notin Wireguards => devices'[i].of \in running')
    BY <1>0, <1>4, <2>1, <2>2 DEF DevicesInv
  <2>6. running' \subseteq Openvpns
    BY <1>1, <1>4
  <2> QED  BY <1>4, <2>1, <2>4, <2>5, <2>6 DEF DevicesInv, Own
<1>5. ASSUME NEW p \in Wireguards, p \in Owner, WireguardUp(p) PROVE DevicesInv'
  <2> DEFINE d == [name |-> p, of |-> p, inet |-> TRUE]
  <2>1. d \in Device /\ d.of = p /\ Own(d) /\ d.name = p
    BY <1>5 DEF Device, IfaceNames, Own
  <2>2. /\ ~HasDevice(p) /\ devices' = Append(devices, d) /\ running' = running /\ logs' = logs
        /\ \A i \in DOMAIN devices : devices[i].name # p
    BY <1>5 DEF WireguardUp
  <2> HIDE DEF d
  <2> QED  BY <1>1, <1>4, <1>5, <2>1, <2>2
<1>6. ASSUME NEW p \in Openvpns, OpenvpnStarts(p) PROVE DevicesInv'
  <2>1. devices' = devices /\ running' = running \union {p} /\ logs' = [logs EXCEPT ![p] = ""]
    BY <1>6 DEF OpenvpnStarts
  <2>2. logs' \in [Openvpns -> DeviceNames \union {""}] /\ running' \subseteq Openvpns
    BY <1>1, <1>6, <2>1
  <2> QED  BY <1>0, <2>1, <2>2 DEF DevicesInv, Own
<1>7. ASSUME NEW p \in Openvpns, OpenvpnOpens(p) PROVE DevicesInv'
  <2>1. PICK name \in DeviceNames :
           /\ \A i \in DOMAIN devices : devices[i].name # name
           /\ devices' = Append(devices, [name |-> name, of |-> p, inet |-> FALSE])
           /\ logs' = [logs EXCEPT ![p] = IF p = Foreign THEN "" ELSE name]
    BY <1>7 DEF OpenvpnOpens, DeviceNames
  <2> DEFINE d == [name |-> name, of |-> p, inet |-> FALSE]
  <2>2. p \in Owner
    BY DEF Openvpns, Owner
  <2>3. d \in Device /\ d.of = p /\ d.name = name
    BY <2>2 DEF Device, IfaceNames
  <2>4. Own(d)
    BY <1>3, <2>3 DEF Own
  <2>5. logs' \in [Openvpns -> DeviceNames \union {""}]
    BY <1>1, <2>1
  <2>6. ~HasDevice(p) /\ p \in running /\ running' = running
    BY <1>7 DEF OpenvpnOpens
  <2>7. devices' = Append(devices, d)
    BY <2>1
  <2> HIDE DEF d
  <2> QED  BY <1>4, <2>1, <2>2, <2>3, <2>4, <2>5, <2>6, <2>7
<1>8. ASSUME NEW p \in Openvpns, OpenvpnAddress(p) PROVE DevicesInv'
  <2>1. PICK k \in DOMAIN devices : devices' = [devices EXCEPT ![k].inet = TRUE]
    BY <1>8 DEF OpenvpnAddress
  <2>2. running' = running /\ logs' = logs
    BY <1>8 DEF OpenvpnAddress
  <2> DEFINE d == [devices[k] EXCEPT !.inet = TRUE]
  <2>3. d \in Device /\ d.name = devices[k].name /\ d.of = devices[k].of /\ d.inet
    BY <1>2 DEF Device
  <2>4. devices' = [devices EXCEPT ![k] = d]
    BY <2>1
  <2> HIDE DEF d
  <2>5. /\ devices' \in Seq(Device) /\ DOMAIN devices' = DOMAIN devices
        /\ \A i \in DOMAIN devices : devices'[i] = IF i = k THEN d ELSE devices[i]
    BY <1>01, <2>3, <2>4, ListFacts
  <2>6. \A i \in DOMAIN devices : devices'[i].name = devices[i].name /\ devices'[i].of = devices[i].of
    BY <2>3, <2>5
  <2>60. \A i \in DOMAIN devices : devices[i].inet => devices'[i].inet
    BY <2>3, <2>5
  <2>7. \A i, j \in DOMAIN devices' :
           devices'[i].name = devices'[j].name \/ devices'[i].of = devices'[j].of => i = j
    <3>1. \A i, j \in DOMAIN devices : devices[i].name = devices[j].name \/ devices[i].of = devices[j].of => i = j
      BY <1>0 DEF DevicesInv
    <3>2. DOMAIN devices' = DOMAIN devices
      BY <2>5
    <3> QED  BY <2>6, <3>1, <3>2
  <2>8. ASSUME NEW i \in DOMAIN devices'
        PROVE  Own(devices'[i]) /\ (devices'[i].of \notin Wireguards => devices'[i].of \in running')
    <3>1. Own(devices[i]) /\ (devices[i].of \notin Wireguards => devices[i].of \in running)
      BY <1>0, <2>5, <2>8 DEF DevicesInv
    <3>2. /\ devices'[i].name = devices[i].name /\ devices'[i].of = devices[i].of
          /\ devices[i].inet => devices'[i].inet
      BY <2>5, <2>6, <2>60, <2>8
    <3> QED  BY <2>2, <3>1, <3>2 DEF Own
  <2> QED  BY <1>1, <2>2, <2>5, <2>7, <2>8 DEF DevicesInv, Own
<1>9. ASSUME NEW p \in Owner, TunnelEnds(p) PROVE DevicesInv'
  <2> DEFINE ds == DevicesLess(p)
  <2>1. devices' = ds /\ running' = running \ {p}
    BY <1>9 DEF TunnelEnds
  <2>2. logs' \in [Openvpns -> DeviceNames \union {""}]
    <3>1. logs' = logs \/ (p \in Openvpns /\ logs' = [logs EXCEPT ![p] = ""])
      BY <1>9 DEF TunnelEnds
    <3> QED  BY <1>1, <3>1
  <2>3. ds \in Seq(Device) /\ \A i \in DOMAIN ds : ds[i].of # p
    BY <1>0, LessSpec
  <2>4. PICK f \in [DOMAIN ds -> DOMAIN devices] :
           /\ \A i \in DOMAIN ds : ds[i] = devices[f[i]]
           /\ \A i, j \in DOMAIN ds : f[i] = f[j] => i = j
    BY <1>0, LessSpec
  <2> HIDE DEF ds
  <2>5. ASSUME NEW i \in DOMAIN ds, NEW j \in DOMAIN ds, ds[i].name = ds[j].name \/ ds[i].of = ds[j].of
        PROVE  i = j
    <3>1. f[i] \in DOMAIN devices /\ f[j] \in DOMAIN devices
      BY <2>4
    <3>2. devices[f[i]].name = devices[f[j]].name \/ devices[f[i]].of = devices[f[j]].of
      BY <2>4, <2>5
    <3>3. f[i] = f[j]
      BY <1>0, <3>1, <3>2, Zenon DEF DevicesInv
    <3> QED  BY <2>4, <3>3
  <2>6. \A i \in DOMAIN ds : Own(ds[i]) /\ (ds[i].of \notin Wireguards => ds[i].of \in running \ {p})
    <3> TAKE i \in DOMAIN ds
    <3>1. f[i] \in DOMAIN devices /\ ds[i] = devices[f[i]] /\ ds[i].of # p
      BY <2>3, <2>4
    <3>2. Own(devices[f[i]]) /\ (devices[f[i]].of \notin Wireguards => devices[f[i]].of \in running)
      BY <1>0, <3>1, Zenon DEF DevicesInv
    <3> QED  BY <3>1, <3>2
  <2> QED  BY <1>1, <2>1, <2>2, <2>3, <2>5, <2>6 DEF DevicesInv, Own
<1>10. PICK p \in ScanProfiles \union {Foreign} :
         \/ p \in Wireguards /\ WireguardUp(p)
         \/ p \in Openvpns /\ (OpenvpnStarts(p) \/ OpenvpnOpens(p) \/ OpenvpnAddress(p))
         \/ TunnelEnds(p)
  BY DEF SystemChanges
<1>11. p \in Owner
  BY DEF Owner
<1> QED  BY <1>5, <1>6, <1>7, <1>8, <1>9, <1>10, <1>11

\* The history variables grow with the system and nothing else of the sweep moves.
LEMMA WitnessFields ==
    ASSUME sweep \in Sweep, Witness, DevicesInv', running' \subseteq Openvpns
    PROVE  /\ sweep' \in Sweep
           /\ sweep'.ever = sweep.ever \union Owners(devices)'
           /\ sweep'.always = sweep.always \intersect Owners(devices)'
           /\ sweep'.ran = sweep.ran \union running'
           /\ sweep'.pc = sweep.pc /\ sweep'.todo = sweep.todo /\ sweep'.pids = sweep.pids
           /\ sweep'.seen = sweep.seen /\ sweep'.found = sweep.found /\ sweep'.sure = sweep.sure
           /\ sweep'.out = sweep.out /\ sweep'.failures = sweep.failures
<1> DEFINE e == sweep.ever \union Owners(devices)'
           a == sweep.always \intersect Owners(devices)'
           r == sweep.ran \union running'
           c == IF sweep.pc \in {"idle", "shown"} THEN sweep.changes ELSE sweep.changes + 1
<1>1. sweep' = [sweep EXCEPT !.ever = e, !.always = a, !.ran = r, !.changes = c]
  BY DEF Witness, Owners
<1>2. Owners(devices)' \subseteq Pairs
  <2>1. devices' \in Seq(Device)
    BY DEF DevicesInv
  <2>2. \A i \in DOMAIN devices' : devices'[i] \in Device
    BY <2>1, ListFacts
  <2> QED  BY <2>2, DeviceFields DEF Owners, Pairs
<1>3. e \subseteq Pairs /\ a \subseteq Pairs /\ r \subseteq Openvpns
  BY <1>2, SweepFields
<1>4. c \in Nat
  <2>1. sweep.changes \in Nat
    BY SweepFields
  <2> QED  BY <2>1
<1> HIDE DEF e, a, r, c
<1>5. sweep' \in Sweep
  BY <1>1, <1>3, <1>4 DEF Sweep
<1>6. /\ sweep'.ever = e /\ sweep'.always = a /\ sweep'.ran = r
      /\ sweep'.pc = sweep.pc /\ sweep'.todo = sweep.todo /\ sweep'.pids = sweep.pids
      /\ sweep'.seen = sweep.seen /\ sweep'.found = sweep.found /\ sweep'.sure = sweep.sure
      /\ sweep'.out = sweep.out /\ sweep'.failures = sweep.failures
  BY <1>1 DEF Sweep
<1> QED  BY <1>5, <1>6 DEF e, a, r

LEMMA SystemStep == ScanInv /\ SystemChanges => ScanInv'
<1> SUFFICES ASSUME ScanInv, SystemChanges PROVE ScanInv'
  OBVIOUS
<1>1. DevicesInv'
  BY DevicesKept
<1>2. sweep \in Sweep /\ Witness /\ view' = view /\ running' \subseteq Openvpns
  BY <1>1 DEF ScanInv, SystemChanges, DevicesInv
<1>3. /\ sweep' \in Sweep
      /\ sweep'.ever = sweep.ever \union Owners(devices)'
      /\ sweep'.always = sweep.always \intersect Owners(devices)'
      /\ sweep'.ran = sweep.ran \union running'
      /\ sweep'.pc = sweep.pc /\ sweep'.todo = sweep.todo /\ sweep'.pids = sweep.pids
      /\ sweep'.seen = sweep.seen /\ sweep'.found = sweep.found /\ sweep'.sure = sweep.sure
      /\ sweep'.out = sweep.out /\ sweep'.failures = sweep.failures
  BY <1>1, <1>2, WitnessFields
<1>4. sweep.pc # "shown"
  BY DEF SystemChanges, WireguardUp, OpenvpnStarts, OpenvpnOpens, OpenvpnAddress, TunnelEnds, MayChange
<1>5. /\ sweep.ever \subseteq sweep'.ever /\ sweep'.always \subseteq sweep.always /\ sweep.ran \subseteq sweep'.ran
  BY <1>3
<1>6. HistoryInv /\ StageInv /\ DueInv /\ SeenInv /\ ReportInv /\ ViewInv
  BY DEF ScanInv
<1>7. HistoryInv'
  <2>1. \A t \in Owners(devices)' : IF t[1] \in Wireguards THEN t[2] = t[1] ELSE t[1] \in running'
    <3> SUFFICES ASSUME NEW i \in DOMAIN devices', NEW t, t = <<devices'[i].of, devices'[i].name>>
                 PROVE  IF t[1] \in Wireguards THEN t[2] = t[1] ELSE t[1] \in running'
      BY DEF Owners
    <3>1. Own(devices'[i]) /\ (devices'[i].of \notin Wireguards => devices'[i].of \in running')
      BY <1>1 DEF DevicesInv, Own
    <3> QED  BY <3>1 DEF Own
  <2>2. \A t \in sweep'.ever : IF t[1] \in Wireguards THEN t[2] = t[1] ELSE t[1] \in sweep'.ran
    BY <1>3, <1>6, <2>1 DEF HistoryInv
  <2>3. /\ sweep'.always \subseteq Owners(devices)' /\ Owners(devices)' \subseteq sweep'.ever
        /\ sweep'.always \subseteq sweep'.ever /\ running' \subseteq sweep'.ran /\ sweep'.pids \subseteq sweep'.ran
    BY <1>3, <1>6 DEF HistoryInv
  <2> QED  BY <2>2, <2>3 DEF HistoryInv
<1>8. Cur' = Cur /\ (\A p : Due(p)' <=> Due(p))
  BY <1>3 DEF Cur, Due, ReportedNames
<1>9. StageInv'
  BY <1>3, <1>5, <1>6, <1>8 DEF StageInv
<1>10. DueInv'
  <2>1. ASSUME sweep'.failures = 0, NEW t \in sweep'.always
        PROVE  /\ sweep'.pc \notin {"idle"} /\ t[1] # Foreign => Due(t[1])'
               /\ sweep'.pc \in Scanning /\ t[1] # Foreign /\ t[1] \notin Wireguards => t[1] \in sweep'.pids
               /\ sweep'.pc = "device" /\ t[1] = Cur' =>
                   \E i \in DOMAIN sweep'.seen : sweep'.seen[i] = [name |-> t[2], of |-> t[1], inet |-> TRUE]
    <3>1. t \in sweep.always /\ sweep.failures = 0
      BY <1>3, <1>5, <2>1
    <3>2. Due(t[1])' <=> Due(t[1])
      BY <1>8
    <3> QED  BY <1>3, <1>6, <1>8, <3>1, <3>2 DEF DueInv
  <2> QED  BY <2>1 DEF DueInv
<1>11. SeenInv'
  BY <1>3, <1>5, <1>6 DEF SeenInv
<1>12. ReportInv'
  <2> SUFFICES ASSUME NEW i \in DOMAIN sweep.out PROVE Entry1(sweep.out[i])'
    BY <1>3 DEF ReportInv, Entry1, Steady
  <2> DEFINE x == sweep.out[i]
  <2>1. Entry1(x)
    BY <1>6 DEF ReportInv
  <2>2. IF x.of \in Wireguards THEN x.iface = x.of /\ \E t \in sweep'.ever : t[1] = x.of ELSE x.of \in sweep'.ran
    BY <1>5, <2>1 DEF Entry1
  <2>3. ASSUME x.of \notin Wireguards, sweep'.failures = 0, sweep'.ran = {x.of}, sweep'.ever \subseteq sweep'.always
        PROVE  <<x.of, x.iface>> \in sweep'.ever \/ sweep'.ever \subseteq Wireguards \X Wireguards
    <3>1. sweep.ran = {x.of} /\ sweep.ever \subseteq sweep.always /\ sweep'.ever \subseteq sweep.ever
      BY <1>5, <1>6, <2>1, <2>3 DEF Entry1, HistoryInv
    <3>2. <<x.of, x.iface>> \in sweep.ever \/ sweep.ever \subseteq Wireguards \X Wireguards
      BY <1>3, <2>1, <2>3, <3>1 DEF Entry1, Steady
    <3> QED  BY <1>5, <3>1, <3>2
  <2> HIDE DEF x
  <2>4. sweep'.out[i] = x
    BY <1>3 DEF x
  <2> QED  BY <1>3, <2>2, <2>3, <2>4 DEF Entry1, Steady
<1>13. ViewInv'
  BY <1>2, <1>3, <1>4, <1>6 DEF ViewInv, StatusOfOneTunnel
<1> QED  BY <1>1, <1>3, <1>7, <1>9, <1>10, <1>11, <1>12, <1>13 DEF ScanInv

-----------------------------------------------------------------------------
(* The commands of the sweep                                                  *)

\* A command looks at the system and leaves it alone; one that failed is counted.
Looks ==
    /\ Kept /\ sweep' \in Sweep
    /\ sweep'.ever = sweep.ever /\ sweep'.always = sweep.always /\ sweep'.ran = sweep.ran
    /\ sweep'.failures = 0 => sweep.failures = 0

LEMMA Looked ==
    ASSUME ScanInv, Looks, sweep'.pids \subseteq sweep.ran
    PROVE  /\ DevicesInv' /\ HistoryInv' /\ Owners(devices)' = Owners(devices)
           /\ \A x : Entry1(x) => Entry1(x)'
<1>1. devices' = devices /\ running' = running /\ logs' = logs /\ view' = view
  BY DEF Looks, Kept
<1>2. DevicesInv /\ HistoryInv
  BY DEF ScanInv
<1>3. DevicesInv'
  BY <1>1, <1>2 DEF DevicesInv, Own
<1>4. Owners(devices)' = Owners(devices)
  BY <1>1 DEF Owners
<1>5. HistoryInv'
  BY <1>1, <1>2, <1>4 DEF HistoryInv, Looks
<1>6. \A x : Entry1(x) => Entry1(x)'
  BY DEF Entry1, Steady, Looks
<1> QED  BY <1>3, <1>4, <1>5, <1>6

\* On to the next profile, with this one in the report or rightly not.
LEMMA Advance ==
    ASSUME ScanInv, Looks, sweep.pc \in Scanning, sweep.todo # <<>>,
           sweep'.pc = "profile", sweep'.todo = Tail(sweep.todo), sweep'.pids = sweep.pids,
           \/ sweep'.out = sweep.out /\ (sweep'.failures = 0 => \A t \in sweep.always : t[1] # Cur)
           \/ \E x \in Report : x.of = Cur /\ Entry1(x)' /\ sweep'.out = Append(sweep.out, x)
    PROVE  ScanInv'
<1>1. HistoryInv /\ StageInv /\ DueInv /\ SeenInv /\ ReportInv /\ ViewInv /\ sweep \in Sweep
  BY DEF ScanInv
<1>2. DevicesInv' /\ HistoryInv' /\ \A x : Entry1(x) => Entry1(x)'
  BY <1>1, Looked DEF HistoryInv
<1>3. sweep.out \in Seq(Report) /\ sweep.todo \in Seq(ScanProfiles)
  BY <1>1, SweepFields
<1>4. Cur = sweep.todo[1] /\ \A i \in DOMAIN sweep.todo : i # 1 =>
         i - 1 \in DOMAIN Tail(sweep.todo) /\ Tail(sweep.todo)[i - 1] = sweep.todo[i]
  BY <1>3, ListFacts DEF Cur
<1>5. /\ ReportInv'
      /\ \A p \in ReportedNames(sweep.out) : p \in ReportedNames(sweep.out)'
      /\ sweep'.failures = 0 => \A t \in sweep.always : t[1] = Cur => t[1] \in ReportedNames(sweep.out)'
  <2>1. CASE sweep'.out = sweep.out /\ (sweep'.failures = 0 => \A t \in sweep.always : t[1] # Cur)
    <3>1. \A i \in DOMAIN sweep'.out : Entry1(sweep'.out[i])
      BY <1>1, <2>1 DEF ReportInv
    <3>2. ReportInv'
      BY <1>2, <3>1 DEF ReportInv
    <3> QED  BY <2>1, <3>2 DEF ReportedNames
  <2>2. ASSUME NEW x \in Report, x.of = Cur, Entry1(x)', sweep'.out = Append(sweep.out, x)
        PROVE  /\ ReportInv'
               /\ \A p \in ReportedNames(sweep.out) : p \in ReportedNames(sweep.out)'
               /\ sweep'.failures = 0 => \A t \in sweep.always : t[1] = Cur => t[1] \in ReportedNames(sweep.out)'
    <3>1. /\ DOMAIN Append(sweep.out, x) = 1 .. Len(sweep.out) + 1
          /\ \A i \in DOMAIN sweep.out : Append(sweep.out, x)[i] = sweep.out[i]
          /\ Append(sweep.out, x)[Len(sweep.out) + 1] = x
          /\ Len(sweep.out) \in Nat /\ DOMAIN sweep.out = 1 .. Len(sweep.out)
      BY <1>3, ListFacts
    <3>2. /\ DOMAIN sweep'.out = 1 .. Len(sweep.out) + 1
          /\ \A i \in DOMAIN sweep.out : i \in DOMAIN sweep'.out /\ sweep'.out[i] = sweep.out[i]
          /\ sweep'.out[Len(sweep.out) + 1] = x /\ Len(sweep.out) + 1 \in DOMAIN sweep'.out
      BY <2>2, <3>1
    <3>3. \A i \in DOMAIN sweep'.out : i \in DOMAIN sweep.out \/ i = Len(sweep.out) + 1
      BY <3>1, <3>2
    <3>4. ASSUME NEW i \in DOMAIN sweep'.out PROVE Entry1(sweep.out[i])'
      <4>1. CASE i = Len(sweep.out) + 1
        BY <2>2, <3>2, <4>1 DEF Entry1, Steady
      <4>2. CASE i \in DOMAIN sweep.out
        <5> DEFINE y == sweep.out[i]
        <5>1. Entry1(y)
          BY <1>1, <4>2 DEF ReportInv
        <5>2. sweep'.out[i] = y
          BY <3>2, <4>2
        <5> HIDE DEF y
        <5>3. PICK z : z = y /\ sweep'.out[i] = z /\ Entry1(z)
          BY <5>1, <5>2
        <5>4. Entry1(z)'
          BY <1>2, <5>3
        <5> QED  BY <5>3, <5>4 DEF Entry1, Steady
      <4> QED  BY <3>3, <4>1, <4>2
    <3>5. ReportInv'
      BY <3>4 DEF ReportInv
    <3>6. \A p \in ReportedNames(sweep.out) : p \in ReportedNames(sweep.out)'
      BY <3>2 DEF ReportedNames
    <3>7. Cur \in ReportedNames(sweep.out)'
      BY <2>2, <3>2 DEF ReportedNames
    <3> QED  BY <3>5, <3>6, <3>7
  <2> QED  BY <2>1, <2>2
<1>6. StageInv' /\ SeenInv'
  BY DEF StageInv, SeenInv, AtOne
<1>7. DueInv'
  <2>1. ASSUME sweep'.failures = 0, NEW t \in sweep.always
        PROVE  /\ t[1] # Foreign => Due(t[1])'
               /\ t[1] # Foreign /\ t[1] \notin Wireguards => t[1] \in sweep.pids
    <3>1. sweep.failures = 0 /\ sweep.pc # "idle"
      BY <2>1 DEF Looks, Scanning
    <3>2. /\ t[1] # Foreign => Due(t[1])
          /\ t[1] # Foreign /\ t[1] \notin Wireguards => t[1] \in sweep.pids
      BY <1>1, <2>1, <3>1 DEF DueInv
    <3>3. ASSUME Due(t[1]) PROVE Due(t[1])'
      <4>1. CASE t[1] \in ReportedNames(sweep.out)
        BY <1>5, <4>1 DEF Due
      <4>2. ASSUME NEW i \in DOMAIN sweep.todo, sweep.todo[i] = t[1] PROVE Due(t[1])'
        <5>1. CASE i = 1
          BY <1>4, <1>5, <2>1, <4>2, <5>1 DEF Due
        <5>2. CASE i # 1
          <6>1. i - 1 \in DOMAIN sweep'.todo /\ sweep'.todo[i - 1] = t[1]
            BY <1>4, <4>2, <5>2
          <6> QED  BY <6>1 DEF Due
        <5> QED  BY <5>1, <5>2
      <4> QED  BY <3>3, <4>1, <4>2 DEF Due
    <3> QED  BY <3>2, <3>3
  <2> QED  BY <2>1 DEF DueInv, Looks
<1>8. ViewInv'
  BY <1>1 DEF ViewInv, StatusOfOneTunnel, Looks, Kept, Scanning
<1> QED  BY <1>2, <1>5, <1>6, <1>7, <1>8 DEF ScanInv, Looks

\* More to find out about this profile.
LEMMA WordsStay ==
    ASSUME ScanInv, Looks, sweep.pc \in Scanning, sweep.todo # <<>>,
           sweep'.pc \in AtOne, sweep'.todo = sweep.todo, sweep'.pids = sweep.pids, sweep'.out = sweep.out,
           sweep'.pc = "wg" => Cur \in Wireguards,
           sweep'.pc \in {"addr", "device"} => Cur \notin Wireguards /\ Cur \in sweep.ran,
           sweep'.pc = "device" /\ sweep'.failures = 0 =>
              /\ \A i \in DOMAIN sweep'.seen :
                    sweep'.seen[i].inet => <<sweep'.seen[i].of, sweep'.seen[i].name>> \in sweep.ever
              /\ \A t \in sweep.always : t[1] = Cur =>
                    \E i \in DOMAIN sweep'.seen : sweep'.seen[i] = [name |-> t[2], of |-> t[1], inet |-> TRUE]
    PROVE  ScanInv'
<1>1. HistoryInv /\ StageInv /\ DueInv /\ SeenInv /\ ReportInv /\ ViewInv /\ sweep \in Sweep
  BY DEF ScanInv
<1>2. DevicesInv' /\ HistoryInv' /\ \A x : Entry1(x) => Entry1(x)'
  BY <1>1, Looked DEF HistoryInv
<1>3. Cur' = Cur /\ \A p : Due(p) => Due(p)'
  BY DEF Cur, Due, ReportedNames
<1>4. StageInv'
  BY <1>3 DEF StageInv, AtOne, Looks
<1>5. SeenInv'
  BY DEF SeenInv, Looks
<1>6. DueInv'
  <2>1. ASSUME sweep'.failures = 0, NEW t \in sweep.always
        PROVE  /\ t[1] # Foreign => Due(t[1])'
               /\ t[1] # Foreign /\ t[1] \notin Wireguards => t[1] \in sweep.pids
    <3>1. sweep.failures = 0 /\ sweep.pc # "idle"
      BY <2>1 DEF Looks, Scanning
    <3> QED  BY <1>1, <1>3, <2>1, <3>1 DEF DueInv
  <2> QED  BY <1>3, <2>1 DEF DueInv, Looks
<1>7. ReportInv'
  <2>1. \A i \in DOMAIN sweep'.out : Entry1(sweep'.out[i])
    BY <1>1 DEF ReportInv
  <2> QED  BY <1>2, <2>1 DEF ReportInv
<1>8. ViewInv'
  BY <1>1 DEF ViewInv, StatusOfOneTunnel, Looks, Kept, Scanning, AtOne
<1> QED  BY <1>2, <1>4, <1>5, <1>6, <1>7, <1>8 DEF ScanInv, Looks

\* The forms in which the commands change the sweep.
LEMMA SweepForms ==
    ASSUME NEW x \in Sweep
    PROVE  /\ x.todo # <<>> =>
                LET y == NextProfile(x) IN
                /\ y \in Sweep /\ y.pc = "profile" /\ y.todo = Tail(x.todo) /\ y.pids = x.pids /\ y.out = x.out
                /\ y.ever = x.ever /\ y.always = x.always /\ y.ran = x.ran /\ y.failures = x.failures
           /\ \A o \in Seq(Report) :
                LET y == [x EXCEPT !.out = o] IN
                /\ y \in Sweep /\ y.pc = x.pc /\ y.todo = x.todo /\ y.pids = x.pids /\ y.out = o
                /\ y.ever = x.ever /\ y.always = x.always /\ y.ran = x.ran /\ y.failures = x.failures
           /\ LET y == [x EXCEPT !.failures = @ + 1] IN
                /\ y \in Sweep /\ y.pc = x.pc /\ y.todo = x.todo /\ y.pids = x.pids /\ y.out = x.out
                /\ y.ever = x.ever /\ y.always = x.always /\ y.ran = x.ran /\ y.failures # 0 /\ y.seen = x.seen
           /\ \A c \in ScanStages :
                LET y == [x EXCEPT !.pc = c] IN
                /\ y \in Sweep /\ y.pc = c /\ y.todo = x.todo /\ y.pids = x.pids /\ y.out = x.out
                /\ y.ever = x.ever /\ y.always = x.always /\ y.ran = x.ran /\ y.failures = x.failures
                /\ y.seen = x.seen
<1>1. ASSUME x.todo # <<>>
      PROVE  LET y == NextProfile(x) IN
             /\ y \in Sweep /\ y.pc = "profile" /\ y.todo = Tail(x.todo) /\ y.pids = x.pids /\ y.out = x.out
             /\ y.ever = x.ever /\ y.always = x.always /\ y.ran = x.ran /\ y.failures = x.failures
  <2>1. Tail(x.todo) \in Seq(ScanProfiles)
    BY <1>1, SweepFields, ListFacts
  <2>2. <<>> \in Seq(Device) /\ "profile" \in ScanStages /\ "" \in IfaceNames \union {""}
    BY DEF ScanStages
  <2> QED  BY <2>1, <2>2 DEF Sweep, NextProfile
<1>2. ASSUME NEW o \in Seq(Report)
      PROVE  LET y == [x EXCEPT !.out = o] IN
             /\ y \in Sweep /\ y.pc = x.pc /\ y.todo = x.todo /\ y.pids = x.pids /\ y.out = o
             /\ y.ever = x.ever /\ y.always = x.always /\ y.ran = x.ran /\ y.failures = x.failures
  BY DEF Sweep
<1>3. LET y == [x EXCEPT !.failures = @ + 1] IN
      /\ y \in Sweep /\ y.pc = x.pc /\ y.todo = x.todo /\ y.pids = x.pids /\ y.out = x.out
      /\ y.ever = x.ever /\ y.always = x.always /\ y.ran = x.ran /\ y.failures # 0 /\ y.seen = x.seen
  <2>0. x.failures \in Nat
    BY SweepFields
  <2>1. PICK f \in Nat : x.failures + 1 = f
    BY <2>0
  <2>2. f # 0
    BY <2>0, <2>1
  <2>3. [x EXCEPT !.failures = @ + 1] = [x EXCEPT !.failures = f]
    BY <2>1
  <2>4. LET y == [x EXCEPT !.failures = f] IN
        /\ y \in Sweep /\ y.pc = x.pc /\ y.todo = x.todo /\ y.pids = x.pids /\ y.out = x.out
        /\ y.ever = x.ever /\ y.always = x.always /\ y.ran = x.ran /\ y.failures = f /\ y.seen = x.seen
    BY DEF Sweep
  <2> QED  BY <2>2, <2>3, <2>4
<1>4. ASSUME NEW c \in ScanStages
      PROVE  LET y == [x EXCEPT !.pc = c] IN
             /\ y \in Sweep /\ y.pc = c /\ y.todo = x.todo /\ y.pids = x.pids /\ y.out = x.out
             /\ y.ever = x.ever /\ y.always = x.always /\ y.ran = x.ran /\ y.failures = x.failures
             /\ y.seen = x.seen
  BY DEF Sweep
<1> QED  BY <1>1, <1>2, <1>3, <1>4

\* The report of this profile, of the device n.
LEMMA ReportedSpec ==
    ASSUME ScanInv, NEW n \in IfaceNames \union {""}, NEW b \in BOOLEAN, sweep.todo # <<>>
    PROVE  LET x == [of |-> Cur, iface |-> n, sure |-> b] IN
           /\ Cur \in ScanProfiles /\ x \in Report /\ x.of = Cur /\ x.iface = n
           /\ Reported(n, b) = Append(sweep.out, x) /\ Reported(n, b) \in Seq(Report)
<1>1. sweep.todo \in Seq(ScanProfiles) /\ sweep.out \in Seq(Report)
  BY SweepFields DEF ScanInv
<1>2. Cur \in ScanProfiles
  BY <1>1, ListFacts DEF Cur
<1> DEFINE x == [of |-> Cur, iface |-> n, sure |-> b]
<1>3. x \in Report /\ x.of = Cur /\ x.iface = n
  BY <1>2, ReportFields
<1>4. Reported(n, b) = Append(sweep.out, x)
  BY DEF Reported
<1> HIDE DEF x
<1>5. Append(sweep.out, x) \in Seq(Report)
  BY <1>1, <1>3, ListFacts
<1> QED  BY <1>2, <1>3, <1>4, <1>5 DEF x

LEMMA WireguardStep == ScanInv /\ CheckWireguardByName => ScanInv'
<1> SUFFICES ASSUME ScanInv, CheckWireguardByName PROVE ScanInv'
  OBVIOUS
<1> DEFINE no == IF sweep.pc = "profile" THEN [sweep EXCEPT !.pc = "wg"] ELSE NextProfile(sweep)
           n  == NextProfile(sweep)
           y  == [n EXCEPT !.out = Reported(Cur, TRUE)]
<1>1. sweep.pc \in {"profile", "wg"} /\ sweep.todo # <<>> /\ Cur \in Wireguards /\ Kept
  BY DEF CheckWireguardByName
<1>2. sweep \in Sweep /\ DevicesInv /\ HistoryInv
  BY DEF ScanInv
<1>3. /\ n \in Sweep /\ n.pc = "profile" /\ n.todo = Tail(sweep.todo) /\ n.pids = sweep.pids /\ n.out = sweep.out
      /\ n.ever = sweep.ever /\ n.always = sweep.always /\ n.ran = sweep.ran /\ n.failures = sweep.failures
  BY <1>1, <1>2, SweepForms
<1>4. sweep.pc \in Scanning /\ Cur \in IfaceNames \union {""}
  BY <1>1 DEF Scanning, IfaceNames
<1>5. CASE sweep' = y /\ HasDevice(Cur)
  <2> DEFINE x == [of |-> Cur, iface |-> Cur, sure |-> TRUE]
  <2>1. /\ x \in Report /\ x.of = Cur /\ x.iface = Cur
        /\ Reported(Cur, TRUE) = Append(sweep.out, x) /\ Reported(Cur, TRUE) \in Seq(Report)
    BY <1>1, <1>4, ReportedSpec
  <2> HIDE DEF n, x
  <2>2. /\ sweep' \in Sweep /\ sweep'.pc = "profile" /\ sweep'.todo = Tail(sweep.todo) /\ sweep'.pids = sweep.pids
        /\ sweep'.out = Append(sweep.out, x) /\ sweep'.failures = sweep.failures
        /\ sweep'.ever = sweep.ever /\ sweep'.always = sweep.always /\ sweep'.ran = sweep.ran
    BY <1>3, <1>5, <2>1, SweepForms
  <2>3. \E t \in sweep.ever : t[1] = Cur
    <3>1. PICK i \in DOMAIN devices : devices[i].of = Cur
      BY <1>5 DEF HasDevice
    <3>2. devices[i].inet /\ devices \in Seq(Device)
      BY <1>1, <1>2, <3>1 DEF DevicesInv, Own
    <3>3. <<devices[i].of, devices[i].name>> \in Owners(devices)
      BY <3>2, OwnersOf
    <3> QED  BY <1>2, <3>1, <3>3 DEF HistoryInv
  <2>4. PICK z \in Report : z.of = Cur /\ z.iface = Cur /\ sweep'.out = Append(sweep.out, z)
    BY <2>1, <2>2
  <2>40. Entry1(z)'
    <3>1. z.iface = z.of /\ \E t \in sweep'.ever : t[1] = z.of
      BY <2>2, <2>3, <2>4
    <3> QED  BY <1>1, <2>4, <3>1 DEF Entry1
  <2>5. Looks
    BY <1>1, <2>2 DEF Looks
  <2> QED  BY <1>1, <1>4, <2>2, <2>4, <2>40, <2>5, Advance
\* It says no, or nothing.
<1>6. ASSUME sweep' \in Sweep, sweep'.pids = no.pids, sweep'.todo = no.todo, sweep'.pc = no.pc, sweep'.out = no.out,
             sweep'.ever = no.ever, sweep'.always = no.always, sweep'.ran = no.ran,
             sweep'.failures = 0 => sweep.failures = 0 /\ ~HasDevice(Cur)
      PROVE  ScanInv'
  <2>1. CASE sweep.pc = "profile"
    <3>1. "wg" \in ScanStages
      BY DEF ScanStages
    <3>2. no = [sweep EXCEPT !.pc = "wg"]
      BY <2>1
    <3>3. /\ no.pc = "wg" /\ no.todo = sweep.todo /\ no.pids = sweep.pids /\ no.out = sweep.out
          /\ no.ever = sweep.ever /\ no.always = sweep.always /\ no.ran = sweep.ran
      BY <1>2, <3>2 DEF Sweep
    <3> HIDE DEF no
    <3>4. Looks /\ sweep'.pc = "wg" /\ sweep'.pc \in AtOne
      BY <1>1, <1>6, <3>3 DEF Looks, AtOne
    <3> QED  BY <1>1, <1>4, <1>6, <3>3, <3>4, WordsStay
  <2>2. CASE sweep.pc # "profile"
    <3>1. no = n
      BY <2>2
    <3> HIDE DEF no, n
    <3>2. Looks
      BY <1>1, <1>3, <1>6, <3>1 DEF Looks
    <3>3. ASSUME sweep'.failures = 0, NEW t \in sweep.always PROVE t[1] # Cur
      <4>1. t \in Owners(devices) /\ ~HasDevice(Cur) /\ devices \in Seq(Device)
        BY <1>2, <1>6, <3>3 DEF HistoryInv, DevicesInv
      <4>2. PICK i \in DOMAIN devices : devices[i] = [name |-> t[2], of |-> t[1], inet |-> TRUE]
        BY <4>1, OwnersOf
      <4> QED  BY <4>1, <4>2 DEF HasDevice
    <3> QED  BY <1>1, <1>3, <1>4, <1>6, <3>1, <3>2, <3>3, Advance
  <2> QED  BY <2>1, <2>2
<1>7. no \in Sweep /\ no.failures = sweep.failures
  <2>1. "wg" \in ScanStages
    BY DEF ScanStages
  <2> QED  BY <1>2, <1>3, <2>1, SweepForms
<1>8. CASE sweep' = no /\ ~HasDevice(Cur)
  <2> HIDE DEF no
  <2> QED  BY <1>6, <1>7, <1>8
<1>9. CASE sweep' = [no EXCEPT !.failures = @ + 1]
  <2> HIDE DEF no
  <2> QED  BY <1>6, <1>7, <1>9, SweepForms
<1> QED  BY <1>5, <1>8, <1>9 DEF CheckWireguardByName

LEMMA BeginStep == ScanInv /\ GetActiveProfiles => ScanInv'
<1> SUFFICES ASSUME ScanInv, GetActiveProfiles PROVE ScanInv'
  OBVIOUS
<1>1. /\ DevicesInv /\ devices' = devices /\ running' = running /\ logs' = logs /\ view' = view
      /\ sweep.pc = "idle" /\ view = NoView
  BY DEF ScanInv, GetActiveProfiles, Kept, ViewInv
<1>2. devices \in Seq(Device) /\ running \subseteq Openvpns
  BY <1>1 DEF DevicesInv
<1>3. PICK c \in {"ps", "profile"} :
        /\ c = "profile" => ScanProfiles \subseteq Wireguards
        /\ sweep' = [NoSweep EXCEPT !.pc = c, !.todo = ScanList, !.ever = Owners(devices),
                                    !.always = Owners(devices), !.ran = running]
  BY DEF GetActiveProfiles
<1>4. Owners(devices) \subseteq Pairs /\ ScanList \in Seq(ScanProfiles)
  BY <1>2, OwnersOf, ScannerAssumption
<1>5. /\ sweep' \in Sweep
      /\ sweep'.pc = c /\ sweep'.todo = ScanList /\ sweep'.ever = Owners(devices) /\ sweep'.always = Owners(devices)
      /\ sweep'.ran = running /\ sweep'.out = <<>> /\ sweep'.pids = {} /\ sweep'.failures = 0
  <2>1. sweep' = [pc |-> c, todo |-> ScanList, pids |-> {}, seen |-> <<>>, found |-> "", sure |-> FALSE,
                  out |-> <<>>, changes |-> 0, failures |-> 0, ever |-> Owners(devices),
                  always |-> Owners(devices), ran |-> running]
    BY <1>3 DEF NoSweep
  <2>2. <<>> \in Seq(Device) /\ <<>> \in Seq(Report)
    OBVIOUS
  <2>3. c \in ScanStages /\ "" \in IfaceNames \union {""} /\ 0 \in Nat
    BY DEF ScanStages
  <2> QED  BY <1>2, <1>4, <2>1, <2>2, <2>3 DEF Sweep
<1>6. Owners(devices)' = Owners(devices)
  BY <1>1 DEF Owners
<1>7. \A t \in Owners(devices) : IF t[1] \in Wireguards THEN t[2] = t[1] ELSE t[1] \in running
  <2> SUFFICES ASSUME NEW i \in DOMAIN devices, NEW t, t = <<devices[i].of, devices[i].name>>
               PROVE  IF t[1] \in Wireguards THEN t[2] = t[1] ELSE t[1] \in running
    BY DEF Owners
  <2>1. Own(devices[i]) /\ (devices[i].of \notin Wireguards => devices[i].of \in running)
    BY <1>1 DEF DevicesInv
  <2> QED  BY <2>1 DEF Own
<1>8. HistoryInv'
  BY <1>1, <1>5, <1>6, <1>7 DEF HistoryInv
<1>9. StageInv' /\ SeenInv'
  BY <1>3, <1>5 DEF StageInv, SeenInv, AtOne
<1>10. DueInv'
  <2>1. ASSUME NEW t \in sweep'.always, t[1] # Foreign
        PROVE  Due(t[1])' /\ (c = "profile" => t[1] \in Wireguards)
    <3>1. t[1] \in Owner
      BY <1>4, <1>5, <2>1 DEF Pairs
    <3>2. t[1] \in ScanProfiles
      BY <2>1, <3>1 DEF Owner
    <3>3. \E i \in DOMAIN ScanList : ScanList[i] = t[1]
      BY <3>2 DEF ScanProfiles
    <3> QED  BY <1>3, <1>5, <3>2, <3>3 DEF Due
  <2>2. sweep'.pc # "device" /\ (sweep'.pc \in Scanning => c = "profile")
    BY <1>5 DEF Scanning
  <2> QED  BY <2>1, <2>2 DEF DueInv
<1>11. ReportInv'
  <2>1. DOMAIN sweep'.out = {}
    BY <1>5
  <2> QED  BY <2>1 DEF ReportInv
<1>12. ViewInv'
  BY <1>1, <1>3, <1>5 DEF ViewInv, StatusOfOneTunnel
<1>13. DevicesInv'
  BY <1>1 DEF DevicesInv, Own
<1> QED  BY <1>5, <1>8, <1>9, <1>10, <1>11, <1>12, <1>13 DEF ScanInv

LEMMA PsStep == ScanInv /\ GetAllOpenvpnPids => ScanInv'
<1> SUFFICES ASSUME ScanInv, GetAllOpenvpnPids PROVE ScanInv'
  OBVIOUS
<1>1. /\ sweep \in Sweep /\ DevicesInv /\ HistoryInv /\ StageInv /\ DueInv /\ ReportInv /\ ViewInv
      /\ sweep.pc = "ps" /\ Kept
  BY DEF ScanInv, GetAllOpenvpnPids
<1>2. sweep.out = <<>> /\ running \subseteq sweep.ran /\ running \subseteq Openvpns /\ view = NoView
  BY <1>1 DEF StageInv, HistoryInv, DevicesInv, ViewInv
<1>3. /\ sweep' \in Sweep /\ sweep'.pc = "profile" /\ sweep'.todo = sweep.todo /\ sweep'.out = sweep.out
      /\ sweep'.ever = sweep.ever /\ sweep'.always = sweep.always /\ sweep'.ran = sweep.ran
      /\ sweep'.pids \subseteq sweep.ran
      /\ sweep'.failures = 0 => sweep.failures = 0 /\ sweep'.pids = running
  <2>1. "profile" \in ScanStages
    BY DEF ScanStages
  <2>2. CASE sweep' = [sweep EXCEPT !.pc = "profile", !.pids = running]
    <3>1. sweep' \in Sweep
      BY <1>1, <1>2, <2>1, <2>2 DEF Sweep
    <3> QED  BY <1>1, <1>2, <2>2, <3>1 DEF Sweep
  <2>3. CASE sweep' = [sweep EXCEPT !.pc = "profile", !.failures = @ + 1]
    <3>1. PICK f \in Nat : sweep.failures + 1 = f /\ f # 0
      <4>1. sweep.failures \in Nat
        BY <1>1, SweepFields
      <4> QED  BY <4>1
    <3>2. sweep' = [sweep EXCEPT !.pc = "profile", !.failures = f]
      BY <2>3, <3>1
    <3>3. /\ sweep' \in Sweep /\ sweep'.pc = "profile" /\ sweep'.todo = sweep.todo /\ sweep'.out = sweep.out
          /\ sweep'.ever = sweep.ever /\ sweep'.always = sweep.always /\ sweep'.ran = sweep.ran
          /\ sweep'.pids = sweep.pids /\ sweep'.failures = f
      BY <1>1, <2>1, <3>2 DEF Sweep
    <3> QED  BY <1>1, <3>1, <3>3 DEF HistoryInv
  <2> QED  BY <2>2, <2>3 DEF GetAllOpenvpnPids
<1>4. Looks
  BY <1>1, <1>3 DEF Looks
<1>5. DevicesInv' /\ HistoryInv'
  BY <1>3, <1>4, Looked
<1>6. StageInv' /\ SeenInv'
  BY <1>3 DEF StageInv, SeenInv, AtOne
<1>7. DueInv'
  <2>1. ASSUME sweep'.failures = 0, NEW t \in sweep.always
        PROVE  /\ t[1] # Foreign => Due(t[1])'
               /\ t[1] \notin Wireguards => t[1] \in sweep'.pids
    <3>1. t[1] # Foreign => Due(t[1])
      BY <1>1, <1>3, <2>1 DEF DueInv
    <3>2. Due(t[1]) => Due(t[1])'
      BY <1>3 DEF Due, ReportedNames
    <3>3. devices \in Seq(Device) /\ t \in Owners(devices)
      BY <1>1, <2>1 DEF DevicesInv, HistoryInv
    <3>4. PICK i \in DOMAIN devices : devices[i] = [name |-> t[2], of |-> t[1], inet |-> TRUE]
      BY <3>3, OwnersOf
    <3>5. devices[i].of = t[1]
      BY <3>4
    <3>6. t[1] \notin Wireguards => t[1] \in running
      BY <1>1, <3>5 DEF DevicesInv
    <3> QED  BY <1>3, <2>1, <3>1, <3>2, <3>6
  <2> QED  BY <1>3, <2>1 DEF DueInv
<1>8. ReportInv'
  <2>1. DOMAIN sweep'.out = {}
    BY <1>2, <1>3
  <2> QED  BY <2>1 DEF ReportInv
<1>9. ViewInv'
  BY <1>1, <1>2, <1>3 DEF ViewInv, StatusOfOneTunnel, Kept
<1> QED  BY <1>3, <1>5, <1>6, <1>7, <1>8, <1>9 DEF ScanInv

LEMMA PidStep == ScanInv /\ CheckOpenvpnByPid => ScanInv'
<1> SUFFICES ASSUME ScanInv, CheckOpenvpnByPid PROVE ScanInv'
  OBVIOUS
<1>1. /\ sweep \in Sweep /\ DevicesInv /\ HistoryInv /\ StageInv /\ DueInv
      /\ sweep.pc = "profile" /\ sweep.todo # <<>> /\ Cur \notin Wireguards /\ Kept
  BY DEF ScanInv, CheckOpenvpnByPid
<1>2. sweep.todo \in Seq(ScanProfiles) /\ Cur \in ScanProfiles
  <2>1. sweep.todo \in Seq(ScanProfiles)
    BY <1>1, SweepFields
  <2> QED  BY <1>1, <2>1, ListFacts DEF Cur
<1>3. Cur \in Openvpns /\ Cur # Foreign
  BY <1>1, <1>2, ScannerAssumption DEF Openvpns
<1>4. sweep.pc \in Scanning
  BY <1>1 DEF Scanning
<1>5. CASE Cur \in sweep.pids
  <2>1. PICK n \in DeviceNames \union {""}, b \in BOOLEAN :
           sweep' = [sweep EXCEPT !.pc = "addr", !.found = n, !.sure = b]
    BY <1>1, <1>3, <1>5 DEF CheckOpenvpnByPid, DevicesInv
  <2>2. "addr" \in ScanStages /\ n \in IfaceNames \union {""}
    BY DEF ScanStages, IfaceNames
  <2>3. /\ sweep' \in Sweep /\ sweep'.pc = "addr" /\ sweep'.todo = sweep.todo /\ sweep'.out = sweep.out
        /\ sweep'.ever = sweep.ever /\ sweep'.always = sweep.always /\ sweep'.ran = sweep.ran
        /\ sweep'.pids = sweep.pids /\ sweep'.failures = sweep.failures
    BY <1>1, <2>1, <2>2 DEF Sweep
  <2>4. Looks /\ Cur \in sweep.ran /\ sweep'.pc \in AtOne /\ sweep'.pc # "wg" /\ sweep'.pc # "device"
    BY <1>1, <1>5, <2>3 DEF Looks, HistoryInv, AtOne
  <2> QED  BY <1>1, <1>4, <2>3, <2>4, WordsStay
<1>6. CASE Cur \notin sweep.pids
  <2>1. sweep' = NextProfile(sweep)
    BY <1>6 DEF CheckOpenvpnByPid
  <2>2. /\ sweep' \in Sweep /\ sweep'.pc = "profile" /\ sweep'.todo = Tail(sweep.todo) /\ sweep'.out = sweep.out
        /\ sweep'.ever = sweep.ever /\ sweep'.always = sweep.always /\ sweep'.ran = sweep.ran
        /\ sweep'.pids = sweep.pids /\ sweep'.failures = sweep.failures
    BY <1>1, <2>1, SweepForms
  <2>3. Looks
    BY <1>1, <2>2 DEF Looks
  <2>4. sweep'.failures = 0 => \A t \in sweep.always : t[1] # Cur
    BY <1>1, <1>3, <1>4, <1>6, <2>2 DEF DueInv
  <2> QED  BY <1>1, <1>4, <2>2, <2>3, <2>4, Advance
<1> QED  BY <1>5, <1>6

LEMMA ListingStep == ScanInv /\ IpAddr => ScanInv'
<1> SUFFICES ASSUME ScanInv, IpAddr PROVE ScanInv'
  OBVIOUS
<1>1. /\ sweep \in Sweep /\ DevicesInv /\ HistoryInv /\ StageInv
      /\ sweep.pc = "addr" /\ Kept
  BY DEF ScanInv, IpAddr
<1>2. sweep.todo # <<>> /\ sweep.pc \in Scanning /\ Cur \notin Wireguards /\ Cur \in sweep.ran
  BY <1>1 DEF StageInv, AtOne, Scanning
<1>3. devices \in Seq(Device)
  BY <1>1 DEF DevicesInv
<1>4. /\ sweep' \in Sweep /\ sweep'.pc = "device" /\ sweep'.todo = sweep.todo /\ sweep'.out = sweep.out
      /\ sweep'.ever = sweep.ever /\ sweep'.always = sweep.always /\ sweep'.ran = sweep.ran
      /\ sweep'.pids = sweep.pids
      /\ sweep'.failures = 0 => sweep.failures = 0 /\ sweep'.seen = devices
  <2>1. "device" \in ScanStages
    BY DEF ScanStages
  <2>2. CASE sweep' = [sweep EXCEPT !.pc = "device", !.seen = devices]
    <3>1. /\ sweep' \in Sweep /\ sweep'.pc = "device" /\ sweep'.todo = sweep.todo /\ sweep'.out = sweep.out
          /\ sweep'.ever = sweep.ever /\ sweep'.always = sweep.always /\ sweep'.ran = sweep.ran
          /\ sweep'.pids = sweep.pids /\ sweep'.failures = sweep.failures /\ sweep'.seen = devices
      BY <1>1, <1>3, <2>1, <2>2 DEF Sweep
    <3> QED  BY <3>1
  <2>3. CASE sweep' = [sweep EXCEPT !.pc = "device", !.failures = @ + 1]
    <3>1. PICK f \in Nat : sweep.failures + 1 = f /\ f # 0
      <4>1. sweep.failures \in Nat
        BY <1>1, SweepFields
      <4> QED  BY <4>1
    <3>2. sweep' = [sweep EXCEPT !.pc = "device", !.failures = f]
      BY <2>3, <3>1
    <3>3. /\ sweep' \in Sweep /\ sweep'.pc = "device" /\ sweep'.todo = sweep.todo /\ sweep'.out = sweep.out
          /\ sweep'.ever = sweep.ever /\ sweep'.always = sweep.always /\ sweep'.ran = sweep.ran
          /\ sweep'.pids = sweep.pids /\ sweep'.failures = f
      BY <1>1, <2>1, <3>2 DEF Sweep
    <3> QED  BY <3>1, <3>3
  <2> QED  BY <2>2, <2>3 DEF IpAddr
<1>5. Looks
  BY <1>1, <1>4 DEF Looks
<1>6. /\ \A i \in DOMAIN devices : devices[i].inet => <<devices[i].of, devices[i].name>> \in sweep.ever
      /\ \A t \in sweep.always : \E i \in DOMAIN devices : devices[i] = [name |-> t[2], of |-> t[1], inet |-> TRUE]
  BY <1>1, <1>3, OwnersOf DEF HistoryInv
<1>7. sweep'.pc \in AtOne
  BY <1>4 DEF AtOne
<1>8. sweep'.pc = "device" /\ sweep'.failures = 0 =>
         /\ \A i \in DOMAIN sweep'.seen :
               sweep'.seen[i].inet => <<sweep'.seen[i].of, sweep'.seen[i].name>> \in sweep.ever
         /\ \A t \in sweep.always : t[1] = Cur =>
               \E i \in DOMAIN sweep'.seen : sweep'.seen[i] = [name |-> t[2], of |-> t[1], inet |-> TRUE]
  BY <1>4, <1>6
<1> QED  BY <1>2, <1>4, <1>5, <1>7, <1>8, WordsStay

\* An OpenVPN tunnel that is alone and steady while it is looked at has its own device
\* reported, whatever is found: Entry1 of that report.
LEMMA DeviceStep == ScanInv /\ CheckDevice => ScanInv'
<1> SUFFICES ASSUME ScanInv, CheckDevice PROVE ScanInv'
  OBVIOUS
<1> DEFINE d == Head(sweep.seen)
<1>1. /\ sweep \in Sweep /\ DevicesInv /\ HistoryInv /\ StageInv /\ DueInv /\ SeenInv
      /\ sweep.pc = "device" /\ sweep.seen # <<>> /\ Kept
  BY DEF ScanInv, CheckDevice
<1>2. sweep.todo # <<>> /\ sweep.pc \in Scanning /\ Cur \notin Wireguards /\ Cur \in sweep.ran
  BY <1>1 DEF StageInv, AtOne, Scanning
<1>3. sweep.seen \in Seq(Device) /\ devices \in Seq(Device)
  BY <1>1, SweepFields DEF DevicesInv
<1>4. /\ d \in Device /\ d = sweep.seen[1] /\ 1 \in DOMAIN sweep.seen /\ Tail(sweep.seen) \in Seq(Device)
      /\ \A i \in DOMAIN Tail(sweep.seen) : i + 1 \in DOMAIN sweep.seen /\ Tail(sweep.seen)[i] = sweep.seen[i + 1]
      /\ \A i \in DOMAIN sweep.seen : i # 1 => i - 1 \in DOMAIN Tail(sweep.seen) /\ Tail(sweep.seen)[i - 1] = sweep.seen[i]
  BY <1>1, <1>3, ListFacts
<1>5. d.name \in IfaceNames /\ d.of \in Owner /\ d.inet \in BOOLEAN
  BY <1>4, DeviceFields
\* The device that stays the profile's is not WireGuard's now.
<1>6. ASSUME NEW t \in sweep.always, t[1] \notin Wireguards PROVE ~IsWgNow(t[2])
  <2>1. PICK i \in DOMAIN devices : devices[i] = [name |-> t[2], of |-> t[1], inet |-> TRUE]
    BY <1>1, <1>3, OwnersOf DEF HistoryInv
  <2>2. devices[i].name = t[2] /\ devices[i].of = t[1]
    BY <2>1
  <2>3. \A j \in DOMAIN devices : devices[j].name = t[2] => j = i
    BY <1>1, <2>2 DEF DevicesInv
  <2> QED  BY <1>6, <2>2, <2>3 DEF IsWgNow
\* The device is passed over, or is kept in mind.
<1>7. ASSUME NEW n \in IfaceNames \union {""},
             \/ sweep' = [sweep EXCEPT !.seen = Tail(@), !.found = n]
             \/ \E f \in Nat \ {0} : sweep' = [sweep EXCEPT !.seen = Tail(@), !.found = n, !.failures = f],
             sweep'.failures = 0 => ~TunLike(d) \/ IsWgNow(d.name) \/ ~d.inet
      PROVE  ScanInv'
  <2>1. /\ sweep' \in Sweep /\ sweep'.pc = "device" /\ sweep'.todo = sweep.todo /\ sweep'.out = sweep.out
        /\ sweep'.ever = sweep.ever /\ sweep'.always = sweep.always /\ sweep'.ran = sweep.ran
        /\ sweep'.pids = sweep.pids /\ sweep'.seen = Tail(sweep.seen)
        /\ sweep'.failures = 0 => sweep.failures = 0
    BY <1>1, <1>4, <1>7 DEF Sweep
  <2>2. Looks /\ sweep'.pc \in AtOne
    BY <1>1, <2>1 DEF Looks, AtOne
  <2>3. ASSUME sweep'.failures = 0
        PROVE  /\ \A i \in DOMAIN sweep'.seen :
                     sweep'.seen[i].inet => <<sweep'.seen[i].of, sweep'.seen[i].name>> \in sweep.ever
               /\ \A t \in sweep.always : t[1] = Cur =>
                     \E i \in DOMAIN sweep'.seen : sweep'.seen[i] = [name |-> t[2], of |-> t[1], inet |-> TRUE]
    <3>1. \A i \in DOMAIN sweep.seen : sweep.seen[i].inet => <<sweep.seen[i].of, sweep.seen[i].name>> \in sweep.ever
      BY <1>1, <2>1, <2>3 DEF SeenInv
    <3>2. \A i \in DOMAIN sweep'.seen :
             sweep'.seen[i].inet => <<sweep'.seen[i].of, sweep'.seen[i].name>> \in sweep.ever
      <4> TAKE i \in DOMAIN sweep'.seen
      <4>1. i + 1 \in DOMAIN sweep.seen /\ sweep'.seen[i] = sweep.seen[i + 1]
        BY <1>4, <2>1
      <4>2. PICK k \in DOMAIN sweep.seen : sweep'.seen[i] = sweep.seen[k]
        BY <4>1
      <4> QED  BY <3>1, <4>2
    <3>3. ASSUME NEW t \in sweep.always, t[1] = Cur
          PROVE  \E i \in DOMAIN sweep'.seen : sweep'.seen[i] = [name |-> t[2], of |-> t[1], inet |-> TRUE]
      <4>1. PICK i \in DOMAIN sweep.seen : sweep.seen[i] = [name |-> t[2], of |-> t[1], inet |-> TRUE]
        BY <1>1, <2>1, <2>3, <3>3 DEF DueInv
      <4>2. i # 1
        <5>1. SUFFICES ASSUME i = 1 PROVE FALSE
          OBVIOUS
        <5>20. d = [name |-> t[2], of |-> Cur, inet |-> TRUE]
          BY <1>4, <3>3, <4>1, <5>1
        <5> HIDE DEF d
        <5>2. d.name = t[2] /\ d.of = Cur /\ d.inet
          BY <5>20
        <5>3. TunLike(d) /\ ~IsWgNow(d.name)
          BY <1>2, <1>6, <3>3, <5>2 DEF TunLike
        <5> QED  BY <1>7, <2>3, <5>2, <5>3
      <4>3. i - 1 \in DOMAIN sweep'.seen /\ sweep'.seen[i - 1] = sweep.seen[i]
        BY <1>4, <2>1, <4>1, <4>2
      <4> QED  BY <4>1, <4>3
    <3> QED  BY <3>2, <3>3
  <2> QED  BY <1>2, <2>1, <2>2, <2>3, WordsStay
\* The device is reported.
<1>8. ASSUME sweep' \in Sweep, sweep'.pc = "profile", sweep'.todo = Tail(sweep.todo), sweep'.pids = sweep.pids,
             sweep'.out = Reported(d.name, TRUE), sweep'.ever = sweep.ever, sweep'.always = sweep.always,
             sweep'.ran = sweep.ran,
             sweep'.failures = 0 => sweep.failures = 0 /\ d.inet /\ ~IsWgNow(d.name)
      PROVE  ScanInv'
  <2>1. Looks
    BY <1>1, <1>8 DEF Looks
  <2>2. d.name \in IfaceNames \union {""}
    BY <1>5
  <2>3. PICK z \in Report : z.of = Cur /\ z.iface = d.name /\ sweep'.out = Append(sweep.out, z)
    BY <1>2, <1>8, <2>2, ReportedSpec
  <2>4. ASSUME sweep'.failures = 0, sweep'.ran = {Cur}, sweep'.ever \subseteq sweep'.always
        PROVE  <<Cur, d.name>> \in sweep'.ever
    <3>1. <<d.of, d.name>> \in sweep.ever
      BY <1>1, <1>4, <1>8, <2>4 DEF SeenInv
    <3>2. <<d.of, d.name>> \in Owners(devices)
      BY <1>1, <1>8, <2>4, <3>1 DEF HistoryInv
    <3>3. PICK i \in DOMAIN devices : devices[i].of = d.of /\ devices[i].name = d.name
      BY <3>2 DEF Owners
    <3>4. d.of \notin Wireguards
      BY <1>8, <2>4, <3>3 DEF IsWgNow
    <3>5. d.of \in sweep.ran
      BY <1>1, <3>1, <3>4 DEF HistoryInv
    <3>6. d.of = Cur
      BY <1>8, <2>4, <3>5
    <3> QED  BY <1>8, <3>1, <3>6
  <2>5. Entry1(z)'
    <3>1. z.of \notin Wireguards /\ z.of \in sweep'.ran
      BY <1>2, <1>8, <2>3
    <3>2. sweep'.failures = 0 /\ sweep'.ran = {z.of} /\ sweep'.ever \subseteq sweep'.always =>
             <<z.of, z.iface>> \in sweep'.ever
      BY <2>3, <2>4
    <3> QED  BY <3>1, <3>2 DEF Entry1, Steady
  <2> QED  BY <1>2, <1>8, <2>1, <2>3, <2>5, Advance
<1> DEFINE next   == [sweep EXCEPT !.seen = Tail(@)]
           report == [NextProfile(sweep) EXCEPT !.out = Reported(d.name, TRUE)]
           minded == [next EXCEPT !.found = d.name]
           taken  == IF d.inet THEN report ELSE minded
<1>9. sweep.found \in IfaceNames \union {""} /\ d.name \in IfaceNames \union {""} /\ sweep.failures \in Nat
  BY <1>1, <1>5, SweepFields
<1>10. CASE sweep' = next /\ (~TunLike(d) \/ IsWgNow(d.name))
  <2>1. sweep' = [sweep EXCEPT !.seen = Tail(@), !.found = sweep.found]
    BY <1>1, <1>10 DEF Sweep
  <2> QED  BY <1>7, <1>9, <1>10, <2>1
<1>11. /\ report \in Sweep /\ report.pc = "profile" /\ report.todo = Tail(sweep.todo) /\ report.pids = sweep.pids
       /\ report.out = Reported(d.name, TRUE) /\ report.ever = sweep.ever /\ report.always = sweep.always
       /\ report.ran = sweep.ran /\ report.failures = sweep.failures
  <2> DEFINE n == NextProfile(sweep)
  <2>1. /\ n \in Sweep /\ n.pc = "profile" /\ n.todo = Tail(sweep.todo) /\ n.pids = sweep.pids /\ n.out = sweep.out
        /\ n.ever = sweep.ever /\ n.always = sweep.always /\ n.ran = sweep.ran /\ n.failures = sweep.failures
    BY <1>1, <1>2, SweepForms
  <2>2. Reported(d.name, TRUE) \in Seq(Report)
    BY <1>2, <1>9, ReportedSpec
  <2> HIDE DEF n
  <2>3. LET y == [n EXCEPT !.out = Reported(d.name, TRUE)] IN
        /\ y \in Sweep /\ y.pc = n.pc /\ y.todo = n.todo /\ y.pids = n.pids /\ y.out = Reported(d.name, TRUE)
        /\ y.ever = n.ever /\ y.always = n.always /\ y.ran = n.ran /\ y.failures = n.failures
    BY <2>1, <2>2, SweepForms
  <2> QED  BY <2>1, <2>3 DEF n
<1>12. CASE sweep' = taken /\ ~IsWgNow(d.name)
  <2>1. CASE d.inet
    <3>1. sweep' = report
      BY <1>12, <2>1
    <3> HIDE DEF report
    <3> QED  BY <1>8, <1>11, <1>12, <2>1, <3>1
  <2>2. CASE ~d.inet
    <3>1. sweep' = [sweep EXCEPT !.seen = Tail(@), !.found = d.name]
      BY <1>12, <2>2
    <3> QED  BY <1>7, <1>9, <2>2, <3>1
  <2> QED  BY <2>1, <2>2
<1>13. CASE sweep' = [taken EXCEPT !.failures = @ + 1]
  <2>1. CASE d.inet
    <3>1. sweep' = [report EXCEPT !.failures = @ + 1]
      BY <1>13, <2>1
    <3> HIDE DEF report
    <3>2. LET y == [report EXCEPT !.failures = @ + 1] IN
          /\ y \in Sweep /\ y.pc = report.pc /\ y.todo = report.todo /\ y.pids = report.pids /\ y.out = report.out
          /\ y.ever = report.ever /\ y.always = report.always /\ y.ran = report.ran /\ y.failures # 0
      BY <1>11, SweepForms
    <3> QED  BY <1>8, <1>11, <3>1, <3>2
  <2>2. CASE ~d.inet
    <3>0. sweep.failures \in Nat
      BY <1>9
    <3>1. PICK f \in Nat \ {0} : sweep.failures + 1 = f
      BY <3>0
    <3>2. sweep' = [sweep EXCEPT !.seen = Tail(@), !.found = d.name, !.failures = f]
      BY <1>1, <1>13, <2>2, <3>1 DEF Sweep
    <3>3. sweep'.failures # 0
      BY <1>1, <3>2 DEF Sweep
    <3> QED  BY <1>7, <1>9, <3>2, <3>3
  <2> QED  BY <2>1, <2>2
<1> QED  BY <1>10, <1>12, <1>13 DEF CheckDevice

LEMMA LastStep == ScanInv /\ LastDevice => ScanInv'
<1> SUFFICES ASSUME ScanInv, LastDevice PROVE ScanInv'
  OBVIOUS
<1>1. /\ sweep \in Sweep /\ DevicesInv /\ HistoryInv /\ StageInv /\ DueInv /\ SeenInv
      /\ sweep.pc = "device" /\ sweep.seen = <<>> /\ Kept
  BY DEF ScanInv, LastDevice
<1>2. sweep.todo # <<>> /\ sweep.pc \in Scanning /\ Cur \notin Wireguards /\ Cur \in sweep.ran
  BY <1>1 DEF StageInv, AtOne, Scanning
<1>3. sweep.found \in IfaceNames \union {""} /\ sweep.sure \in BOOLEAN
  BY <1>1, SweepFields
\* The listing held no device of a tunnel that was up throughout.
<1>4. sweep.failures = 0 => \A t \in sweep.always : t[1] # Cur
  <2>1. DOMAIN sweep.seen = {}
    BY <1>1
  <2> QED  BY <1>1, <2>1 DEF DueInv
<1> DEFINE n == NextProfile(sweep)
           y == [n EXCEPT !.out = Reported(sweep.found, sweep.sure)]
<1>5. /\ n \in Sweep /\ n.pc = "profile" /\ n.todo = Tail(sweep.todo) /\ n.pids = sweep.pids /\ n.out = sweep.out
      /\ n.ever = sweep.ever /\ n.always = sweep.always /\ n.ran = sweep.ran /\ n.failures = sweep.failures
  BY <1>1, <1>2, SweepForms
<1>6. CASE sweep' = n
  <2> HIDE DEF n
  <2>1. Looks
    BY <1>1, <1>5, <1>6 DEF Looks
  <2> QED  BY <1>2, <1>4, <1>5, <1>6, <2>1, Advance
<1>7. CASE sweep' = y
  <2>1. PICK z \in Report : /\ z.of = Cur /\ Reported(sweep.found, sweep.sure) = Append(sweep.out, z)
                            /\ Reported(sweep.found, sweep.sure) \in Seq(Report)
    BY <1>2, <1>3, ReportedSpec
  <2> HIDE DEF n
  <2>2. /\ sweep' \in Sweep /\ sweep'.pc = "profile" /\ sweep'.todo = Tail(sweep.todo) /\ sweep'.pids = sweep.pids
        /\ sweep'.out = Append(sweep.out, z) /\ sweep'.failures = sweep.failures
        /\ sweep'.ever = sweep.ever /\ sweep'.always = sweep.always /\ sweep'.ran = sweep.ran
    BY <1>5, <1>7, <2>1, SweepForms
  <2>3. Looks
    BY <1>1, <2>2 DEF Looks
  <2>4. ASSUME sweep'.failures = 0, sweep'.ran = {Cur}, sweep'.ever \subseteq sweep'.always
        PROVE  sweep'.ever \subseteq Wireguards \X Wireguards
    <3> SUFFICES ASSUME NEW t \in sweep.ever PROVE t \in Wireguards \X Wireguards
      BY <2>2
    <3>1. t \in sweep.always /\ t[1] # Cur
      BY <1>4, <2>2, <2>4
    <3>2. t \in Pairs /\ t[1] \in Wireguards /\ t[2] = t[1]
      BY <1>1, <2>2, <2>4, <3>1, SweepFields DEF HistoryInv
    <3> QED  BY <3>2 DEF Pairs
  <2>5. Entry1(z)'
    <3>1. z.of \notin Wireguards /\ z.of \in sweep'.ran
      BY <1>2, <2>1, <2>2
    <3>2. sweep'.failures = 0 /\ sweep'.ran = {z.of} /\ sweep'.ever \subseteq sweep'.always =>
             sweep'.ever \subseteq Wireguards \X Wireguards
      BY <2>1, <2>4
    <3> QED  BY <3>1, <3>2 DEF Entry1, Steady
  <2> QED  BY <1>2, <2>1, <2>2, <2>3, <2>5, Advance
<1> QED  BY <1>6, <1>7 DEF LastDevice

-----------------------------------------------------------------------------
(* What is printed                                                            *)

\* A finished sweep without failures, of one tunnel throughout, has reported it and
\* nothing else.
LEMMA OneReported ==
    ASSUME ScanInv, sweep.pc = "profile", sweep.todo = <<>>, sweep.failures = 0, NEW p \in ScanProfiles,
           \A t \in sweep.ever : t \in sweep.always /\ t[1] = p,
           sweep.ran \subseteq {p}, sweep.ever # {}
    PROVE  /\ sweep.out # <<>> /\ Head(sweep.out).of = p
           /\ <<p, Head(sweep.out).iface>> \in sweep.ever
<1>1. sweep \in Sweep /\ HistoryInv /\ DueInv /\ ReportInv
  BY DEF ScanInv
<1>2. PICK t \in sweep.ever : t \in sweep.always /\ t[1] = p
  OBVIOUS
<1>3. p # Foreign
  BY ScannerAssumption
<1>4. Due(p)
  BY <1>1, <1>2, <1>3 DEF DueInv
<1>5. PICK k \in DOMAIN sweep.out : sweep.out[k].of = p
  <2>1. DOMAIN sweep.todo = {}
    OBVIOUS
  <2> QED  BY <1>4, <2>1 DEF Due, ReportedNames
<1>6. sweep.out \in Seq(Report)
  BY <1>1, SweepFields
<1>7. sweep.out # <<>>
  <2>1. DOMAIN <<>> = {}
    OBVIOUS
  <2> QED  BY <1>5, <2>1
<1> DEFINE s == Head(sweep.out)
<1>8. s = sweep.out[1] /\ 1 \in DOMAIN sweep.out /\ s \in Report
  BY <1>6, <1>7, ListFacts
<1> HIDE DEF s
<1>9. Entry1(s)
  <2>1. \A i \in DOMAIN sweep.out : Entry1(sweep.out[i])
    BY <1>1 DEF ReportInv
  <2> QED  BY <1>8, <2>1
<1>10. s.of = p
  BY <1>9 DEF Entry1
<1>11. <<p, s.iface>> \in sweep.ever
  <2>1. t = <<t[1], t[2]>>
    <3>1. t \in Pairs
      BY <1>1, <1>2, SweepFields
    <3> QED  BY <3>1 DEF Pairs
  <2>2. CASE p \in Wireguards
    <3>1. t[2] = p /\ s.iface = p
      BY <1>1, <1>2, <1>9, <1>10, <2>2 DEF HistoryInv, Entry1
    <3> QED  BY <1>2, <2>1, <3>1
  <2>3. CASE p \notin Wireguards
    <3>1. p \in sweep.ran
      BY <1>9, <1>10, <2>3 DEF Entry1
    <3>2. Steady(p)
      BY <3>1 DEF Steady
    <3>3. t \notin Wireguards \X Wireguards
      BY <1>2, <2>3
    <3> QED  BY <1>2, <1>9, <1>10, <2>3, <3>2, <3>3 DEF Entry1
  <2> QED  BY <2>2, <2>3
<1> QED  BY <1>7, <1>10, <1>11 DEF s

LEMMA PrintStep ==
    ASSUME ScanInv, NEW v, Printed(v), v.marked \subseteq ScanProfiles,
           v.state = "connected" /\ sweep.failures = 0 /\ sweep.ever # {} /\ sweep.ran \subseteq {v.profile}
              /\ (\A t \in sweep.ever : t \in sweep.always /\ t[1] = v.profile) =>
           v.protocol = ProtocolOf(v.profile) /\ <<v.profile, v.iface>> \in sweep.ever
    PROVE  ScanInv'
<1>1. /\ sweep \in Sweep /\ DevicesInv /\ HistoryInv /\ StageInv /\ DueInv /\ ReportInv
      /\ sweep.pc = "profile" /\ sweep.todo = <<>> /\ view' = v /\ sweep' = [sweep EXCEPT !.pc = "shown"]
      /\ devices' = devices /\ running' = running /\ logs' = logs
  BY DEF ScanInv, Printed
<1>2. /\ sweep' \in Sweep /\ sweep'.pc = "shown" /\ sweep'.todo = sweep.todo /\ sweep'.pids = sweep.pids
      /\ sweep'.out = sweep.out /\ sweep'.ever = sweep.ever /\ sweep'.always = sweep.always
      /\ sweep'.ran = sweep.ran /\ sweep'.failures = sweep.failures /\ sweep'.seen = sweep.seen
  <2>1. "shown" \in ScanStages
    BY DEF ScanStages
  <2> QED  BY <1>1, <2>1 DEF Sweep
<1>3. DevicesInv'
  BY <1>1 DEF DevicesInv, Own
<1>4. Owners(devices)' = Owners(devices)
  BY <1>1 DEF Owners
<1>5. HistoryInv'
  BY <1>1, <1>2, <1>4 DEF HistoryInv
<1>6. StageInv' /\ SeenInv'
  BY <1>1, <1>2 DEF StageInv, SeenInv, AtOne
<1>7. DueInv'
  <2>1. ASSUME sweep.failures = 0, NEW t \in sweep.always, t[1] # Foreign PROVE Due(t[1])'
    <3>1. Due(t[1])
      BY <1>1, <2>1 DEF DueInv
    <3> QED  BY <1>2, <3>1 DEF Due, ReportedNames
  <2> QED  BY <1>2, <2>1 DEF DueInv, Scanning
<1>8. ReportInv'
  <2>1. \A x : Entry1(x) => Entry1(x)'
    BY <1>2 DEF Entry1, Steady
  <2>2. \A i \in DOMAIN sweep'.out : Entry1(sweep'.out[i])
    BY <1>1, <1>2 DEF ReportInv
  <2> QED  BY <2>1, <2>2 DEF ReportInv
<1>9. ViewInv'
  BY <1>1, <1>2 DEF ViewInv, StatusOfOneTunnel, ProtocolOf
<1> QED  BY <1>2, <1>3, <1>5, <1>6, <1>7, <1>8, <1>9 DEF ScanInv

\* What the status commands print of the scan itself.
LEMMA ScanStatusSpec ==
    ASSUME ScanInv
    PROVE  /\ sweep.out = <<>> => ScanStatus = [NoView EXCEPT !.state = "disconnected"]
           /\ sweep.out # <<>> =>
                /\ Head(sweep.out).of \in ScanProfiles
                /\ ScanStatus = [state |-> "connected", profile |-> Head(sweep.out).of,
                                 protocol |-> ProtocolOf(Head(sweep.out).of),
                                 iface |-> Head(sweep.out).iface, marked |-> {}]
<1>1. sweep.out \in Seq(Report)
  BY SweepFields DEF ScanInv
<1>2. ASSUME sweep.out # <<>> PROVE Head(sweep.out).of \in ScanProfiles
  <2>1. Head(sweep.out) \in Report
    BY <1>1, <1>2, ListFacts
  <2> QED  BY <2>1, ReportFields
<1> QED  BY <1>2 DEF ScanStatus

LEMMA ShowStep == ScanInv /\ (HandleList \/ HandleStatus \/ RunWatch) => ScanInv'
<1> SUFFICES ASSUME ScanInv, HandleList \/ HandleStatus \/ RunWatch PROVE ScanInv'
  OBVIOUS
<1> DEFINE s == Head(sweep.out)
           One(p) == /\ sweep.failures = 0 /\ sweep.ever # {} /\ sweep.ran \subseteq {p}
                     /\ \A t \in sweep.ever : t \in sweep.always /\ t[1] = p
<1>0. sweep.pc = "profile" /\ sweep.todo = <<>>
  BY DEF HandleList, HandleStatus, RunWatch, Printed
<1>1. ASSUME NEW p \in ScanProfiles, One(p)
      PROVE  sweep.out # <<>> /\ s.of = p /\ <<p, s.iface>> \in sweep.ever
  BY <1>0, <1>1, OneReported
<1>2. CASE HandleList
  <2> DEFINE v == [NoView EXCEPT !.state = "list", !.marked = ReportedNames(sweep.out)]
  <2>1. sweep.out \in Seq(Report)
    BY SweepFields DEF ScanInv
  <2>2. ReportedNames(sweep.out) \subseteq ScanProfiles
    <3>1. \A i \in DOMAIN sweep.out : sweep.out[i] \in Report
      BY <2>1, ListFacts
    <3>2. \A i \in DOMAIN sweep.out : sweep.out[i].of \in ScanProfiles
      BY <3>1, ReportFields
    <3> QED  BY <3>2 DEF ReportedNames
  <2>3. v.state = "list" /\ v.marked \subseteq ScanProfiles
    BY <2>2 DEF NoView
  <2>4. Printed(v)
    BY <1>2 DEF HandleList
  <2> HIDE DEF v
  <2> QED  BY <2>3, <2>4, PrintStep
\* A view with the scan's protocol and interface, of the profile p.
<1>3. ASSUME NEW v, Printed(v), v.marked = {},
             v.state = "connected" =>
                /\ v.profile \in ScanProfiles
                /\ sweep.out # <<>> => v.protocol = ProtocolOf(s.of) /\ v.iface = s.iface
      PROVE  ScanInv'
  <2>1. ASSUME v.state = "connected", One(v.profile)
        PROVE  v.protocol = ProtocolOf(v.profile) /\ <<v.profile, v.iface>> \in sweep.ever
    BY <1>1, <1>3, <2>1
  <2> QED  BY <1>3, <2>1, PrintStep
<1>4. /\ ScanStatus.marked = {} /\ ScanStatus.state \in {"connected", "disconnected"}
      /\ sweep.out # <<>> => ScanStatus.protocol = ProtocolOf(s.of) /\ ScanStatus.iface = s.iface
      /\ ScanStatus.state = "connected" => ScanStatus.profile \in ScanProfiles
  <2>1. CASE sweep.out = <<>>
    BY <2>1, ScanStatusSpec DEF NoView
  <2>2. CASE sweep.out # <<>>
    <3> HIDE DEF s
    <3>1. /\ s.of \in ScanProfiles
          /\ ScanStatus = [state |-> "connected", profile |-> s.of, protocol |-> ProtocolOf(s.of),
                           iface |-> s.iface, marked |-> {}]
      BY <2>2, ScanStatusSpec DEF s
    <3> QED  BY <3>1
  <2> QED  BY <2>1, <2>2
<1>5. CASE RunWatch
  <2> HIDE DEF s
  <2>1. PICK v : v = ScanStatus /\ Printed(v)
    BY <1>5 DEF RunWatch
  <2> QED  BY <1>3, <1>4, <2>1
<1>6. CASE HandleStatus
  <2>1. PICK answer \in ScanAnswers : Printed(OverlayDaemonState(ScanStatus, answer))
    BY <1>6 DEF HandleStatus
  <2>2. PICK v : v = OverlayDaemonState(ScanStatus, answer) /\ Printed(v)
    BY <2>1
  <2>3. PICK a, b, c, d : ScanStatus = [state |-> a, profile |-> b, protocol |-> c, iface |-> d, marked |-> {}]
    <3>1. CASE sweep.out = <<>>
      BY <3>1, ScanStatusSpec DEF NoView
    <3>2. CASE sweep.out # <<>>
      BY <3>2, ScanStatusSpec
    <3> QED  BY <3>1, <3>2
  <2>4. CASE answer.state = "absent"
    <3>1. v = ScanStatus
      BY <2>2, <2>4 DEF OverlayDaemonState
    <3> HIDE DEF s
    <3> QED  BY <1>3, <1>4, <2>2, <3>1
  <2>5. CASE answer.state = "disconnected"
    <3>1. v = [ScanStatus EXCEPT !.state = "disconnected", !.profile = "", !.protocol = ""]
      BY <2>2, <2>5 DEF OverlayDaemonState
    <3>2. v.state = "disconnected" /\ v.marked = {}
      BY <2>3, <3>1
    <3> QED  BY <1>3, <2>2, <3>2
  <2>6. CASE answer.state \notin {"absent", "disconnected"}
    <3>1. v = [ScanStatus EXCEPT !.state = answer.state, !.profile = answer.profile]
      BY <2>2, <2>6 DEF OverlayDaemonState
    <3>2. v.marked = {} /\ v.profile = answer.profile /\ v.protocol = c /\ v.iface = d
      BY <2>3, <3>1
    <3>3. ScanStatus.protocol = c /\ ScanStatus.iface = d
      BY <2>3
    <3>4. answer.profile \in ScanProfiles
      <4>1. Absent.state = "absent" /\ [Absent EXCEPT !.state = "disconnected"].state = "disconnected"
        BY DEF Absent
      <4>2. answer \in [state : {"connecting", "connected", "disconnecting"}, profile : ScanProfiles]
        BY <2>6, <4>1 DEF ScanAnswers
      <4> QED  BY <4>2
    <3> HIDE DEF s
    <3> QED  BY <1>3, <1>4, <2>2, <3>2, <3>3, <3>4
  <2> QED  BY <2>4, <2>5, <2>6
<1> QED  BY <1>2, <1>5, <1>6

-----------------------------------------------------------------------------
(* Theorems                                                                   *)

LEMMA ScanInvStep == ScanInv /\ [ScannerNext]_scanVars => ScanInv'
<1> SUFFICES ASSUME ScanInv, [ScannerNext]_scanVars PROVE ScanInv'
  OBVIOUS
<1>1. CASE UNCHANGED scanVars
  <2>1. devices' = devices /\ running' = running /\ logs' = logs /\ sweep' = sweep /\ view' = view
    BY <1>1 DEF scanVars
  <2>2. Owners(devices)' = Owners(devices) /\ Cur' = Cur /\ \A p : Due(p)' <=> Due(p)
    BY <2>1 DEF Owners, Cur, Due, ReportedNames
  <2>3. DevicesInv' /\ HistoryInv'
    BY <2>1, <2>2 DEF ScanInv, DevicesInv, HistoryInv, Own
  <2>4. StageInv' /\ SeenInv' /\ ViewInv'
    BY <2>1, <2>2 DEF ScanInv, StageInv, SeenInv, ViewInv, StatusOfOneTunnel
  <2>5. DueInv'
    BY <2>1, <2>2 DEF ScanInv, DueInv
  <2>6. ReportInv'
    BY <2>1 DEF ScanInv, ReportInv, Entry1, Steady
  <2> QED  BY <2>1, <2>3, <2>4, <2>5, <2>6 DEF ScanInv
<1>2. CASE ScannerNext
  BY <1>2, SystemStep, BeginStep, PsStep, WireguardStep, PidStep, ListingStep, DeviceStep, LastStep, ShowStep
     DEF ScannerNext
<1> QED  BY <1>1, <1>2

LEMMA ScanInvImplies == ScanInv => ScannerTypeOK /\ ScanIsHonest
<1> SUFFICES ASSUME ScanInv PROVE ScannerTypeOK /\ ScanIsHonest
  OBVIOUS
<1>1. sweep \in Sweep /\ DevicesInv /\ HistoryInv /\ StageInv /\ DueInv /\ ReportInv /\ ViewInv
  BY DEF ScanInv
<1>2. ScannerTypeOK
  <2>1. devices \in Seq(Device)
    BY <1>1 DEF DevicesInv
  <2>2. \A i \in DOMAIN devices : devices[i] \in Device
    BY <2>1, ListFacts
  <2>3. view.marked \subseteq ScanProfiles
    <3>1. NoView.marked = {}
      BY DEF NoView
    <3> QED  BY <1>1, <3>1 DEF ViewInv
  <2>4. \A i \in DOMAIN devices :
           devices[i] \in [name : Wireguards \union DeviceNames, of : ScanProfiles \union {Foreign}, inet : BOOLEAN]
    BY <2>2 DEF Device, IfaceNames, Owner
  <2>5. running \subseteq Openvpns /\ logs \in [Openvpns -> DeviceNames \union {""}]
    BY <1>1 DEF DevicesInv
  <2>6. sweep.pids \subseteq sweep.ran /\ sweep.always \subseteq sweep.ever
    BY <1>1 DEF HistoryInv
  <2>7. sweep.pids \subseteq running \union sweep.ran
    BY <2>6
  <2> QED  BY <2>3, <2>4, <2>5, <2>6, <2>7, Zenon DEF ScannerTypeOK
<1>3. NothingMissed
  <2> SUFFICES ASSUME Swept, sweep.failures = 0, NEW t \in sweep.always, t[1] # Foreign
               PROVE  t[1] \in ReportedNames(sweep.out)
    BY DEF NothingMissed
  <2>1. Due(t[1]) /\ DOMAIN sweep.todo = {}
    <3>1. DOMAIN <<>> = {}
      OBVIOUS
    <3> QED  BY <1>1, <3>1 DEF Swept, DueInv
  <2> QED  BY <2>1 DEF Due
<1>4. NothingInvented
  BY <1>1 DEF NothingInvented, ReportInv, Entry1
<1>5. OwnDevice
  <2> SUFFICES ASSUME sweep.failures = 0, NEW i \in DOMAIN sweep.out, NEW p, p = sweep.out[i].of,
                      p \notin Wireguards, sweep.ran = {p}, \A t \in sweep.ever : t \in sweep.always
               PROVE  \/ <<p, sweep.out[i].iface>> \in sweep.ever
                      \/ sweep.ever \subseteq Wireguards \X Wireguards
    BY DEF OwnDevice
  <2>1. Entry1(sweep.out[i])
    BY <1>1 DEF ReportInv
  <2>2. Steady(p)
    BY DEF Steady
  <2> QED  BY <2>1, <2>2 DEF Entry1
<1>6. StatusOfOneTunnel
  BY <1>1 DEF ViewInv
<1> QED  BY <1>2, <1>3, <1>4, <1>5, <1>6 DEF ScanIsHonest

\* The sweep and the machine it looks at always have their types.
THEOREM ScannerTypeCorrect == ScannerSpec => []ScannerTypeOK
<1>1. ScanInv => ScannerTypeOK
  BY ScanInvImplies
<1> QED  BY <1>1, ScanInvInit, ScanInvStep, PTL DEF ScannerSpec

\* A sweep tells what was on the machine while it ran, for any profiles and however
\* the tunnels come and go under it (get_active_profiles, check_openvpn_by_pid).
THEOREM ScanIsHonestHolds == ScannerSpec => []ScanIsHonest
<1>1. ScanInv => ScanIsHonest
  BY ScanInvImplies
<1> QED  BY <1>1, ScanInvInit, ScanInvStep, PTL DEF ScannerSpec
=============================================================================
