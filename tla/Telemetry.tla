----------------------------- MODULE Telemetry -----------------------------
(* What the TUI believes about the outside: the telemetry rounds that ask    *)
(* for the public addresses, the scans that tell which tunnels are up, the   *)
(* real addresses that are cached on disk when no tunnel can have masked     *)
(* them, and the verdict of the Security Guard panel.                        *)
(*                                                                           *)
(* One profile, one network.  Latency, location and provider are displayed   *)
(* and nothing depends on them.  The answer of a probe is the address of the *)
(* path it took; it is read by the App later, in the order it was sent.      *)
EXTENDS Naturals, Sequences

CONSTANTS
    RouteSets,   \* families for which the profile may claim the default route
    HomeHasV6,   \* the network gives an IPv6 address
    KsRow,       \* killswitch: "off", "watch" (Auto), "dropped", "always"
    Cipher,      \* the strength classify_cipher gives the tunnel
    MaxRounds,   \* telemetry rounds
    MaxMoves     \* commands of the user, external starts and stops

Families == {"v4", "v6"}

ASSUME TelemetryAssumption ==
    /\ RouteSets \subseteq SUBSET Families
    /\ HomeHasV6 \in BOOLEAN
    /\ KsRow \in {"off", "watch", "dropped", "always"}
    /\ Cipher \in {"Modern", "Strong", "Deprecated", "Insecure"}
    /\ MaxRounds \in Nat /\ MaxMoves \in Nat

VARIABLES
    kernel,   \* the tunnel itself: "down" or "up"
    claims,   \* the families whose default route it takes
    entry,    \* its entry in the App's registry
    known,    \* the scanner's word: one tick done, sessions counted
    scan,     \* sessions in the scan under way
    shown,    \* public_ip, public_ipv6 and dns_leak
    real,     \* real_ip, real_ipv6
    cache,    \* the two files of real_ip_cache
    asking,   \* probe threads <<round, what>> that have no answer yet
    mail,     \* the telemetry channel
    leaks,    \* DNS leak checks under way: "probe" asks the resolver, "skip" resets
    budget,   \* rounds and moves made
    unseen,   \* the tunnel came up in this run of the App and no scan showed it
    raced     \* families whose real address was cached from an exit's answer that
              \* arrived after the tunnel had gone, or while it was unseen

teleVars == <<kernel, claims, entry, known, scan, shown, real, cache, asking, mail,
              leaks, budget, unseen, raced>>

Entries   == {"gone", "connecting", "connected", "disconnecting"}
AddressKinds == {"none", "home", "exit", "unavailable"}      \* none: detecting
LeakKinds == {"unknown", "protected", "leaking"}    \* a failed check is unknown
Rounds    == 1..MaxRounds
Messages  == [what : {"ip", "ip6", "dns"}, val : AddressKinds]
Unknown   == [f \in Families |-> "none"]

TeleTypeOK ==
    /\ kernel \in {"down", "up"} /\ claims \in RouteSets /\ entry \in Entries
    /\ known \in [ticked : BOOLEAN, count : 0..1]
    /\ scan \in {"none", "down", "up"}
    /\ shown \in [v4 : AddressKinds, v6 : AddressKinds, dns : LeakKinds]
    /\ real \in [Families -> AddressKinds] /\ cache \in [Families -> AddressKinds]
    /\ asking \subseteq (Rounds \X {"ip", "sec"}) /\ mail \in Seq(Messages)
    /\ leaks \subseteq {"probe", "skip"}
    /\ budget \in [rounds : 0..MaxRounds, moves : 0..MaxMoves]
    /\ unseen \in BOOLEAN /\ raced \subseteq Families

TeleInit ==
    /\ kernel \in {"down", "up"} /\ claims \in RouteSets /\ entry = "gone"
    /\ known = [ticked |-> FALSE, count |-> 0] /\ scan = "none"
    /\ shown = [v4 |-> "none", v6 |-> "none", dns |-> "unknown"]
    /\ real = Unknown /\ cache = Unknown
    /\ asking = {} /\ mail = <<>> /\ leaks = {}
    /\ budget = [rounds |-> 0, moves |-> 0] /\ unseen = FALSE /\ raced = {}

Moves == budget.moves < MaxMoves /\ budget' = [budget EXCEPT !.moves = @ + 1]

-----------------------------------------------------------------------------
(* The telemetry worker: a round starts three threads and does not wait for  *)
(* them; the poll interval or a nudge starts the next.                       *)

FetchRound ==
    /\ budget.rounds < MaxRounds
    /\ budget' = [budget EXCEPT !.rounds = @ + 1]
    /\ asking' = asking \cup {<<budget.rounds + 1, w>> : w \in {"ip", "sec"}}
    /\ UNCHANGED <<kernel, claims, entry, known, scan, shown, real, cache, mail, leaks,
                   unseen, raced>>

PathOf(f) ==
    IF kernel = "up" /\ f \in claims THEN "exit"
    ELSE IF f = "v4" \/ HomeHasV6 THEN "home" ELSE "none"

\* The address services are asked in turn; all of them may fail.
FetchIp ==
    \E n \in Rounds, val \in {PathOf("v4"), "unavailable"} :
        /\ <<n, "ip">> \in asking
        /\ asking' = asking \ {<<n, "ip">>}
        /\ mail' = Append(mail, [what |-> "ip", val |-> val])
        /\ UNCHANGED <<kernel, claims, entry, known, scan, shown, real, cache, leaks,
                       budget, unseen, raced>>

FetchSecurity ==
    \E n \in Rounds, val \in {PathOf("v6"), "none"} :
        /\ <<n, "sec">> \in asking
        /\ asking' = asking \ {<<n, "sec">>}
        /\ mail' = mail \o <<[what |-> "dns", val |-> "none"], [what |-> "ip6", val |-> val]>>
        /\ UNCHANGED <<kernel, claims, entry, known, scan, shown, real, cache, leaks,
                       budget, unseen, raced>>

-----------------------------------------------------------------------------
(* handle_telemetry                                                          *)

\* The primary is a connected tunnel that takes the IPv4 default route.
HasPrimary == entry = "connected" /\ "v4" \in claims

SafeToCacheUnticked(f) ==      \* mutant: does not wait for the first scan
    \/ known.count = 0 /\ entry # "connected"
    \/ f = "v6" /\ entry = "connected" /\ "v6" \notin claims

DisconnectSafe == known.ticked /\ known.count = 0 /\ entry # "connected"
SafeToCache(f) ==
    \/ DisconnectSafe
    \/ f = "v6" /\ entry = "connected" /\ "v6" \notin claims

\* real_ip and its file; IPv4 saves whatever the probe said.
Keep(f, val) ==
    IF SafeToCache(f) /\ (f = "v4" \/ val # "none")
    THEN /\ real' = [real EXCEPT ![f] = val]
         /\ cache' = IF real[f] # val THEN [cache EXCEPT ![f] = val] ELSE cache
         /\ raced' = IF val = "exit" /\ (kernel = "down" \/ unseen)
                     THEN raced \cup {f}
                     ELSE IF val = "exit" THEN raced ELSE raced \ {f}
    ELSE UNCHANGED <<real, cache, raced>>

PublicIp(m) ==
    /\ m.what = "ip"
    /\ Keep("v4", m.val)
    /\ shown' = [shown EXCEPT !.v4 = m.val]
    /\ UNCHANGED leaks

PublicIpv6(m) ==
    /\ m.what = "ip6"
    /\ Keep("v6", m.val)
    /\ shown' = [shown EXCEPT !.v6 = m.val]
    /\ UNCHANGED leaks

\* Each DNS answer starts a leak check, or resets it when there is no primary.
Dns(m) ==
    /\ m.what = "dns"
    /\ leaks' = leaks \cup {IF HasPrimary THEN "probe" ELSE "skip"}
    /\ UNCHANGED <<shown, real, cache, raced>>

HandleTelemetry ==
    /\ mail # <<>>
    /\ mail' = Tail(mail)
    /\ LET m == Head(mail) IN PublicIp(m) \/ PublicIpv6(m) \/ Dns(m)
    /\ UNCHANGED <<kernel, claims, entry, known, scan, asking, budget, unseen>>

\* A leak check ends: the resolver that answered is compared with the
\* configured one.
DnsLeak ==
    \E k \in leaks :
        /\ leaks' = leaks \ {k}
        /\ \E status \in IF k = "skip" THEN {"unknown"} ELSE LeakKinds :
               shown' = [shown EXCEPT !.dns = status]
        /\ UNCHANGED <<kernel, claims, entry, known, scan, real, cache, asking, mail,
                       budget, unseen, raced>>

-----------------------------------------------------------------------------
(* Tunnels and scans                                                         *)

ConnectProfile ==
    /\ entry = "gone" /\ kernel = "down" /\ Moves
    /\ entry' = "connecting"
    /\ UNCHANGED <<kernel, claims, known, scan, shown, real, cache, asking, mail, leaks,
                   unseen, raced>>

TunnelUp ==
    /\ entry = "connecting" /\ kernel = "down"
    /\ kernel' = "up" /\ unseen' = TRUE
    /\ UNCHANGED <<claims, entry, known, scan, shown, real, cache, asking, mail, leaks,
                   budget, raced>>

ConnectResult ==
    /\ entry = "connecting" /\ kernel = "up"
    /\ entry' = "connected"
    /\ UNCHANGED <<kernel, claims, known, scan, shown, real, cache, asking, mail, leaks,
                   budget, unseen, raced>>

Disconnects ==
    /\ entry = "connected" /\ Moves
    /\ entry' = "disconnecting"
    /\ UNCHANGED <<kernel, claims, known, scan, shown, real, cache, asking, mail, leaks,
                   unseen, raced>>

TunnelDown ==
    /\ entry = "disconnecting" /\ kernel = "up"
    /\ kernel' = "down" /\ unseen' = FALSE
    /\ UNCHANGED <<claims, entry, known, scan, shown, real, cache, asking, mail, leaks,
                   budget, raced>>

External ==                     \* a tunnel starts or ends outside vortix
    /\ entry \in {"gone", "connected"} /\ Moves
    /\ kernel' = IF kernel = "up" THEN "down" ELSE "up"
    /\ unseen' = (kernel' = "up")
    /\ UNCHANGED <<claims, entry, known, scan, shown, real, cache, asking, mail, leaks, raced>>

GatherSystemState ==
    /\ scan = "none"
    /\ scan' = kernel
    /\ UNCHANGED <<kernel, claims, entry, known, shown, real, cache, asking, mail, leaks,
                   budget, unseen, raced>>

\* complete_disconnect forgets what was shown; a drop and an adoption do not.
SyncSystemState ==
    /\ scan # "none"
    /\ scan' = "none"
    /\ known' = [ticked |-> TRUE, count |-> IF scan = "up" THEN 1 ELSE 0]
    /\ unseen' = (unseen /\ scan = "down")
    /\ IF scan = "down" /\ entry = "disconnecting"
       THEN entry' = "gone" /\ shown' = [v4 |-> "none", v6 |-> "none", dns |-> "unknown"]
       ELSE /\ entry' = IF scan = "down" /\ entry = "connected" THEN "gone"
                        ELSE IF scan = "up" /\ entry = "gone" THEN "connected" ELSE entry
            /\ UNCHANGED shown
    /\ UNCHANGED <<kernel, claims, real, cache, asking, mail, leaks, budget, raced>>

\* The TUI quits and is started again: the tunnel stays, answers on their way
\* are lost, the cached addresses come back.
RestartTui ==
    /\ Moves
    /\ entry' = "gone" /\ known' = [ticked |-> FALSE, count |-> 0] /\ scan' = "none"
    /\ shown' = [v4 |-> "none", v6 |-> "none", dns |-> "unknown"]
    /\ real' = cache
    /\ asking' = {} /\ mail' = <<>> /\ leaks' = {}
    /\ unseen' = FALSE
    /\ UNCHANGED <<kernel, claims, cache, raced>>

-----------------------------------------------------------------------------
TeleNext ==
    \/ FetchRound \/ FetchIp \/ FetchSecurity \/ HandleTelemetry \/ DnsLeak
    \/ ConnectProfile \/ TunnelUp \/ ConnectResult \/ Disconnects \/ TunnelDown
    \/ External \/ GatherSystemState \/ SyncSystemState \/ RestartTui

TeleSpec == TeleInit /\ [][TeleNext]_teleVars

-----------------------------------------------------------------------------
(* The Security Guard panel                                                  *)

Ipv4Leaking == real["v4"] # "none" /\ shown.v4 = real["v4"]
Ipv6Leaking == HasPrimary /\ shown.v6 # "none" /\ shown.v6 = real["v6"]
KsAlarm     == KsRow \in {"off", "dropped"}

VerdictForProtected ==
    IF Ipv4Leaking \/ shown.dns = "leaking" \/ KsAlarm \/ Cipher = "Insecure"
    THEN "PARTIAL" ELSE "PROTECTED"

Verdict ==
    IF HasPrimary THEN VerdictForProtected
    ELSE IF entry # "gone" THEN "PARTIAL" ELSE "EXPOSED"

-----------------------------------------------------------------------------
(* Properties                                                                *)

\* A real address, in memory or on disk, is the address of a tunnel's exit
\* only if the answer arrived after that tunnel had gone, or in the window in
\* which no scan can have shown it: never from a tunnel that was up when the
\* App started, or that a scan has shown (handle_telemetry; the comment there
\* asks for positive proof that no VPN is active).
RealIsHome == \A f \in Families : "exit" \in {real[f], cache[f]} => f \in raced

\* A leak that can be known is shown: under a title that says PROTECTED the
\* public address is not the home address, unless the real address was never
\* learnt, or was learnt from an exit as above (verdict_for_protected).
LeakIsSeen ==
    /\ RealIsHome
    /\ Verdict = "PROTECTED" /\ shown.v4 = "home" =>
           real["v4"] \in {"none", "unavailable"} \/ "v4" \in raced
=============================================================================
