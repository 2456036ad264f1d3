----------------------------- MODULE Dashboard -----------------------------
(* What the panels of the dashboard draw of the registry: the header with    *)
(* its strip of tunnels, the sidebar, the connection details and the         *)
(* security guard.  Each panel derives its words on its own, frame by frame, *)
(* from the same registry; that they tell one story is what is checked.      *)
(*                                                                           *)
(* The App reaches the registry through its bookkeeping calls only.  Colours *)
(* and the rows that copy a field (transfer, latency, location) are left     *)
(* out; Reconnecting and AwaitingUserInput, which the App never mirrors, and *)
(* profiles deleted under an open panel too.                                 *)
EXTENDS TunnelRegistry

CONSTANTS
    NameWidth,    \* cells of a profile's name, at least 1
    Budgets       \* cells the header has left for the strip

ASSUME DashboardAssumption ==
    NameWidth \in Nat \ {0} /\ Budgets \subseteq Nat

DashboardNext ==
    \/ RefreshPrimary
    \/ \E i \in Ids \cup {0} : Feed(i)
    \/ \E p \in Ids :
          \/ SetDisconnected(p) \/ SetConnecting(p) \/ SetDisconnecting(p) \/ SetFailed(p)
          \/ \E s \in {"up", "seen"} : SetConnected(p, s)

\* What the panels read besides the registry: the kill switch, the cached real
\* address and the address last seen, the DNS probe, the cipher in use.
KillSwitches == {<<"Off", "Disabled">>, <<"Auto", "Armed">>, <<"Auto", "Blocking">>,
                 <<"AlwaysOn", "Armed">>, <<"AlwaysOn", "Blocking">>}
Readings == [ks : KillSwitches, real : {"none", "home"}, public : {"home", "exit", "pending"},
             dns : {"leaking", "protected"}, cipher : {"Modern", "Deprecated", "Insecure"}]

-----------------------------------------------------------------------------
(* TunnelSnapshot *)

Registered   == {p \in Ids : Has(p)}
Connected == {p \in Ids : reg.state[p] \in {"up", "seen"}}
Primary   == {p \in Registered : p = reg.primary}

\* derive_role
Role(p) ==
    IF p = reg.primary THEN "primary"
    ELSE IF reg.state[p] # "seen" /\ p \in Claiming /\ reg.primary # 0 THEN "yielded"
    ELSE "split"

-----------------------------------------------------------------------------
(* Header *)

Titles == [connecting |-> "CONNECTING", closing |-> "DISCONNECTING", up |-> "CONNECTED",
           seen |-> "CONNECTED", idle |-> "NO EXIT", failed |-> "NO EXIT"]

Title ==
    IF Registered = {} THEN "DISCONNECTED"
    ELSE IF Primary = {} THEN "NO EXIT"
    ELSE Titles[reg.state[reg.primary]]

HeaderKs(ks) ==
    IF ks[1] = "Off" \/ ks[2] = "Disabled" THEN "Off"
    ELSE IF ks[1] = "AlwaysOn" THEN "VPN-only"
    ELSE IF ks[2] = "Blocking" THEN "DROPPED" ELSE "Watch"

\* The strip: what it lists, in order, and what of it fits.
Visible == {p \in Registered : reg.state[p] \notin Down}
Ordered == InOrder(Visible \cap Primary) \o InOrder(Visible \ Primary)

Overflow(n) == IF n = 0 THEN 0 ELSE 3                         \* " +n"
FullWidth   == 14 + Len(Ordered) * (NameWidth + 2) - 1        \* " | Tunnels: [*name *name]"

\* The two short forms: what surrounds their cells, the cells per tunnel, and
\* those of them that only separate.
Narrow == [tier |-> "narrow", frame |-> 14, step |-> 3, gap |-> 1]
Dots   == [tier |-> "dots", frame |-> 5, step |-> 1, gap |-> 0]
Cells(form, k) == form.step * k - form.gap
Room(form, b)  == IF b < form.frame THEN 0 ELSE b - form.frame  \* saturating_sub

\* build_narrow_strip and build_dotrow: as many as fit with the tail they leave.
Fitting(form, room) ==
    LET n == Len(Ordered)
        Fits(k) == \A i \in 1 .. k : Cells(form, i) + Overflow(n - i) <= room
    IN CHOOSE k \in 0 .. n : Fits(k) /\ (k = n \/ ~Fits(k + 1))

NoStrip == [tier |-> "none", shown |-> 0, cells |-> 0]
StripOf(form, k) ==
    [tier |-> form.tier, shown |-> k,
     cells |-> form.frame + Cells(form, k) + Overflow(Len(Ordered) - k)]

\* append_tunnels_strip
Strip(b) ==
    LET n == Len(Ordered)
        narrow == Fitting(Narrow, Room(Narrow, b))
        dots == Fitting(Dots, Room(Dots, b))
    IN IF n = 0 \/ b < 8 THEN NoStrip
       ELSE IF FullWidth <= b THEN [tier |-> "full", shown |-> n, cells |-> FullWidth]
       ELSE IF narrow > 0 THEN StripOf(Narrow, narrow)
       ELSE IF dots > 0 THEN StripOf(Dots, dots)
       ELSE NoStrip

\* render: a lone primary has no strip.
HasStrip == Registered # {} /\ (Primary = {} \/ Cardinality(Registered) >= 2)

-----------------------------------------------------------------------------
(* Sidebar *)

Badges == [absent |-> "none", idle |-> "none", failed |-> "failed", connecting |-> "connecting",
           up |-> "connected", seen |-> "unverified", closing |-> "disconnecting"]

Badge(p) == Badges[reg.state[p]]

\* has_risk_annotation, drawn after a badge only.
AtRisk(p) == Badge(p) # "none" /\ Role(p) = "yielded"

\* should_show_primary_marker: two cells for the star, three for the name.
Starred(p, cells) == Has(p) /\ p = reg.primary /\ cells >= 5

-----------------------------------------------------------------------------
(* Connection details of the selected row, or of the primary *)

Shown(sel) == IF sel # 0 THEN sel ELSE reg.primary

Body(sel) ==
    IF Shown(sel) \in Connected THEN "connected"
    ELSE IF Shown(sel) \in Visible THEN "transitional" ELSE "not connected"

ShowsExit(sel) == Body(sel) = "connected" /\ Shown(sel) = reg.primary

\* fwmark_warning_line, for a WireGuard profile without FwMark.
FwmarkWarning(sel) ==
    Body(sel) # "not connected" /\ reg.primary # 0 /\ Shown(sel) # reg.primary

-----------------------------------------------------------------------------
(* Security guard *)

KillswitchAlarm(ks) == ks = <<"Auto", "Blocking">> \/ ks[1] = "Off"

\* Mutant: a primary on its way counts as one that is up.
BannerHasty(v) ==
    IF Primary # {} THEN
        IF v.real = v.public \/ v.dns = "leaking" \/ KillswitchAlarm(v.ks) \/ v.cipher = "Insecure"
        THEN "PARTIAL" ELSE "PROTECTED"
    ELSE IF Registered # {} THEN "PARTIAL" ELSE "EXPOSED"

\* render, verdict_for_protected: the address seen is the real one.
Banner(v) ==
    IF Primary \cap Connected # {} THEN
        IF v.real = v.public \/ v.dns = "leaking" \/ KillswitchAlarm(v.ks) \/ v.cipher = "Insecure"
        THEN "PARTIAL" ELSE "PROTECTED"
    ELSE IF Registered # {} THEN "PARTIAL" ELSE "EXPOSED"

ExitIp(v) ==
    IF Banner(v) = "EXPOSED" THEN "exposed"
    ELSE IF Primary = {} THEN "no exit"
    ELSE IF v.real = "none" \/ v.public = "pending" THEN "pending"
    ELSE IF v.public = v.real THEN "leaking" ELSE "masked"

\* killswitch_value; EXPOSED names the mode, whatever the state.
KillswitchRow(v) ==
    IF v.ks = <<"Auto", "Blocking">> /\ Banner(v) # "EXPOSED" THEN "VPN dropped" ELSE v.ks[1]

\* The primary's, or with no primary that of the first tunnel that is up.
CipherRow(v) ==
    IF (IF Primary = {} THEN Connected ELSE Primary \cap Connected) = {} THEN "N/A" ELSE v.cipher

\* The rows with an alarm, red or yellow.
Alarms(v) ==
    {row \in {"exit", "dns", "killswitch", "encryption"} :
        \/ row = "exit" /\ ExitIp(v) \in {"exposed", "leaking"}
        \/ row = "dns" /\ v.dns = "leaking" /\ Banner(v) # "EXPOSED"
        \/ row = "killswitch" /\ (KillswitchRow(v) = "VPN dropped" \/ v.ks[1] = "Off")
        \/ row = "encryption" /\ Banner(v) # "EXPOSED" /\ CipherRow(v) \in {"Deprecated", "Insecure"}}

-----------------------------------------------------------------------------
\* The title in the header and the verdict of the security guard come from two
\* derivations; they never contradict each other: EXPOSED is DISCONNECTED,
\* PROTECTED is CONNECTED with nothing dropped or leaking, and a connected
\* primary is called PARTIAL only beside the alarm that says why.
TitleFitsVerdict ==
    \A v \in Readings :
        /\ Title = "DISCONNECTED" <=> Banner(v) = "EXPOSED"
        /\ Title = "NO EXIT" <=> ExitIp(v) = "no exit"
        /\ Banner(v) = "PROTECTED" =>
              /\ Title = "CONNECTED"
              /\ Alarms(v) \subseteq {"encryption"} /\ CipherRow(v) # "Insecure"
              /\ HeaderKs(v.ks) \notin {"Off", "DROPPED"}
        /\ Title = "CONNECTED" /\ Banner(v) = "PARTIAL" => Alarms(v) # {}
        /\ HeaderKs(v.ks) = "DROPPED" /\ Registered # {} => KillswitchRow(v) = "VPN dropped"

\* The exit tunnel is one tunnel in all panels: where one of them says that a
\* tunnel gave way to another, the others name that other.
OneExit ==
    \A sel \in Ids :
        /\ ShowsExit(sel) <=> Title = "CONNECTED" /\ Starred(sel, 5)
        /\ AtRisk(sel) \/ FwmarkWarning(sel) =>
              /\ Title \in {"CONNECTED", "CONNECTING", "DISCONNECTING"}
              /\ \E p \in Ids \ {sel} : Starred(p, 5) /\ ~AtRisk(p) /\ p = Shown(0)
        /\ sel \in Visible <=> Badge(sel) \notin {"none", "failed"}

\* The strip lists or counts every tunnel that is not down, the exit tunnel
\* first, and stays within the cells the header has left for it.
StripTellsAll ==
    HasStrip => \A b \in Budgets :
        LET strip == Strip(b)
        IN /\ strip.cells <= b
           /\ strip.tier # "none" /\ Visible \cap Primary # {} => Head(Ordered) = reg.primary
           /\ strip.tier = "full" => strip.shown = Cardinality(Visible)
           /\ strip.tier = "none" => Visible = {} \/ b < 9

\* The panels tell one story.
PanelsAgree == TitleFitsVerdict /\ OneExit /\ StripTellsAll
=============================================================================
