--------------------------- MODULE TunnelRegistry ---------------------------
(* TunnelRegistry with the FSMs it owns: the bookkeeping calls that mirror   *)
(* what the App did, and its own connect, disconnect, queue and stop-all.    *)
(* Every call holds the registry exclusively, so each is one step; what      *)
(* Tunnel::up and Tunnel::down answer in it is chosen per profile.           *)
EXTENDS Naturals, Sequences, FiniteSets

CONSTANTS
    Ids,        \* profile ids, numbered in their order; 0 stands for none
    Claiming,   \* those whose AllowedIPs claim the default route
    MaxCalls    \* bound: calls

ASSUME RegistryAssumption ==
    /\ Ids \subseteq Nat \ {0} /\ IsFiniteSet(Ids)      \* keys of a map
    /\ Claiming \subseteq Ids /\ MaxCalls \in Nat

VARIABLES
    reg,    \* fsms and primary: state and pending_after_disconnect of each entry
    route,  \* cached_route: the profile whose interface it names
    stopped, \* history: the last call was disconnect_all
    calls

regVars == <<reg, route, stopped, calls>>

\* "idle" and "failed" are Disconnected without and with a last_failure; "seen"
\* is Connected with an interface that is not authoritative.
EntryStates == {"absent", "idle", "failed", "connecting", "up", "seen", "closing"}
Down == {"idle", "failed"}
Standing == {"connecting", "up", "seen"}

RegTypeOK ==
    /\ reg.state \in [Ids -> EntryStates]
    /\ reg.queued \in [Ids -> Ids \cup {0}]
    /\ reg.primary \in Ids \cup {0}
    /\ route \in Ids \cup {0}

RegInit ==
    /\ reg = [state |-> [p \in Ids |-> "absent"], queued |-> [p \in Ids |-> 0], primary |-> 0]
    /\ route = 0
    /\ stopped = FALSE /\ calls = 0

-----------------------------------------------------------------------------
(* What the calls are made of, on a registry r; ups and downs are the answers *)
(* of Tunnel::up and Tunnel::down                                             *)

Ups == [Ids -> {"up", "failed"}]
Downs == [Ids -> Down]

\* recompute_primary
Elected(r) ==
    [r EXCEPT !.primary = IF route # 0 /\ r.state[route] = "up" THEN route ELSE 0]

\* Engine::try_connect
Up(r, p, ups) == IF r.state[p] \in Down THEN [r EXCEPT !.state[p] = ups[p]] ELSE r

\* Engine::try_disconnect
TakenDown(r, p, downs) ==
    IF r.state[p] \in Standing THEN [r EXCEPT !.state[p] = downs[p]] ELSE r

\* drain_pending_after_disconnect: what waits for an entry that is down is
\* connected, without detect_conflict, and dropped if it has no entry itself.
Drained(r, ups) ==
    LET hosts == {h \in Ids : r.state[h] \in Down /\ r.queued[h] # 0}
        fired == {r.queued[h] : h \in hosts}
    IN Elected([r EXCEPT
            !.queued = [h \in Ids |-> IF h \in hosts THEN 0 ELSE @[h]],
            !.state = [p \in Ids |-> IF p \in fired /\ @[p] \in Down THEN ups[p] ELSE @[p]]])

Reached(r, p, ups, downs) == Drained(TakenDown(r, p, downs), ups)

Cycled(r, p, ups, downs) ==
    IF r.state[p] \in Standing THEN Drained(Up(TakenDown(r, p, downs), p, ups), ups)
    ELSE Drained(r, ups)

\* detect_conflict
DetectConflict(p) ==
    p \in Claiming /\ \E q \in Claiming \ {p} : reg.state[q] \in Standing

Has(p) == reg.state[p] # "absent"
Calls == calls < MaxCalls /\ calls' = calls + 1
Call == Calls /\ stopped' = FALSE
Mirror(p, s) == reg' = [reg EXCEPT !.state[p] = s]
MirrorAndElect(p, s) == reg' = Elected([reg EXCEPT !.state[p] = s])
Gone(r, p) == [r EXCEPT !.state[p] = "absent", !.queued[p] = 0]

-----------------------------------------------------------------------------
(* Bookkeeping *)

Insert(p, s) ==
    /\ Call /\ UNCHANGED route
    /\ reg' = [reg EXCEPT !.state[p] = s, !.queued[p] = 0]

RemoveEntry(p) == Call /\ Has(p) /\ reg' = Gone(reg, p) /\ UNCHANGED route

\* set_connected, with or without an authoritative interface.
SetConnected(p, s) == Call /\ MirrorAndElect(p, s) /\ UNCHANGED route

SetDisconnected(p) == Call /\ reg' = Elected(Gone(reg, p)) /\ UNCHANGED route

\* set_connecting leaves the primary alone.
SetConnecting(p) == Call /\ Mirror(p, "connecting") /\ UNCHANGED route

SetDisconnecting(p) ==
    /\ Call /\ UNCHANGED route
    /\ IF Has(p) THEN MirrorAndElect(p, "closing") ELSE reg' = Elected(reg)

SetFailed(p) == Call /\ MirrorAndElect(p, "failed") /\ UNCHANGED route

Feed(i) == Call /\ i # route /\ route' = i /\ UNCHANGED reg

-----------------------------------------------------------------------------
(* The registry's own operations *)

\* A connect that fails returns before the primary and the queue are looked at.
ConnectTunnel(p, force) ==
    /\ Call /\ UNCHANGED route
    /\ force \/ ~DetectConflict(p)
    /\ \E ups \in Ups :
          LET r == Up(IF Has(p) THEN reg ELSE [reg EXCEPT !.state[p] = "idle"], p, ups)
          IN reg' = IF r.state[p] \in Down THEN r ELSE Drained(r, ups)

DisconnectTunnel(p) ==
    /\ Call /\ Has(p) /\ UNCHANGED route
    /\ \E ups \in Ups, downs \in Downs : reg' = Reached(reg, p, ups, downs)

\* order.sort_by
InOrder(S) ==
    CHOOSE s \in [1 .. Cardinality(S) -> S] : \A i, j \in DOMAIN s : i < j => s[i] < s[j]

After(order, Op(_, _)) ==
    LET after[k \in 0 .. Len(order)] == IF k = 0 THEN reg ELSE Op(after[k - 1], order[k])
    IN after[Len(order)]

Secondaries == {p \in Ids : Has(p) /\ p # reg.primary}

\* Mutant: the primary is not taken down at the end.
DisconnectAllButPrimary ==
    /\ Calls /\ stopped' = TRUE /\ UNCHANGED route
    /\ \E ups \in Ups, downs \in Downs :
          reg' = After(InOrder(Secondaries), LAMBDA r, p : Reached(r, p, ups, downs))

\* disconnect_all: secondaries first, the primary last, the queue drained after
\* each of them.
DisconnectAll ==
    /\ Calls /\ stopped' = TRUE /\ UNCHANGED route
    /\ \E ups \in Ups, downs \in Downs :
          reg' = After(InOrder(Secondaries) \o (IF reg.primary = 0 THEN <<>> ELSE <<reg.primary>>),
                       LAMBDA r, p : IF r.state[p] = "absent" THEN r
                                     ELSE Reached(r, p, ups, downs))

Reconnect(p) ==
    /\ Call /\ Has(p) /\ UNCHANGED route
    /\ \E ups \in Ups, downs \in Downs : reg' = Cycled(reg, p, ups, downs)

ReconnectAll ==
    /\ Call /\ UNCHANGED route
    /\ \E ups \in Ups, downs \in Downs :
          reg' = After(InOrder({p \in Ids : Has(p)}), LAMBDA r, p : Cycled(r, p, ups, downs))

QueueAfterDisconnect(during, p) ==
    /\ Call /\ Has(during) /\ UNCHANGED route
    /\ reg' = [reg EXCEPT !.queued[during] = p]

RefreshPrimary ==
    /\ Call /\ UNCHANGED route
    /\ \E ups \in Ups : reg' = Drained(Elected(reg), ups)

\* Input::Tick to every FSM: a Connecting one past its budget gives up.
RegTick ==
    /\ Call /\ UNCHANGED route
    /\ \E late \in SUBSET {p \in Ids : reg.state[p] = "connecting"}, ups \in Ups :
          reg' = Drained([reg EXCEPT !.state = [p \in Ids |-> IF p \in late THEN "failed" ELSE @[p]]],
                         ups)

RegNext ==
    \/ DisconnectAll \/ ReconnectAll \/ RefreshPrimary \/ RegTick
    \/ \E i \in Ids \cup {0} : Feed(i)
    \/ \E p \in Ids :
          \/ RemoveEntry(p) \/ SetDisconnected(p) \/ SetConnecting(p) \/ SetDisconnecting(p)
          \/ SetFailed(p) \/ DisconnectTunnel(p) \/ Reconnect(p)
          \/ \E s \in {"idle", "up"} : Insert(p, s)
          \/ \E s \in {"up", "seen"} : SetConnected(p, s)
          \/ \E force \in BOOLEAN : ConnectTunnel(p, force)
          \/ \E q \in Ids : QueueAfterDisconnect(p, q)

RegSpec == RegInit /\ [][RegNext]_regVars

-----------------------------------------------------------------------------
\* Stop-all stops everything, whatever Tunnel::down answers, except what had
\* been queued behind a tunnel and came up after its own turn was over.
StopAllStops ==
    [][stopped' =>
         \A p \in Ids : reg'.state[p] \in Standing =>
            \E h \in Ids :
               /\ reg.queued[h] = p
               /\ h = reg.primary \/ (p <= h /\ p # reg.primary)]_regVars
=============================================================================
