---------------------------- MODULE CommandRunner ----------------------------
(* Subprocesses: the calls of vortix's threads through RealRunner, the        *)
(* programs they start, and two users of the runner that keep state between   *)
(* their calls: the route probe with its backoff and the DNS registration of  *)
(* a WireGuard link.  Output is one unit of text; time is the order of events. *)
EXTENDS Naturals, FiniteSets, Sequences

CONSTANTS
    Threads,         \* "scanner" and "monitor" probe routes; the others do the rest
    Sites,           \* the call sites in play
    Processes,       \* 1..N, processes that exist at a time (bound)
    IsRoot,          \* utils::is_root()
    Missing,         \* programs that are not installed
    Rung             \* consecutive failures before a cooldown, 3 in the code

\* A bug: openvpn --daemon is run like any other program.
CommandSpecForgets ==
    [site \in {"route", "dns", "domain", "rules", "openvpn", "clipboard"} |->
        [timed |-> site \in {"route", "dns", "domain"}, stdin |-> site \in {"rules", "clipboard"},
         root |-> site \in {"rules", "openvpn"}, daemonizes |-> FALSE]]

\* The call sites that differ in what the runner does with them.
CommandSpec ==
    [route     |-> [timed |-> TRUE,  stdin |-> FALSE, root |-> FALSE, daemonizes |-> FALSE],
     dns       |-> [timed |-> TRUE,  stdin |-> FALSE, root |-> FALSE, daemonizes |-> FALSE],
     domain    |-> [timed |-> TRUE,  stdin |-> FALSE, root |-> FALSE, daemonizes |-> FALSE],
     rules     |-> [timed |-> FALSE, stdin |-> TRUE,  root |-> TRUE,  daemonizes |-> FALSE],
     openvpn   |-> [timed |-> FALSE, stdin |-> FALSE, root |-> TRUE,  daemonizes |-> TRUE],
     clipboard |-> [timed |-> FALSE, stdin |-> TRUE,  root |-> FALSE, daemonizes |-> FALSE]]

RouteThreads == {"scanner", "monitor"} \intersect Threads
Forking      == {"openvpn", "clipboard"}     \* programs that leave a process behind

ASSUME RunnerAssumption == Sites \subseteq DOMAIN CommandSpec /\ Rung \in Nat \ {0}

VARIABLES
    pending,       \* [Threads -> the call the thread blocks in]
    proc,       \* [Processes -> the program running there]
    answer,     \* what the last call to end returned
    backoff,    \* ProbeBackoff, and the probes started during a cooldown
    link        \* resolved's state of the interface, and what touched it

runnerVars == <<pending, proc, answer, backoff, link>>

NoProc == [site |-> "none", life |-> "unused", ok |-> TRUE, fed |-> FALSE,
           unread |-> 0, forked |-> FALSE, holds |-> FALSE]
NoCall == [site |-> "none", stage |-> "idle", child |-> {}, next |-> <<>>]
NoLink == [up |-> FALSE, servers |-> FALSE, catchAll |-> FALSE, stray |-> FALSE]
Answers == {"whole", "cut"}      \* all the output, or less of it; a ProcessError promises none

RunnerInit ==
    /\ pending = [t \in Threads |-> NoCall]
    /\ proc = [p \in Processes |-> NoProc]
    /\ answer = "whole"
    /\ backoff = [fails |-> 0, cooling |-> FALSE, strays |-> 0]
    /\ link = NoLink

Owned(p) == \E t \in Threads : p \in pending[t].child

-----------------------------------------------------------------------------
(* RealRunner::run                                                            *)

\* The thread's call is over; a program that still runs is left alone.
Returns(t, result) ==
    /\ answer' = result
    /\ pending' = [pending EXCEPT ![t] = NoCall]

\* Privilege is checked before the program is looked for; with stdin the
\* bytes are written before anything is waited for.
Spawn(t, site, next) ==
    IF CommandSpec[site].root /\ ~IsRoot THEN Returns(t, "whole") /\ UNCHANGED proc
    ELSE IF site \in Missing      THEN Returns(t, "whole") /\ UNCHANGED proc
    ELSE \E p \in Processes :
            /\ proc[p] = NoProc /\ \A q \in 1..p - 1 : proc[q] # NoProc
            /\ proc' = [proc EXCEPT ![p] = [NoProc EXCEPT !.site = site, !.life = "running"]]
            /\ pending' = [pending EXCEPT ![t] =
                  [site |-> site, child |-> {p}, next |-> next,
                   stage |-> IF CommandSpec[site].stdin THEN "writing" ELSE "waiting"]]
            /\ UNCHANGED answer

Run(t) ==
    /\ pending[t] = NoCall /\ t \notin RouteThreads
    /\ \E site \in Sites \ {"route", "dns", "domain"} : Spawn(t, site, <<>>)
    /\ UNCHANGED <<backoff, link>>

StdinWritten(t) ==
    /\ pending[t].stage = "writing"
    /\ \E p \in pending[t].child : proc[p].life = "running" \/ proc[p].fed
    /\ pending' = [pending EXCEPT ![t].stage = "waiting"]
    /\ UNCHANGED <<proc, answer, backoff, link>>

\* The program ended without reading: write_all fails and the child is dropped.
StdinRefused(t) ==
    /\ pending[t].stage = "writing"
    /\ \E p \in pending[t].child : proc[p].life = "exited" /\ ~proc[p].fed
    /\ Returns(t, "whole")
    /\ UNCHANGED <<proc, backoff, link>>

\* wait_with_output reads as the program writes.
ReadOutput(t) ==
    /\ pending[t].stage = "waiting"
    /\ \E p \in pending[t].child :
        /\ ~CommandSpec[pending[t].site].daemonizes /\ proc[p].unread = 1
        /\ proc' = [proc EXCEPT ![p].unread = 0]
    /\ UNCHANGED <<pending, answer, backoff, link>>

\* wait() for a daemonizing program; for the others the end of both pipes too,
\* which comes when the last process that holds them closes them.
Returnable(site, p) ==
    /\ proc[p].life = "exited"
    /\ CommandSpec[site].daemonizes \/ (proc[p].unread = 0 /\ ~proc[p].holds)

Piped(site) == ~CommandSpec[site].daemonizes

Result(p) == IF proc[p].unread > 0 THEN "cut" ELSE "whole"

-----------------------------------------------------------------------------
(* RouteProbe::run and set_link_dns                                           *)

\* cooldown_for_failures, with a failure count that stops at the first rung.
Cooldown(fails) == fails >= Rung

Probe(t) ==
    /\ t \in RouteThreads /\ "route" \in Sites /\ pending[t] = NoCall
    /\ IF backoff.cooling
       THEN answer' = "whole" /\ UNCHANGED <<pending, proc, backoff>>
       ELSE \* the lock is released here and the program started afterwards
            /\ pending' = [pending EXCEPT ![t] = [NoCall EXCEPT !.site = "route", !.stage = "cleared"]]
            /\ UNCHANGED <<proc, answer, backoff>>
    /\ UNCHANGED link

ProbeStarts(t) ==
    /\ pending[t].stage = "cleared"
    /\ Spawn(t, "route", <<>>)
    /\ backoff' = IF backoff.cooling THEN [backoff EXCEPT !.strays = @ + 1] ELSE backoff
    /\ UNCHANGED link

\* A bug: the failures count past the last rung of the ladder.
ScoredUncapped(fail) ==
    IF ~fail THEN [fails |-> 0, cooling |-> FALSE, strays |-> 0]
    ELSE LET n == backoff.fails + 1
         IN  [fails |-> n, cooling |-> Cooldown(n), strays |-> backoff.strays]

Scored(fail) ==
    IF ~fail THEN [fails |-> 0, cooling |-> FALSE, strays |-> 0]
    ELSE LET n == IF backoff.fails = Rung THEN Rung ELSE backoff.fails + 1
         IN  [fails |-> n, cooling |-> Cooldown(n), strays |-> backoff.strays]

CooldownEnds ==
    /\ backoff.cooling
    /\ backoff' = [backoff EXCEPT !.cooling = FALSE, !.strays = 0]
    /\ UNCHANGED <<pending, proc, answer, link>>

\* build_set_link_dns_specs: the servers, then for a primary the catch-all.
LinkSpecs(authoritative) == IF authoritative THEN <<"dns", "domain">> ELSE <<"dns">>

\* WgTunnel::up registers the link's DNS once wg-quick has made the interface;
\* one worker at a time does.
SetLinkDns(t) ==
    /\ pending[t] = NoCall /\ t \notin RouteThreads /\ {"dns", "domain"} \subseteq Sites
    /\ ~link.up
    /\ \A u \in Threads : pending[u].site \notin {"dns", "domain"}
    /\ \E authoritative \in BOOLEAN :
        LET specs == LinkSpecs(authoritative) IN Spawn(t, Head(specs), Tail(specs))
    /\ link' = [NoLink EXCEPT !.up = TRUE]
    /\ UNCHANGED backoff

Finished(t) ==
    /\ pending[t].stage = "waiting"
    /\ \E p \in pending[t].child :
        /\ Returnable(pending[t].site, p)
        /\ IF pending[t].next # <<>> /\ proc[p].ok
           THEN \* the loop of set_link_dns goes on
                /\ proc' = [proc EXCEPT ![p] =
                      [NoProc EXCEPT !.site = Head(pending[t].next), !.life = "running"]]
                /\ pending' = [pending EXCEPT ![t] = [@ EXCEPT !.site = Head(pending[t].next),
                                                         !.next = Tail(pending[t].next)]]
                /\ UNCHANGED answer
           ELSE /\ Returns(t, Result(p))
                /\ proc' = IF proc[p].holds THEN proc ELSE [proc EXCEPT ![p] = NoProc]
    \* a program that ran counts as a success, whatever its exit status
    /\ backoff' = IF pending[t].site = "route" THEN Scored(FALSE) ELSE backoff
    /\ UNCHANGED link

\* The deadline covers the wait alone; the child is dropped, not killed.
Timeout(t) ==
    /\ pending[t].stage = "waiting" /\ CommandSpec[pending[t].site].timed
    /\ Returns(t, "whole")
    /\ backoff' = IF pending[t].site = "route" THEN Scored(TRUE) ELSE backoff
    /\ UNCHANGED <<proc, link>>

-----------------------------------------------------------------------------
(* The programs                                                               *)

ProgramReads(p) ==
    /\ proc[p].life = "running" /\ ~proc[p].fed
    /\ CommandSpec[proc[p].site].stdin /\ Owned(p)
    /\ proc' = [proc EXCEPT ![p].fed = TRUE]
    /\ UNCHANGED <<pending, answer, backoff, link>>

\* Text goes to the pipe; nobody reads it once the call has given up, and the
\* program dies of it.
ProgramWrites(p) ==
    /\ proc[p].life = "running" /\ Piped(proc[p].site)
    /\ proc' = [proc EXCEPT ![p] = IF Owned(p) THEN [@ EXCEPT !.unread = 1]
                                   ELSE [@ EXCEPT !.life = "exited", !.ok = FALSE]]
    /\ UNCHANGED <<pending, answer, backoff, link>>

ProgramForks(p) ==
    /\ proc[p].life = "running" /\ proc[p].site \in Forking /\ ~proc[p].forked
    /\ proc' = [proc EXCEPT ![p].forked = TRUE, ![p].holds = Piped(proc[p].site)]
    /\ UNCHANGED <<pending, answer, backoff, link>>

\* resolvectl works on the link that has the name at that moment.  The exit status
\* of the other programs changes nothing here.
ProgramEnds(p) ==
    /\ proc[p].life = "running"
    /\ \E ok \in IF proc[p].site \in {"dns", "domain"} THEN BOOLEAN ELSE {TRUE} :
        /\ ok => proc[p].site \notin {"dns", "domain"} \/ link.up
        /\ proc' = [proc EXCEPT ![p].life = "exited", ![p].ok = ok]
        /\ link' = IF ~ok THEN link
                   ELSE [link EXCEPT
                           !.servers  = @ \/ proc[p].site = "dns",
                           !.catchAll = @ \/ proc[p].site = "domain",
                           !.stray    = @ \/ (proc[p].site = "domain" /\ ~Owned(p))]
    /\ UNCHANGED <<pending, answer, backoff>>

\* A program nobody waits for is reaped; what it left behind ends some day.
Reaped(p) ==
    /\ proc[p].life = "exited" /\ ~Owned(p)
    /\ proc' = [proc EXCEPT ![p] = NoProc]
    /\ UNCHANGED <<pending, answer, backoff, link>>

GrandchildEnds(p) ==
    /\ proc[p].life = "exited" /\ proc[p].holds
    /\ proc' = [proc EXCEPT ![p].holds = FALSE]
    /\ UNCHANGED <<pending, answer, backoff, link>>

\* wg-quick down deletes the link, and resolved forgets it.
LinkDown ==
    /\ link.up
    /\ link' = NoLink
    /\ UNCHANGED <<pending, proc, answer, backoff>>

RunnerNext ==
    \/ \E t \in Threads :
        \/ Run(t) \/ StdinWritten(t) \/ StdinRefused(t) \/ ReadOutput(t)
        \/ Probe(t) \/ ProbeStarts(t) \/ SetLinkDns(t) \/ Finished(t) \/ Timeout(t)
    \/ \E p \in Processes :
        \/ ProgramReads(p) \/ ProgramWrites(p) \/ ProgramForks(p) \/ ProgramEnds(p)
        \/ Reaped(p) \/ GrandchildEnds(p)
    \/ CooldownEnds \/ LinkDown

RunnerSpec == RunnerInit /\ [][RunnerNext]_runnerVars

-----------------------------------------------------------------------------
RunnerTypeOK ==
    /\ pending \in [Threads -> [site: Sites \union {"none"},
                             stage: {"idle", "cleared", "writing", "waiting"},
                             child: {{}} \union {{p} : p \in Processes},
                             next: {<<>>, <<"domain">>, <<"dns">>}]]
    /\ proc \in [Processes -> [site: Sites \union {"none"}, life: {"unused", "running", "exited"},
                               ok: BOOLEAN, fed: BOOLEAN, unread: 0..1, forked: BOOLEAN,
                               holds: BOOLEAN]]
    /\ answer \in Answers
    /\ backoff \in [fails: 0..Rung, cooling: BOOLEAN, strays: Nat]
    /\ link \in [up: BOOLEAN, servers: BOOLEAN, catchAll: BOOLEAN, stray: BOOLEAN]

\* A thread whose program has ended gets its answer: no call hangs on pipes that
\* a daemon has inherited, the clipboard's alone excepted (pipe_to_command sets
\* no .daemonizes()).  Otherwise openvpn --daemon would hang every connect.
WaitsForItsOwn ==
    \A t \in Threads : \A p \in pending[t].child :
        pending[t].stage = "waiting" /\ proc[p].life = "exited" /\ pending[t].site # "clipboard"
            => \/ Returnable(pending[t].site, p)
               \/ proc[p].unread > 0        \* the reader is not done yet

\* An answer that reaches its thread holds all the program wrote.
AnswersAreWhole == answer # "cut"

\* During a cooldown no probe starts but those cleared before it began: one
\* for each of the other threads at most.
ProbesBackOff == backoff.strays < Cardinality(RouteThreads) \/ RouteThreads = {}

\* A link claims all names only when it has servers to ask, unless resolvectl
\* calls given up for dead landed on a link of a later session.
CatchAllHasServers == link.catchAll => link.servers \/ link.stray

\* Every call ends with all its program wrote, and what depends on the answers
\* of earlier calls stays right (RealRunner::run, RouteProbe::run, set_link_dns).
CallsEnd == WaitsForItsOwn /\ AnswersAreWhole /\ ProbesBackOff /\ CatchAllHasServers

=============================================================================
