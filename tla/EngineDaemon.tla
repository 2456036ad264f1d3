--------------------------- MODULE EngineDaemon ---------------------------
(* The daemon: an accept loop that serves one connection at a time, the      *)
(* engine actor behind it (one thread, one FSM, one tunnel), and the clients.*)
(* A connection is a stream with at most one request outstanding, the way    *)
(* daemon/client.rs uses it; a client that tries again dials another one.    *)
(*                                                                           *)
(* The daemon was started with its engine attached and nobody else drives    *)
(* tunnels.  The FSM's other inputs (Tick, link, profile and status          *)
(* observations) have no producer in the program, so of its states only      *)
(* Disconnected and Connected outlive a command.                             *)
EXTENDS Naturals, Sequences

CONSTANTS
    Conns,        \* connections
    Foreign,      \* the connections of another user
    Profiles,
    Ovpn,         \* the profiles of OpenVPN, the others are WireGuard's
    NoProfile,    \* the FSM is Disconnected
    Unknown,      \* what a client knows of the FSM before it was told
    NoAnswer,
    Faults,       \* what may go wrong, see FaultKinds
    MaxRequests   \* bound: connection -> requests it sends

FaultKinds ==
    {"gone",      \* the profile store does not have the profile
     "upFails",
     "downFails",
     "drop"}      \* a tunnel goes down behind the daemon's back

ASSUME DaemonAssumption ==
    /\ Foreign \subseteq Conns
    /\ Ovpn \subseteq Profiles
    /\ NoProfile \notin Profiles
    /\ Unknown \notin Profiles \cup {NoProfile}
    /\ NoAnswer \notin Profiles \cup {NoProfile, Unknown}
    /\ Faults \subseteq FaultKinds
    /\ MaxRequests \in [Conns -> Nat]

VARIABLES
    stage,     \* connection -> not dialled yet, open, closed by either end
    sent,      \* connection -> requests it has sent
    wire,      \* connection -> its request the daemon has not read
    answer,    \* connection -> the response its client has not read
    view,      \* connection -> the state of the FSM its client may rely on
    backlog,   \* dialled connections the daemon has not accepted
    phase,     \* connection -> where handle_client is, "out" if not in it
    job,       \* connection -> the request handle_client works on
    resp,      \* connection -> the response it is going to write
    events,    \* the tunnel event the actor has not appended yet
    fsm,       \* the connected profile, or NoProfile
    kernel,    \* profile -> its tunnel on the machine, see Tunnels
    journal    \* profile -> the last tunnel event appended for it

client == <<stage, sent, wire, answer, view>>
server == <<backlog, phase, job, resp>>
engine == <<events, fsm, kernel, journal>>
vars   == <<client, server, engine>>

Stages == {"new", "open", "closed"}
Phases == {"out", "read", "actor", "append", "reply"}
Events == {"none", "up", "down"}      \* TunnelUp, TunnelDown; the others are left out

\* An OpenVPN daemon outlives the SIGTERM of its down for a while, or for good if
\* the signal could not be sent ("dying"); one that an up gave up on runs on
\* ("orphan"), for handle_connect_failure cleans nothing up.  Two daemons of one
\* profile count as the one started last.
Tunnels == {"off", "up", "dying", "orphan"}

\* Disconnect and ForceDisconnect are one command to the FSM; "ack" is
\* Subscribe and Shutdown; "garbage" is what decode_frame rejects.
Executes == {"connect", "disconnect", "reconnect", "userAnswered"}
Ops      == Executes \cup {"snapshot", "ack", "garbage", "none"}
NoRequest == [op |-> "none", on |-> NoProfile]
Requests ==
    {[op |-> "connect", on |-> p] : p \in Profiles}
        \cup {[op |-> o, on |-> NoProfile] : o \in Ops \ {"connect", "none"}}

States  == Profiles \cup {NoProfile}
Views   == States \cup {Unknown}
Answers == Views \cup {NoAnswer}
EventRecords == [on : States, is : Events]

\* An answer is what it tells of the FSM.
TypeOK ==
    /\ stage \in [Conns -> Stages]
    /\ sent \in [Conns -> Nat]
    /\ wire \in [Conns -> Requests \cup {NoRequest}]
    /\ answer \in [Conns -> Answers]
    /\ view \in [Conns -> Views]
    /\ backlog \in Seq(Conns)
    /\ phase \in [Conns -> Phases]
    /\ job \in [Conns -> Requests \cup {NoRequest}]
    /\ resp \in [Conns -> Views]
    /\ events \in EventRecords
    /\ fsm \in States
    /\ kernel \in [Profiles -> Tunnels]
    /\ \A p \in Profiles \ Ovpn : kernel[p] \in {"off", "up"}
    /\ journal \in [Profiles -> Events]

NoEvents == [on |-> NoProfile, is |-> "none"]

Init ==
    /\ stage = [c \in Conns |-> "new"]
    /\ sent = [c \in Conns |-> 0]
    /\ wire = [c \in Conns |-> NoRequest]
    /\ answer = [c \in Conns |-> NoAnswer]
    /\ view = [c \in Conns |-> Unknown]
    /\ backlog = <<>>
    /\ phase = [c \in Conns |-> "out"]
    /\ job = [c \in Conns |-> NoRequest]
    /\ resp = [c \in Conns |-> Unknown]
    /\ events = NoEvents
    /\ fsm = NoProfile
    /\ kernel = [p \in Profiles |-> "off"]
    /\ journal = [p \in Profiles |-> "none"]

-----------------------------------------------------------------------------
(* The FSM: each command as the set of its outcomes *)

Outcome(f, k, p, e) == [fsm |-> f, kernel |-> k, on |-> p, event |-> e]
Ignored == {Outcome(fsm, kernel, NoProfile, "none")}

\* up of p over the tunnels k.  wg-quick refuses an interface that exists, the
\* OpenVPN driver a pidfile of a live daemon: down removes that file, a failed up
\* may have written it.
Up(p, k) ==
    {o \in {Outcome(p, [k EXCEPT ![p] = "up"], p, "up")} : k[p] # "up"}
        \cup {o \in {Outcome(NoProfile, k, p, "none")} :
                 k[p] # "off" \/ Faults \cap {"gone", "upFails"} # {}}
        \cup {o \in {Outcome(NoProfile, [k EXCEPT ![p] = "orphan"], p, "none")} :
                 p \in Ovpn /\ k[p] # "up" /\ "upFails" \in Faults}

\* Mutant: a second connect replaces the first.
TryConnectAnyway(p) == Up(p, kernel)

TryConnect(p) == IF fsm = NoProfile THEN Up(p, kernel) ELSE Ignored

\* down of the connected profile.  OpenVPN's signals the daemon, minds no error
\* and returns Ok at once; wg-quick down waits, and when it fails it may have
\* taken the tunnel down.
Down(p) ==
    LET gone == [kernel EXCEPT ![p] = "off"]
    IN  IF p \in Ovpn
        THEN {Outcome(NoProfile, k, p, "down") :
                 k \in {gone, [kernel EXCEPT ![p] = IF @ = "off" THEN "off" ELSE "dying"]}}
        ELSE {Outcome(NoProfile, gone, p, "down")}
                \cup {Outcome(NoProfile, k, p, "none") :
                         k \in IF "downFails" \in Faults \/ kernel[p] = "off"
                               THEN {kernel, gone} ELSE {}}

\* Mutant: the event is pushed before the outcome of down is known.
TryDisconnectEager ==
    IF fsm = NoProfile THEN Ignored
    ELSE {Outcome(o.fsm, o.kernel, fsm, "down") : o \in Down(fsm)}

\* Mutant: a down that fails leaves the FSM connected.
TryDisconnectStays ==
    IF fsm = NoProfile THEN Ignored
    ELSE {Outcome(IF o.event = "down" THEN NoProfile ELSE fsm, o.kernel, fsm, o.event) :
             o \in Down(fsm)}

TryDisconnect == IF fsm = NoProfile THEN Ignored ELSE Down(fsm)

\* Both halves, whatever the first one's outcome; the later event is the last.
TryReconnect ==
    IF fsm = NoProfile THEN Ignored
    ELSE UNION {{IF u.event = "up" THEN u ELSE Outcome(u.fsm, u.kernel, fsm, d.event) :
                    u \in Up(fsm, d.kernel)} : d \in Down(fsm)}

Outcomes(r) ==
    IF r.op = "connect" THEN TryConnect(r.on)
    ELSE IF r.op = "disconnect" THEN TryDisconnect
    ELSE IF r.op = "reconnect" THEN TryReconnect ELSE Ignored

-----------------------------------------------------------------------------
(* The clients *)

Waiting(c) ==
    \/ wire[c] # NoRequest
    \/ phase[c] \in {"actor", "append", "reply"}
    \/ answer[c] # NoAnswer

Dial(c) ==
    /\ stage[c] = "new"
    /\ stage' = [stage EXCEPT ![c] = "open"]
    /\ backlog' = Append(backlog, c)
    /\ UNCHANGED <<sent, wire, answer, view, phase, job, resp, engine>>

\* A client that sends a command knows that the state may change.
Send(c, r) ==
    /\ stage[c] = "open" /\ ~Waiting(c)
    /\ sent[c] < MaxRequests[c]
    /\ sent' = [sent EXCEPT ![c] = @ + 1]
    /\ wire' = [wire EXCEPT ![c] = r]
    /\ view' = [view EXCEPT ![c] = IF r.op \in Executes THEN Unknown ELSE @]
    /\ UNCHANGED <<stage, answer, server, engine>>

\* Mutant: the client does not wait for a full frame.
LearnEarly(c) ==
    /\ stage[c] = "open"
    /\ answer' = [answer EXCEPT ![c] = NoAnswer]
    /\ view' = [view EXCEPT ![c] = IF answer[c] = Unknown THEN @ ELSE answer[c]]
    /\ UNCHANGED <<stage, sent, wire, server, engine>>

\* What is learnt last counts; an answer that tells nothing changes nothing.
Learn(c) ==
    /\ stage[c] = "open" /\ answer[c] # NoAnswer
    /\ answer' = [answer EXCEPT ![c] = NoAnswer]
    /\ view' = [view EXCEPT ![c] = IF answer[c] = Unknown THEN @ ELSE answer[c]]
    /\ UNCHANGED <<stage, sent, wire, server, engine>>

Over(c) ==
    /\ stage' = [stage EXCEPT ![c] = "closed"]
    /\ answer' = [answer EXCEPT ![c] = NoAnswer]
    /\ view' = [view EXCEPT ![c] = Unknown]

\* The client drops its stream: it is done, or the 2 s read timeout passed.  What
\* it has sent stays readable.
Hangup(c) ==
    /\ stage[c] = "open"
    /\ Over(c)
    /\ UNCHANGED <<sent, wire, server, engine>>

-----------------------------------------------------------------------------
(* The accept loop and handle_client *)

\* Mutant: a task for each client.
AcceptAll(c) ==
    /\ backlog # <<>> /\ Head(backlog) = c
    /\ c \notin Foreign
    /\ backlog' = Tail(backlog)
    /\ phase' = [phase EXCEPT ![c] = "read"]
    /\ UNCHANGED <<client, job, resp, engine>>

\* run: handle_client is awaited before the next accept.
Accept(c) ==
    /\ backlog # <<>> /\ Head(backlog) = c
    /\ \A d \in Conns : phase[d] = "out"
    /\ c \notin Foreign
    /\ backlog' = Tail(backlog)
    /\ phase' = [phase EXCEPT ![c] = "read"]
    /\ UNCHANGED <<client, job, resp, engine>>

\* The peer's uid is not the daemon's: closed before a frame is read.
Refuse(c) ==
    /\ backlog # <<>> /\ Head(backlog) = c
    /\ \A d \in Conns : phase[d] = "out"
    /\ c \in Foreign
    /\ backlog' = Tail(backlog)
    /\ Over(c)
    /\ wire' = [wire EXCEPT ![c] = NoRequest]
    /\ UNCHANGED <<sent, phase, job, resp, engine>>

\* A frame, to the actor or answered on the spot.
ReadFrame(c) ==
    /\ phase[c] = "read"
    /\ wire[c] \in Requests /\ wire[c].op # "garbage"
    /\ wire' = [wire EXCEPT ![c] = NoRequest]
    /\ job' = [job EXCEPT ![c] = wire[c]]
    /\ phase' = [phase EXCEPT ![c] = IF wire[c].op = "ack" THEN "reply" ELSE "actor"]
    /\ resp' = [resp EXCEPT ![c] = Unknown]
    /\ UNCHANGED <<stage, sent, answer, view, backlog, engine>>

\* A FrameError ends the session; no error frame is written.
BadFrame(c) ==
    /\ phase[c] = "read"
    /\ wire[c].op = "garbage"
    /\ wire' = [wire EXCEPT ![c] = NoRequest]
    /\ phase' = [phase EXCEPT ![c] = "out"]
    /\ Over(c)
    /\ UNCHANGED <<sent, backlog, job, resp, engine>>

\* Mutant: a read of zero bytes is taken for "need more bytes".
EofIgnored(c) ==
    /\ phase[c] = "read" /\ stage[c] = "closed" /\ wire[c] = NoRequest
    /\ UNCHANGED vars

Eof(c) ==
    /\ phase[c] = "read" /\ stage[c] = "closed" /\ wire[c] = NoRequest
    /\ phase' = [phase EXCEPT ![c] = "out"]
    /\ UNCHANGED <<client, backlog, job, resp, engine>>

\* The write, or EPIPE, which ends the session.
Reply(c) ==
    /\ phase[c] = "reply"
    /\ \/ /\ stage[c] = "open"
          /\ answer' = [answer EXCEPT ![c] = resp[c]]
          /\ phase' = [phase EXCEPT ![c] = "read"]
       \/ /\ stage[c] = "closed"
          /\ answer' = answer
          /\ phase' = [phase EXCEPT ![c] = "out"]
    /\ job' = [job EXCEPT ![c] = NoRequest]
    /\ resp' = [resp EXCEPT ![c] = Unknown]
    /\ UNCHANGED <<stage, sent, wire, view, backlog, engine>>

-----------------------------------------------------------------------------
(* The actor *)

ActorIdle == \A d \in Conns : phase[d] # "append"

ActorSnapshot(c) ==
    /\ phase[c] = "actor" /\ job[c].op = "snapshot"
    /\ ActorIdle
    /\ resp' = [resp EXCEPT ![c] = fsm]
    /\ phase' = [phase EXCEPT ![c] = "reply"]
    /\ UNCHANGED <<client, backlog, job, engine>>

\* engine.handle.  Accepted is sent whatever came of it; after a disconnect the
\* FSM is Disconnected even if down failed, so that one tells.
ActorHandle(c) ==
    /\ phase[c] = "actor" /\ job[c].op \in Executes
    /\ ActorIdle
    /\ \E o \in Outcomes(job[c]) :
          /\ fsm' = o.fsm
          /\ kernel' = o.kernel
          /\ events' = [on |-> o.on, is |-> o.event]
    /\ resp' = [resp EXCEPT ![c] = IF job[c].op = "disconnect" THEN NoProfile ELSE Unknown]
    /\ phase' = [phase EXCEPT ![c] = "append"]
    /\ UNCHANGED <<client, backlog, job, journal>>

\* journal.append for the events, then the acknowledgement.
ActorAppend(c) ==
    /\ phase[c] = "append"
    /\ journal' = [p \in Profiles |->
                      IF events.on = p /\ events.is # "none" THEN events.is ELSE journal[p]]
    /\ events' = NoEvents
    /\ phase' = [phase EXCEPT ![c] = "reply"]
    /\ UNCHANGED <<client, backlog, job, resp, fsm, kernel>>

\* The environment takes a tunnel down, or a daemon that nobody tracks ends.
\* Nothing tells the FSM.
TunnelDrops(p) ==
    /\ kernel[p] # "off"
    /\ "drop" \in Faults \/ kernel[p] # "up"
    /\ kernel' = [kernel EXCEPT ![p] = "off"]
    /\ UNCHANGED <<client, server, events, fsm, journal>>

-----------------------------------------------------------------------------
Daemon(c) ==
    \/ Accept(c) \/ Refuse(c) \/ ReadFrame(c) \/ BadFrame(c) \/ Eof(c) \/ Reply(c)
    \/ ActorSnapshot(c) \/ ActorHandle(c) \/ ActorAppend(c)

Client(c) ==
    \/ Dial(c) \/ Learn(c) \/ Hangup(c)
    \/ \E r \in Requests : Send(c, r)

Next ==
    \/ \E c \in Conns : Daemon(c) \/ Client(c)
    \/ \E p \in Profiles : TunnelDrops(p)

Spec == Init /\ [][Next]_vars

\* The daemon runs on; a client drops its stream in the end (client.rs: one
\* request, one answer or 2 s).  A drop, a dial and a request need not happen.
FairSpec ==
    /\ Spec
    /\ \A c \in Conns : WF_vars(Daemon(c)) /\ WF_vars(Hangup(c))

-----------------------------------------------------------------------------
(* Properties *)

\* A client inside a session may act on what the daemon last told it: a
\* snapshot, or the Accepted of a disconnect, is the FSM's state for as long as
\* the session lasts and the client sends no further command.  It takes the
\* one-session-at-a-time loop of run, and FSM commands that are over when they
\* are acknowledged.
SnapshotHolds ==
    \A c \in Conns : view[c] # Unknown => view[c] = fsm

\* What the journal says of a tunnel on the machine is what the engine did with
\* it, or the actor is about to append it: one that came up and was not taken
\* down is up, whatever failed down, reconnect or client that gave up came in
\* between, and one that was told to stop and lingers is down.  So the journal
\* calls a tunnel on the machine down, or has never seen it, only when it is an
\* OpenVPN daemon that down signalled or that an up gave up on.
JournalCoversKernel ==
    \A p \in Profiles :
       /\ kernel[p] = "up" => journal[p] = "up" \/ events = [on |-> p, is |-> "up"]
       /\ kernel[p] = "dying" => journal[p] = "down" \/ events = [on |-> p, is |-> "down"]

\* A request on a stream is read, or refused with its stream, however many
\* clients are ahead of it and whether or not its own client still waits.
EveryRequestIsTaken ==
    \A c \in Conns : wire[c] # NoRequest ~> wire[c] = NoRequest

\* The refinement mapping.  A request is asked while it is on the wire or with
\* the actor, its answer is told from the moment the actor has executed it.
Asked == [c \in Conns |-> IF phase[c] = "actor" THEN job[c] ELSE wire[c]]
Told  == [c \in Conns |-> IF phase[c] \in {"append", "reply"} THEN resp[c] ELSE answer[c]]

Service == INSTANCE EngineService
    WITH serving <- {c \in Conns : phase[c] # "out"},
         asked <- Asked, told <- Told, state <- fsm

\* The accept loop, the frames, the actor's mailbox and its late appends keep
\* the promise of EngineService: serial sessions, requests executed at once and
\* at most once, answers that tell the state they were executed in.
ServiceKept == Service!Spec
=============================================================================
