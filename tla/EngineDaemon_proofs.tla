------------------------ MODULE EngineDaemon_proofs ------------------------
(* What the daemon's one-session loop and its actor give for any number of   *)
(* connections, requests and profiles, under every fault.                    *)
EXTENDS EngineDaemon, TLAPS

-----------------------------------------------------------------------------
(* The FSM's outcomes *)

\* What a request is, field by field.
LEMMA RequestFields ==
  /\ \A r \in Requests : r.op = "connect" => r.on \in Profiles
  /\ NoRequest \notin Requests
  /\ NoRequest.op = "none"
<1>1. ASSUME NEW r \in Requests PROVE r.op # "none" /\ (r.op = "connect" => r.on \in Profiles)
  <2>1. CASE \E p \in Profiles : r = [op |-> "connect", on |-> p]
    BY <2>1
  <2>2. CASE \E o \in Ops \ {"connect", "none"} : r = [op |-> o, on |-> NoProfile]
    BY <2>2
  <2> QED
    BY <2>1, <2>2 DEF Requests
<1>2. NoRequest.op = "none"
  BY DEF NoRequest
<1> QED
  BY <1>1, <1>2

\* A map of tunnels, and one with the tunnel of p changed.
LEMMA TunnelMaps ==
  ASSUME NEW k \in [Profiles -> Tunnels], NEW p \in Profiles, NEW t \in Tunnels
  PROVE  /\ [k EXCEPT ![p] = t] \in [Profiles -> Tunnels]
         /\ [k EXCEPT ![p] = t][p] = t
         /\ \A q \in Profiles \ {p} : [k EXCEPT ![p] = t][q] = k[q]
  OBVIOUS

\* Only OpenVPN leaves daemons behind.
Plausible(k) ==
  /\ k \in [Profiles -> Tunnels]
  /\ \A q \in Profiles \ Ovpn : k[q] \in {"off", "up"}

\* Up touches no tunnel but p's, brings it up exactly when it reports the event,
\* and leaves at most an OpenVPN daemon it gave up on otherwise.
LEMMA UpOutcome ==
  ASSUME NEW p \in Profiles, NEW k, Plausible(k), NEW o \in Up(p, k)
  PROVE  \E j :
           /\ Plausible(j)
           /\ \A q \in Profiles \ {p} : j[q] = k[q]
           /\ \/ o = Outcome(p, j, p, "up") /\ j[p] = "up"
              \/ o = Outcome(NoProfile, j, p, "none") /\ j = k
              \/ o = Outcome(NoProfile, j, p, "none") /\ j[p] = "orphan"
<1>1. CASE o = Outcome(p, [k EXCEPT ![p] = "up"], p, "up")
  <2> DEFINE j == [k EXCEPT ![p] = "up"]
  <2>1. /\ Plausible(j) /\ j[p] = "up"
        /\ \A q \in Profiles \ {p} : j[q] = k[q]
    BY TunnelMaps DEF Plausible, Tunnels
  <2> QED
    BY <1>1, <2>1
<1>2. CASE o = Outcome(NoProfile, k, p, "none")
  BY <1>2
<1>3. CASE o = Outcome(NoProfile, [k EXCEPT ![p] = "orphan"], p, "none") /\ p \in Ovpn
  <2> DEFINE j == [k EXCEPT ![p] = "orphan"]
  <2>1. /\ Plausible(j) /\ j[p] = "orphan"
        /\ \A q \in Profiles \ {p} : j[q] = k[q]
    BY <1>3, TunnelMaps DEF Plausible, Tunnels
  <2> QED
    BY <1>3, <2>1
<1> QED
  BY <1>1, <1>2, <1>3 DEF Up

\* Down touches no tunnel but p's.  It reports it down when it is gone or, if it
\* is OpenVPN's, was told to go; when it reports nothing it has done nothing worse
\* than take the tunnel down.
LEMMA DownOutcome ==
  ASSUME NEW p \in Profiles, Plausible(kernel), NEW o \in Down(p)
  PROVE  \E j :
           /\ Plausible(j)
           /\ \A q \in Profiles \ {p} : j[q] = kernel[q]
           /\ \/ o = Outcome(NoProfile, j, p, "down") /\ j[p] \in {"off", "dying"}
              \/ o = Outcome(NoProfile, j, p, "none") /\ j = kernel
              \/ o = Outcome(NoProfile, j, p, "none") /\ j[p] = "off"
<1> DEFINE gone  == [kernel EXCEPT ![p] = "off"]
           dying == [kernel EXCEPT ![p] = IF @ = "off" THEN "off" ELSE "dying"]
<1>1. /\ Plausible(gone) /\ gone[p] = "off"
      /\ \A q \in Profiles \ {p} : gone[q] = kernel[q]
  BY TunnelMaps DEF Plausible, Tunnels
<1>2. CASE p \in Ovpn
  <2>1. /\ Plausible(dying) /\ dying[p] \in {"off", "dying"}
        /\ \A q \in Profiles \ {p} : dying[q] = kernel[q]
    BY <1>2 DEF Plausible, Tunnels
  <2>2. o = Outcome(NoProfile, gone, p, "down") \/ o = Outcome(NoProfile, dying, p, "down")
    BY <1>2 DEF Down
  <2> QED
    BY <1>1, <2>1, <2>2
<1>3. CASE p \notin Ovpn
  <2>1. \/ o = Outcome(NoProfile, gone, p, "down")
        \/ o = Outcome(NoProfile, gone, p, "none")
        \/ o = Outcome(NoProfile, kernel, p, "none")
    BY <1>3 DEF Down
  <2> QED
    BY <1>1, <2>1
<1> QED
  BY <1>2, <1>3

\* The contract of handle_user_command: a tunnel it starts is reported, one it tells
\* to stop is reported down, and one it reports down is not left up.
Honest(o) ==
  /\ o.fsm \in States
  /\ Plausible(o.kernel)
  /\ o.on \in States
  /\ o.event \in Events
  /\ \A q \in Profiles :
        /\ o.kernel[q] = "up" =>
             \/ o.on = q /\ o.event = "up"
             \/ kernel[q] = "up" /\ ~(o.on = q /\ o.event = "down")
        /\ o.kernel[q] = "dying" =>
             \/ o.on = q /\ o.event = "down"
             \/ kernel[q] = "dying" /\ ~(o.on = q /\ o.event = "up")

LEMMA IgnoredHonest ==
  ASSUME TypeOK, NEW o \in Ignored
  PROVE  Honest(o) /\ o.fsm = fsm
  BY DEF TypeOK, Ignored, Outcome, Honest, Plausible, States, Events

LEMMA ConnectHonest ==
  ASSUME TypeOK, NEW p \in Profiles, NEW o \in TryConnect(p)
  PROVE  Honest(o)
<1>1. CASE o \in Ignored
  BY <1>1, IgnoredHonest
<1>2. CASE o \in Up(p, kernel)
  <2>1. Plausible(kernel)
    BY DEF TypeOK, Plausible
  <2> QED
    BY <1>2, <2>1, UpOutcome DEF Outcome, Honest, States, Events
<1> QED
  BY <1>1, <1>2 DEF TryConnect

LEMMA DisconnectHonest ==
  ASSUME TypeOK, NEW o \in TryDisconnect
  PROVE  Honest(o) /\ o.fsm = NoProfile
<1>1. CASE fsm = NoProfile
  BY <1>1, IgnoredHonest DEF TryDisconnect
<1>2. CASE fsm # NoProfile
  <2>1. fsm \in Profiles /\ o \in Down(fsm) /\ Plausible(kernel)
    BY <1>2 DEF TypeOK, States, TryDisconnect, Plausible
  <2> QED
    BY <1>2, <2>1, DownOutcome DEF Outcome, Honest, States, Events
<1> QED
  BY <1>1, <1>2

LEMMA ReconnectHonest ==
  ASSUME TypeOK, NEW o \in TryReconnect
  PROVE  Honest(o)
<1>1. CASE fsm = NoProfile
  BY <1>1, IgnoredHonest DEF TryReconnect
<1>2. CASE fsm # NoProfile
  <2>1. fsm \in Profiles /\ Plausible(kernel)
    BY <1>2 DEF TypeOK, States, Plausible
  <2>2. PICK d \in Down(fsm) : \E u \in Up(fsm, d.kernel) :
           o = IF u.event = "up" THEN u ELSE Outcome(u.fsm, u.kernel, fsm, d.event)
    BY <1>2 DEF TryReconnect
  <2>3. PICK u \in Up(fsm, d.kernel) :
           o = IF u.event = "up" THEN u ELSE Outcome(u.fsm, u.kernel, fsm, d.event)
    BY <2>2
  <2>4. /\ Plausible(d.kernel)
        /\ \A q \in Profiles \ {fsm} : d.kernel[q] = kernel[q]
        /\ \/ d.event = "down" /\ d.kernel[fsm] \in {"off", "dying"}
           \/ d.event = "none" /\ d.kernel[fsm] \in {"off", kernel[fsm]}
    BY <2>1, DownOutcome DEF Outcome
  <2>5. /\ Plausible(u.kernel)
        /\ \A q \in Profiles \ {fsm} : u.kernel[q] = d.kernel[q]
        /\ \/ u = Outcome(fsm, u.kernel, fsm, "up") /\ u.kernel[fsm] = "up"
           \/ /\ u = Outcome(NoProfile, u.kernel, fsm, "none")
              /\ u.kernel[fsm] \in {d.kernel[fsm], "orphan"}
    BY <2>1, <2>4, UpOutcome DEF Outcome
  <2>6. CASE u = Outcome(fsm, u.kernel, fsm, "up")
    <3>1. o = u /\ o.fsm = fsm /\ o.on = fsm /\ o.event = "up" /\ o.kernel[fsm] = "up"
      BY <2>3, <2>5, <2>6 DEF Outcome
    <3> QED
      BY <2>1, <2>4, <2>5, <3>1 DEF Honest, States, Events
  <2>7. CASE u = Outcome(NoProfile, u.kernel, fsm, "none") /\ u.kernel[fsm] \in {d.kernel[fsm], "orphan"}
    <3>1. o = Outcome(NoProfile, u.kernel, fsm, d.event)
      BY <2>3, <2>7 DEF Outcome
    <3> QED
      BY <2>1, <2>4, <2>5, <2>7, <3>1 DEF Outcome, Honest, States, Events
  <2> QED
    BY <2>5, <2>6, <2>7
<1> QED
  BY <1>1, <1>2

LEMMA OutcomesHonest ==
  ASSUME TypeOK, NEW r \in Requests, r.op \in Executes, NEW o \in Outcomes(r)
  PROVE  Honest(o) /\ (r.op = "disconnect" => o.fsm = NoProfile)
<1>1. CASE r.op = "connect"
  BY <1>1, RequestFields, ConnectHonest DEF Outcomes
<1>2. CASE r.op = "disconnect"
  BY <1>2, DisconnectHonest DEF Outcomes
<1>3. CASE r.op = "reconnect"
  BY <1>3, ReconnectHonest DEF Outcomes
<1>4. CASE r.op = "userAnswered"
  BY <1>4, IgnoredHonest DEF Outcomes
<1> QED
  BY <1>1, <1>2, <1>3, <1>4 DEF Executes

-----------------------------------------------------------------------------
(* Type correctness *)

\* An event record the actor hands over is well formed, the empty one too.
LEMMA EventRecord ==
  /\ NoEvents \in EventRecords
  /\ \A p \in States, e \in Events : [on |-> p, is |-> e] \in EventRecords
  /\ \A r \in EventRecords : r.on \in States /\ r.is \in Events
  BY DEF NoEvents, EventRecords, States, Events

\* Every step of clients, daemon, actor and environment keeps the types.
THEOREM TypeCorrect == Spec => []TypeOK
<1>1. Init => TypeOK
  BY EventRecord DEF Init, TypeOK, Stages, Phases, Events, States, Views, Answers, Tunnels
<1>2. TypeOK /\ [Next]_vars => TypeOK'
  <2> SUFFICES ASSUME TypeOK, [Next]_vars PROVE TypeOK'
    OBVIOUS
  <2> USE DEF TypeOK, client, server, engine
  <2>1. ASSUME NEW c \in Conns, Accept(c) PROVE TypeOK'
    BY <2>1 DEF Accept, Phases
  <2>2. ASSUME NEW c \in Conns, Refuse(c) PROVE TypeOK'
    BY <2>2 DEF Refuse, Over, Stages, Answers, Views
  <2>3. ASSUME NEW c \in Conns, ReadFrame(c) PROVE TypeOK'
    BY <2>3 DEF ReadFrame, Phases, Views
  <2>4. ASSUME NEW c \in Conns, BadFrame(c) PROVE TypeOK'
    BY <2>4 DEF BadFrame, Over, Stages, Phases, Answers, Views
  <2>5. ASSUME NEW c \in Conns, Eof(c) PROVE TypeOK'
    BY <2>5 DEF Eof, Phases
  <2>6. ASSUME NEW c \in Conns, Reply(c) PROVE TypeOK'
    BY <2>6 DEF Reply, Phases, Answers, Views
  <2>7. ASSUME NEW c \in Conns, ActorSnapshot(c) PROVE TypeOK'
    BY <2>7 DEF ActorSnapshot, Phases, Views
  <2>8. ASSUME NEW c \in Conns, ActorHandle(c) PROVE TypeOK'
    <3>1. PICK o \in Outcomes(job[c]) :
            fsm' = o.fsm /\ kernel' = o.kernel /\ events' = [on |-> o.on, is |-> o.event]
      BY <2>8 DEF ActorHandle
    <3>2. job[c] \in Requests /\ job[c].op \in Executes
      BY <2>8, RequestFields DEF ActorHandle, Executes
    <3>3. Honest(o)
      BY <3>1, <3>2, OutcomesHonest
    <3>4. fsm' \in States /\ Plausible(kernel') /\ events' \in EventRecords
      BY <3>1, <3>3, EventRecord DEF Honest
    <3>5. phase' \in [Conns -> Phases] /\ resp' \in [Conns -> Views]
      BY <2>8 DEF ActorHandle, Phases, Views, States
    <3> QED
      BY <2>8, <3>4, <3>5 DEF ActorHandle, Plausible
  <2>9. ASSUME NEW c \in Conns, ActorAppend(c) PROVE TypeOK'
    <3>1. journal' \in [Profiles -> Events]
      BY <2>9, EventRecord DEF ActorAppend
    <3>2. phase' \in [Conns -> Phases]
      BY <2>9 DEF ActorAppend, Phases
    <3> QED
      BY <2>9, <3>1, <3>2, EventRecord DEF ActorAppend
  <2>10. ASSUME NEW c \in Conns, Dial(c) PROVE TypeOK'
    BY <2>10 DEF Dial, Stages
  <2>11. ASSUME NEW c \in Conns, Learn(c) PROVE TypeOK'
    BY <2>11 DEF Learn, Answers
  <2>12. ASSUME NEW c \in Conns, Hangup(c) PROVE TypeOK'
    BY <2>12 DEF Hangup, Over, Stages, Answers, Views
  <2>13. ASSUME NEW c \in Conns, NEW r \in Requests, Send(c, r) PROVE TypeOK'
    BY <2>13 DEF Send, Views
  <2>14. ASSUME NEW p \in Profiles, TunnelDrops(p) PROVE TypeOK'
    <3>1. Plausible(kernel')
      BY <2>14, TunnelMaps DEF TunnelDrops, Plausible, Tunnels
    <3> QED
      BY <2>14, <3>1 DEF TunnelDrops, Plausible
  <2>15. CASE UNCHANGED vars
    BY <2>15 DEF vars
  <2> QED
    BY <2>1, <2>2, <2>3, <2>4, <2>5, <2>6, <2>7, <2>8, <2>9, <2>10, <2>11, <2>12,
       <2>13, <2>14, <2>15 DEF Next, Daemon, Client
<1> QED
  BY <1>1, <1>2, PTL DEF Spec

-----------------------------------------------------------------------------
(* The session *)

\* At most one connection is inside handle_client.
OneSession == \A c, d \in Conns : phase[c] # "out" /\ phase[d] # "out" => c = d

THEOREM OneSessionHolds == Spec => []OneSession
<1>1. Init => OneSession
  BY DEF Init, OneSession
<1>2. TypeOK /\ OneSession /\ [Next]_vars => OneSession'
  <2> SUFFICES ASSUME TypeOK, OneSession, [Next]_vars PROVE OneSession'
    OBVIOUS
  <2> USE DEF OneSession, client, server, engine
  <2>a. phase \in [Conns -> Phases]
    BY DEF TypeOK
  <2>1. ASSUME NEW c \in Conns, Accept(c) PROVE OneSession'
    BY <2>1, <2>a DEF Accept
  <2>2. ASSUME NEW c \in Conns, NEW x \in Phases, phase[c] # "out",
               phase' = [phase EXCEPT ![c] = x]
        PROVE  OneSession'
    BY <2>2, <2>a
  <2>3. ASSUME NEW c \in Conns, Daemon(c) PROVE OneSession'
    <3>1. CASE ReadFrame(c)
      BY <3>1, <2>2 DEF ReadFrame, Phases
    <3>2. CASE BadFrame(c) \/ Eof(c)
      BY <3>2, <2>2 DEF BadFrame, Eof, Phases
    <3>3. CASE Reply(c)
      BY <3>3, <2>2 DEF Reply, Phases
    <3>4. CASE ActorSnapshot(c) \/ ActorHandle(c) \/ ActorAppend(c)
      BY <3>4, <2>2 DEF ActorSnapshot, ActorHandle, ActorAppend, Phases
    <3>5. CASE Refuse(c)
      BY <3>5 DEF Refuse
    <3> QED
      BY <2>3, <2>1, <3>1, <3>2, <3>3, <3>4, <3>5 DEF Daemon
  <2>4. ASSUME NEW c \in Conns, Client(c) PROVE OneSession'
    BY <2>4 DEF Client, Dial, Learn, Hangup, Send
  <2>5. ASSUME NEW p \in Profiles, TunnelDrops(p) PROVE OneSession'
    BY <2>5 DEF TunnelDrops
  <2>6. CASE UNCHANGED vars
    BY <2>6 DEF vars
  <2> QED
    BY <2>3, <2>4, <2>5, <2>6 DEF Next
<1> QED
  BY <1>1, <1>2, TypeCorrect, PTL DEF Spec

\* Who knows what: a view belongs to an open session, an answer or a response that
\* tells something tells the state of the FSM, and a session whose command is on
\* its way knows nothing.
Informed(c) ==
  /\ view[c] # Unknown => view[c] = fsm /\ phase[c] # "out" /\ stage[c] = "open"
  /\ answer[c] # NoAnswer =>
       /\ answer[c] \in {Unknown, fsm}
       /\ phase[c] = "read" /\ stage[c] = "open" /\ wire[c] = NoRequest
  /\ phase[c] \in {"append", "reply"} => resp[c] \in {Unknown, fsm}
  /\ phase[c] \in {"actor", "append", "reply"} => wire[c] = NoRequest
  /\ wire[c].op \in Executes => view[c] = Unknown
  /\ phase[c] = "actor" /\ job[c].op \in Executes => view[c] = Unknown

SessionInv == \A c \in Conns : Informed(c)

\* A step that leaves the FSM and c's own records alone leaves c informed.
LEMMA InformedElsewhere ==
  ASSUME NEW c, Informed(c), UNCHANGED fsm,
         view'[c] = view[c], stage'[c] = stage[c], answer'[c] = answer[c],
         wire'[c] = wire[c], phase'[c] = phase[c], resp'[c] = resp[c], job'[c] = job[c]
  PROVE  Informed(c)'
  BY DEF Informed

\* Every step of handle_client, the actor and the clients keeps it.
THEOREM SessionInvHolds == Spec => []SessionInv
<1>1. Init => SessionInv
  <2> SUFFICES ASSUME Init, NEW c \in Conns PROVE Informed(c)
    BY DEF SessionInv
  <2>1. view[c] = Unknown /\ answer[c] = NoAnswer /\ phase[c] = "out"
    BY DEF Init
  <2>2. wire[c] = NoRequest /\ NoRequest.op = "none"
    BY RequestFields DEF Init
  <2> QED
    BY <2>1, <2>2 DEF Informed, Executes
<1>2. TypeOK /\ OneSession /\ SessionInv /\ [Next]_vars => SessionInv'
  <2> SUFFICES ASSUME TypeOK, OneSession, SessionInv, [Next]_vars PROVE SessionInv'
    OBVIOUS
  <2>t. /\ stage \in [Conns -> Stages] /\ wire \in [Conns -> Requests \cup {NoRequest}]
        /\ answer \in [Conns -> Answers] /\ view \in [Conns -> Views]
        /\ phase \in [Conns -> Phases] /\ job \in [Conns -> Requests \cup {NoRequest}]
        /\ resp \in [Conns -> Views] /\ fsm \in States
    BY DEF TypeOK
  <2>i. \A c \in Conns : Informed(c)
    BY DEF SessionInv
  <2>n. NoRequest.op \notin Executes
    BY RequestFields DEF Executes
  \* It is enough to look at the connection that acts.
  <2>f. ASSUME NEW c \in Conns, UNCHANGED fsm, Informed(c)',
               \A d \in Conns \ {c} :
                  /\ view'[d] = view[d] /\ stage'[d] = stage[d] /\ answer'[d] = answer[d]
                  /\ wire'[d] = wire[d] /\ phase'[d] = phase[d] /\ resp'[d] = resp[d]
                  /\ job'[d] = job[d]
        PROVE  SessionInv'
    <3>1. ASSUME NEW d \in Conns \ {c} PROVE Informed(d)'
      BY <2>f, <3>1, <2>i, InformedElsewhere
    <3> QED
      BY <2>f, <3>1 DEF SessionInv
  <2> USE <2>t DEF client, server, engine
  <2>1. ASSUME NEW c \in Conns, Accept(c) PROVE SessionInv'
    <3>1. Informed(c)'
      BY <2>1, <2>i DEF Accept, Informed
    <3> QED
      BY <2>1, <2>f, <3>1 DEF Accept
  <2>2. ASSUME NEW c \in Conns, Refuse(c) PROVE SessionInv'
    <3>1. Informed(c)'
      BY <2>2, <2>i, <2>n DEF Refuse, Over, Informed
    <3> QED
      BY <2>2, <2>f, <3>1 DEF Refuse, Over
  <2>3. ASSUME NEW c \in Conns, ReadFrame(c) PROVE SessionInv'
    <3>1. Informed(c)'
      BY <2>3, <2>i, <2>n, RequestFields DEF ReadFrame, Informed
    <3> QED
      BY <2>3, <2>f, <3>1 DEF ReadFrame
  <2>4. ASSUME NEW c \in Conns, BadFrame(c) PROVE SessionInv'
    <3>1. Informed(c)'
      BY <2>4, <2>i, <2>n DEF BadFrame, Over, Informed
    <3> QED
      BY <2>4, <2>f, <3>1 DEF BadFrame, Over
  <2>5. ASSUME NEW c \in Conns, Eof(c) PROVE SessionInv'
    <3>1. Informed(c)'
      BY <2>5, <2>i DEF Eof, Informed
    <3> QED
      BY <2>5, <2>f, <3>1 DEF Eof
  <2>6. ASSUME NEW c \in Conns, Reply(c) PROVE SessionInv'
    <3>1. Informed(c)'
      BY <2>6, <2>i, <2>n DEF Reply, Informed
    <3> QED
      BY <2>6, <2>f, <3>1 DEF Reply
  <2>7. ASSUME NEW c \in Conns, ActorSnapshot(c) PROVE SessionInv'
    <3>1. Informed(c)'
      BY <2>7, <2>i DEF ActorSnapshot, Informed
    <3> QED
      BY <2>7, <2>f, <3>1 DEF ActorSnapshot
  <2>8. ASSUME NEW c \in Conns, ActorHandle(c) PROVE SessionInv'
    \* Everybody else is outside, and knows nothing.
    <3>1. \A d \in Conns \ {c} : phase[d] = "out" /\ view[d] = Unknown /\ answer[d] = NoAnswer
      BY <2>8, <2>i DEF ActorHandle, OneSession, Informed
    <3>2. \A d \in Conns \ {c} : Informed(d)'
      BY <2>8, <2>i, <3>1 DEF ActorHandle, Informed
    <3>3. PICK o \in Outcomes(job[c]) : fsm' = o.fsm
      BY <2>8 DEF ActorHandle
    <3>4. job[c] \in Requests /\ job[c].op \in Executes
      BY <2>8, <2>n DEF ActorHandle
    <3>5. job[c].op = "disconnect" => fsm' = NoProfile
      BY <3>3, <3>4, OutcomesHonest
    <3>6. Informed(c)'
      BY <2>8, <2>i, <3>4, <3>5 DEF ActorHandle, Informed
    <3> QED
      BY <3>2, <3>6 DEF SessionInv
  <2>9. ASSUME NEW c \in Conns, ActorAppend(c) PROVE SessionInv'
    <3>1. Informed(c)'
      BY <2>9, <2>i DEF ActorAppend, Informed
    <3> QED
      BY <2>9, <2>f, <3>1 DEF ActorAppend
  <2>10. ASSUME NEW c \in Conns, Dial(c) PROVE SessionInv'
    <3>1. Informed(c)'
      BY <2>10, <2>i DEF Dial, Informed
    <3> QED
      BY <2>10, <2>f, <3>1 DEF Dial
  <2>11. ASSUME NEW c \in Conns, Learn(c) PROVE SessionInv'
    <3>1. Informed(c)'
      BY <2>11, <2>i, <2>n DEF Learn, Informed
    <3> QED
      BY <2>11, <2>f, <3>1 DEF Learn
  <2>12. ASSUME NEW c \in Conns, Hangup(c) PROVE SessionInv'
    <3>1. Informed(c)'
      BY <2>12, <2>i DEF Hangup, Over, Informed
    <3> QED
      BY <2>12, <2>f, <3>1 DEF Hangup, Over
  <2>13. ASSUME NEW c \in Conns, NEW r \in Requests, Send(c, r) PROVE SessionInv'
    <3>1. Informed(c)'
      BY <2>13, <2>i DEF Send, Waiting, Informed
    <3> QED
      BY <2>13, <2>f, <3>1 DEF Send
  <2>14. ASSUME NEW p \in Profiles, TunnelDrops(p) PROVE SessionInv'
    BY <2>14, <2>i, InformedElsewhere DEF TunnelDrops, SessionInv
  <2>15. CASE UNCHANGED vars
    BY <2>15, <2>i, InformedElsewhere DEF vars, SessionInv
  <2> QED
    BY <2>1, <2>2, <2>3, <2>4, <2>5, <2>6, <2>7, <2>8, <2>9, <2>10, <2>11, <2>12,
       <2>13, <2>14, <2>15 DEF Next, Daemon, Client
<1> QED
  BY <1>1, <1>2, TypeCorrect, OneSessionHolds, PTL DEF Spec

\* A client inside a session may rely on the last snapshot or acknowledged
\* disconnect until it sends a command itself (server.rs run, one at a time).
THEOREM SnapshotHoldsAlways == Spec => []SnapshotHolds
<1>1. SessionInv => SnapshotHolds
  BY DEF SessionInv, Informed, SnapshotHolds
<1> QED
  BY <1>1, SessionInvHolds, PTL

-----------------------------------------------------------------------------
(* The journal *)

\* What the actor is about to append agrees with the machine, and nothing waits to
\* be appended while the actor takes the next command.
JournalInv ==
  /\ JournalCoversKernel
  /\ \A p \in Profiles :
        /\ events = [on |-> p, is |-> "down"] => kernel[p] # "up"
        /\ events = [on |-> p, is |-> "up"] => kernel[p] # "dying"
  /\ events # NoEvents => \E c \in Conns : phase[c] = "append"

\* An event record is its two fields.
LEMMA EventFields ==
  ASSUME NEW r \in EventRecords, NEW p, NEW e
  PROVE  r = [on |-> p, is |-> e] <=> r.on = p /\ r.is = e
  BY DEF EventRecords

\* The journal knows every tunnel that came up and was not taken down, and calls
\* every daemon it lingers behind down, or is about to (fsm.rs try_connect,
\* try_disconnect and try_reconnect under actor_loop; OvpnTunnel::down, which
\* does not wait).
THEOREM JournalCoversKernelHolds == Spec => []JournalCoversKernel
<1>1. Init => JournalInv
  BY DEF Init, JournalInv, JournalCoversKernel, NoEvents
<1>2. TypeOK /\ JournalInv /\ [Next]_vars => JournalInv'
  <2> SUFFICES ASSUME TypeOK, JournalInv, [Next]_vars PROVE JournalInv'
    OBVIOUS
  <2>t. /\ phase \in [Conns -> Phases] /\ kernel \in [Profiles -> Tunnels]
        /\ journal \in [Profiles -> Events] /\ events \in EventRecords
    BY DEF TypeOK
  \* The steps that are not the actor's.
  <2>q. ASSUME UNCHANGED <<events, journal>>,
               \A p \in Profiles : kernel'[p] \in {kernel[p], "off"},
               \A c \in Conns : phase[c] = "append" => phase'[c] = "append"
        PROVE  JournalInv'
    BY <2>q DEF JournalInv, JournalCoversKernel, NoEvents
  <2> USE <2>t DEF client, server, engine
  <2>1. ASSUME NEW c \in Conns, ActorHandle(c) PROVE JournalInv'
    <3>1. PICK o \in Outcomes(job[c]) :
            kernel' = o.kernel /\ events' = [on |-> o.on, is |-> o.event]
      BY <2>1 DEF ActorHandle
    <3>2. job[c] \in Requests /\ job[c].op \in Executes
      BY <2>1, RequestFields DEF TypeOK, ActorHandle, Executes
    <3>3. Honest(o)
      BY <3>1, <3>2, OutcomesHonest
    <3>4. events = NoEvents
      BY <2>1 DEF ActorHandle, ActorIdle, JournalInv
    <3>5. \A p \in Profiles : /\ kernel[p] = "up" => journal[p] = "up"
                              /\ kernel[p] = "dying" => journal[p] = "down"
      BY <3>4 DEF JournalInv, JournalCoversKernel, NoEvents
    <3>6. \A p \in Profiles, e \in Events :
             events' = [on |-> p, is |-> e] <=> o.on = p /\ o.event = e
      BY <3>1
    <3>7. journal' = journal
      BY <2>1 DEF ActorHandle
    <3>8. JournalCoversKernel'
      BY <3>1, <3>3, <3>5, <3>6, <3>7 DEF Honest, JournalCoversKernel, Events
    <3>9. \A p \in Profiles :
             /\ events' = [on |-> p, is |-> "down"] => kernel'[p] # "up"
             /\ events' = [on |-> p, is |-> "up"] => kernel'[p] # "dying"
      BY <3>1, <3>3, <3>6 DEF Honest, Events
    <3>10. phase'[c] = "append"
      BY <2>1 DEF ActorHandle
    <3> QED
      BY <3>8, <3>9, <3>10 DEF JournalInv
  <2>2. ASSUME NEW c \in Conns, ActorAppend(c) PROVE JournalInv'
    <3>1. /\ journal' = [p \in Profiles |->
                           IF events.on = p /\ events.is # "none" THEN events.is ELSE journal[p]]
          /\ events' = NoEvents
          /\ kernel' = kernel
      BY <2>2 DEF ActorAppend
    <3>2. events.is \in Events
      BY EventRecord
    <3>3. ASSUME NEW p \in Profiles
          PROVE  /\ kernel[p] = "up" => journal'[p] = "up"
                 /\ kernel[p] = "dying" => journal'[p] = "down"
      <4>1. journal'[p] = IF events.on = p /\ events.is # "none" THEN events.is ELSE journal[p]
        BY <3>1
      <4>2. /\ kernel[p] = "up" => journal[p] = "up" \/ events = [on |-> p, is |-> "up"]
            /\ kernel[p] = "dying" => journal[p] = "down" \/ events = [on |-> p, is |-> "down"]
            /\ events = [on |-> p, is |-> "down"] => kernel[p] # "up"
            /\ events = [on |-> p, is |-> "up"] => kernel[p] # "dying"
        BY DEF JournalInv, JournalCoversKernel
      <4> QED
        BY <3>2, <4>1, <4>2, EventFields DEF Events
    <3>4. \A p \in Profiles, e \in {"up", "down"} : events' # [on |-> p, is |-> e]
      BY <3>1 DEF NoEvents
    <3> QED
      BY <3>1, <3>3, <3>4 DEF JournalInv, JournalCoversKernel
  <2>3. ASSUME NEW c \in Conns, ReadFrame(c) PROVE JournalInv'
    BY <2>3, <2>q DEF ReadFrame
  <2>4. ASSUME NEW c \in Conns,
               Accept(c) \/ Refuse(c) \/ BadFrame(c) \/ Eof(c) \/ Reply(c) \/ ActorSnapshot(c)
        PROVE  JournalInv'
    BY <2>4, <2>q DEF Accept, Refuse, BadFrame, Eof, Reply, ActorSnapshot
  <2>5. ASSUME NEW c \in Conns, Client(c) PROVE JournalInv'
    BY <2>5, <2>q DEF Client, Dial, Learn, Hangup, Send
  <2>6. ASSUME NEW p \in Profiles, TunnelDrops(p) PROVE JournalInv'
    BY <2>6, <2>q, TunnelMaps DEF TunnelDrops, Tunnels
  <2>7. CASE UNCHANGED vars
    BY <2>7, <2>q DEF vars
  <2> QED
    BY <2>1, <2>2, <2>3, <2>4, <2>5, <2>6, <2>7 DEF Next, Daemon
<1>3. JournalInv => JournalCoversKernel
  BY DEF JournalInv
<1> QED
  BY <1>1, <1>2, <1>3, TypeCorrect, PTL DEF Spec

-----------------------------------------------------------------------------
(* The refinement of EngineService *)

\* A command of the FSM leaves a state the abstract request may leave.
LEMMA OutcomesAllowed ==
  ASSUME TypeOK, NEW r \in Requests, r.op \in Executes, NEW o \in Outcomes(r)
  PROVE  o.fsm \in Service!After(r)
<1>1. CASE r.op = "connect"
  <2>1. r.on \in Profiles
    BY <1>1, RequestFields
  <2>2. CASE fsm = NoProfile
    <3>1. o \in Up(r.on, kernel) /\ Plausible(kernel)
      BY <1>1, <2>2 DEF TypeOK, Plausible, Outcomes, TryConnect
    <3>2. o.fsm \in {r.on, NoProfile}
      BY <2>1, <3>1, UpOutcome DEF Outcome
    <3> QED
      BY <1>1, <2>2, <3>2 DEF Service!After
  <2>3. CASE fsm # NoProfile
    BY <1>1, <2>3, IgnoredHonest DEF Outcomes, TryConnect, Service!After
  <2> QED
    BY <2>2, <2>3
<1>2. CASE r.op = "disconnect"
  BY <1>2, DisconnectHonest DEF Outcomes, Service!After
<1>3. CASE r.op = "reconnect"
  <2>1. CASE fsm = NoProfile
    BY <1>3, <2>1, IgnoredHonest DEF Outcomes, TryReconnect, Service!After
  <2>2. CASE fsm # NoProfile
    <3>1. fsm \in Profiles /\ Plausible(kernel)
      BY <2>2 DEF TypeOK, States, Plausible
    <3>d. PICK d \in Down(fsm) : \E u \in Up(fsm, d.kernel) :
             o = IF u.event = "up" THEN u ELSE Outcome(u.fsm, u.kernel, fsm, d.event)
      BY <1>3, <2>2 DEF Outcomes, TryReconnect
    <3>e. Plausible(d.kernel)
      BY <3>1, DownOutcome DEF Outcome
    <3>2. PICK u \in Up(fsm, d.kernel) :
             o = IF u.event = "up" THEN u ELSE Outcome(u.fsm, u.kernel, fsm, d.event)
      BY <3>d
    <3>4. u.fsm \in {fsm, NoProfile}
      BY <3>1, <3>e, UpOutcome DEF Outcome
    <3>5. o.fsm = u.fsm
      BY <3>2 DEF Outcome
    <3> QED
      BY <1>3, <3>4, <3>5 DEF Service!After
  <2> QED
    BY <2>1, <2>2
<1>4. CASE r.op = "userAnswered"
  BY <1>4, IgnoredHonest DEF Outcomes, Service!After
<1> QED
  BY <1>1, <1>2, <1>3, <1>4 DEF Executes

\* The daemon implements EngineService: its initial state maps to the initial one
\* and every step to a step or a stutter (server.rs run and handle_client,
\* handle.rs actor_loop, client.rs).
THEOREM DaemonServes == Spec => ServiceKept
<1>1. Init => Service!Init
  BY DEF Init, Service!Init, Asked, Told
<1>2. TypeOK /\ OneSession /\ SessionInv /\ [Next]_vars => [Service!Next]_(Service!vars)
  <2> SUFFICES ASSUME TypeOK, OneSession, SessionInv, [Next]_vars
               PROVE  Service!Next \/ UNCHANGED Service!vars
    OBVIOUS
  <2>t. /\ stage \in [Conns -> Stages] /\ wire \in [Conns -> Requests \cup {NoRequest}]
        /\ answer \in [Conns -> Answers] /\ view \in [Conns -> Views]
        /\ phase \in [Conns -> Phases] /\ job \in [Conns -> Requests \cup {NoRequest}]
        /\ resp \in [Conns -> Views] /\ fsm \in States
    BY DEF TypeOK
  <2>i. \A c \in Conns : Informed(c)
    BY DEF SessionInv
  <2>n. NoRequest.op = "none" /\ NoRequest \notin Requests
    BY RequestFields
  <2> DEFINE serving == {c \in Conns : phase[c] # "out"}
  \* A step of one connection changes the mapping at that connection alone.
  <2>f. ASSUME NEW c \in Conns, NEW r, NEW x,
               \A d \in Conns \ {c} : /\ answer'[d] = answer[d] /\ wire'[d] = wire[d]
                                      /\ phase'[d] = phase[d] /\ resp'[d] = resp[d]
                                      /\ job'[d] = job[d],
               r = IF phase'[c] = "actor" THEN job'[c] ELSE wire'[c],
               x = IF phase'[c] \in {"append", "reply"} THEN resp'[c] ELSE answer'[c]
        PROVE  /\ Asked' = [Asked EXCEPT ![c] = r]
               /\ Told' = [Told EXCEPT ![c] = x]
    BY <2>f DEF Asked, Told
  <2>s. ASSUME NEW c \in Conns,
               \A d \in Conns \ {c} : phase'[d] = phase[d]
        PROVE  /\ phase'[c] = "out" /\ phase[c] # "out" => serving = {c} /\ serving' = {}
               /\ phase'[c] # "out" /\ phase[c] # "out" => serving' = serving
               /\ phase'[c] = phase[c] => serving' = serving
    BY <2>s DEF OneSession
  <2>a. \A c \in Conns : /\ Asked[c] = IF phase[c] = "actor" THEN job[c] ELSE wire[c]
                         /\ Told[c] = IF phase[c] \in {"append", "reply"} THEN resp[c] ELSE answer[c]
    BY DEF Asked, Told
  <2>u. ASSUME NEW c \in Conns,
               \A d \in Conns \ {c} : /\ answer'[d] = answer[d] /\ wire'[d] = wire[d]
                                      /\ phase'[d] = phase[d] /\ resp'[d] = resp[d]
                                      /\ job'[d] = job[d],
               Asked[c] = IF phase'[c] = "actor" THEN job'[c] ELSE wire'[c],
               Told[c] = IF phase'[c] \in {"append", "reply"} THEN resp'[c] ELSE answer'[c]
        PROVE  Asked' = Asked /\ Told' = Told
    BY <2>u DEF Asked, Told
  <2> USE <2>t DEF client, server, engine
  <2>1. ASSUME NEW c \in Conns, Accept(c) PROVE Service!Begin(c)
    <3>1. Asked' = Asked /\ Told' = Told
      BY <2>1, <2>u, <2>a DEF Accept
    <3>2. serving = {} /\ serving' = {c}
      BY <2>1 DEF Accept
    <3> QED
      BY <2>1, <3>1, <3>2 DEF Accept, Service!Begin
  <2>2. ASSUME NEW c \in Conns, Refuse(c) PROVE Service!Refuse(c)
    <3>1. /\ Asked' = [Asked EXCEPT ![c] = NoRequest]
          /\ Told' = [Told EXCEPT ![c] = NoAnswer]
      BY <2>2, <2>f DEF Refuse, Over
    <3>2. serving' = serving /\ c \notin serving
      BY <2>2 DEF Refuse
    <3> QED
      BY <2>2, <3>1, <3>2 DEF Refuse, Service!Refuse
  <2>3. ASSUME NEW c \in Conns, ReadFrame(c)
        PROVE  Service!Execute(c) \/ UNCHANGED Service!vars
    <3>s. serving' = serving /\ c \in serving
      BY <2>3, <2>s DEF ReadFrame
    <3>1. CASE wire[c].op = "ack"
      <4>1. /\ Asked' = [Asked EXCEPT ![c] = NoRequest]
            /\ Told' = [Told EXCEPT ![c] = Unknown]
        BY <2>3, <3>1, <2>f DEF ReadFrame
      <4>2. Asked[c] = wire[c] /\ Asked[c] # NoRequest
        BY <2>3, <2>a, <2>n DEF ReadFrame
      <4>3. fsm' \in Service!After(Asked[c]) /\ Service!Tells(Asked[c]) = Unknown
        BY <2>3, <3>1, <4>2 DEF ReadFrame, Service!After, Service!Tells
      <4> QED
        BY <3>s, <4>1, <4>2, <4>3 DEF Service!Execute
    <3>2. CASE wire[c].op # "ack"
      <4>1. answer[c] = NoAnswer
        BY <2>3, <2>i, <2>n DEF ReadFrame, Informed
      <4>2. Asked' = Asked /\ Told' = Told
        BY <2>3, <3>2, <2>u, <2>a DEF ReadFrame
      <4> QED
        BY <2>3, <3>s, <4>2 DEF ReadFrame, Service!vars
    <3> QED
      BY <3>1, <3>2
  <2>4. ASSUME NEW c \in Conns, BadFrame(c) PROVE Service!End(c)
    <3>1. /\ Asked' = [Asked EXCEPT ![c] = NoRequest]
          /\ Told' = [Told EXCEPT ![c] = NoAnswer]
      BY <2>4, <2>f DEF BadFrame, Over
    <3>2. serving' = {} /\ c \in serving
      BY <2>4, <2>s DEF BadFrame
    <3> QED
      BY <2>4, <3>1, <3>2 DEF BadFrame, Service!End
  <2>5. ASSUME NEW c \in Conns, Eof(c) PROVE Service!End(c)
    <3>0. answer[c] = NoAnswer
      BY <2>5, <2>i DEF Eof, Informed
    <3>1. /\ Asked' = [Asked EXCEPT ![c] = NoRequest]
          /\ Told' = [Told EXCEPT ![c] = NoAnswer]
      BY <2>5, <2>f, <3>0 DEF Eof
    <3>2. serving' = {} /\ c \in serving
      BY <2>5, <2>s DEF Eof
    <3> QED
      BY <2>5, <3>1, <3>2 DEF Eof, Service!End
  <2>6. ASSUME NEW c \in Conns, Reply(c)
        PROVE  Service!End(c) \/ UNCHANGED Service!vars
    <3>0. wire[c] = NoRequest /\ answer[c] = NoAnswer
      BY <2>6, <2>i DEF Reply, Informed
    <3>1. CASE stage[c] = "open"
      <4>1. Asked' = Asked /\ Told' = Told
        BY <2>6, <3>1, <2>u, <2>a DEF Reply
      <4>2. serving' = serving
        BY <2>6, <3>1, <2>s DEF Reply
      <4> QED
        BY <2>6, <4>1, <4>2 DEF Reply, Service!vars
    <3>2. CASE stage[c] # "open"
      <4>1. /\ Asked' = [Asked EXCEPT ![c] = NoRequest]
            /\ Told' = [Told EXCEPT ![c] = NoAnswer]
        BY <2>6, <3>0, <3>2, <2>f DEF Reply
      <4>2. serving' = {} /\ c \in serving
        BY <2>6, <3>2, <2>s DEF Reply
      <4> QED
        BY <2>6, <4>1, <4>2 DEF Reply, Service!End
    <3> QED
      BY <3>1, <3>2
  <2>7. ASSUME NEW c \in Conns, ActorSnapshot(c) PROVE Service!Execute(c)
    <3>0. wire[c] = NoRequest
      BY <2>7, <2>i DEF ActorSnapshot, Informed
    <3>1. /\ Asked' = [Asked EXCEPT ![c] = NoRequest]
          /\ Told' = [Told EXCEPT ![c] = fsm]
      BY <2>7, <3>0, <2>f DEF ActorSnapshot
    <3>2. serving' = serving /\ c \in serving
      BY <2>7, <2>s DEF ActorSnapshot
    <3>3. Asked[c] = job[c] /\ Asked[c] # NoRequest
      BY <2>7, <2>a, <2>n DEF ActorSnapshot
    <3>4. fsm' \in Service!After(Asked[c]) /\ Service!Tells(Asked[c]) = fsm
      BY <2>7, <3>3 DEF ActorSnapshot, Service!After, Service!Tells
    <3> QED
      BY <3>1, <3>2, <3>3, <3>4 DEF Service!Execute
  <2>8. ASSUME NEW c \in Conns, ActorHandle(c) PROVE Service!Execute(c)
    <3>0. wire[c] = NoRequest
      BY <2>8, <2>i DEF ActorHandle, Informed
    <3>1. PICK o \in Outcomes(job[c]) : fsm' = o.fsm
      BY <2>8 DEF ActorHandle
    <3>2. job[c] \in Requests /\ job[c].op \in Executes
      BY <2>8, <2>n DEF ActorHandle, Executes
    <3>3. Asked[c] = job[c] /\ Asked[c] # NoRequest
      BY <2>8, <2>a, <3>2, <2>n DEF ActorHandle
    <3>4. fsm' \in Service!After(Asked[c])
      BY <3>1, <3>2, <3>3, OutcomesAllowed
    <3>5. resp'[c] = Service!Tells(job[c])
      BY <2>8, <3>2 DEF ActorHandle, Executes, Service!Tells
    <3>6. /\ Asked' = [Asked EXCEPT ![c] = NoRequest]
          /\ Told' = [Told EXCEPT ![c] = Service!Tells(Asked[c])]
      BY <2>8, <3>0, <3>3, <3>5, <2>f DEF ActorHandle
    <3>7. serving' = serving /\ c \in serving
      BY <2>8, <2>s DEF ActorHandle
    <3> QED
      BY <3>3, <3>4, <3>6, <3>7 DEF Service!Execute
  <2>9. ASSUME NEW c \in Conns, ActorAppend(c) PROVE UNCHANGED Service!vars
    <3>1. Asked' = Asked /\ Told' = Told
      BY <2>9, <2>u, <2>a DEF ActorAppend
    <3>2. serving' = serving
      BY <2>9, <2>s DEF ActorAppend
    <3> QED
      BY <2>9, <3>1, <3>2 DEF ActorAppend, Service!vars
  <2>10. ASSUME NEW c \in Conns, Dial(c) PROVE UNCHANGED Service!vars
    BY <2>10 DEF Dial, Service!vars, Asked, Told
  <2>11. ASSUME NEW c \in Conns, Learn(c) PROVE Service!Hear(c)
    <3>0. phase[c] = "read"
      BY <2>11, <2>i DEF Learn, Informed
    <3>1. /\ Asked' = [Asked EXCEPT ![c] = Asked[c]]
          /\ Told' = [Told EXCEPT ![c] = NoAnswer]
      BY <2>11, <3>0, <2>f, <2>a DEF Learn
    <3>2. Asked' = Asked
      BY <3>1 DEF Asked
    <3> QED
      BY <2>11, <3>1, <3>2 DEF Learn, Service!Hear
  <2>12. ASSUME NEW c \in Conns, Hangup(c)
         PROVE  Service!Hear(c) \/ UNCHANGED Service!vars
    <3>0. Asked' = Asked
      BY <2>12 DEF Hangup, Over, Asked
    <3>1. CASE phase[c] \in {"append", "reply"}
      <4>1. Told' = Told
        BY <2>12, <3>1 DEF Hangup, Over, Told
      <4> QED
        BY <2>12, <3>0, <4>1 DEF Hangup, Service!vars
    <3>2. CASE phase[c] \notin {"append", "reply"}
      <4>1. Told' = [Told EXCEPT ![c] = NoAnswer]
        BY <2>12, <3>2, <2>f DEF Hangup, Over
      <4> QED
        BY <2>12, <3>0, <4>1 DEF Hangup, Service!Hear
    <3> QED
      BY <3>1, <3>2
  <2>13. ASSUME NEW c \in Conns, NEW r \in Requests, Send(c, r) PROVE Service!Ask(c, r)
    <3>0. /\ phase[c] \in {"out", "read"}
          /\ wire[c] = NoRequest /\ answer[c] = NoAnswer
      BY <2>13 DEF Send, Waiting, Phases
    <3>1. /\ Asked' = [Asked EXCEPT ![c] = r]
          /\ Told' = [Told EXCEPT ![c] = Told[c]]
      BY <2>13, <3>0, <2>f, <2>a DEF Send
    <3>2. Told' = Told
      BY <3>1 DEF Told
    <3>3. Asked[c] = NoRequest /\ Told[c] = NoAnswer
      BY <3>0, <2>a
    <3> QED
      BY <2>13, <3>1, <3>2, <3>3 DEF Send, Service!Ask
  <2>14. ASSUME NEW p \in Profiles, TunnelDrops(p) PROVE UNCHANGED Service!vars
    BY <2>14 DEF TunnelDrops, Service!vars, Asked, Told
  <2>15. CASE UNCHANGED vars
    BY <2>15 DEF vars, Service!vars, Asked, Told
  <2> QED
    BY <2>1, <2>2, <2>3, <2>4, <2>5, <2>6, <2>7, <2>8, <2>9, <2>10, <2>11, <2>12,
       <2>13, <2>14, <2>15 DEF Next, Daemon, Client, Service!Next
<1> QED
  BY <1>1, <1>2, TypeCorrect, OneSessionHolds, SessionInvHolds, PTL
     DEF Spec, ServiceKept, Service!Spec
=============================================================================
