--------------------------- MODULE EngineService ---------------------------
(* What the daemon promises its clients: one session at a time, inside it    *)
(* requests that are executed one by one and at once, and answers that tell  *)
(* the state the engine was in when it executed the request.  A request is   *)
(* executed at most once; it may be dropped with its session, and so may its *)
(* answer.  Nothing but a request of the session being served changes the    *)
(* state.                                                                    *)
CONSTANTS
    Conns, Profiles,
    NoProfile, Unknown, NoAnswer,
    Requests, NoRequest            \* records with an op and the profile it is on

VARIABLES
    serving,   \* the session being served, as a set of at most one
    asked,     \* connection -> its request that has not been executed
    told,      \* connection -> the answer it has not heard
    state      \* the connected profile, or NoProfile

vars == <<serving, asked, told, state>>

Init ==
    /\ serving = {}
    /\ asked = [c \in Conns |-> NoRequest]
    /\ told = [c \in Conns |-> NoAnswer]
    /\ state = NoProfile

\* The states a request may leave: a connect that fails leaves the engine
\* disconnected, and so does a reconnect; a second connect is ignored.
After(r) ==
    IF r.op = "connect" /\ state = NoProfile THEN {r.on, NoProfile}
    ELSE IF r.op = "disconnect" THEN {NoProfile}
    ELSE IF r.op = "reconnect" THEN {state, NoProfile} ELSE {state}

\* What its answer tells, "Accepted" alone telling nothing.
Tells(r) ==
    IF r.op = "snapshot" THEN state
    ELSE IF r.op = "disconnect" THEN NoProfile ELSE Unknown

Ask(c, r) ==
    /\ asked[c] = NoRequest /\ told[c] = NoAnswer
    /\ asked' = [asked EXCEPT ![c] = r]
    /\ UNCHANGED <<serving, told, state>>

Begin(c) ==
    /\ serving = {}
    /\ serving' = {c}
    /\ UNCHANGED <<asked, told, state>>

Execute(c) ==
    /\ c \in serving /\ asked[c] # NoRequest
    /\ state' \in After(asked[c])
    /\ told' = [told EXCEPT ![c] = Tells(asked[c])]
    /\ asked' = [asked EXCEPT ![c] = NoRequest]
    /\ UNCHANGED serving

\* The answer is read, or lost with the stream.
Hear(c) ==
    /\ told' = [told EXCEPT ![c] = NoAnswer]
    /\ UNCHANGED <<serving, asked, state>>

End(c) ==
    /\ c \in serving
    /\ serving' = {}
    /\ asked' = [asked EXCEPT ![c] = NoRequest]
    /\ told' = [told EXCEPT ![c] = NoAnswer]
    /\ UNCHANGED state

\* A peer that is not served at all.
Refuse(c) ==
    /\ c \notin serving
    /\ asked' = [asked EXCEPT ![c] = NoRequest]
    /\ told' = [told EXCEPT ![c] = NoAnswer]
    /\ UNCHANGED <<serving, state>>

Next ==
    \E c \in Conns :
        \/ Begin(c) \/ Execute(c) \/ Hear(c) \/ End(c) \/ Refuse(c)
        \/ \E r \in Requests : Ask(c, r)

Spec == Init /\ [][Next]_vars
=============================================================================
