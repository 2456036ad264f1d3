------------------------------ MODULE Journal ------------------------------
(* The event journal of several vortix processes: the retention pass each    *)
(* runs when it starts, its session file, and the writer task that hands     *)
(* every event to the file, to the broadcast channel and to the tail buffer. *)
(*                                                                           *)
(* Events of a session are numbered in the order they are appended, so a     *)
(* file, a buffer and a subscriber are numbers: how far each has come.  A    *)
(* subscriber takes one event at a time and ends when the channel has        *)
(* dropped one it had not taken.                                             *)
EXTENDS Naturals, Sequences, FiniteSets, SequencesExt

CONSTANTS
    Sessions,          \* the processes
    Past,              \* earlier sessions, whose files may be there
    RetentionCount,    \* session files kept
    Writers,           \* the sessions that append more than their first event
    BroadcastCapacity,
    JournalFaults,     \* "open": the session file cannot be opened;
                       \* "write": a record cannot be written;
                       \* "remove": the directory cannot be read, or a stale file
                       \* not removed
    MaxEvents          \* events a busy session appends

ASSUME JournalAssumption ==
    /\ IsFiniteSet(Sessions \cup Past) /\ Sessions \cap Past = {} /\ Writers \subseteq Sessions
    /\ RetentionCount \in Nat
    /\ BroadcastCapacity \in Nat \ {0}
    /\ JournalFaults \subseteq {"open", "write", "remove"}
    /\ MaxEvents \in Nat \ {0}

VARIABLES
    phase,      \* session -> where its start and its writer task are
    recent,     \* the session files on disk, newest modification first
    old,        \* those past retention_days
    doomed,     \* session -> the files its retention pass has to remove
    listed,     \* session -> the files its retention pass found and could remove
    sent,       \* session -> events appended to its channel
    written,    \* session -> events the writer has tried to persist
    cast,       \* session -> events broadcast
    tailed,     \* session -> events pushed to the tail buffer
    watch,      \* session -> its subscriber
    since       \* files the last finished retention pass did not find (they are newer
                \* than its listing, or it had none) or failed to remove

journalVars == <<phase, recent, old, doomed, listed, sent, written, cast, tailed,
                 watch, since>>

\* "opened": the writer task is spawned and has not run; "drain": it could not
\* open the file and throws events away.
Phases   == {"off", "pruning", "opened", "running", "drain", "gone"}
Watching == [at : {"none", "live", "caught up", "ended"}, from : 0..MaxEvents,
             next : 0..MaxEvents + 1, seen : 0..MaxEvents]
NoWatch  == [at |-> "none", from |-> 0, next |-> 0, seen |-> 0]

Files(q) == ToSet(q)

\* The files q without f; no file is listed twice.
Dropping(q, f) ==
    IF f \in Files(q) THEN RemoveAt(q, CHOOSE i \in DOMAIN q : q[i] = f) ELSE q

JournalTypeOK ==
    /\ phase \in [Sessions -> Phases]
    /\ recent \in Seq(Sessions \cup Past) /\ IsInjective(recent)
    /\ old \subseteq Files(recent)
    /\ doomed \in [Sessions -> SUBSET (Sessions \cup Past)]
    /\ listed \in [Sessions -> SUBSET (Sessions \cup Past)]
    /\ \A n \in {sent, written, cast, tailed} : n \in [Sessions -> 0..MaxEvents]
    /\ watch \in [Sessions -> Watching] /\ since \subseteq Sessions \cup Past

JournalInit ==
    /\ phase = [s \in Sessions |-> "off"]
    /\ recent \in {<<>>, SetToSeq(Past)} /\ old = {}
    /\ doomed = [s \in Sessions |-> {}] /\ listed = [s \in Sessions |-> {}]
    /\ sent = [s \in Sessions |-> 0] /\ written = sent /\ cast = sent /\ tailed = sent
    /\ watch = [s \in Sessions |-> NoWatch] /\ since = Files(recent)

Alive(s) == phase[s] \in {"opened", "running", "drain"}

-----------------------------------------------------------------------------
(* Start: the retention pass, then the writer task                           *)

\* Mutant: one file too many is kept.
StaleLater(i) == i > RetentionCount + 1
Stale(i) == i > RetentionCount
Doomed ==
    {recent[i] : i \in {j \in DOMAIN recent : Stale(j)}} \cup old

PruneList(s) ==
    /\ phase[s] = "off"
    /\ phase' = [phase EXCEPT ![s] = "pruning"]
    /\ doomed' = [doomed EXCEPT ![s] = Doomed]
    /\ listed' = [listed EXCEPT ![s] = Files(recent)]
    /\ UNCHANGED <<recent, old, sent, written, cast, tailed, watch, since>>

PruneRemove(s) ==
    /\ phase[s] = "pruning"
    /\ \E f \in doomed[s] :
        /\ recent' = Dropping(recent, f)
        /\ old' = old \ {f}
        /\ doomed' = [doomed EXCEPT ![s] = @ \ {f}]
    /\ UNCHANGED <<phase, listed, sent, written, cast, tailed, watch, since>>

\* No listing, no pass: the session starts all the same.
PruneListFails(s) ==
    /\ "remove" \in JournalFaults
    /\ phase[s] = "off"
    /\ phase' = [phase EXCEPT ![s] = "pruning"]
    /\ doomed' = [doomed EXCEPT ![s] = {}] /\ listed' = [listed EXCEPT ![s] = {}]
    /\ UNCHANGED <<recent, old, sent, written, cast, tailed, watch, since>>

\* A file that cannot be removed is left and the pass goes on to the next.
PruneRemoveFails(s) ==
    /\ "remove" \in JournalFaults
    /\ phase[s] = "pruning"
    /\ \E f \in doomed[s] :
        /\ doomed' = [doomed EXCEPT ![s] = @ \ {f}]
        /\ listed' = [listed EXCEPT ![s] = @ \ {f}]
    /\ UNCHANGED <<phase, recent, old, sent, written, cast, tailed, watch, since>>

\* open ends with the first event of the session, JournalRetentionApplied.
Open(s) ==
    /\ phase[s] = "pruning" /\ doomed[s] = {}
    /\ phase' = [phase EXCEPT ![s] = "opened"]
    /\ sent' = [sent EXCEPT ![s] = 1]
    /\ since' = Files(recent) \ listed[s]
    /\ listed' = [listed EXCEPT ![s] = {}]
    /\ UNCHANGED <<recent, old, doomed, written, cast, tailed, watch>>

CreateFile(s) ==
    /\ phase[s] = "opened"
    /\ phase' = [phase EXCEPT ![s] = "running"]
    /\ recent' = <<s>> \o recent
    /\ since' = since \cup {s}
    /\ UNCHANGED <<old, doomed, listed, sent, written, cast, tailed, watch>>

OpenFails(s) ==
    /\ "open" \in JournalFaults
    /\ phase[s] = "opened"
    /\ phase' = [phase EXCEPT ![s] = "drain"]
    /\ UNCHANGED <<recent, old, doomed, listed, sent, written, cast, tailed, watch,
                   since>>

-----------------------------------------------------------------------------
(* append and the writer task: persist, broadcast, tail                      *)

AppendEvent(s) ==
    /\ Alive(s) /\ s \in Writers /\ sent[s] < MaxEvents
    /\ sent' = [sent EXCEPT ![s] = @ + 1]
    /\ UNCHANGED <<phase, recent, old, doomed, listed, written, cast, tailed, watch,
                   since>>

\* A write renews the file; one whose name was removed goes nowhere.
Persist(s) ==
    /\ phase[s] = "running"
    /\ written[s] = tailed[s] /\ written[s] < sent[s]
    /\ written' = [written EXCEPT ![s] = @ + 1]
    /\ \E ok \in {TRUE} \cup (IF "write" \in JournalFaults THEN {FALSE} ELSE {}) :
        LET kept == ok /\ s \in Files(recent) IN
        /\ recent' = IF kept THEN <<s>> \o Dropping(recent, s) ELSE recent
        /\ old' = IF kept THEN old \ {s} ELSE old
    /\ UNCHANGED <<phase, doomed, listed, sent, cast, tailed, watch, since>>

Broadcast(s) ==
    /\ phase[s] = "running" /\ cast[s] < written[s]
    /\ cast' = [cast EXCEPT ![s] = @ + 1]
    /\ UNCHANGED <<phase, recent, old, doomed, listed, sent, written, tailed, watch,
                   since>>

PushTail(s) ==
    /\ phase[s] = "running" /\ tailed[s] < cast[s]
    /\ tailed' = [tailed EXCEPT ![s] = @ + 1]
    /\ UNCHANGED <<phase, recent, old, doomed, listed, sent, written, cast, watch,
                   since>>

Drain(s) ==
    /\ phase[s] = "drain" /\ written[s] < sent[s]
    /\ written' = [written EXCEPT ![s] = @ + 1]
    /\ cast' = [cast EXCEPT ![s] = @ + 1]      \* counted, handed to nobody
    /\ tailed' = [tailed EXCEPT ![s] = @ + 1]
    /\ UNCHANGED <<phase, recent, old, doomed, listed, sent, watch, since>>

-----------------------------------------------------------------------------
(* A subscriber that catches up with the tail, as the documentation of       *)
(* subscribe has it                                                          *)

Subscribe(s) ==
    /\ phase[s] = "running" /\ s \in Writers /\ watch[s].at = "none"
    /\ watch' = [watch EXCEPT ![s] = [at |-> "live", from |-> cast[s],
                                      next |-> cast[s] + 1, seen |-> 0]]
    /\ UNCHANGED <<phase, recent, old, doomed, listed, sent, written, cast, tailed,
                   since>>

ReadTail(s) ==
    /\ phase[s] = "running" /\ watch[s].at = "live"
    /\ watch' = [watch EXCEPT ![s].at = "caught up", ![s].seen = tailed[s]]
    /\ UNCHANGED <<phase, recent, old, doomed, listed, sent, written, cast, tailed,
                   since>>

Receive(s) ==
    /\ phase[s] = "running" /\ watch[s].at \in {"live", "caught up"}
    /\ watch[s].next <= cast[s]
    /\ watch' = IF watch[s].next + BroadcastCapacity <= cast[s]
                THEN [watch EXCEPT ![s].at = "ended"]
                ELSE [watch EXCEPT ![s].next = @ + 1]
    /\ UNCHANGED <<phase, recent, old, doomed, listed, sent, written, cast, tailed,
                   since>>

\* A process ends; what it has not written is lost with it.
Ends(s) ==
    /\ phase[s] \in {"pruning", "opened", "running", "drain"}
    /\ phase' = [phase EXCEPT ![s] = "gone"]
    /\ doomed' = [doomed EXCEPT ![s] = {}] /\ listed' = [listed EXCEPT ![s] = {}]
    /\ watch' = [watch EXCEPT ![s] = NoWatch]
    /\ UNCHANGED <<recent, old, sent, written, cast, tailed, since>>

Ages ==
    /\ \E f \in Files(recent) \ old : old' = old \cup {f}
    /\ UNCHANGED <<phase, recent, doomed, listed, sent, written, cast, tailed, watch,
                   since>>

-----------------------------------------------------------------------------
JournalNext ==
    \/ \E s \in Sessions :
        \/ PruneList(s) \/ PruneListFails(s) \/ PruneRemove(s) \/ PruneRemoveFails(s)
        \/ Open(s) \/ CreateFile(s) \/ OpenFails(s)
        \/ AppendEvent(s) \/ Persist(s) \/ Broadcast(s) \/ PushTail(s) \/ Drain(s)
        \/ Subscribe(s) \/ ReadTail(s) \/ Receive(s) \/ Ends(s)
    \/ Ages

JournalSpec == JournalInit /\ [][JournalNext]_journalVars

-----------------------------------------------------------------------------
(* Properties                                                                *)

\* The directory never holds more files than the retention count and those the last
\* finished pass did not find or failed to remove, however many processes prune, start
\* and write at the same time (retention.rs, prune before the own file exists).
FilesBounded == Len(recent) <= RetentionCount + Cardinality(since)

\* A subscriber that subscribes and then reads the tail has missed at most one
\* event between the two, the one the writer had broadcast and not yet pushed;
\* what it goes on to receive has no gap unless it is ended by the channel
\* (Journal::subscribe: "combine with tail for a catch-up window").
CatchUpMissesOne ==
    \A s \in Sessions :
        watch[s].at = "caught up" => /\ watch[s].from <= watch[s].seen + 1
                                     /\ watch[s].next > watch[s].from

\* What the journal promises its directory and its readers: a bounded number of
\* files, and no gap but the one event between subscribe and tail.
JournalPromises == FilesBounded /\ CatchUpMissesOne

=============================================================================
