-------------------------- MODULE Subprocess_proofs --------------------------
(* What a call of the runner and its two stateful users promise, for any     *)
(* number of threads and processes and any height of the backoff ladder; and *)
(* what the protocol drivers leave behind, for any number of runners,        *)
(* profiles and daemons.                                                     *)
EXTENDS CommandRunner, ProtocolDrivers, FiniteSetTheorems, TLAPS

-----------------------------------------------------------------------------
(* CommandRunner: definitions                                                *)

Stages == {"idle", "cleared", "writing", "waiting"}
Nexts  == {<<>>, <<"domain">>}
CallRecords == [site : Sites \cup {"none"}, stage : Stages, child : SUBSET Processes, next : Nexts]
ProcRecords == [site : Sites \cup {"none"}, life : {"unused", "running", "exited"}, ok : BOOLEAN,
                fed : BOOLEAN, unread : 0..1, forked : BOOLEAN, holds : BOOLEAN]

\* The types, but for what the counters and the answers are.
ShapeInv ==
    /\ pending \in [Threads -> CallRecords]
    /\ proc \in [Processes -> ProcRecords]

Fresh(site) == [NoProc EXCEPT !.site = site, !.life = "running"]
Started(p, site, next) ==
    [site |-> site, child |-> {p}, next |-> next,
     stage |-> IF CommandSpec[site].stdin THEN "writing" ELSE "waiting"]
Cleared == [NoCall EXCEPT !.site = "route", !.stage = "cleared"]
GoesOn(r) == [r EXCEPT !.site = Head(r.next), !.next = Tail(r.next)]

\* What a step does to the calls and the programs.
GivesUp(t)    == pending' = [pending EXCEPT ![t] = NoCall] /\ proc' = proc
SetsOff(t, p, site, next) ==
    /\ proc[p] = NoProc
    /\ proc' = [proc EXCEPT ![p] = Fresh(site)]
    /\ pending' = [pending EXCEPT ![t] = Started(p, site, next)]
Turns(p, r) == pending' = pending /\ proc' = [proc EXCEPT ![p] = r]

-----------------------------------------------------------------------------
(* Records *)

LEMMA Sitings ==
  \A site \in Sites :
    /\ CommandSpec[site].daemonizes <=> site = "openvpn"
    /\ CommandSpec[site].stdin \in BOOLEAN
    /\ site # "none"
<1>1. DOMAIN CommandSpec = {"route", "dns", "domain", "rules", "openvpn", "clipboard"}
  BY DEF CommandSpec
<1>2. /\ CommandSpec["route"].daemonizes = FALSE /\ CommandSpec["dns"].daemonizes = FALSE
      /\ CommandSpec["domain"].daemonizes = FALSE /\ CommandSpec["rules"].daemonizes = FALSE
      /\ CommandSpec["openvpn"].daemonizes = TRUE /\ CommandSpec["clipboard"].daemonizes = FALSE
  BY DEF CommandSpec
<1>3. /\ CommandSpec["route"].stdin = FALSE /\ CommandSpec["dns"].stdin = FALSE
      /\ CommandSpec["domain"].stdin = FALSE /\ CommandSpec["rules"].stdin = TRUE
      /\ CommandSpec["openvpn"].stdin = FALSE /\ CommandSpec["clipboard"].stdin = TRUE
  BY DEF CommandSpec
<1> QED
  BY <1>1, <1>2, <1>3, RunnerAssumption DEF RunnerAssumption

LEMMA NoRecords == NoCall \in CallRecords /\ NoProc \in ProcRecords
  BY DEF NoCall, NoProc, CallRecords, ProcRecords, Stages, Nexts

LEMMA NoFields ==
  /\ NoCall.site = "none" /\ NoCall.stage = "idle" /\ NoCall.child = {} /\ NoCall.next = <<>>
  /\ NoProc.site = "none" /\ NoProc.life = "unused" /\ NoProc.unread = 0
  /\ NoProc.holds = FALSE
  BY DEF NoCall, NoProc

LEMMA FreshFields ==
  ASSUME NEW site \in Sites
  PROVE  /\ Fresh(site) \in ProcRecords
         /\ Fresh(site).site = site /\ Fresh(site).life = "running"
         /\ Fresh(site).unread = 0 /\ Fresh(site).holds = FALSE
<1>1. ASSUME NEW r \in ProcRecords
      PROVE  LET q == [r EXCEPT !.site = site, !.life = "running"]
             IN  /\ q \in ProcRecords /\ q.site = site /\ q.life = "running"
                 /\ q.unread = r.unread /\ q.holds = r.holds
  BY DEF ProcRecords
<1> QED
  BY <1>1, NoRecords, NoFields DEF Fresh

LEMMA StartedFields ==
  ASSUME NEW p \in Processes, NEW site \in Sites, NEW next \in Nexts
  PROVE  /\ Started(p, site, next) \in CallRecords
         /\ Started(p, site, next).site = site /\ Started(p, site, next).child = {p}
         /\ Started(p, site, next).next = next
         /\ Started(p, site, next).stage \in {"writing", "waiting"}
<1>1. CommandSpec[site].stdin \in BOOLEAN
  BY Sitings
<1>2. (IF CommandSpec[site].stdin THEN "writing" ELSE "waiting") \in {"writing", "waiting"}
  BY <1>1
<1> HIDE DEF CommandSpec
<1> QED
  BY <1>2 DEF Started, CallRecords, Stages

LEMMA ClearedFields ==
  /\ "route" \in Sites => Cleared \in CallRecords
  /\ Cleared.site = "route" /\ Cleared.stage = "cleared" /\ Cleared.child = {}
  /\ Cleared.next = <<>>
  BY DEF Cleared, NoCall, CallRecords, Stages, Nexts

LEMMA WaitingFields ==
  ASSUME NEW r \in CallRecords
  PROVE  LET q == [r EXCEPT !.stage = "waiting"]
         IN  /\ q \in CallRecords /\ q.stage = "waiting"
             /\ q.site = r.site /\ q.child = r.child /\ q.next = r.next
  BY DEF CallRecords, Stages

LEMMA GoesOnFields ==
  ASSUME NEW r \in CallRecords, r.next # <<>>, "domain" \in Sites
  PROVE  /\ GoesOn(r) \in CallRecords /\ GoesOn(r).site = "domain" /\ GoesOn(r).next = <<>>
         /\ GoesOn(r).stage = r.stage /\ GoesOn(r).child = r.child
         /\ Head(r.next) = "domain"
<1>1. r.next = <<"domain">>
  BY DEF CallRecords, Nexts
<1>2. Head(r.next) = "domain" /\ Tail(r.next) = <<>>
  BY <1>1
<1> QED
  BY <1>2 DEF GoesOn, CallRecords, Nexts
-----------------------------------------------------------------------------
(* The kinds of steps *)

LEMMA SpawnFacts ==
  ASSUME NEW t \in Threads, NEW site \in Sites, NEW next \in Nexts, Spawn(t, site, next)
  PROVE  \/ GivesUp(t) /\ answer' = "whole"
         \/ \E p \in Processes : SetsOff(t, p, site, next) /\ answer' = answer
  BY DEF Spawn, Returns, GivesUp, SetsOff, Fresh, Started

-----------------------------------------------------------------------------
(* Whose programs they are *)

\* The child of a call is the program it asked for, and nobody else's child.
OwnInv ==
    \A t \in Threads :
        /\ pending[t].stage \in {"idle", "cleared"} => pending[t].child = {}
        /\ pending[t].stage = "cleared" => pending[t].site = "route"
        /\ pending[t].site = "route" => t \in RouteThreads
        /\ pending[t].next # <<>> => pending[t].site = "dns" /\ "domain" \in Sites
        /\ \A p \in pending[t].child :
              /\ proc[p].life # "unused" /\ proc[p].site = pending[t].site
              /\ \A u \in Threads \ {t} : p \notin pending[u].child
              /\ pending[t].child = {p}

Shape == ShapeInv /\ OwnInv

LEMMA EndsKeeps ==
  ASSUME Shape, NEW t \in Threads, GivesUp(t)
  PROVE  Shape'
  BY NoRecords, NoFields DEF Shape, ShapeInv, OwnInv, GivesUp

LEMMA BeginsKeeps ==
  ASSUME Shape, NEW t \in Threads, NEW p \in Processes, NEW site \in Sites, NEW next \in Nexts,
         site = "route" => t \in RouteThreads,
         next # <<>> => site = "dns" /\ "domain" \in Sites,
         SetsOff(t, p, site, next)
  PROVE  Shape'
<1>1. ShapeInv'
  BY StartedFields, FreshFields DEF Shape, ShapeInv, SetsOff
<1>2. /\ pending'[t] = Started(p, site, next) /\ proc'[p] = Fresh(site) /\ proc[p] = NoProc
      /\ \A u \in Threads \ {t} : pending'[u] = pending[u]
      /\ \A q \in Processes \ {p} : proc'[q] = proc[q]
  BY DEF Shape, ShapeInv, SetsOff
<1>3. \A u \in Threads : p \notin pending[u].child
  BY <1>2, NoFields DEF Shape, OwnInv
<1>4. \A u \in Threads : pending[u].child \subseteq Processes
  BY DEF Shape, ShapeInv, CallRecords
<1> DEFINE r == Started(p, site, next)
<1>5. r.site = site /\ r.child = {p} /\ r.next = next /\ r.stage \in {"writing", "waiting"}
  BY StartedFields
<1>6. proc'[p].site = site /\ proc'[p].life # "unused"
  BY <1>2, FreshFields
<1> HIDE DEF r
<1>7. pending'[t] = r
  BY <1>2 DEF r
<1> QED
  BY <1>1, <1>2, <1>3, <1>4, <1>5, <1>6, <1>7 DEF Shape, OwnInv

LEMMA ClearsKeeps ==
  ASSUME Shape, NEW t \in RouteThreads, "route" \in Sites,
         pending' = [pending EXCEPT ![t] = Cleared], proc' = proc
  PROVE  Shape'
<1>1. t \in Threads
  BY DEF RouteThreads
<1> QED
  BY <1>1, ClearedFields DEF Shape, ShapeInv, OwnInv

LEMMA WaitsKeeps ==
  ASSUME Shape, NEW t \in Threads, pending[t].stage = "writing",
         pending' = [pending EXCEPT ![t].stage = "waiting"], proc' = proc
  PROVE  Shape'
<1>1. pending[t] \in CallRecords
  BY DEF Shape, ShapeInv
<1>2. pending'[t] = [pending[t] EXCEPT !.stage = "waiting"]
  BY DEF Shape, ShapeInv
<1>3. /\ pending' \in [Threads -> CallRecords]
      /\ \A u \in Threads \ {t} : pending'[u] = pending[u]
  BY <1>1, WaitingFields DEF Shape, ShapeInv
<1>4. /\ pending'[t].stage = "waiting" /\ pending'[t].site = pending[t].site
      /\ pending'[t].child = pending[t].child /\ pending'[t].next = pending[t].next
  BY <1>1, <1>2, WaitingFields
<1> QED
  BY <1>3, <1>4 DEF Shape, ShapeInv, OwnInv

\* A program moves on: it stays the program it was.
LEMMA TurnsKeeps ==
  ASSUME Shape, NEW p \in Processes, NEW r \in ProcRecords, Turns(p, r),
         r.site = proc[p].site, r.life # "unused"
  PROVE  Shape'
<1>1. ShapeInv'
  BY DEF Shape, ShapeInv, Turns
<1>2. \A q \in Processes :
        proc'[q].site = proc[q].site /\ (proc[q].life # "unused" => proc'[q].life # "unused")
  BY DEF Shape, ShapeInv, Turns
<1>3. \A u \in Threads : pending[u].child \subseteq Processes
  BY DEF Shape, ShapeInv, CallRecords
<1> QED
  BY <1>1, <1>2, <1>3 DEF Shape, OwnInv, Turns

\* A program of nobody, or of a call that ends, makes room.
LEMMA RoomKeeps ==
  ASSUME Shape, NEW p \in Processes, proc' = [proc EXCEPT ![p] = NoProc],
         pending' \in [Threads -> CallRecords],
         \A u \in Threads : pending'[u] = NoCall
                             \/ (pending'[u] = pending[u] /\ p \notin pending[u].child)
  PROVE  Shape'
<1>1. ShapeInv'
  BY NoRecords DEF Shape, ShapeInv
<1>2. \A q \in Processes \ {p} : proc'[q] = proc[q]
  BY DEF Shape, ShapeInv
<1>3. \A u \in Threads : pending[u].child \subseteq Processes
  BY DEF Shape, ShapeInv, CallRecords
<1> QED
  BY <1>1, <1>2, <1>3, NoFields DEF Shape, OwnInv

LEMMA GoesOnKeeps ==
  ASSUME Shape, NEW t \in Threads, NEW p \in pending[t].child, pending[t].next # <<>>,
         pending' = [pending EXCEPT ![t] = GoesOn(pending[t])],
         proc' = [proc EXCEPT ![p] = Fresh("domain")]
  PROVE  Shape'
<1>1. pending[t] \in CallRecords /\ "domain" \in Sites /\ p \in Processes
  BY DEF Shape, ShapeInv, OwnInv, CallRecords
<1>2. ShapeInv'
  BY <1>1, GoesOnFields, FreshFields DEF Shape, ShapeInv
<1>3. /\ pending'[t] = GoesOn(pending[t]) /\ proc'[p] = Fresh("domain")
      /\ \A u \in Threads \ {t} : pending'[u] = pending[u]
      /\ \A q \in Processes \ {p} : proc'[q] = proc[q]
  BY <1>1 DEF Shape, ShapeInv
<1>4. /\ \A u \in Threads : pending[u].child \subseteq Processes
      /\ \A u \in Threads \ {t} : p \notin pending[u].child
  BY DEF Shape, ShapeInv, OwnInv, CallRecords
<1>5. pending[t].child = {p}
  BY DEF Shape, OwnInv
<1> DEFINE r == GoesOn(pending[t])
<1>6. r.site = "domain" /\ r.next = <<>> /\ r.stage = pending[t].stage /\ r.child = {p}
  BY <1>1, <1>5, GoesOnFields
<1>7. proc'[p].site = "domain" /\ proc'[p].life # "unused"
  BY <1>1, <1>3, FreshFields
<1> HIDE DEF r
<1>8. pending'[t] = r
  BY <1>3 DEF r
<1>9. r.stage \notin {"idle", "cleared"}
  BY <1>5, <1>6 DEF Shape, OwnInv
<1> QED
  BY <1>2, <1>3, <1>4, <1>6, <1>7, <1>8, <1>9 DEF Shape, OwnInv
-----------------------------------------------------------------------------
(* What a program can do *)

\* It stays the program it is; it hands its pipes on, or writes into them, only
\* if it has some.
ProcMoves(p, r) ==
    /\ r \in ProcRecords /\ Turns(p, r)
    /\ r.site = proc[p].site /\ r.life # "unused"
    /\ r.holds => proc[p].holds \/ (proc[p].site \in Forking /\ Piped(proc[p].site))
    /\ r.unread > 0 => proc[p].unread > 0 \/ Piped(proc[p].site)

\* It has not ended well just now.
LifeKept(r, q) == r.life = "exited" /\ r.ok => q.life = "exited" /\ q.ok

LEMMA ReadFields ==
  ASSUME NEW r \in ProcRecords
  PROVE  LET q == [r EXCEPT !.unread = 0]
         IN  /\ q \in ProcRecords /\ q.unread = 0
             /\ q.site = r.site /\ q.life = r.life /\ q.holds = r.holds /\ q.ok = r.ok
  BY DEF ProcRecords

LEMMA WriteFields ==
  ASSUME NEW r \in ProcRecords
  PROVE  LET q == [r EXCEPT !.unread = 1]
         IN  /\ q \in ProcRecords /\ q.unread = 1
             /\ q.site = r.site /\ q.life = r.life /\ q.holds = r.holds /\ q.ok = r.ok
  BY DEF ProcRecords

LEMMA FeedFields ==
  ASSUME NEW r \in ProcRecords
  PROVE  LET q == [r EXCEPT !.fed = TRUE]
         IN  /\ q \in ProcRecords /\ q.fed = TRUE
             /\ q.site = r.site /\ q.life = r.life /\ q.unread = r.unread /\ q.holds = r.holds /\ q.ok = r.ok
  BY DEF ProcRecords

LEMMA ReleaseFields ==
  ASSUME NEW r \in ProcRecords
  PROVE  LET q == [r EXCEPT !.holds = FALSE]
         IN  /\ q \in ProcRecords /\ q.holds = FALSE
             /\ q.site = r.site /\ q.life = r.life /\ q.unread = r.unread /\ q.ok = r.ok
  BY DEF ProcRecords

LEMMA EndFields ==
  ASSUME NEW r \in ProcRecords, NEW ok \in BOOLEAN
  PROVE  LET q == [r EXCEPT !.life = "exited", !.ok = ok]
         IN  /\ q \in ProcRecords /\ q.unread = r.unread /\ q.site = r.site /\ q.life = "exited"
             /\ q.holds = r.holds /\ q.ok = ok
  BY DEF ProcRecords

LEMMA ForkFields ==
  ASSUME NEW r \in ProcRecords, NEW h \in BOOLEAN
  PROVE  LET q == [r EXCEPT !.forked = TRUE, !.holds = h]
         IN  /\ q \in ProcRecords /\ q.unread = r.unread /\ q.site = r.site /\ q.life = r.life
             /\ q.holds = h /\ q.ok = r.ok
  BY DEF ProcRecords

LEMMA TwoFields ==
  ASSUME NEW p \in Processes, proc \in [Processes -> ProcRecords], NEW ok, NEW h
  PROVE  /\ [proc EXCEPT ![p].life = "exited", ![p].ok = ok]
            = [proc EXCEPT ![p] = [proc[p] EXCEPT !.life = "exited", !.ok = ok]]
         /\ [proc EXCEPT ![p].forked = TRUE, ![p].holds = h]
            = [proc EXCEPT ![p] = [proc[p] EXCEPT !.forked = TRUE, !.holds = h]]
  BY DEF ProcRecords

LEMMA ReadMoves ==
  ASSUME Shape, NEW t \in Threads, ReadOutput(t)
  PROVE  \E p \in Processes, r \in ProcRecords : ProcMoves(p, r) /\ LifeKept(r, proc[p])
<1>1. PICK p \in pending[t].child :
        proc[p].unread = 1 /\ proc' = [proc EXCEPT ![p].unread = 0] /\ pending' = pending
  BY DEF ReadOutput
<1>2. p \in Processes /\ proc[p] \in ProcRecords /\ proc[p].life # "unused"
  BY DEF Shape, ShapeInv, OwnInv, CallRecords
<1> DEFINE r == [proc[p] EXCEPT !.unread = 0]
<1>3. proc' = [proc EXCEPT ![p] = r]
  BY <1>1
<1>4. /\ r \in ProcRecords /\ r.unread = 0 /\ r.site = proc[p].site /\ r.life = proc[p].life
      /\ r.holds = proc[p].holds /\ r.ok = proc[p].ok
  BY <1>2, ReadFields
<1> HIDE DEF r
<1>5. ~(r.unread > 0)
  BY <1>4
<1>6. ProcMoves(p, r)
  BY <1>1, <1>2, <1>3, <1>4, <1>5 DEF ProcMoves, Turns
<1>7. LifeKept(r, proc[p])
  BY <1>4 DEF LifeKept
<1> QED
  BY <1>2, <1>4, <1>6, <1>7

LEMMA ProgramMoves ==
  ASSUME Shape, NEW p \in Processes,
         ProgramReads(p) \/ ProgramWrites(p) \/ ProgramForks(p) \/ GrandchildEnds(p)
  PROVE  \E r \in ProcRecords : ProcMoves(p, r) /\ LifeKept(r, proc[p])
<1>0. proc[p] \in ProcRecords /\ proc \in [Processes -> ProcRecords]
  BY DEF Shape, ShapeInv
<1>1. CASE ProgramReads(p)
  <2> DEFINE r == [proc[p] EXCEPT !.fed = TRUE]
  <2>1. proc[p].life = "running" /\ Turns(p, r)
    BY <1>1 DEF ProgramReads, Turns
  <2>2. /\ r \in ProcRecords /\ r.unread = proc[p].unread /\ r.site = proc[p].site
        /\ r.life = proc[p].life /\ r.holds = proc[p].holds /\ r.ok = proc[p].ok
    BY <1>0, FeedFields
  <2> HIDE DEF r
  <2> QED
    BY <2>1, <2>2 DEF ProcMoves, LifeKept
<1>2. CASE ProgramWrites(p) /\ Owned(p)
  <2> DEFINE r == [proc[p] EXCEPT !.unread = 1]
  <2>1. proc[p].life = "running" /\ Turns(p, r) /\ Piped(proc[p].site)
    BY <1>2 DEF ProgramWrites, Turns
  <2>2. /\ r \in ProcRecords /\ r.site = proc[p].site
        /\ r.life = proc[p].life /\ r.holds = proc[p].holds /\ r.ok = proc[p].ok
    BY <1>0, WriteFields
  <2> HIDE DEF r
  <2> QED
    BY <2>1, <2>2 DEF ProcMoves, LifeKept
<1>3. CASE ProgramWrites(p) /\ ~Owned(p)
  <2> DEFINE r == [proc[p] EXCEPT !.life = "exited", !.ok = FALSE]
  <2>1. Turns(p, r)
    BY <1>3 DEF ProgramWrites, Turns
  <2>2. /\ r \in ProcRecords /\ r.unread = proc[p].unread /\ r.site = proc[p].site
        /\ r.life = "exited" /\ r.holds = proc[p].holds /\ r.ok = FALSE
    BY <1>0, EndFields
  <2> HIDE DEF r
  <2> QED
    BY <2>1, <2>2 DEF ProcMoves, LifeKept
<1>4. CASE ProgramForks(p)
  <2> DEFINE h == Piped(proc[p].site)
             r == [proc[p] EXCEPT !.forked = TRUE, !.holds = h]
  <2>0. h \in BOOLEAN
    BY DEF Piped
  <2>1. proc[p].life = "running" /\ Turns(p, r) /\ proc[p].site \in Forking
    BY <1>0, <1>4, TwoFields DEF ProgramForks, Turns
  <2> HIDE DEF h
  <2>2. /\ r \in ProcRecords /\ r.unread = proc[p].unread /\ r.site = proc[p].site
        /\ r.life = proc[p].life /\ r.holds = h /\ r.ok = proc[p].ok
    BY <1>0, <2>0, ForkFields
  <2> HIDE DEF r
  <2> QED
    BY <2>1, <2>2 DEF ProcMoves, LifeKept, h
<1>5. CASE GrandchildEnds(p)
  <2> DEFINE r == [proc[p] EXCEPT !.holds = FALSE]
  <2>1. proc[p].life = "exited" /\ Turns(p, r)
    BY <1>5 DEF GrandchildEnds, Turns
  <2>2. /\ r \in ProcRecords /\ r.unread = proc[p].unread /\ r.site = proc[p].site
        /\ r.life = proc[p].life /\ r.holds = FALSE /\ r.ok = proc[p].ok
    BY <1>0, ReleaseFields
  <2> HIDE DEF r
  <2> QED
    BY <2>1, <2>2 DEF ProcMoves, LifeKept
<1> QED
  BY <1>1, <1>2, <1>3, <1>4, <1>5

LEMMA EndMoves ==
  ASSUME Shape, NEW p \in Processes, NEW ok \in BOOLEAN, proc[p].life = "running",
         pending' = pending, proc' = [proc EXCEPT ![p].life = "exited", ![p].ok = ok]
  PROVE  \E r \in ProcRecords : ProcMoves(p, r) /\ r.ok = ok
<1>0. proc[p] \in ProcRecords /\ proc \in [Processes -> ProcRecords]
  BY DEF Shape, ShapeInv
<1> DEFINE r == [proc[p] EXCEPT !.life = "exited", !.ok = ok]
<1>1. Turns(p, r)
  BY <1>0, TwoFields DEF Turns
<1>a. \A q \in ProcRecords :
        LET x == [q EXCEPT !.life = "exited", !.ok = ok]
        IN  /\ x \in ProcRecords /\ x.unread = q.unread /\ x.site = q.site /\ x.life = "exited"
            /\ x.holds = q.holds /\ x.ok = ok
  BY EndFields
<1>2. /\ r \in ProcRecords /\ r.unread = proc[p].unread /\ r.site = proc[p].site
      /\ r.life = "exited" /\ r.holds = proc[p].holds /\ r.ok = ok
  BY <1>0, <1>a
<1> HIDE DEF r
<1> QED
  BY <1>1, <1>2 DEF ProcMoves
-----------------------------------------------------------------------------
(* Pipes *)

\* A daemon that outlives its program holds no pipe but the clipboard's, and
\* only who has pipes writes.
PipeInv ==
    \A p \in Processes :
        /\ proc[p].holds => proc[p].site = "clipboard"
        /\ proc[p].unread > 0 => Piped(proc[p].site)

Sound == Shape /\ PipeInv

LEMMA PipeSites ==
  ASSUME NEW site \in Sites \cup {"none"}, site \in Forking, Piped(site)
  PROVE  site = "clipboard"
  BY Sitings DEF Forking, Piped

LEMMA PipeFrame ==
  ASSUME Sound, Shape',
         \A q \in Processes : proc'[q] = proc[q]
                              \/ (proc'[q].unread = 0 /\ proc'[q].holds = FALSE)
  PROVE  Sound'
<1>1. \A q \in Processes : proc'[q].unread = 0 => ~(proc'[q].unread > 0)
  OBVIOUS
<1> QED
  BY <1>1 DEF Sound, PipeInv, Piped

LEMMA MovesKeeps ==
  ASSUME Sound, NEW p \in Processes, NEW r \in ProcRecords, ProcMoves(p, r)
  PROVE  Sound'
<1>1. Shape'
  BY TurnsKeeps DEF Sound, ProcMoves
<1>2. proc[p].site \in Sites \cup {"none"}
  BY DEF Sound, Shape, ShapeInv, ProcRecords
<1>3. proc'[p] = r /\ \A q \in Processes \ {p} : proc'[q] = proc[q]
  BY DEF Sound, Shape, ShapeInv, ProcMoves, Turns
<1>4. r.holds => r.site = "clipboard"
  BY <1>2, PipeSites DEF Sound, PipeInv, ProcMoves
<1>5. r.unread > 0 => Piped(r.site)
  BY DEF Sound, PipeInv, ProcMoves
<1> QED
  BY <1>1, <1>3, <1>4, <1>5 DEF Sound, PipeInv, Piped

LEMMA EndsSound ==
  ASSUME Sound, NEW t \in Threads, GivesUp(t)
  PROVE  Sound'
  BY EndsKeeps, PipeFrame DEF Sound, GivesUp

LEMMA BeginsSound ==
  ASSUME Sound, NEW t \in Threads, NEW p \in Processes, NEW site \in Sites, NEW next \in Nexts,
         site = "route" => t \in RouteThreads,
         next # <<>> => site = "dns" /\ "domain" \in Sites,
         SetsOff(t, p, site, next)
  PROVE  Sound'
<1>1. Shape'
  BY BeginsKeeps DEF Sound
<1>2. proc'[p] = Fresh(site) /\ \A q \in Processes \ {p} : proc'[q] = proc[q]
  BY DEF Sound, Shape, ShapeInv, SetsOff
<1> QED
  BY <1>1, <1>2, FreshFields, PipeFrame

LEMMA SpawnSound ==
  ASSUME Sound, NEW t \in Threads, NEW site \in Sites, NEW next \in Nexts,
         site = "route" => t \in RouteThreads,
         next # <<>> => site = "dns" /\ "domain" \in Sites,
         Spawn(t, site, next)
  PROVE  Sound'
  BY SpawnFacts, EndsSound, BeginsSound

LEMMA LinkCalls ==
  ASSUME NEW authoritative \in BOOLEAN
  PROVE  /\ Head(LinkSpecs(authoritative)) = "dns"
         /\ Tail(LinkSpecs(authoritative)) \in Nexts
  BY DEF LinkSpecs, Nexts

\* A call that has its answer.
LEMMA FinishedFacts ==
  ASSUME Sound, NEW t \in Threads, Finished(t)
  PROVE  \E p \in pending[t].child :
           /\ pending[t].stage = "waiting" /\ Returnable(pending[t].site, p)
           /\ \/ /\ pending[t].next # <<>> /\ proc[p].ok
                 /\ proc' = [proc EXCEPT ![p] = Fresh("domain")]
                 /\ pending' = [pending EXCEPT ![t] = GoesOn(pending[t])]
                 /\ answer' = answer
              \/ /\ pending' = [pending EXCEPT ![t] = NoCall]
                 /\ proc' = proc \/ proc' = [proc EXCEPT ![p] = NoProc]
                 /\ answer' = Result(p)
<1>1. PICK p \in pending[t].child :
        /\ pending[t].stage = "waiting" /\ Returnable(pending[t].site, p)
        /\ IF pending[t].next # <<>> /\ proc[p].ok
           THEN /\ proc' = [proc EXCEPT ![p] = Fresh(Head(pending[t].next))]
                /\ pending' = [pending EXCEPT ![t] = GoesOn(@)]
                /\ answer' = answer
           ELSE /\ Returns(t, Result(p))
                /\ proc' = IF proc[p].holds THEN proc ELSE [proc EXCEPT ![p] = NoProc]
  BY DEF Finished, Fresh, GoesOn
<1>2. pending[t] \in CallRecords /\ (pending[t].next # <<>> => "domain" \in Sites)
  BY DEF Sound, Shape, ShapeInv, OwnInv
<1>3. CASE pending[t].next # <<>> /\ proc[p].ok
  BY <1>1, <1>2, <1>3, GoesOnFields
<1>4. CASE ~(pending[t].next # <<>> /\ proc[p].ok)
  BY <1>1, <1>4 DEF Returns
<1> QED
  BY <1>3, <1>4

LEMMA FinishedSound ==
  ASSUME Sound, NEW t \in Threads, Finished(t)
  PROVE  Sound'
<1>1. PICK p \in pending[t].child :
           \/ /\ pending[t].next # <<>>
              /\ proc' = [proc EXCEPT ![p] = Fresh("domain")]
              /\ pending' = [pending EXCEPT ![t] = GoesOn(pending[t])]
           \/ /\ pending' = [pending EXCEPT ![t] = NoCall]
              /\ proc' = proc \/ proc' = [proc EXCEPT ![p] = NoProc]
  BY FinishedFacts
<1>2. /\ p \in Processes /\ proc \in [Processes -> ProcRecords]
      /\ pending \in [Threads -> CallRecords]
      /\ \A u \in Threads \ {t} : p \notin pending[u].child
  BY DEF Sound, Shape, ShapeInv, OwnInv, CallRecords
<1>3. CASE /\ pending[t].next # <<>>
           /\ proc' = [proc EXCEPT ![p] = Fresh("domain")]
           /\ pending' = [pending EXCEPT ![t] = GoesOn(pending[t])]
  <2>1. Shape' /\ "domain" \in Sites
    BY <1>3, GoesOnKeeps DEF Sound, Shape, OwnInv
  <2>2. proc'[p] = Fresh("domain") /\ \A q \in Processes \ {p} : proc'[q] = proc[q]
    BY <1>2, <1>3
  <2> QED
    BY <2>1, <2>2, FreshFields, PipeFrame
<1>4. CASE pending' = [pending EXCEPT ![t] = NoCall] /\ proc' = proc
  BY <1>4, EndsSound DEF GivesUp
<1>5. CASE pending' = [pending EXCEPT ![t] = NoCall] /\ proc' = [proc EXCEPT ![p] = NoProc]
  <2>1. /\ pending' \in [Threads -> CallRecords]
        /\ \A u \in Threads : pending'[u] = NoCall
                              \/ (pending'[u] = pending[u] /\ p \notin pending[u].child)
    BY <1>2, <1>5, NoRecords
  <2>2. Shape'
    BY <1>2, <1>5, <2>1, RoomKeeps DEF Sound
  <2>3. proc'[p] = NoProc /\ \A q \in Processes \ {p} : proc'[q] = proc[q]
    BY <1>2, <1>5
  <2> QED
    BY <2>2, <2>3, NoFields, PipeFrame
<1> QED
  BY <1>1, <1>3, <1>4, <1>5

LEMMA SoundStep == Sound /\ [RunnerNext]_runnerVars => Sound'
<1> SUFFICES ASSUME Sound, [RunnerNext]_runnerVars PROVE Sound'
  OBVIOUS
<1>1. ASSUME NEW t \in Threads, Run(t) PROVE Sound'
  <2>1. PICK site \in Sites \ {"route", "dns", "domain"} : Spawn(t, site, <<>>)
    BY <1>1 DEF Run
  <2>2. <<>> \in Nexts /\ site # "route"
    BY DEF Nexts
  <2> QED
    BY <2>1, <2>2, SpawnSound
<1>2. ASSUME NEW t \in Threads, StdinWritten(t) PROVE Sound'
  BY <1>2, WaitsKeeps, PipeFrame DEF StdinWritten, Sound
<1>3. ASSUME NEW t \in Threads, StdinRefused(t) \/ Timeout(t) PROVE Sound'
  BY <1>3, EndsSound DEF StdinRefused, Timeout, Returns, GivesUp
<1>4. ASSUME NEW t \in Threads, ReadOutput(t) PROVE Sound'
  BY <1>4, ReadMoves, MovesKeeps DEF Sound
<1>5. ASSUME NEW t \in Threads, Probe(t) PROVE Sound'
  <2>1. CASE UNCHANGED <<pending, proc>>
    BY <2>1 DEF Sound, Shape, ShapeInv, OwnInv, PipeInv, Piped
  <2>2. CASE pending' = [pending EXCEPT ![t] = Cleared] /\ proc' = proc
    BY <1>5, <2>2, ClearsKeeps, PipeFrame DEF Probe, Sound
  <2> QED
    BY <1>5, <2>1, <2>2 DEF Probe, Cleared
<1>6. ASSUME NEW t \in Threads, ProbeStarts(t) PROVE Sound'
  <2>1. pending[t].site = "route" /\ t \in RouteThreads /\ "route" \in Sites
    BY <1>6 DEF ProbeStarts, Sound, Shape, ShapeInv, OwnInv, CallRecords
  <2>2. <<>> \in Nexts
    BY DEF Nexts
  <2> QED
    BY <1>6, <2>1, <2>2, SpawnSound DEF ProbeStarts
<1>7. ASSUME NEW t \in Threads, SetLinkDns(t) PROVE Sound'
  <2>1. PICK authoritative \in BOOLEAN :
          Spawn(t, Head(LinkSpecs(authoritative)), Tail(LinkSpecs(authoritative)))
    BY <1>7 DEF SetLinkDns
  <2>2. "dns" \in Sites /\ "domain" \in Sites
    BY <1>7 DEF SetLinkDns
  <2> QED
    BY <2>1, <2>2, LinkCalls, SpawnSound
<1>8. ASSUME NEW t \in Threads, Finished(t) PROVE Sound'
  BY <1>8, FinishedSound
<1>9. ASSUME NEW p \in Processes,
             ProgramReads(p) \/ ProgramWrites(p) \/ ProgramForks(p) \/ GrandchildEnds(p)
      PROVE  Sound'
  BY <1>9, ProgramMoves, MovesKeeps DEF Sound
<1>10. ASSUME NEW p \in Processes, ProgramEnds(p) PROVE Sound'
  <2>1. PICK ok \in BOOLEAN : /\ proc' = [proc EXCEPT ![p].life = "exited", ![p].ok = ok]
                              /\ proc[p].life = "running" /\ pending' = pending
    BY <1>10 DEF ProgramEnds
  <2> QED
    BY <2>1, EndMoves, MovesKeeps DEF Sound
<1>11. ASSUME NEW p \in Processes, Reaped(p) PROVE Sound'
  <2>1. /\ proc' = [proc EXCEPT ![p] = NoProc] /\ pending' = pending
        /\ \A u \in Threads : p \notin pending[u].child
    BY <1>11 DEF Reaped, Owned
  <2>2. Shape'
    BY <2>1, RoomKeeps DEF Sound, Shape, ShapeInv
  <2>3. proc'[p] = NoProc /\ \A q \in Processes \ {p} : proc'[q] = proc[q]
    BY <2>1 DEF Sound, Shape, ShapeInv
  <2> QED
    BY <2>2, <2>3, NoFields, PipeFrame
<1>12. ASSUME UNCHANGED <<pending, proc>> PROVE Sound'
  BY <1>12 DEF Sound, Shape, ShapeInv, OwnInv, PipeInv, Piped
<1> QED
  BY <1>1, <1>2, <1>3, <1>4, <1>5, <1>6, <1>7, <1>8, <1>9, <1>10, <1>11, <1>12
  DEF RunnerNext, CooldownEnds, LinkDown, runnerVars
-----------------------------------------------------------------------------
(* Answers *)

LEMMA ResultWhole ==
  ASSUME Sound, NEW t \in Threads, NEW p \in pending[t].child, pending[t].stage = "waiting",
         Returnable(pending[t].site, p)
  PROVE  Result(p) = "whole"
<1>1. /\ proc[p].site = pending[t].site
      /\ proc[p].unread \in 0..1
      /\ proc[p].unread > 0 => Piped(proc[p].site)
  BY DEF Sound, Shape, ShapeInv, OwnInv, PipeInv, CallRecords, ProcRecords
<1>2. ~(proc[p].unread > 0)
  BY <1>1 DEF Returnable, Piped
<1> QED
  BY <1>2 DEF Result

LEMMA AnswerStep == Sound /\ AnswersAreWhole /\ [RunnerNext]_runnerVars => AnswersAreWhole'
<1> SUFFICES ASSUME Sound, answer # "cut", [RunnerNext]_runnerVars PROVE answer' # "cut"
  BY DEF AnswersAreWhole
<1>1. ASSUME NEW t \in Threads, NEW site, NEW next, Spawn(t, site, next) PROVE answer' # "cut"
  BY <1>1 DEF Spawn, Returns
<1>2. ASSUME NEW t \in Threads, Finished(t) PROVE answer' # "cut"
  BY <1>2, FinishedFacts, ResultWhole
<1>3. ASSUME NEW t \in Threads,
             \/ Run(t) \/ StdinWritten(t) \/ StdinRefused(t) \/ ReadOutput(t)
             \/ Probe(t) \/ ProbeStarts(t) \/ SetLinkDns(t) \/ Timeout(t)
      PROVE  answer' # "cut"
  BY <1>1, <1>3
  DEF Run, StdinWritten, StdinRefused, ReadOutput, Probe, ProbeStarts, SetLinkDns, Timeout, Returns
<1>4. ASSUME answer' = answer PROVE answer' # "cut"
  BY <1>4
<1> QED
  BY <1>2, <1>3, <1>4
  DEF RunnerNext, ProgramReads, ProgramWrites, ProgramForks, ProgramEnds, Reaped, GrandchildEnds,
      CooldownEnds, LinkDown, runnerVars

\* Only the daemon of openvpn outlives a program that is waited for, and it has
\* no pipe: every other call returns once its reader is done.
LEMMA SoundWaits == Sound => WaitsForItsOwn
<1> SUFFICES ASSUME Sound, NEW t \in Threads, NEW p \in pending[t].child,
                    proc[p].life = "exited", pending[t].site # "clipboard"
             PROVE  Returnable(pending[t].site, p) \/ proc[p].unread > 0
  BY DEF WaitsForItsOwn
<1>1. /\ proc[p].site = pending[t].site
      /\ proc[p].unread \in 0..1
      /\ proc[p].holds => proc[p].site = "clipboard"
  BY DEF Sound, Shape, ShapeInv, OwnInv, PipeInv, CallRecords, ProcRecords
<1>2. ~proc[p].holds
  BY <1>1
<1>3. proc[p].unread = 0 \/ proc[p].unread > 0
  BY <1>1
<1> QED
  BY <1>2, <1>3 DEF Returnable

-----------------------------------------------------------------------------
(* The backoff *)

\* Route threads cleared to start a probe.
ClearedThreads == {t \in Threads : pending[t].stage = "cleared"}

\* During a cooldown those that have started and those still cleared are fewer
\* than the route threads: one of them is the one that brought it on.
BackInv ==
    /\ backoff \in [fails : 0..Rung, cooling : BOOLEAN, strays : Nat]
    /\ ~backoff.cooling => backoff.strays = 0
    /\ backoff.cooling =>
          /\ backoff.fails = Rung
          /\ backoff.strays + Cardinality(ClearedThreads) < Cardinality(RouteThreads)

LEMMA RouteFinite ==
  ASSUME NEW S, S \subseteq RouteThreads
  PROVE  IsFiniteSet(S) /\ Cardinality(S) \in Nat /\ Cardinality(S) <= Cardinality(RouteThreads)
         /\ Cardinality(RouteThreads) \in Nat /\ IsFiniteSet(RouteThreads)
<1>1. IsFiniteSet({"scanner"} \cup {"monitor"})
  BY FS_Singleton, FS_AddElement
<1>2. RouteThreads \subseteq {"scanner"} \cup {"monitor"}
  BY DEF RouteThreads
<1>3. IsFiniteSet(RouteThreads)
  BY <1>1, <1>2, FS_Subset
<1> QED
  BY <1>3, FS_Subset, FS_CardinalityType

LEMMA ClearedAreRoute == Sound => ClearedThreads \subseteq RouteThreads
  BY DEF Sound, Shape, OwnInv, ClearedThreads

\* A thread at work is not cleared: there are fewer than route threads.
LEMMA OneIsBusy ==
  ASSUME Sound, NEW t \in RouteThreads, NEW S, S \subseteq RouteThreads \ {t}
  PROVE  Cardinality(S) < Cardinality(RouteThreads)
<1>1. /\ IsFiniteSet(RouteThreads \ {t})
      /\ Cardinality(RouteThreads \ {t}) = Cardinality(RouteThreads) - 1
  BY RouteFinite, FS_RemoveElement
<1>2. Cardinality(S) <= Cardinality(RouteThreads \ {t}) /\ Cardinality(S) \in Nat
  BY <1>1, FS_Subset, FS_CardinalityType
<1> QED
  BY <1>1, <1>2, RouteFinite

LEMMA ScoredFacts ==
  ASSUME BackInv
  PROVE  /\ Scored(FALSE) \in [fails : 0..Rung, cooling : BOOLEAN, strays : Nat]
         /\ Scored(FALSE).cooling = FALSE /\ Scored(FALSE).strays = 0
         /\ Scored(TRUE) \in [fails : 0..Rung, cooling : BOOLEAN, strays : Nat]
         /\ Scored(TRUE).strays = backoff.strays
         /\ Scored(TRUE).cooling => Scored(TRUE).fails = Rung
         /\ backoff.cooling => Scored(TRUE).cooling
<1>0. Rung \in Nat \ {0} /\ backoff.fails \in 0..Rung /\ backoff.strays \in Nat
  BY RunnerAssumption DEF BackInv, RunnerAssumption
<1>1. /\ Scored(FALSE) \in [fails : 0..Rung, cooling : BOOLEAN, strays : Nat]
      /\ Scored(FALSE).cooling = FALSE /\ Scored(FALSE).strays = 0
  BY <1>0 DEF Scored
<1> DEFINE n == IF backoff.fails = Rung THEN Rung ELSE backoff.fails + 1
<1>2. Scored(TRUE) = [fails |-> n, cooling |-> Cooldown(n), strays |-> backoff.strays]
  BY DEF Scored
<1>3. n \in 0..Rung /\ (n >= Rung => n = Rung) /\ (backoff.fails = Rung => n >= Rung)
  BY <1>0
<1>4. Cooldown(n) \in BOOLEAN /\ (Cooldown(n) => n = Rung) /\ (backoff.fails = Rung => Cooldown(n))
  BY <1>3 DEF Cooldown
<1>5. PICK c \in BOOLEAN : /\ Scored(TRUE) = [fails |-> n, cooling |-> c, strays |-> backoff.strays]
                           /\ (c => n = Rung) /\ (backoff.fails = Rung => c)
  BY <1>2, <1>4
<1>6. ASSUME NEW a \in 0..Rung, NEW k \in Nat
      PROVE  LET b == [fails |-> a, cooling |-> c, strays |-> k]
             IN  /\ b \in [fails : 0..Rung, cooling : BOOLEAN, strays : Nat]
                 /\ b.fails = a /\ b.cooling = c /\ b.strays = k
  OBVIOUS
<1> HIDE DEF n
<1>7. /\ Scored(TRUE) \in [fails : 0..Rung, cooling : BOOLEAN, strays : Nat]
      /\ Scored(TRUE).strays = backoff.strays /\ Scored(TRUE).fails = n
      /\ Scored(TRUE).cooling = c
  <2> DEFINE b == [fails |-> n, cooling |-> c, strays |-> backoff.strays]
  <2>1. /\ b \in [fails : 0..Rung, cooling : BOOLEAN, strays : Nat]
        /\ b.fails = n /\ b.cooling = c /\ b.strays = backoff.strays
    BY <1>0, <1>3, <1>6
  <2>2. Scored(TRUE) = b
    BY <1>5
  <2> HIDE DEF b
  <2> QED
    BY <2>1, <2>2
<1> QED
  BY <1>1, <1>5, <1>7 DEF BackInv

\* Nobody more is cleared.
LEMMA BackFrame ==
  ASSUME Sound, BackInv, UNCHANGED backoff, ClearedThreads' \subseteq ClearedThreads
  PROVE  BackInv'
<1>1. /\ Cardinality(ClearedThreads') <= Cardinality(ClearedThreads)
      /\ Cardinality(ClearedThreads') \in Nat /\ Cardinality(ClearedThreads) \in Nat
  BY ClearedAreRoute, RouteFinite, FS_Subset, FS_CardinalityType
<1>2. backoff.strays \in Nat /\ Cardinality(RouteThreads) \in Nat
  BY RouteFinite DEF BackInv
<1> QED
  BY <1>1, <1>2 DEF BackInv

\* A call of a route thread is over with the score of its outcome.
LEMMA BackScored ==
  ASSUME Sound, BackInv, NEW t \in RouteThreads, NEW fail \in BOOLEAN, backoff' = Scored(fail),
         ClearedThreads' \subseteq ClearedThreads \ {t}
  PROVE  BackInv'
<1>1. /\ ClearedThreads' \subseteq RouteThreads \ {t}
      /\ ClearedThreads' \subseteq ClearedThreads /\ ClearedThreads \subseteq RouteThreads
  BY ClearedAreRoute
<1>2. Cardinality(ClearedThreads') < Cardinality(RouteThreads)
  BY <1>1, OneIsBusy
<1>3. /\ Cardinality(ClearedThreads') <= Cardinality(ClearedThreads)
      /\ Cardinality(ClearedThreads') \in Nat /\ Cardinality(ClearedThreads) \in Nat
      /\ Cardinality(RouteThreads) \in Nat
  BY <1>1, RouteFinite, FS_Subset, FS_CardinalityType
<1>4. CASE fail = FALSE
  BY <1>4, ScoredFacts DEF BackInv
<1>5. CASE fail = TRUE
  <2>1. backoff' = Scored(TRUE)
    BY <1>5
  <2>2. backoff.strays \in Nat /\ backoff'.strays = backoff.strays
    BY <2>1, ScoredFacts DEF BackInv
  <2>3. CASE backoff.cooling
    <3>1. backoff.strays + Cardinality(ClearedThreads) < Cardinality(RouteThreads)
      BY <2>3 DEF BackInv
    <3>2. backoff'.strays + Cardinality(ClearedThreads') < Cardinality(RouteThreads)
      BY <1>3, <2>2, <3>1
    <3> QED
      BY <2>1, <2>3, <3>2, ScoredFacts DEF BackInv
  <2>4. CASE ~backoff.cooling
    <3>1. backoff'.strays = 0
      BY <2>2, <2>4 DEF BackInv
    <3>2. backoff'.strays + Cardinality(ClearedThreads') < Cardinality(RouteThreads)
      BY <1>2, <1>3, <3>1
    <3> QED
      BY <2>1, <3>1, <3>2, ScoredFacts DEF BackInv
  <2> QED
    BY <2>3, <2>4
<1> QED
  BY <1>4, <1>5

LEMMA BackStep == Sound /\ BackInv /\ [RunnerNext]_runnerVars => BackInv'
<1> SUFFICES ASSUME Sound, BackInv, [RunnerNext]_runnerVars PROVE BackInv'
  OBVIOUS
<1>0. pending \in [Threads -> CallRecords]
  BY DEF Sound, Shape, ShapeInv
<1>a. ASSUME NEW t \in Threads, pending' \in [Threads -> CallRecords], pending'[t].stage # "cleared",
             \A u \in Threads \ {t} : pending'[u] = pending[u]
      PROVE  ClearedThreads' \subseteq ClearedThreads \ {t}
  BY <1>a DEF ClearedThreads
<1>b. ASSUME NEW t \in Threads, GivesUp(t) PROVE ClearedThreads' \subseteq ClearedThreads \ {t}
  BY <1>0, <1>b, NoFields DEF ClearedThreads, GivesUp
<1>c. ASSUME NEW t \in Threads, NEW site \in Sites, NEW next \in Nexts, Spawn(t, site, next)
      PROVE  ClearedThreads' \subseteq ClearedThreads \ {t}
  <2>1. CASE GivesUp(t)
    BY <1>b, <2>1
  <2>2. CASE \E p \in Processes : SetsOff(t, p, site, next)
    <3>1. PICK p \in Processes : pending' = [pending EXCEPT ![t] = Started(p, site, next)]
      BY <2>2 DEF SetsOff
    <3>2. pending'[t] = Started(p, site, next) /\ \A u \in Threads \ {t} : pending'[u] = pending[u]
      BY <1>0, <3>1
    <3>3. pending'[t].stage # "cleared"
      BY <3>2, StartedFields
    <3> QED
      BY <3>2, <3>3 DEF ClearedThreads
  <2> QED
    BY <1>c, <2>1, <2>2, SpawnFacts
<1>1. ASSUME NEW t \in Threads, Run(t) PROVE BackInv'
  <2>1. PICK site \in Sites : Spawn(t, site, <<>>)
    BY <1>1 DEF Run
  <2>2. ClearedThreads' \subseteq ClearedThreads
    BY <1>c, <2>1 DEF Nexts
  <2> QED
    BY <1>1, <2>2, BackFrame DEF Run
<1>2. ASSUME NEW t \in Threads, SetLinkDns(t) PROVE BackInv'
  <2>1. PICK authoritative \in BOOLEAN :
          Spawn(t, Head(LinkSpecs(authoritative)), Tail(LinkSpecs(authoritative)))
    BY <1>2 DEF SetLinkDns
  <2>2. "dns" \in Sites
    BY <1>2 DEF SetLinkDns
  <2>3. ClearedThreads' \subseteq ClearedThreads
    BY <1>c, <2>1, <2>2, LinkCalls
  <2> QED
    BY <1>2, <2>3, BackFrame DEF SetLinkDns
<1>3. ASSUME NEW t \in Threads, StdinWritten(t) PROVE BackInv'
  <2>1. pending'[t].stage = "waiting" /\ \A u \in Threads \ {t} : pending'[u] = pending[u]
    BY <1>0, <1>3 DEF StdinWritten, CallRecords
  <2>2. ClearedThreads' \subseteq ClearedThreads
    BY <2>1 DEF ClearedThreads
  <2> QED
    BY <1>3, <2>2, BackFrame DEF StdinWritten
<1>4. ASSUME NEW t \in Threads, StdinRefused(t) PROVE BackInv'
  BY <1>4, <1>b, BackFrame DEF StdinRefused, Returns, GivesUp
<1>5. ASSUME NEW t \in Threads, Timeout(t) PROVE BackInv'
  <2>1. ClearedThreads' \subseteq ClearedThreads \ {t}
    BY <1>5, <1>b DEF Timeout, Returns, GivesUp
  <2>2. CASE pending[t].site = "route"
    <3>1. t \in RouteThreads /\ backoff' = Scored(TRUE)
      BY <1>5, <2>2 DEF Timeout, Sound, Shape, OwnInv
    <3> QED
      BY <2>1, <3>1, BackScored
  <2>3. CASE pending[t].site # "route"
    BY <1>5, <2>1, <2>3, BackFrame DEF Timeout
  <2> QED
    BY <2>2, <2>3
<1>6. ASSUME NEW t \in Threads, Finished(t) PROVE BackInv'
  <2>1. pending[t].stage = "waiting" /\ (pending' = [pending EXCEPT ![t] = NoCall]
          \/ (pending[t].next # <<>> /\ pending' = [pending EXCEPT ![t] = GoesOn(pending[t])]))
    BY <1>6, FinishedFacts
  <2>2. pending[t].next # <<>> => GoesOn(pending[t]).stage = pending[t].stage
    BY <1>0, GoesOnFields DEF Sound, Shape, OwnInv
  <2>3. ClearedThreads' \subseteq ClearedThreads \ {t}
    BY <1>0, <2>1, <2>2, NoFields DEF ClearedThreads
  <2>4. CASE pending[t].site = "route"
    <3>1. t \in RouteThreads /\ backoff' = Scored(FALSE)
      BY <1>6, <2>4 DEF Finished, Sound, Shape, OwnInv
    <3> QED
      BY <2>3, <3>1, BackScored
  <2>5. CASE pending[t].site # "route"
    BY <1>6, <2>3, <2>5, BackFrame DEF Finished
  <2> QED
    BY <2>4, <2>5
<1>7. ASSUME NEW t \in Threads, Probe(t), ~backoff.cooling PROVE BackInv'
  <2>1. backoff' = backoff
    BY <1>7 DEF Probe
  <2> QED
    BY <1>7, <2>1 DEF BackInv
<1>8. ASSUME NEW t \in Threads, Probe(t), backoff.cooling PROVE BackInv'
  BY <1>8, BackFrame DEF Probe, ClearedThreads
<1>9. ASSUME NEW t \in Threads, ProbeStarts(t) PROVE BackInv'
  <2>1. t \in ClearedThreads /\ "route" \in Sites
    BY <1>0, <1>9 DEF ProbeStarts, ClearedThreads, Sound, Shape, OwnInv, CallRecords
  <2>2. ClearedThreads' \subseteq ClearedThreads \ {t}
    BY <1>9, <1>c, <2>1 DEF ProbeStarts, Nexts
  <2>3. /\ Cardinality(ClearedThreads') \in Nat /\ Cardinality(ClearedThreads) \in Nat
        /\ Cardinality(ClearedThreads') <= Cardinality(ClearedThreads) - 1
        /\ Cardinality(RouteThreads) \in Nat
    <3>1. IsFiniteSet(ClearedThreads) /\ Cardinality(ClearedThreads) \in Nat
          /\ Cardinality(RouteThreads) \in Nat
      BY ClearedAreRoute, RouteFinite
    <3>2. /\ IsFiniteSet(ClearedThreads \ {t})
          /\ Cardinality(ClearedThreads \ {t}) = Cardinality(ClearedThreads) - 1
      BY <2>1, <3>1, FS_RemoveElement
    <3>3. /\ Cardinality(ClearedThreads') <= Cardinality(ClearedThreads \ {t})
          /\ Cardinality(ClearedThreads') \in Nat
      BY <2>2, <3>2, FS_Subset, FS_CardinalityType
    <3> QED
      BY <3>1, <3>2, <3>3
  <2>4. CASE backoff.cooling
    <3>1. backoff' = [backoff EXCEPT !.strays = @ + 1]
      BY <1>9, <2>4 DEF ProbeStarts
    <3>2. backoff.strays \in Nat
      BY DEF BackInv
    <3>3. /\ backoff' \in [fails : 0..Rung, cooling : BOOLEAN, strays : Nat]
          /\ backoff'.strays = backoff.strays + 1 /\ backoff'.fails = backoff.fails
          /\ backoff'.cooling = backoff.cooling
      BY <3>1 DEF BackInv
    <3>4. backoff'.strays + Cardinality(ClearedThreads') < Cardinality(RouteThreads)
      BY <2>3, <2>4, <3>2, <3>3 DEF BackInv
    <3> QED
      BY <2>4, <3>3, <3>4 DEF BackInv
  <2>5. CASE ~backoff.cooling
    BY <1>9, <2>2, <2>5, BackFrame DEF ProbeStarts
  <2> QED
    BY <2>4, <2>5
<1>10. CASE CooldownEnds
  <2>1. backoff' = [backoff EXCEPT !.cooling = FALSE, !.strays = 0]
    BY <1>10 DEF CooldownEnds
  <2>2. /\ backoff' \in [fails : 0..Rung, cooling : BOOLEAN, strays : Nat]
        /\ backoff'.cooling = FALSE /\ backoff'.strays = 0
    BY <2>1 DEF BackInv
  <2> QED
    BY <2>2 DEF BackInv
<1>11. ASSUME UNCHANGED <<pending, backoff>> PROVE BackInv'
  BY <1>11, BackFrame DEF ClearedThreads
<1> QED
  BY <1>1, <1>2, <1>3, <1>4, <1>5, <1>6, <1>7, <1>8, <1>9, <1>10, <1>11
  DEF RunnerNext, ReadOutput, ProgramReads, ProgramWrites, ProgramForks, ProgramEnds, Reaped,
      GrandchildEnds, LinkDown, runnerVars

LEMMA BacksOff == Sound /\ BackInv => ProbesBackOff
<1> SUFFICES ASSUME Sound, BackInv, RouteThreads # {} PROVE backoff.strays < Cardinality(RouteThreads)
  BY DEF ProbesBackOff
<1>1. PICK t \in RouteThreads : TRUE
  OBVIOUS
<1>2. {} \subseteq RouteThreads
  OBVIOUS
<1>3. Cardinality(RouteThreads) \in Nat /\ IsFiniteSet(RouteThreads)
  BY <1>2, RouteFinite
<1>4. Cardinality(RouteThreads) # 0
  BY <1>1, <1>3, FS_EmptySet
<1>5. CASE backoff.cooling
  <2>1. Cardinality(ClearedThreads) \in Nat
    BY ClearedAreRoute, RouteFinite
  <2> QED
    BY <1>3, <1>5, <2>1 DEF BackInv
<1>6. CASE ~backoff.cooling
  BY <1>3, <1>4, <1>6 DEF BackInv
<1> QED
  BY <1>5, <1>6
-----------------------------------------------------------------------------
(* The link *)

LinkRecords == [up : BOOLEAN, servers : BOOLEAN, catchAll : BOOLEAN, stray : BOOLEAN]

\* A registration that has come as far as its second call, or has ended its first
\* well, has given its servers to the link, if that is there at all.
LinkInv ==
    /\ link \in LinkRecords
    /\ CatchAllHasServers
    /\ \A t \in Threads : pending[t].site = "domain" /\ link.up => link.servers
    /\ \A t \in Threads : \A p \in pending[t].child :
          pending[t].site = "dns" /\ proc[p].life = "exited" /\ proc[p].ok /\ link.up => link.servers

LEMMA LinkChanges ==
  ASSUME NEW l \in LinkRecords, NEW a \in BOOLEAN, NEW b \in BOOLEAN, NEW c \in BOOLEAN
  PROVE  LET m == [l EXCEPT !.servers = @ \/ a, !.catchAll = @ \/ b, !.stray = @ \/ c]
         IN  /\ m \in LinkRecords /\ m.up = l.up
             /\ m.servers <=> (l.servers \/ a)
             /\ m.catchAll <=> (l.catchAll \/ b)
             /\ m.stray <=> (l.stray \/ c)
  BY DEF LinkRecords

LEMMA NewLinks ==
  /\ NoLink \in LinkRecords /\ NoLink.up = FALSE /\ NoLink.catchAll = FALSE
  /\ [NoLink EXCEPT !.up = TRUE] \in LinkRecords
  /\ [NoLink EXCEPT !.up = TRUE].catchAll = FALSE
  BY DEF NoLink, LinkRecords

\* Nobody comes to his second call, and no first call ends well.
LEMMA LinkFrame ==
  ASSUME LinkInv, UNCHANGED link,
         \A u \in Threads : pending'[u].site = "domain" => pending[u].site = "domain",
         \A u \in Threads : \A p \in pending'[u].child :
            pending'[u].site = "dns" /\ proc'[p].life = "exited" /\ proc'[p].ok =>
               /\ pending[u].site = "dns" /\ p \in pending[u].child
               /\ proc[p].life = "exited" /\ proc[p].ok
  PROVE  LinkInv'
  BY DEF LinkInv, CatchAllHasServers

LEMMA BeginsFacts ==
  ASSUME Sound, NEW t \in Threads, NEW p \in Processes, NEW site \in Sites, NEW next \in Nexts,
         SetsOff(t, p, site, next)
  PROVE  /\ pending'[t].site = site /\ pending'[t].child = {p}
         /\ proc'[p].life = "running"
         /\ \A u \in Threads \ {t} : pending'[u] = pending[u] /\ p \notin pending[u].child
         /\ \A q \in Processes \ {p} : proc'[q] = proc[q]
<1>1. /\ pending'[t] = Started(p, site, next) /\ proc'[p] = Fresh(site) /\ proc[p] = NoProc
      /\ \A u \in Threads \ {t} : pending'[u] = pending[u]
      /\ \A q \in Processes \ {p} : proc'[q] = proc[q]
  BY DEF Sound, Shape, ShapeInv, SetsOff
<1>2. \A u \in Threads : p \notin pending[u].child
  BY <1>1, NoFields DEF Sound, Shape, OwnInv
<1>3. /\ Started(p, site, next).site = site /\ Started(p, site, next).child = {p}
  BY StartedFields
<1>4. Fresh(site).life = "running"
  BY FreshFields
<1> QED
  BY <1>1, <1>2, <1>3, <1>4

LEMMA LinkSpawn ==
  ASSUME Sound, LinkInv, UNCHANGED link, NEW t \in Threads, NEW site \in Sites \ {"dns", "domain"},
         NEW next \in Nexts, Spawn(t, site, next)
  PROVE  LinkInv'
<1>0. \A u \in Threads : pending[u].child \subseteq Processes
  BY DEF Sound, Shape, ShapeInv, CallRecords
<1>1. CASE GivesUp(t)
  <2>1. pending'[t] = NoCall /\ proc' = proc /\ \A u \in Threads \ {t} : pending'[u] = pending[u]
    BY <1>1 DEF GivesUp, Sound, Shape, ShapeInv
  <2> QED
    BY <2>1, NoFields, LinkFrame
<1>2. ASSUME NEW p \in Processes, SetsOff(t, p, site, next) PROVE LinkInv'
  <2>1. /\ pending'[t].site = site
        /\ \A u \in Threads \ {t} : pending'[u] = pending[u] /\ p \notin pending[u].child
        /\ \A q \in Processes \ {p} : proc'[q] = proc[q]
    BY <1>2, BeginsFacts
  <2> QED
    BY <1>0, <2>1, LinkFrame
<1> QED
  BY <1>1, <1>2, SpawnFacts

LEMMA LinkMoves ==
  ASSUME Sound, LinkInv, UNCHANGED link, NEW p \in Processes, NEW r \in ProcRecords,
         ProcMoves(p, r), LifeKept(r, proc[p])
  PROVE  LinkInv'
<1>1. /\ pending' = pending /\ proc'[p] = r /\ \A q \in Processes \ {p} : proc'[q] = proc[q]
      /\ \A u \in Threads : pending[u].child \subseteq Processes
  BY DEF ProcMoves, Turns, Sound, Shape, ShapeInv, CallRecords
<1> QED
  BY <1>1, LinkFrame DEF LifeKept

LEMMA LinkFinished ==
  ASSUME Sound, LinkInv, UNCHANGED link, NEW t \in Threads, Finished(t)
  PROVE  LinkInv'
<1>1. PICK p \in pending[t].child :
        /\ Returnable(pending[t].site, p)
        /\ \/ /\ pending[t].next # <<>> /\ proc[p].ok
              /\ proc' = [proc EXCEPT ![p] = Fresh("domain")]
              /\ pending' = [pending EXCEPT ![t] = GoesOn(pending[t])]
           \/ /\ pending' = [pending EXCEPT ![t] = NoCall]
              /\ proc' = proc \/ proc' = [proc EXCEPT ![p] = NoProc]
  BY FinishedFacts
<1>2. /\ p \in Processes
      /\ \A u \in Threads : pending[u].child \subseteq Processes
      /\ \A u \in Threads \ {t} : p \notin pending[u].child
      /\ proc[p].life = "exited"
  BY <1>1 DEF Sound, Shape, ShapeInv, OwnInv, CallRecords, Returnable
<1>3. /\ \A q \in Processes \ {p} : proc'[q] = proc[q]
      /\ \A u \in Threads \ {t} : pending'[u] = pending[u]
  BY <1>1, <1>2 DEF Sound, Shape, ShapeInv
<1>4. CASE pending' = [pending EXCEPT ![t] = NoCall]
  <2>1. pending'[t] = NoCall
    BY <1>4 DEF Sound, Shape, ShapeInv
  <2> QED
    BY <1>2, <1>3, <2>1, NoFields, LinkFrame
<1>5. CASE /\ pending[t].next # <<>> /\ proc[p].ok
           /\ pending' = [pending EXCEPT ![t] = GoesOn(pending[t])]
  <2>1. pending[t].site = "dns" /\ "domain" \in Sites /\ pending[t] \in CallRecords
    BY <1>5 DEF Sound, Shape, ShapeInv, OwnInv
  <2>2. link.up => link.servers
    BY <1>2, <1>5, <2>1 DEF LinkInv
  <2>3. pending'[t].site = "domain"
    BY <1>5, <2>1, GoesOnFields DEF Sound, Shape, ShapeInv
  <2> QED
    BY <1>2, <1>3, <2>2, <2>3 DEF LinkInv, CatchAllHasServers
<1> QED
  BY <1>1, <1>4, <1>5

\* resolvectl ends: what it did to the link.
LEMMA LinkEnds ==
  ASSUME Sound, LinkInv, NEW p \in Processes, ProgramEnds(p)
  PROVE  LinkInv'
<1>1. PICK ok \in BOOLEAN :
        /\ proc[p].life = "running" /\ pending' = pending
        /\ proc' = [proc EXCEPT ![p].life = "exited", ![p].ok = ok]
        /\ ok => proc[p].site \notin {"dns", "domain"} \/ link.up
        /\ link' = IF ~ok THEN link
                   ELSE [link EXCEPT !.servers  = @ \/ proc[p].site = "dns",
                                     !.catchAll = @ \/ proc[p].site = "domain",
                                     !.stray    = @ \/ (proc[p].site = "domain" /\ ~Owned(p))]
  BY DEF ProgramEnds
<1>2. PICK r \in ProcRecords : ProcMoves(p, r) /\ r.ok = ok
  BY <1>1, EndMoves DEF Sound
<1>3. CASE ~ok
  BY <1>1, <1>2, <1>3, LinkMoves DEF LifeKept
<1>4. CASE ok
  <2> DEFINE dns == proc[p].site = "dns"
             domain == proc[p].site = "domain"
             stray == proc[p].site = "domain" /\ ~Owned(p)
  <2>1. /\ link' \in LinkRecords /\ link'.up = link.up
        /\ link'.servers <=> (link.servers \/ dns)
        /\ link'.catchAll <=> (link.catchAll \/ domain)
        /\ link'.stray <=> (link.stray \/ stray)
    <3>1. dns \in BOOLEAN /\ domain \in BOOLEAN /\ stray \in BOOLEAN
      OBVIOUS
    <3>2. link' = [link EXCEPT !.servers = @ \/ dns, !.catchAll = @ \/ domain, !.stray = @ \/ stray]
      BY <1>1, <1>4
    <3>3. link \in LinkRecords
      BY DEF LinkInv
    <3> HIDE DEF dns, domain, stray
    <3> QED
      BY <3>1, <3>2, <3>3 DEF LinkRecords
  <2>2. \A t \in Threads : p \in pending[t].child => pending[t].site = proc[p].site
    BY DEF Sound, Shape, OwnInv
  <2>3. domain /\ ~stray => link.servers
    <3> SUFFICES ASSUME proc[p].site = "domain", Owned(p) PROVE link.servers
      OBVIOUS
    <3>1. PICK t \in Threads : p \in pending[t].child
      BY DEF Owned
    <3>2. pending[t].site = "domain" /\ link.up
      BY <1>1, <1>4, <2>2, <3>1
    <3> QED
      BY <3>2 DEF LinkInv
  <2>4. /\ proc'[p] = r /\ \A q \in Processes \ {p} : proc'[q] = proc[q]
        /\ \A u \in Threads : pending[u].child \subseteq Processes
    BY <1>2 DEF ProcMoves, Turns, Sound, Shape, ShapeInv, CallRecords
  <2>5. CatchAllHasServers'
    BY <2>1, <2>3 DEF LinkInv, CatchAllHasServers
  <2>6. \A t \in Threads : pending'[t].site = "domain" /\ link'.up => link'.servers
    BY <1>1, <2>1 DEF LinkInv
  <2>7. ASSUME NEW t \in Threads, NEW q \in pending[t].child, pending[t].site = "dns",
               proc'[q].life = "exited", proc'[q].ok, link.up
        PROVE  link'.servers
    BY <2>1, <2>2, <2>4, <2>7 DEF LinkInv
  <2> QED
    BY <1>1, <2>1, <2>5, <2>6, <2>7 DEF LinkInv
<1> QED
  BY <1>3, <1>4

LEMMA LinkStep == Sound /\ LinkInv /\ [RunnerNext]_runnerVars => LinkInv'
<1> SUFFICES ASSUME Sound, LinkInv, [RunnerNext]_runnerVars PROVE LinkInv'
  OBVIOUS
<1>0. pending \in [Threads -> CallRecords] /\ <<>> \in Nexts
  BY DEF Sound, Shape, ShapeInv, Nexts
<1>a. ASSUME NEW t \in Threads, GivesUp(t), UNCHANGED link PROVE LinkInv'
  <2>1. pending'[t] = NoCall /\ proc' = proc /\ \A u \in Threads \ {t} : pending'[u] = pending[u]
    BY <1>0, <1>a DEF GivesUp
  <2> QED
    BY <1>a, <2>1, NoFields, LinkFrame
<1>1. ASSUME NEW t \in Threads, Run(t) PROVE LinkInv'
  BY <1>0, <1>1, LinkSpawn DEF Run
<1>2. ASSUME NEW t \in Threads, StdinWritten(t) PROVE LinkInv'
  <2>1. /\ proc' = proc /\ link' = link
        /\ pending'[t].site = pending[t].site /\ pending'[t].child = pending[t].child
        /\ \A u \in Threads \ {t} : pending'[u] = pending[u]
    BY <1>0, <1>2 DEF StdinWritten, CallRecords
  <2> QED
    BY <2>1, LinkFrame
<1>3. ASSUME NEW t \in Threads, StdinRefused(t) \/ Timeout(t) PROVE LinkInv'
  BY <1>3, <1>a DEF StdinRefused, Timeout, Returns, GivesUp
<1>4. ASSUME NEW t \in Threads, ReadOutput(t) PROVE LinkInv'
  <2>1. PICK p \in Processes : \E r \in ProcRecords : ProcMoves(p, r) /\ LifeKept(r, proc[p])
    BY <1>4, ReadMoves DEF Sound
  <2>2. PICK r \in ProcRecords : ProcMoves(p, r) /\ LifeKept(r, proc[p])
    BY <2>1
  <2> QED
    BY <1>4, <2>2, LinkMoves DEF ReadOutput
<1>5. ASSUME NEW t \in Threads, Probe(t) PROVE LinkInv'
  <2>1. CASE UNCHANGED <<pending, proc>>
    BY <1>5, <2>1, LinkFrame DEF Probe
  <2>2. CASE pending' = [pending EXCEPT ![t] = Cleared] /\ proc' = proc
    <3>1. pending'[t] = Cleared /\ \A u \in Threads \ {t} : pending'[u] = pending[u]
      BY <1>0, <2>2
    <3> QED
      BY <1>5, <2>2, <3>1, ClearedFields, LinkFrame DEF Probe
  <2> QED
    BY <1>5, <2>1, <2>2 DEF Probe, Cleared
<1>6. ASSUME NEW t \in Threads, ProbeStarts(t) PROVE LinkInv'
  <2>1. "route" \in Sites \ {"dns", "domain"}
    BY <1>6 DEF ProbeStarts, Sound, Shape, ShapeInv, OwnInv, CallRecords
  <2> QED
    BY <1>0, <1>6, <2>1, LinkSpawn DEF ProbeStarts
<1>7. ASSUME NEW t \in Threads, SetLinkDns(t) PROVE LinkInv'
  <2>1. PICK authoritative \in BOOLEAN :
          Spawn(t, Head(LinkSpecs(authoritative)), Tail(LinkSpecs(authoritative)))
    BY <1>7 DEF SetLinkDns
  <2> DEFINE next == Tail(LinkSpecs(authoritative))
  <2>2. next \in Nexts /\ Spawn(t, "dns", next) /\ "dns" \in Sites
    BY <1>7, <2>1, LinkCalls DEF SetLinkDns
  <2> HIDE DEF next
  <2>3. /\ link' \in LinkRecords /\ link'.catchAll = FALSE
        /\ \A u \in Threads : pending[u].site \notin {"dns", "domain"}
    BY <1>7, NewLinks DEF SetLinkDns
  <2>4. CASE GivesUp(t)
    <3>1. pending'[t] = NoCall /\ proc' = proc /\ \A u \in Threads \ {t} : pending'[u] = pending[u]
      BY <1>0, <2>4 DEF GivesUp
    <3> QED
      BY <2>3, <3>1, NoFields DEF LinkInv, CatchAllHasServers
  <2>5. ASSUME NEW p \in Processes, SetsOff(t, p, "dns", next) PROVE LinkInv'
    <3>1. /\ pending'[t].site = "dns" /\ pending'[t].child = {p} /\ proc'[p].life = "running"
          /\ \A u \in Threads \ {t} : pending'[u] = pending[u]
      BY <2>2, <2>5, BeginsFacts
    <3> QED
      BY <2>3, <3>1 DEF LinkInv, CatchAllHasServers
  <2> QED
    BY <2>2, <2>4, <2>5, SpawnFacts
<1>8. ASSUME NEW t \in Threads, Finished(t) PROVE LinkInv'
  BY <1>8, LinkFinished DEF Finished
<1>9. ASSUME NEW p \in Processes,
             ProgramReads(p) \/ ProgramWrites(p) \/ ProgramForks(p) \/ GrandchildEnds(p)
      PROVE  LinkInv'
  <2>1. PICK r \in ProcRecords : ProcMoves(p, r) /\ LifeKept(r, proc[p])
    BY <1>9, ProgramMoves DEF Sound
  <2> QED
    BY <1>9, <2>1, LinkMoves DEF ProgramReads, ProgramWrites, ProgramForks, GrandchildEnds
<1>10. ASSUME NEW p \in Processes, ProgramEnds(p) PROVE LinkInv'
  BY <1>10, LinkEnds
<1>11. ASSUME NEW p \in Processes, Reaped(p) PROVE LinkInv'
  <2>1. /\ pending' = pending /\ link' = link
        /\ \A u \in Threads : p \notin pending[u].child
        /\ \A q \in Processes \ {p} : proc'[q] = proc[q]
        /\ \A u \in Threads : pending[u].child \subseteq Processes
    BY <1>11 DEF Reaped, Owned, Sound, Shape, ShapeInv, CallRecords
  <2> QED
    BY <2>1, LinkFrame
<1>12. CASE LinkDown
  BY <1>12, NewLinks DEF LinkDown, LinkInv, CatchAllHasServers
<1>13. ASSUME UNCHANGED <<pending, proc, link>> PROVE LinkInv'
  BY <1>13, LinkFrame
<1> QED
  BY <1>1, <1>2, <1>3, <1>4, <1>5, <1>6, <1>7, <1>8, <1>9, <1>10, <1>11, <1>12, <1>13
  DEF RunnerNext, CooldownEnds, runnerVars

-----------------------------------------------------------------------------

\* However many threads call however many programs, and however many of them hang,
\* fork or end badly: no call waits for a daemon's pipes, none comes back with less
\* than its program wrote, the backoff lets through only the probes it had cleared,
\* and a link that claims all names has servers or was claimed by a call given up.
THEOREM CallsEndHolds == RunnerSpec => []CallsEnd
<1>1. RunnerInit => Sound
  BY NoRecords, NoFields DEF RunnerInit, Sound, Shape, ShapeInv, OwnInv, PipeInv
<1>2. RunnerInit => AnswersAreWhole
  BY DEF RunnerInit, AnswersAreWhole
<1>3. RunnerInit => BackInv
  BY RunnerAssumption DEF RunnerInit, BackInv, RunnerAssumption
<1>4. RunnerInit => LinkInv
  BY NoFields, NewLinks DEF RunnerInit, LinkInv, CatchAllHasServers
<1>5. Sound /\ AnswersAreWhole /\ BackInv /\ LinkInv => CallsEnd
  BY SoundWaits, BacksOff DEF LinkInv, CallsEnd
<1> QED
  BY <1>1, <1>2, <1>3, <1>4, <1>5, SoundStep, AnswerStep, BackStep, LinkStep, PTL DEF RunnerSpec

-----------------------------------------------------------------------------
(* Types                                                                   *)

\* The answer is one of the two there are.
AnswerInv == answer \in Answers

LEMMA AnswerTyped == AnswerInv /\ [RunnerNext]_runnerVars => AnswerInv'
<1> SUFFICES ASSUME answer \in Answers, [RunnerNext]_runnerVars PROVE answer' \in Answers
  BY DEF AnswerInv
<1> USE DEF Answers
<1>1. ASSUME NEW t \in Threads, NEW site, NEW next, Spawn(t, site, next) PROVE answer' \in Answers
  BY <1>1 DEF Spawn, Returns
<1>2. \A p \in Processes : Result(p) \in Answers
  BY DEF Result
<1>3. ASSUME NEW t \in Threads, Run(t) \/ ProbeStarts(t) \/ SetLinkDns(t) PROVE answer' \in Answers
  BY <1>1, <1>3 DEF Run, ProbeStarts, SetLinkDns
<1>4. ASSUME NEW t \in Threads, StdinWritten(t) \/ StdinRefused(t) \/ ReadOutput(t) \/ Probe(t) \/ Timeout(t)
      PROVE  answer' \in Answers
  BY <1>4 DEF StdinWritten, StdinRefused, ReadOutput, Probe, Timeout, Returns
<1>5. ASSUME NEW t \in Threads, Finished(t) PROVE answer' \in Answers
  <2>1. answer' = answer \/ \E p : answer' = Result(p)
    BY <1>5 DEF Finished, Returns
  <2> QED  BY <2>1 DEF Result
<1>6. ASSUME NEW p \in Processes,
             \/ ProgramReads(p) \/ ProgramWrites(p) \/ ProgramForks(p) \/ ProgramEnds(p)
             \/ Reaped(p) \/ GrandchildEnds(p)
      PROVE  answer' \in Answers
  BY <1>6 DEF ProgramReads, ProgramWrites, ProgramForks, ProgramEnds, Reaped, GrandchildEnds
<1>7. CASE CooldownEnds \/ LinkDown \/ UNCHANGED runnerVars
  BY <1>7 DEF CooldownEnds, LinkDown, runnerVars
<1> QED  BY <1>3, <1>4, <1>5, <1>6, <1>7 DEF RunnerNext

\* A call waits for one program or none.
LEMMA CallTyped ==
  ASSUME Sound, NEW t \in Threads
  PROVE  pending[t] \in [site: Sites \union {"none"}, stage: {"idle", "cleared", "writing", "waiting"},
                         child: {{}} \union {{p} : p \in Processes},
                         next: {<<>>, <<"domain">>, <<"dns">>}]
<1>1. pending[t] \in CallRecords
  BY DEF Sound, Shape, ShapeInv
<1>2. pending[t].child \in {{}} \union {{p} : p \in Processes}
  <2>1. pending[t].child \subseteq Processes
    BY <1>1 DEF CallRecords
  <2>2. \A p \in pending[t].child : pending[t].child = {p}
    BY DEF Sound, Shape, OwnInv
  <2> QED  BY <2>1, <2>2
<1> QED  BY <1>1, <1>2 DEF CallRecords, Stages, Nexts

\* Calls, programs, the backoff and the link keep their types, for any number of
\* threads and processes.
THEOREM RunnerTypeCorrect == RunnerSpec => []RunnerTypeOK
<1>1. RunnerInit => Sound
  BY NoRecords, NoFields DEF RunnerInit, Sound, Shape, ShapeInv, OwnInv, PipeInv
<1>2. RunnerInit => AnswerInv
  BY DEF RunnerInit, AnswerInv, Answers
<1>3. RunnerInit => BackInv
  BY RunnerAssumption DEF RunnerInit, BackInv, RunnerAssumption
<1>4. RunnerInit => LinkInv
  BY NoFields, NewLinks DEF RunnerInit, LinkInv, CatchAllHasServers
<1>5. Sound /\ AnswerInv /\ BackInv /\ LinkInv => RunnerTypeOK
  <2> SUFFICES ASSUME Sound, AnswerInv, BackInv, LinkInv PROVE RunnerTypeOK
    OBVIOUS
  <2>1. pending \in [Threads -> [site: Sites \union {"none"},
                                 stage: {"idle", "cleared", "writing", "waiting"},
                                 child: {{}} \union {{p} : p \in Processes},
                                 next: {<<>>, <<"domain">>, <<"dns">>}]]
    <3>1. pending \in [Threads -> CallRecords]
      BY DEF Sound, Shape, ShapeInv
    <3> QED  BY <3>1, CallTyped
  <2>2. proc \in [Processes -> ProcRecords]
    BY DEF Sound, Shape, ShapeInv
  <2> QED  BY <2>1, <2>2 DEF ProcRecords, AnswerInv, BackInv, LinkInv, LinkRecords, RunnerTypeOK
<1> QED
  BY <1>1, <1>2, <1>3, <1>4, <1>5, SoundStep, AnswerTyped, BackStep, LinkStep, PTL DEF RunnerSpec

-----------------------------------------------------------------------------
(* ProtocolDrivers: definitions                                              *)

DriveStages == {"idle", "probe", "bundle", "spawn", "socket", "auth", "join", "poll",
           "kill", "pkill", "unlink", "quick", "wgDown"}
MgmtStates == {"none", "waits", "held", "released", "answered", "failed"}
DriveRecords == [at : DriveStages, name : OvpnNames \cup WgNames \cup {Nobody},
                 pid : 0..MaxDaemons, mgmt : MgmtStates]

\* One call at a time for a profile, of the profile's protocol; a daemon that
\* was started belongs to a profile of openvpn.
CallsInv ==
    /\ drive \in [Runners -> DriveRecords]
    /\ \A r \in Runners :
          /\ drive[r].at = "idle" <=> drive[r].name = Nobody
          /\ drive[r].at \in {"quick", "wgDown"} => drive[r].name \in WgNames
          /\ drive[r].at \notin {"idle", "quick", "wgDown"} => drive[r].name \in OvpnNames
    /\ \A r, s \in Runners :
          drive[r].name = drive[s].name => r = s \/ drive[r].name = Nobody
    /\ \A d \in Daemons : daemon[d].st # "none" => daemon[d].name \in OvpnNames

\* Until the bundle is read, and until wg-quick has answered, a secret is the
\* running attempt's.
SecretsInv ==
    /\ \A n \in bundle :
          n \in left \/ \E r \in Runners : drive[r].name = n /\ drive[r].at \in {"probe", "bundle"}
    /\ \A t \in temps :
          t[2] \in left \/ (drive[t[1]].name = t[2] /\ drive[t[1]].at = "quick")

\* Not told to stop.
Serving(d) == daemon[d].st \in {"parent", "forked", "up"}
Tracked(n, d) == pidFile[n] = d /\ daemon[d].st # "parent"

\* Where a call at that stage has a daemon of its profile.
Fits(at, n, d) ==
    /\ at = "probe" => Tracked(n, d)
    /\ at \notin {"bundle", "spawn"}
    /\ at \in {"socket", "auth", "join", "poll"} => runLog[n].by = d
    /\ at = "poll" => Tracked(n, d)

Placed(n, d) ==
    /\ n \notin orphaned =>
          /\ ~Driven(n) => Tracked(n, d)
          /\ \A r \in Runners : drive[r].name = n => Fits(drive[r].at, n, d)
    /\ \A r \in Runners : drive[r].name = n => drive[r].at # "unlink"

StrayInv ==
    \A d \in Daemons, n \in OvpnNames : Serving(d) /\ daemon[d].name = n => Placed(n, d)

MachineTypes ==
    /\ daemon \in [Daemons -> [name : OvpnNames \cup {Nobody},
                               st : {"none", "parent", "forked", "up", "dying", "dead"}]]
    /\ pidFile \in [OvpnNames -> 0..MaxDaemons]
    /\ runLog \in [OvpnNames -> [by : 0..MaxDaemons,
                       says : {"nothing", "success", "noInterface", "failure"}]]
    /\ bundle \subseteq OvpnNames /\ socket \subseteq OvpnNames
    /\ temps \subseteq Runners \X WgNames /\ wgUp \subseteq WgNames
    /\ left \subseteq OvpnNames \cup WgNames /\ orphaned \subseteq OvpnNames \cup WgNames

DriverInv == MachineTypes /\ CallsInv /\ SecretsInv /\ StrayInv

-----------------------------------------------------------------------------
LEMMA RecordFields ==
    /\ \A x \in DriveRecords : /\ x.at \in DriveStages /\ x.name \in OvpnNames \cup WgNames \cup {Nobody}
                               /\ x.pid \in 0..MaxDaemons /\ x.mgmt \in MgmtStates
    /\ NoDrive \in DriveRecords /\ NoDrive.at = "idle" /\ NoDrive.name = Nobody
<1>1. \A x \in DriveRecords : /\ x.at \in DriveStages /\ x.name \in OvpnNames \cup WgNames \cup {Nobody}
                              /\ x.pid \in 0..MaxDaemons /\ x.mgmt \in MgmtStates
  BY DEF DriveRecords
<1>2. 0 \in 0..MaxDaemons
  BY DriverAssumption
<1>3. NoDrive \in DriveRecords /\ NoDrive.at = "idle" /\ NoDrive.name = Nobody
  BY <1>2 DEF NoDrive, DriveRecords, DriveStages, MgmtStates
<1> QED  BY <1>1, <1>3

\* What r's call is afterwards, and nothing else of the calls.
Becomes(r, w) ==
    /\ drive' \in [Runners -> DriveRecords] /\ drive'[r] = w
    /\ \A s \in Runners : s # r => drive'[s] = drive[s]

\* The forms in which the actions change a call.
LEMMA DriveMoves ==
    ASSUME CallsInv, NEW r \in Runners
    PROVE  /\ \A w \in DriveRecords : drive' = [drive EXCEPT ![r] = w] => Becomes(r, w)
           /\ \A a \in DriveStages : Proceeds(r, a) =>
                 \E w \in DriveRecords : Becomes(r, w) /\ w.at = a /\ w.name = drive[r].name
           /\ \A m \in MgmtStates : drive' = [drive EXCEPT ![r].mgmt = m] =>
                 \E w \in DriveRecords : Becomes(r, w) /\ w.at = drive[r].at /\ w.name = drive[r].name
           /\ \A a \in DriveStages, m \in MgmtStates : drive' = [drive EXCEPT ![r].at = a, ![r].mgmt = m] =>
                 \E w \in DriveRecords : Becomes(r, w) /\ w.at = a /\ w.name = drive[r].name
           /\ FailsWith(r) /\ pidFile[drive[r].name] \in 0..MaxDaemons =>
                 \E w \in DriveRecords : Becomes(r, w) /\ w.at = "kill" /\ w.name = drive[r].name
<1>1. drive \in [Runners -> DriveRecords] /\ drive[r] \in DriveRecords
  BY DEF CallsInv
<1>2. \A w \in DriveRecords : drive' = [drive EXCEPT ![r] = w] => Becomes(r, w)
  BY <1>1 DEF Becomes
<1>3. ASSUME NEW a \in DriveStages, Proceeds(r, a)
      PROVE  \E w \in DriveRecords : Becomes(r, w) /\ w.at = a /\ w.name = drive[r].name
  <2>1. drive' = [drive EXCEPT ![r] = [drive[r] EXCEPT !.at = a]]
    BY <1>3 DEF Proceeds
  <2>2. "none" \in MgmtStates /\ 0 \in 0..MaxDaemons
    BY DriverAssumption DEF MgmtStates
  <2>3. LET y == [drive[r] EXCEPT !.at = a] IN y \in DriveRecords /\ y.at = a /\ y.name = drive[r].name
    BY <1>1, <2>2 DEF DriveRecords
  <2> QED  BY <1>2, <2>1, <2>3
<1>4. ASSUME NEW m \in MgmtStates, drive' = [drive EXCEPT ![r].mgmt = m]
      PROVE  \E w \in DriveRecords : Becomes(r, w) /\ w.at = drive[r].at /\ w.name = drive[r].name
  <2>1. drive' = [drive EXCEPT ![r] = [drive[r] EXCEPT !.mgmt = m]]
    BY <1>4
  <2>2. "idle" \in DriveStages /\ 0 \in 0..MaxDaemons
    BY DriverAssumption DEF DriveStages
  <2>3. LET y == [drive[r] EXCEPT !.mgmt = m] IN y \in DriveRecords /\ y.at = drive[r].at /\ y.name = drive[r].name
    BY <1>1, <2>2 DEF DriveRecords
  <2> QED  BY <1>2, <2>1, <2>3
<1>5. ASSUME NEW a \in DriveStages, NEW m \in MgmtStates, drive' = [drive EXCEPT ![r].at = a, ![r].mgmt = m]
      PROVE  \E w \in DriveRecords : Becomes(r, w) /\ w.at = a /\ w.name = drive[r].name
  <2>1. drive' = [drive EXCEPT ![r] = [drive[r] EXCEPT !.at = a, !.mgmt = m]]
    BY <1>1, <1>5
  <2>2. 0 \in 0..MaxDaemons
    BY DriverAssumption
  <2>3. LET y == [drive[r] EXCEPT !.at = a, !.mgmt = m] IN y \in DriveRecords /\ y.at = a /\ y.name = drive[r].name
    BY <1>1, <2>2 DEF DriveRecords
  <2> QED  BY <1>2, <2>1, <2>3
<1>6. ASSUME FailsWith(r), pidFile[drive[r].name] \in 0..MaxDaemons
      PROVE  \E w \in DriveRecords : Becomes(r, w) /\ w.at = "kill" /\ w.name = drive[r].name
  <2> DEFINE p == pidFile[drive[r].name]
  <2>1. drive' = [drive EXCEPT ![r] = [drive[r] EXCEPT !.at = "kill", !.pid = p]]
    BY <1>1, <1>6 DEF FailsWith
  <2>2. "kill" \in DriveStages /\ "none" \in MgmtStates
    BY DEF DriveStages, MgmtStates
  <2> HIDE DEF p
  <2>3. p \in 0..MaxDaemons
    BY <1>6 DEF p
  <2>4. LET y == [drive[r] EXCEPT !.at = "kill", !.pid = p] IN y \in DriveRecords /\ y.at = "kill" /\ y.name = drive[r].name
    BY <1>1, <2>2, <2>3 DEF DriveRecords
  <2> QED  BY <1>2, <2>1, <2>4
<1> QED  BY <1>2, <1>3, <1>4, <1>5, <1>6

LEMMA TypesImply == MachineTypes /\ CallsInv => DriverTypeOK
BY RecordFields DEF MachineTypes, CallsInv, DriverTypeOK, MgmtStates

DaemonsNamed == \A d \in Daemons : daemon[d].st # "none" => daemon[d].name \in OvpnNames
WgStages == {"quick", "wgDown"}

\* A step within a call, the end of a call, and a call that begins.
LEMMA WithinCall ==
    ASSUME CallsInv, NEW r \in Runners, NEW w \in DriveRecords, Becomes(r, w),
           w.name = drive[r].name, w.at # "idle", drive[r].at # "idle",
           w.at \in WgStages <=> drive[r].at \in WgStages, DaemonsNamed'
    PROVE  CallsInv' /\ \A n : Driven(n)' <=> Driven(n)
<1>1. \A s \in Runners : drive'[s].name = drive[s].name
  BY DEF Becomes
<1>2. \A n : Driven(n)' <=> Driven(n)
  BY <1>1 DEF Driven
<1>3. ASSUME NEW s \in Runners
      PROVE  /\ drive'[s].at = "idle" <=> drive'[s].name = Nobody
             /\ drive'[s].at \in {"quick", "wgDown"} => drive'[s].name \in WgNames
             /\ drive'[s].at \notin {"idle", "quick", "wgDown"} => drive'[s].name \in OvpnNames
  BY <1>1 DEF Becomes, CallsInv, WgStages
<1>4. \A s, t \in Runners : drive'[s].name = drive'[t].name => s = t \/ drive'[s].name = Nobody
  BY <1>1 DEF CallsInv
<1> QED  BY <1>2, <1>3, <1>4 DEF CallsInv, Becomes, DaemonsNamed

LEMMA CallEnds ==
    ASSUME CallsInv, NEW r \in Runners, Becomes(r, NoDrive), DaemonsNamed',
           drive[r].at # "idle"
    PROVE  /\ CallsInv'
           /\ \A n \in OvpnNames \cup WgNames :
                 n # drive[r].name => (Driven(n)' <=> Driven(n))
<1>1. \A s \in Runners : s # r => drive'[s] = drive[s]
  BY DEF Becomes
<1>2. drive'[r].at = "idle" /\ drive'[r].name = Nobody
  BY RecordFields DEF Becomes
<1>3. \A n \in OvpnNames \cup WgNames : n # drive[r].name => (Driven(n)' <=> Driven(n))
  BY <1>1, <1>2, DriverAssumption DEF Driven
<1>4. ASSUME NEW s \in Runners
      PROVE  /\ drive'[s].at = "idle" <=> drive'[s].name = Nobody
             /\ drive'[s].at \in {"quick", "wgDown"} => drive'[s].name \in WgNames
             /\ drive'[s].at \notin {"idle", "quick", "wgDown"} => drive'[s].name \in OvpnNames
  BY <1>1, <1>2 DEF CallsInv
<1>5. \A s, t \in Runners : drive'[s].name = drive'[t].name => s = t \/ drive'[s].name = Nobody
  BY <1>1, <1>2 DEF CallsInv
<1> QED  BY <1>3, <1>4, <1>5 DEF CallsInv, Becomes, DaemonsNamed

LEMMA CallBegins ==
    ASSUME CallsInv, NEW r \in Runners, NEW n \in OvpnNames \cup WgNames, NEW a \in DriveStages,
           NEW pid \in 0..MaxDaemons, Takes(r, n, a, pid), a # "idle",
           a \in WgStages => n \in WgNames, a \notin WgStages => n \in OvpnNames, DaemonsNamed'
    PROVE  /\ CallsInv' /\ ~Driven(n) /\ Driven(n)' /\ drive[r].at = "idle"
           /\ \E w \in DriveRecords : Becomes(r, w) /\ w.at = a /\ w.name = n
           /\ \A m : m # n /\ m # Nobody => (Driven(m)' <=> Driven(m))
<1> DEFINE w == [NoDrive EXCEPT !.at = a, !.name = n, !.pid = pid]
<1>1. w \in DriveRecords /\ w.at = a /\ w.name = n
  BY RecordFields DEF DriveRecords, NoDrive, MgmtStates
<1>2. drive' = [drive EXCEPT ![r] = w]
  BY DEF Takes
<1> HIDE DEF w
<1>a. drive[r].at = "idle" /\ ~Driven(n)
  BY DEF Takes, At
<1>3. Becomes(r, w)
  BY <1>1, <1>2, DriveMoves
<1>4. /\ drive'[r].at = a /\ drive'[r].name = n /\ drive[r].name = Nobody /\ n # Nobody
      /\ \A s \in Runners : s # r => drive'[s] = drive[s]
  BY <1>1, <1>a, <1>3, DriverAssumption DEF Becomes, CallsInv
<1>5. /\ Driven(n)' /\ \A m : m # n /\ m # Nobody => (Driven(m)' <=> Driven(m))
  BY <1>4 DEF Driven
<1>6. ASSUME NEW s \in Runners
      PROVE  /\ drive'[s].at = "idle" <=> drive'[s].name = Nobody
             /\ drive'[s].at \in {"quick", "wgDown"} => drive'[s].name \in WgNames
             /\ drive'[s].at \notin {"idle", "quick", "wgDown"} => drive'[s].name \in OvpnNames
  BY <1>4 DEF CallsInv, WgStages
<1>7. \A s, t \in Runners : drive'[s].name = drive'[t].name => s = t \/ drive'[s].name = Nobody
  BY <1>a, <1>4 DEF CallsInv, Driven
<1>8. CallsInv'
  BY <1>3, <1>6, <1>7 DEF CallsInv, Becomes, DaemonsNamed
<1> QED  BY <1>1, <1>a, <1>3, <1>5, <1>8

\* A step of a call that neither clears nor trusts anything more than before.
LEMMA QuietStray ==
    ASSUME CallsInv, StrayInv, NEW r \in Runners, NEW w \in DriveRecords, Becomes(r, w),
           w.name = drive[r].name, \A n : Driven(n)' <=> Driven(n),
           UNCHANGED <<pidFile, runLog>>, orphaned \subseteq orphaned',
           \A d \in Daemons : Serving(d)' => Serving(d) /\ daemon'[d] = daemon[d],
           w.at \notin {"idle", "probe", "bundle", "spawn", "poll", "unlink"},
           w.at \in {"socket", "auth", "join"} => drive[r].at \in {"socket", "auth", "join"}
    PROVE  StrayInv'
<1> SUFFICES ASSUME NEW d \in Daemons, NEW n \in OvpnNames, Serving(d)', daemon'[d].name = n
             PROVE  Placed(n, d)'
  BY DEF StrayInv
<1>1. Serving(d) /\ daemon'[d] = daemon[d] /\ daemon[d].name = n /\ Placed(n, d)
  BY DEF StrayInv
<1>2. Tracked(n, d) => Tracked(n, d)'
  BY <1>1 DEF Tracked
<1>3. ASSUME NEW s \in Runners, drive'[s].name = n
      PROVE  /\ drive'[s].at # "unlink"
             /\ n \notin orphaned => Fits(drive[s].at, n, d)'
  <2>1. CASE s = r
    BY <2>1, <1>1, <1>3 DEF Becomes, Placed, Fits
  <2>2. CASE s # r
    BY <2>2, <1>1, <1>2, <1>3 DEF Becomes, Placed, Fits
  <2> QED  BY <2>1, <2>2
<1>4. n \notin orphaned' => (~Driven(n)' => Tracked(n, d)')
  BY <1>1, <1>2 DEF Placed
<1> QED  BY <1>3, <1>4 DEF Placed, Fits, Tracked

\* A step of the machine that no call takes, and one of a call of wg-quick.
LEMMA SameStray ==
    ASSUME StrayInv, UNCHANGED <<daemon, pidFile, runLog, orphaned>>,
           \A n \in OvpnNames : Driven(n)' <=> Driven(n),
           \A s \in Runners : drive'[s].name \in OvpnNames => drive'[s] = drive[s]
    PROVE  StrayInv'
<1> SUFFICES ASSUME NEW d \in Daemons, NEW n \in OvpnNames, Serving(d)', daemon'[d].name = n
             PROVE  Placed(n, d)'
  BY DEF StrayInv
<1>1. Placed(n, d)
  BY DEF StrayInv, Serving
<1> QED  BY <1>1 DEF Placed, Fits, Tracked

LEMMA MoveBoth ==
    ASSUME CallsInv, NEW r \in Runners, NEW a \in DriveStages, NEW m \in MgmtStates,
           drive' = [drive EXCEPT ![r].at = a, ![r].mgmt = m]
    PROVE  \E w \in DriveRecords : Becomes(r, w) /\ w.at = a /\ w.name = drive[r].name
BY DriveMoves

-----------------------------------------------------------------------------
(* OvpnTunnel::up, one action at a time *)

LEMMA NamedNow == DriverInv => DaemonsNamed
BY DEF DriverInv, CallsInv, DaemonsNamed

LEMMA StageSets == /\ {"idle", "probe", "bundle", "spawn", "socket", "auth", "join", "poll",
                       "kill", "pkill", "unlink", "quick", "wgDown"} = DriveStages
                   /\ 0 \in 0..MaxDaemons
BY DriverAssumption DEF DriveStages

LEMMA OvpnUpStep ==
    ASSUME DriverInv, NEW r \in Runners, NEW n \in OvpnNames, NEW mfa \in BOOLEAN, OvpnUp(r, n, mfa)
    PROVE  DriverInv'
<1>1. /\ Takes(r, n, "probe", 0)
      /\ bundle' \in {bundle, bundle \cup {n}} /\ left' = left \ {n}
      /\ UNCHANGED <<daemon, pidFile, runLog, socket, wgUp, temps, orphaned>>
  BY DEF OvpnUp, machine
<1>2. /\ CallsInv' /\ ~Driven(n) /\ Driven(n)' /\ drive[r].at = "idle"
      /\ \A m : m # n /\ m # Nobody => (Driven(m)' <=> Driven(m))
      /\ \E w \in DriveRecords : Becomes(r, w) /\ w.at = "probe" /\ w.name = n
  BY <1>1, CallBegins, NamedNow, StageSets DEF DriverInv, WgStages, DaemonsNamed
<1>3. PICK w \in DriveRecords : Becomes(r, w) /\ w.at = "probe" /\ w.name = n
  BY <1>2
<1>4. MachineTypes'
  BY <1>1 DEF DriverInv, MachineTypes
<1>5. SecretsInv'
  <2>1. ASSUME NEW m \in bundle'
        PROVE  m \in left' \/ \E s \in Runners : drive'[s].name = m /\ drive'[s].at \in {"probe", "bundle"}
    <3>1. CASE m = n
      BY <3>1, <1>3 DEF Becomes
    <3>2. CASE m # n
      <4>1. m \in bundle /\ (m \in left => m \in left')
        BY <2>1, <3>2, <1>1
      <4>2. \A s \in Runners : drive[s].at \in {"probe", "bundle"} => drive'[s] = drive[s]
        BY <1>2, <1>3 DEF Becomes
      <4> QED  BY <4>1, <4>2 DEF DriverInv, SecretsInv
    <3> QED  BY <3>1, <3>2
  <2>2. ASSUME NEW t \in temps
        PROVE  t[2] \in left' \/ (drive'[t[1]].name = t[2] /\ drive'[t[1]].at = "quick")
    <3>1. t[2] \in WgNames /\ t[1] \in Runners /\ t[2] # n
      BY DriverAssumption DEF DriverInv, MachineTypes
    <3>2. drive[t[1]].at = "quick" => drive'[t[1]] = drive[t[1]]
      BY <3>1, <1>2, <1>3 DEF Becomes
    <3> QED  BY <3>1, <3>2, <1>1 DEF DriverInv, SecretsInv
  <2> QED  BY <2>1, <2>2, <1>1 DEF SecretsInv
<1>6. StrayInv'
  <2> SUFFICES ASSUME NEW d \in Daemons, NEW m \in OvpnNames, Serving(d)', daemon'[d].name = m
               PROVE  Placed(m, d)'
    BY DEF StrayInv
  <2>1. Serving(d) /\ daemon[d].name = m /\ Placed(m, d)
    BY <1>1 DEF DriverInv, StrayInv, Serving
  <2>2. ASSUME NEW s \in Runners, drive'[s].name = m
        PROVE  /\ drive'[s].at # "unlink"
               /\ m \notin orphaned => Fits(drive[s].at, m, d)'
    <3>1. CASE s = r
      <4>1. m = n /\ drive'[s].at = "probe"
        BY <3>1, <2>2, <1>3 DEF Becomes
      <4>2. m \notin orphaned => Tracked(m, d)
        BY <4>1, <2>1, <1>2 DEF Placed
      <4> QED  BY <4>1, <4>2, <1>1 DEF Fits, Tracked
    <3>2. CASE s # r
      BY <3>2, <2>1, <2>2, <1>1, <1>3 DEF Becomes, Placed, Fits, Tracked
    <3> QED  BY <3>1, <3>2
  <2>3. m \notin orphaned' => (~Driven(m)' => Tracked(m, d)')
    <3>1. m # Nobody
      BY DriverAssumption
    <3> QED  BY <3>1, <2>1, <1>1, <1>2 DEF Placed, Tracked
  <2> QED  BY <2>2, <2>3, <1>1 DEF Placed
<1> QED  BY <1>2, <1>4, <1>5, <1>6 DEF DriverInv

\* A step of r's call that leaves bundles, temporary configs and their owners.
LEMMA SameSecrets ==
    ASSUME DriverInv, NEW r \in Runners, NEW w \in DriveRecords, Becomes(r, w),
           drive[r].at \in {"probe", "bundle"} => w.at \in {"probe", "bundle"} /\ w.name = drive[r].name,
           drive[r].at # "quick", UNCHANGED <<bundle, temps>>, left \subseteq left'
    PROVE  SecretsInv'
<1>1. \A s \in Runners : drive[s].at \in {"probe", "bundle"} =>
         drive'[s].at \in {"probe", "bundle"} /\ drive'[s].name = drive[s].name
  BY DEF Becomes
<1>2. \A s \in Runners : drive[s].at = "quick" => drive'[s] = drive[s]
  BY DEF Becomes
<1>3. \A t \in temps : t[1] \in Runners
  BY DEF DriverInv, MachineTypes
<1>4. ASSUME NEW m \in bundle
      PROVE  m \in left' \/ \E s \in Runners : drive'[s].name = m /\ drive'[s].at \in {"probe", "bundle"}
  BY <1>1 DEF DriverInv, SecretsInv
<1>5. ASSUME NEW t \in temps
      PROVE  t[2] \in left' \/ (drive'[t[1]].name = t[2] /\ drive'[t[1]].at = "quick")
  BY <1>2, <1>3 DEF DriverInv, SecretsInv
<1> QED  BY <1>4, <1>5 DEF SecretsInv

LEMMA OvpnRefusedStep ==
    ASSUME DriverInv, NEW r \in Runners, OvpnRefused(r)
    PROVE  DriverInv'
<1> DEFINE n == drive[r].name
<1>1. /\ drive[r].at = "probe" /\ FailsWith(r) /\ left' = left \cup {n}
      /\ UNCHANGED <<daemon, pidFile, runLog, socket, wgUp, bundle, temps, orphaned>>
  BY DEF OvpnRefused, machine, At
<1>2. n \in OvpnNames /\ pidFile[n] \in 0..MaxDaemons
  BY <1>1 DEF DriverInv, CallsInv, MachineTypes
<1>3. PICK w \in DriveRecords : Becomes(r, w) /\ w.at = "kill" /\ w.name = n
  BY <1>1, <1>2, DriveMoves DEF DriverInv
<1>4. CallsInv' /\ \A m : Driven(m)' <=> Driven(m)
  BY <1>1, <1>3, WithinCall, NamedNow DEF DriverInv, WgStages, DaemonsNamed
<1>5. MachineTypes'
  BY <1>1, <1>2 DEF DriverInv, MachineTypes
<1>6. SecretsInv'
  <2>1. \A s \in Runners : s # r => drive'[s] = drive[s]
    BY <1>3 DEF Becomes
  <2>2. \A t \in temps : t[1] \in Runners
    BY DEF DriverInv, MachineTypes
  <2>3. ASSUME NEW m \in bundle
        PROVE  m \in left' \/ \E s \in Runners : drive'[s].name = m /\ drive'[s].at \in {"probe", "bundle"}
    BY <1>1, <2>1 DEF DriverInv, SecretsInv
  <2>4. ASSUME NEW t \in temps
        PROVE  t[2] \in left' \/ (drive'[t[1]].name = t[2] /\ drive'[t[1]].at = "quick")
    BY <1>1, <2>1, <2>2 DEF DriverInv, SecretsInv
  <2> QED  BY <2>3, <2>4, <1>1 DEF SecretsInv
<1>7. StrayInv'
  BY <1>1, <1>3, <1>4, QuietStray DEF DriverInv, Serving
<1> QED  BY <1>4, <1>5, <1>6, <1>7 DEF DriverInv

LEMMA OvpnCleansStep ==
    ASSUME DriverInv, NEW r \in Runners, OvpnCleans(r)
    PROVE  DriverInv'
<1> DEFINE n == drive[r].name
<1>1. /\ drive[r].at = "probe" /\ Proceeds(r, "bundle") /\ ~(pidFile[n] # 0 /\ Lives(pidFile[n]))
      /\ pidFile' = [pidFile EXCEPT ![n] = 0] /\ runLog' = [runLog EXCEPT ![n] = NoLog]
      /\ UNCHANGED <<daemon, socket, bundle, temps, wgUp, left, orphaned>>
  BY DEF OvpnCleans, At
<1>2. n \in OvpnNames /\ drive[r].name = n
  BY <1>1 DEF DriverInv, CallsInv
<1> HIDE DEF n
<1>3. PICK w \in DriveRecords : Becomes(r, w) /\ w.at = "bundle" /\ w.name = n
  BY <1>1, <1>2, DriveMoves, StageSets DEF DriverInv
<1>4. CallsInv' /\ \A m : Driven(m)' <=> Driven(m)
  BY <1>1, <1>2, <1>3, WithinCall, NamedNow DEF DriverInv, WgStages, DaemonsNamed
<1>5. /\ pidFile' \in [OvpnNames -> 0..MaxDaemons]
      /\ \A m \in OvpnNames : m # n => pidFile'[m] = pidFile[m] /\ runLog'[m] = runLog[m]
  BY <1>1, StageSets DEF DriverInv, MachineTypes
<1>6. MachineTypes'
  <2>1. NoLog \in [by : 0..MaxDaemons, says : {"nothing", "success", "noInterface", "failure"}]
    BY StageSets DEF NoLog
  <2>2. runLog' \in [OvpnNames -> [by : 0..MaxDaemons, says : {"nothing", "success", "noInterface", "failure"}]]
    BY <2>1, <1>1 DEF DriverInv, MachineTypes
  <2> QED  BY <2>2, <1>1, <1>5 DEF DriverInv, MachineTypes
<1>7. SecretsInv'
  BY <1>1, <1>2, <1>3, SameSecrets
<1>8. StrayInv'
  <2> SUFFICES ASSUME NEW d \in Daemons, NEW m \in OvpnNames, Serving(d)', daemon'[d].name = m
               PROVE  Placed(m, d)'
    BY DEF StrayInv
  <2>1. Serving(d) /\ daemon[d].name = m /\ Placed(m, d)
    BY <1>1 DEF DriverInv, StrayInv, Serving
  <2>2. CASE m = n
    <3>1. ~Tracked(n, d)
      <4>1. d # 0 /\ Lives(d)
        BY <2>1 DEF Daemons, Serving, Lives
      <4> QED  BY <4>1, <1>1 DEF Tracked
    <3>2. n \in orphaned
      BY <2>1, <2>2, <3>1, <1>1, <1>2 DEF Placed, Fits
    <3>3. \A s \in Runners : drive'[s].name = n => drive'[s].at # "unlink"
      BY <2>1, <2>2, <1>2, <1>3 DEF Placed, Becomes
    <3> QED  BY <2>2, <3>2, <3>3, <1>1 DEF Placed
  <2>3. CASE m # n
    <3>1. \A s \in Runners : drive'[s].name = m => drive'[s] = drive[s]
      BY <2>3, <1>3 DEF Becomes
    <3> QED  BY <2>1, <2>3, <3>1, <1>1, <1>4, <1>5 DEF Placed, Fits, Tracked
  <2> QED  BY <2>2, <2>3
<1> QED  BY <1>4, <1>6, <1>7, <1>8 DEF DriverInv

\* The daemons of another profile stay where they were.
LEMMA OtherPlaced ==
    ASSUME NEW r \in Runners, NEW w \in DriveRecords, Becomes(r, w), NEW d \in Daemons,
           NEW m \in OvpnNames, m # w.name, daemon'[d] = daemon[d],
           pidFile'[m] = pidFile[m], runLog'[m] = runLog[m],
           m \in orphaned => m \in orphaned', Driven(m)' <=> Driven(m), Placed(m, d)
    PROVE  Placed(m, d)'
<1>1. \A s \in Runners : drive'[s].name = m => drive'[s] = drive[s]
  BY DEF Becomes
<1> QED  BY <1>1 DEF Placed, Fits, Tracked

LEMMA OnlyDriver ==
    ASSUME CallsInv, NEW r \in Runners, NEW s \in Runners, NEW n \in OvpnNames \cup WgNames,
           drive[r].name = n, drive[s].name = n
    PROVE  s = r
BY DriverAssumption DEF CallsInv

LEMMA OvpnReadsBundleStep ==
    ASSUME DriverInv, NEW r \in Runners, OvpnReadsBundle(r)
    PROVE  DriverInv'
<1> DEFINE n == drive[r].name
           g == IF n \in bundle THEN "waits" ELSE "none"
<1>1. /\ drive[r].at = "bundle" /\ drive' = [drive EXCEPT ![r].at = "spawn", ![r].mgmt = g]
      /\ bundle' = bundle \ {n} /\ socket' \in {socket, socket \ {n}}
      /\ UNCHANGED <<daemon, pidFile, runLog, temps, wgUp, left, orphaned>>
  BY DEF OvpnReadsBundle, At
<1>2. n \in OvpnNames /\ drive[r].name = n /\ g \in MgmtStates
  BY <1>1 DEF DriverInv, CallsInv, MgmtStates
<1> HIDE DEF n, g
<1>3. PICK w \in DriveRecords : Becomes(r, w) /\ w.at = "spawn" /\ w.name = n
  <2>1. "spawn" \in DriveStages
    BY StageSets
  <2> QED  BY <1>1, <1>2, <2>1, MoveBoth DEF DriverInv
<1>4. CallsInv' /\ \A m : Driven(m)' <=> Driven(m)
  BY <1>1, <1>2, <1>3, WithinCall, NamedNow DEF DriverInv, WgStages, DaemonsNamed
<1>5. MachineTypes'
  BY <1>1 DEF DriverInv, MachineTypes
<1>6. SecretsInv'
  <2>1. \A s \in Runners : s # r => drive'[s] = drive[s]
    BY <1>3 DEF Becomes
  <2>2. \A t \in temps : t[1] \in Runners
    BY DEF DriverInv, MachineTypes
  <2>3. ASSUME NEW m \in bundle'
        PROVE  m \in left' \/ \E s \in Runners : drive'[s].name = m /\ drive'[s].at \in {"probe", "bundle"}
    <3>1. m \in bundle /\ m # n
      BY <2>3, <1>1
    <3> QED  BY <3>1, <1>1, <1>2, <2>1 DEF DriverInv, SecretsInv
  <2>4. ASSUME NEW t \in temps
        PROVE  t[2] \in left' \/ (drive'[t[1]].name = t[2] /\ drive'[t[1]].at = "quick")
    BY <1>1, <2>1, <2>2 DEF DriverInv, SecretsInv
  <2> QED  BY <2>3, <2>4, <1>1 DEF SecretsInv
<1>7. StrayInv'
  <2> SUFFICES ASSUME NEW d \in Daemons, NEW m \in OvpnNames, Serving(d)', daemon'[d].name = m
               PROVE  Placed(m, d)'
    BY DEF StrayInv
  <2>1. Placed(m, d)
    BY <1>1 DEF DriverInv, StrayInv, Serving
  <2>2. CASE m = n
    <3>1. n \in orphaned
      BY <2>1, <2>2, <1>1, <1>2 DEF Placed, Fits
    <3>2. \A s \in Runners : drive'[s].name = n => drive'[s].at # "unlink"
      BY <2>1, <2>2, <1>2, <1>3 DEF Placed, Becomes
    <3> QED  BY <2>2, <3>1, <3>2, <1>1 DEF Placed
  <2>3. CASE m # n
    BY <2>1, <2>3, <1>1, <1>3, <1>4, OtherPlaced
  <2> QED  BY <2>2, <2>3
<1> QED  BY <1>4, <1>5, <1>6, <1>7 DEF DriverInv

LEMMA OvpnSpawnsStep ==
    ASSUME DriverInv, NEW r \in Runners, OvpnSpawns(r)
    PROVE  DriverInv'
<1>0. drive[r].at = "spawn" /\ drive[r].name \in OvpnNames
  BY DEF OvpnSpawns, At, DriverInv, CallsInv
<1> PICK n \in OvpnNames : drive[r].name = n
  BY <1>0
<1>1. PICK d \in Daemons :
         /\ daemon[d] = NoDaemon
         /\ daemon' = [daemon EXCEPT ![d] = [name |-> n, st |-> "parent"]]
         /\ runLog' = [runLog EXCEPT ![n] = [NoLog EXCEPT !.by = d]]
  BY DEF OvpnSpawns
<1>2. PICK a \in {"join", "socket"} : Proceeds(r, a)
  BY DEF OvpnSpawns
<1>3. drive[r].at = "spawn" /\ UNCHANGED <<pidFile, socket, bundle, temps, wgUp, left, orphaned>>
  BY DEF OvpnSpawns, At
<1>4. n \in OvpnNames /\ drive[r].name = n /\ d \in 0..MaxDaemons
  BY <1>3, DriverAssumption DEF DriverInv, CallsInv, Daemons
<1>5. PICK w \in DriveRecords : Becomes(r, w) /\ w.at = a /\ w.name = n
  BY <1>2, <1>4, DriveMoves, StageSets DEF DriverInv
<1>6. /\ daemon'[d] = [name |-> n, st |-> "parent"]
      /\ \A e \in Daemons : e # d => daemon'[e] = daemon[e]
      /\ \A m \in OvpnNames : m # n => runLog'[m] = runLog[m]
      /\ runLog'[n].by = d
  <2>1. [NoLog EXCEPT !.by = d].by = d
    BY DEF NoLog
  <2> QED  BY <2>1, <1>1, <1>4 DEF DriverInv, MachineTypes
<1>7. CallsInv' /\ \A m : Driven(m)' <=> Driven(m)
  <2>1. DaemonsNamed'
    BY <1>4, <1>6, NamedNow DEF DaemonsNamed
  <2> QED  BY <2>1, <1>3, <1>4, <1>5, WithinCall DEF DriverInv, WgStages
<1>8. MachineTypes'
  <2>1. [NoLog EXCEPT !.by = d] \in [by : 0..MaxDaemons, says : {"nothing", "success", "noInterface", "failure"}]
    BY <1>4 DEF NoLog
  <2>2. runLog' \in [OvpnNames -> [by : 0..MaxDaemons, says : {"nothing", "success", "noInterface", "failure"}]]
    BY <2>1, <1>1 DEF DriverInv, MachineTypes
  <2>3. daemon' \in [Daemons -> [name : OvpnNames \cup {Nobody}, st : {"none", "parent", "forked", "up", "dying", "dead"}]]
    BY <1>1, <1>4 DEF DriverInv, MachineTypes
  <2> QED  BY <2>2, <2>3, <1>3 DEF DriverInv, MachineTypes
<1>9. SecretsInv'
  BY <1>3, <1>4, <1>5, SameSecrets
<1>10. StrayInv'
  <2> SUFFICES ASSUME NEW e \in Daemons, NEW m \in OvpnNames, Serving(e)', daemon'[e].name = m
               PROVE  Placed(m, e)'
    BY DEF StrayInv
  <2>1. CASE m # n
    <3>1. e # d /\ daemon'[e] = daemon[e]
      BY <2>1, <1>6
    <3>2. Placed(m, e)
      BY <3>1 DEF DriverInv, StrayInv, Serving
    <3> QED  BY <2>1, <3>1, <3>2, <1>3, <1>5, <1>6, <1>7, OtherPlaced
  <2>2. CASE m = n
    <3>1. \A s \in Runners : drive'[s].name = n => s = r
      BY <1>4, <1>5, OnlyDriver DEF DriverInv, Becomes
    <3>2. drive'[r].at = a /\ drive'[r].name = n
      BY <1>5 DEF Becomes
    <3>3. e = d \/ n \in orphaned
      <4>1. ASSUME e # d PROVE n \in orphaned
        <5>1. Placed(n, e)
          BY <2>2, <4>1, <1>4, <1>6 DEF DriverInv, StrayInv, Serving
        <5> QED  BY <5>1, <1>3, <1>4 DEF Placed, Fits
      <4> QED  BY <4>1
    <3>4. Driven(n)'
      BY <3>2 DEF Driven
    <3> QED  BY <2>2, <3>1, <3>2, <3>3, <3>4, <1>3, <1>6 DEF Placed, Fits
  <2> QED  BY <2>1, <2>2
<1> QED  BY <1>7, <1>8, <1>9, <1>10 DEF DriverInv

\* MgmtConnects, MgmtFails, MgmtEvent, MgmtConnected.
LEMMA MgmtStep ==
    ASSUME DriverInv, NEW r \in Runners,
           \/ MgmtConnects(r) \/ MgmtFails(r) \/ MgmtConnected(r)
           \/ MgmtEvent(r, "held", "released") \/ MgmtEvent(r, "released", "answered")
    PROVE  DriverInv'
<1>1. /\ drive[r].at \in {"socket", "auth"}
      /\ UNCHANGED <<daemon, pidFile, runLog, socket, wgUp, bundle, temps, left, orphaned>>
  BY DEF MgmtConnects, MgmtFails, MgmtConnected, MgmtEvent, machine, At
<1>2. {"held", "failed", "released", "answered"} \subseteq MgmtStates
  BY DEF MgmtStates
<1>3. \E w \in DriveRecords : Becomes(r, w) /\ w.at \in {"auth", "join"} /\ w.name = drive[r].name
  <2>1. CASE MgmtConnects(r)
    <3>1. "auth" \in DriveStages /\ "held" \in MgmtStates /\ CallsInv
      BY <1>2, StageSets DEF DriverInv
    <3>2. drive' = [drive EXCEPT ![r].at = "auth", ![r].mgmt = "held"]
      BY <2>1 DEF MgmtConnects
    <3>3. \E w \in DriveRecords : Becomes(r, w) /\ w.at = "auth" /\ w.name = drive[r].name
      BY <3>1, <3>2, MoveBoth
    <3> QED  BY <3>3
  <2>2. CASE MgmtFails(r)
    <3>1. "join" \in DriveStages /\ "failed" \in MgmtStates /\ CallsInv
      BY <1>2, StageSets DEF DriverInv
    <3>2. drive' = [drive EXCEPT ![r].at = "join", ![r].mgmt = "failed"]
      BY <2>2 DEF MgmtFails
    <3>3. \E w \in DriveRecords : Becomes(r, w) /\ w.at = "join" /\ w.name = drive[r].name
      BY <3>1, <3>2, MoveBoth
    <3> QED  BY <3>3
  <2>3. CASE MgmtConnected(r)
    BY <2>3, <1>2, DriveMoves, StageSets DEF DriverInv, MgmtConnected
  <2>4. CASE MgmtEvent(r, "held", "released") \/ MgmtEvent(r, "released", "answered")
    BY <2>4, <1>2, DriveMoves, StageSets DEF DriverInv, MgmtEvent, At
  <2> QED  BY <2>1, <2>2, <2>3, <2>4
<1>4. PICK w \in DriveRecords : Becomes(r, w) /\ w.at \in {"auth", "join"} /\ w.name = drive[r].name
  BY <1>3
<1>5. CallsInv' /\ \A m : Driven(m)' <=> Driven(m)
  BY <1>1, <1>4, WithinCall, NamedNow DEF DriverInv, WgStages, DaemonsNamed
<1>6. MachineTypes'
  BY <1>1 DEF DriverInv, MachineTypes
<1>7. SecretsInv'
  BY <1>1, <1>4, SameSecrets
<1>8. StrayInv'
  BY <1>1, <1>4, <1>5, QuietStray DEF DriverInv, Serving
<1> QED  BY <1>5, <1>6, <1>7, <1>8 DEF DriverInv

LEMMA OvpnJoinsStep ==
    ASSUME DriverInv, NEW r \in Runners, OvpnJoins(r)
    PROVE  DriverInv'
<1>0. drive[r].at = "join" /\ drive[r].name \in OvpnNames
  BY DEF OvpnJoins, At, DriverInv, CallsInv
<1> PICK n \in OvpnNames : drive[r].name = n
  BY <1>0
<1> PICK d : d = runLog[n].by
  OBVIOUS
<1>1. /\ drive[r].at = "join" /\ daemon[d].st # "parent" /\ socket' = socket \ {n}
      /\ UNCHANGED <<daemon, pidFile, runLog, wgUp, bundle, temps, left, orphaned>>
  BY DEF OvpnJoins, At
<1>2. FailsWith(r) \/ (pidFile[n] = d /\ Proceeds(r, "poll"))
  BY DEF OvpnJoins
<1>3. n \in OvpnNames /\ drive[r].name = n /\ pidFile[n] \in 0..MaxDaemons /\ d = runLog[n].by
  BY <1>1 DEF DriverInv, CallsInv, MachineTypes
<1>4. MachineTypes'
  BY <1>1 DEF DriverInv, MachineTypes
<1>5. ASSUME NEW w \in DriveRecords, Becomes(r, w), w.at \in {"kill", "poll"}, w.name = n
      PROVE  CallsInv' /\ SecretsInv' /\ \A m : Driven(m)' <=> Driven(m)
  <2>1. CallsInv' /\ \A m : Driven(m)' <=> Driven(m)
    BY <1>1, <1>3, <1>5, WithinCall, NamedNow DEF DriverInv, WgStages, DaemonsNamed
  <2>2. SecretsInv'
    BY <1>1, <1>3, <1>5, SameSecrets
  <2> QED  BY <2>1, <2>2
<1>6. CASE FailsWith(r)
  <2>1. PICK w \in DriveRecords : Becomes(r, w) /\ w.at = "kill" /\ w.name = n
    BY <1>3, <1>6, DriveMoves DEF DriverInv
  <2>2. StrayInv'
    BY <2>1, <1>1, <1>3, <1>5, QuietStray DEF DriverInv, Serving
  <2> QED  BY <2>1, <2>2, <1>4, <1>5 DEF DriverInv
<1>7. CASE pidFile[n] = d /\ Proceeds(r, "poll")
  <2>1. PICK w \in DriveRecords : Becomes(r, w) /\ w.at = "poll" /\ w.name = n
    BY <1>3, <1>7, DriveMoves, StageSets DEF DriverInv
  <2>2. StrayInv'
    <3> SUFFICES ASSUME NEW e \in Daemons, NEW m \in OvpnNames, Serving(e)', daemon'[e].name = m
                 PROVE  Placed(m, e)'
      BY DEF StrayInv
    <3>1. Placed(m, e)
      BY <1>1 DEF DriverInv, StrayInv, Serving
    <3>2. CASE m # n
      BY <2>1, <3>1, <3>2, <1>1, <1>5, OtherPlaced
    <3>3. CASE m = n
      <4>1. \A s \in Runners : drive'[s].name = n => s = r /\ drive'[s].at = "poll"
        BY <2>1, <1>3, OnlyDriver DEF DriverInv, Becomes
      <4>2. Driven(n)'
        BY <2>1 DEF Driven, Becomes
      <4>3. n \notin orphaned => runLog[n].by = e
        BY <3>1, <3>3, <1>1, <1>3 DEF Placed, Fits
      <4>4. n \notin orphaned => Tracked(n, e)' /\ runLog'[n].by = e
        BY <4>3, <1>1, <1>3, <1>7 DEF Tracked
      <4> QED  BY <3>3, <4>1, <4>2, <4>4, <1>1 DEF Placed, Fits
    <3> QED  BY <3>2, <3>3
  <2> QED  BY <2>1, <2>2, <1>4, <1>5 DEF DriverInv
<1> QED  BY <1>2, <1>6, <1>7

LEMMA DriveEnds ==
    ASSUME DriverInv, NEW r \in Runners, NEW n \in OvpnNames \cup WgNames, drive[r].name = n,
           drive' = [drive EXCEPT ![r] = NoDrive], DaemonsNamed'
    PROVE  /\ Becomes(r, NoDrive) /\ CallsInv' /\ drive[r].at # "idle"
           /\ \A s \in Runners : drive'[s].name # n
           /\ \A m \in OvpnNames \cup WgNames : m # n => (Driven(m)' <=> Driven(m))
<1>1. Becomes(r, NoDrive)
  BY RecordFields, DriveMoves DEF DriverInv
<1>2. drive[r].at # "idle"
  BY DriverAssumption DEF DriverInv, CallsInv
<1>3. CallsInv' /\ \A m \in OvpnNames \cup WgNames : m # n => (Driven(m)' <=> Driven(m))
  BY <1>1, <1>2, CallEnds DEF DriverInv
<1>4. \A s \in Runners : drive'[s].name # n
  BY <1>1, RecordFields, OnlyDriver, DriverAssumption DEF DriverInv, Becomes
<1> QED  BY <1>1, <1>2, <1>3, <1>4

LEMMA PollReadyStep ==
    ASSUME DriverInv, NEW r \in Runners, PollReady(r)
    PROVE  DriverInv'
<1>1. /\ drive[r].at = "poll" /\ drive' = [drive EXCEPT ![r] = NoDrive]
      /\ UNCHANGED <<daemon, pidFile, runLog, socket, wgUp, bundle, temps, left, orphaned>>
  BY DEF PollReady, machine, At
<1> PICK n \in OvpnNames : drive[r].name = n
  BY <1>1 DEF DriverInv, CallsInv
<1>2. /\ Becomes(r, NoDrive) /\ CallsInv' /\ \A s \in Runners : drive'[s].name # n
      /\ \A m \in OvpnNames : m # n => (Driven(m)' <=> Driven(m))
  BY <1>1, DriveEnds, NamedNow DEF DaemonsNamed
<1>3. MachineTypes'
  BY <1>1 DEF DriverInv, MachineTypes
<1>4. SecretsInv'
  BY <1>1, <1>2, RecordFields, SameSecrets
<1>5. StrayInv'
  <2> SUFFICES ASSUME NEW d \in Daemons, NEW m \in OvpnNames, Serving(d)', daemon'[d].name = m
               PROVE  Placed(m, d)'
    BY DEF StrayInv
  <2>1. Placed(m, d)
    BY <1>1 DEF DriverInv, StrayInv, Serving
  <2>2. CASE m = n
    <3>1. m \notin orphaned => Tracked(m, d)
      BY <2>1, <2>2, <1>1 DEF Placed, Fits
    <3> QED  BY <2>2, <3>1, <1>1, <1>2 DEF Placed, Tracked
  <2>3. CASE m # n
    <3>1. m # NoDrive.name /\ NoDrive \in DriveRecords
      BY RecordFields, DriverAssumption
    <3> QED  BY <2>1, <2>3, <3>1, <1>1, <1>2, OtherPlaced
  <2> QED  BY <2>2, <2>3
<1> QED  BY <1>2, <1>3, <1>4, <1>5 DEF DriverInv

LEMMA PollFailsStep ==
    ASSUME DriverInv, NEW r \in Runners, PollFails(r)
    PROVE  DriverInv'
<1>1. /\ drive[r].at = "poll" /\ FailsWith(r)
      /\ UNCHANGED <<daemon, pidFile, runLog, socket, wgUp, bundle, temps, left, orphaned>>
  BY DEF PollFails, machine, At
<1> PICK n \in OvpnNames : drive[r].name = n
  BY <1>1 DEF DriverInv, CallsInv
<1>2. PICK w \in DriveRecords : Becomes(r, w) /\ w.at = "kill" /\ w.name = n
  <2>1. pidFile[n] \in 0..MaxDaemons
    BY DEF DriverInv, MachineTypes
  <2> QED  BY <2>1, <1>1, DriveMoves DEF DriverInv
<1>3. CallsInv' /\ \A m : Driven(m)' <=> Driven(m)
  BY <1>1, <1>2, WithinCall, NamedNow DEF DriverInv, WgStages, DaemonsNamed
<1>4. MachineTypes'
  BY <1>1 DEF DriverInv, MachineTypes
<1>5. SecretsInv'
  BY <1>1, <1>2, SameSecrets
<1>6. StrayInv'
  BY <1>1, <1>2, <1>3, QuietStray DEF DriverInv, Serving
<1> QED  BY <1>3, <1>4, <1>5, <1>6 DEF DriverInv

-----------------------------------------------------------------------------
(* OvpnTunnel::down *)

LEMMA OvpnDownStep ==
    ASSUME DriverInv, NEW r \in Runners, NEW n \in OvpnNames, OvpnDown(r, n)
    PROVE  DriverInv'
<1>1. /\ Takes(r, n, "kill", pidFile[n]) /\ pidFile[n] \in 0..MaxDaemons
      /\ UNCHANGED <<daemon, pidFile, runLog, socket, wgUp, bundle, temps, left, orphaned>>
  BY DEF OvpnDown, machine, DriverInv, MachineTypes
<1>2. /\ CallsInv' /\ ~Driven(n) /\ drive[r].at = "idle" /\ Driven(n)'
      /\ \A m : m # n /\ m # Nobody => (Driven(m)' <=> Driven(m))
      /\ \E w \in DriveRecords : Becomes(r, w) /\ w.at = "kill" /\ w.name = n
  BY <1>1, CallBegins, NamedNow, StageSets DEF DriverInv, WgStages, DaemonsNamed
<1>3. PICK w \in DriveRecords : Becomes(r, w) /\ w.at = "kill" /\ w.name = n
  BY <1>2
<1>4. MachineTypes'
  BY <1>1 DEF DriverInv, MachineTypes
<1>5. SecretsInv'
  BY <1>1, <1>2, <1>3, SameSecrets
<1>6. StrayInv'
  <2> SUFFICES ASSUME NEW d \in Daemons, NEW m \in OvpnNames, Serving(d)', daemon'[d].name = m
               PROVE  Placed(m, d)'
    BY DEF StrayInv
  <2>1. Placed(m, d)
    BY <1>1 DEF DriverInv, StrayInv, Serving
  <2>2. CASE m = n
    <3>1. \A s \in Runners : drive'[s].name = m => drive'[s].at = "kill"
      BY <2>2, <1>2, <1>3 DEF Becomes, Driven
    <3> QED  BY <2>2, <3>1, <1>2 DEF Placed, Fits
  <2>3. CASE m # n
    <3>1. m # Nobody
      BY DriverAssumption
    <3> QED  BY <2>1, <2>3, <3>1, <1>1, <1>2, <1>3, OtherPlaced
  <2> QED  BY <2>2, <2>3
<1> QED  BY <1>2, <1>4, <1>5, <1>6 DEF DriverInv

LEMMA TerminatedFacts ==
    ASSUME DriverInv, NEW ds, daemon' = Terminated(ds)
    PROVE  /\ daemon' \in [Daemons -> [name : OvpnNames \cup {Nobody},
                                       st : {"none", "parent", "forked", "up", "dying", "dead"}]]
           /\ DaemonsNamed'
           /\ \A d \in Daemons : Serving(d)' => Serving(d) /\ daemon'[d] = daemon[d] /\ d \notin ds
<1> DEFINE States == [name : OvpnNames \cup {Nobody},
                      st : {"none", "parent", "forked", "up", "dying", "dead"}]
<1>1. daemon \in [Daemons -> States]
  BY DEF DriverInv, MachineTypes
<1>2. \A x \in States : /\ [x EXCEPT !.st = "dying"] \in States
                        /\ [x EXCEPT !.st = "dying"].st = "dying"
                        /\ [x EXCEPT !.st = "dying"].name = x.name
  OBVIOUS
<1> HIDE DEF States
<1>3. \A d \in Daemons : daemon'[d] = IF d \in ds /\ Lives(d) THEN [daemon[d] EXCEPT !.st = "dying"] ELSE daemon[d]
  BY DEF Terminated
<1>4. daemon' \in [Daemons -> States]
  BY <1>1, <1>2 DEF Terminated
<1>5. \A d \in Daemons : Serving(d)' => Serving(d) /\ daemon'[d] = daemon[d] /\ d \notin ds
  <2> SUFFICES ASSUME NEW d \in Daemons, Serving(d)'
               PROVE  Serving(d) /\ daemon'[d] = daemon[d] /\ d \notin ds
    OBVIOUS
  <2>1. daemon'[d].st \in {"parent", "forked", "up"}
    BY DEF Serving
  <2>2. CASE d \in ds /\ Lives(d)
    BY <2>1, <2>2, <1>1, <1>2, <1>3
  <2>3. CASE ~(d \in ds /\ Lives(d))
    BY <2>1, <2>3, <1>3 DEF Serving, Lives
  <2> QED  BY <2>2, <2>3
<1>6. DaemonsNamed'
  <2> SUFFICES ASSUME NEW d \in Daemons, daemon'[d].st # "none"
               PROVE  daemon'[d].name \in OvpnNames
    BY DEF DaemonsNamed
  <2>1. daemon[d].st # "none" => daemon[d].name \in OvpnNames
    BY NamedNow DEF DaemonsNamed
  <2>2. CASE d \in ds /\ Lives(d)
    BY <2>1, <2>2, <1>1, <1>2, <1>3 DEF Lives
  <2>3. CASE ~(d \in ds /\ Lives(d))
    BY <2>1, <2>3, <1>3
  <2> QED  BY <2>2, <2>3
<1> QED  BY <1>4, <1>5, <1>6 DEF States

LEMMA KillPidStep ==
    ASSUME DriverInv, NEW r \in Runners, KillPid(r)
    PROVE  DriverInv'
<1>1. /\ drive[r].at = "kill" /\ daemon' = Terminated({drive[r].pid}) /\ Proceeds(r, "pkill")
      /\ UNCHANGED <<pidFile, runLog, socket, wgUp, bundle, temps, left, orphaned>>
  BY DEF KillPid, At
<1> PICK n \in OvpnNames : drive[r].name = n
  BY <1>1 DEF DriverInv, CallsInv
<1>2. PICK w \in DriveRecords : Becomes(r, w) /\ w.at = "pkill" /\ w.name = n
  BY <1>1, DriveMoves, StageSets DEF DriverInv
<1>3. CallsInv' /\ \A m : Driven(m)' <=> Driven(m)
  BY <1>1, <1>2, WithinCall, TerminatedFacts DEF DriverInv, WgStages
<1>4. MachineTypes'
  BY <1>1, TerminatedFacts DEF DriverInv, MachineTypes
<1>5. SecretsInv'
  BY <1>1, <1>2, SameSecrets
<1>6. StrayInv'
  BY <1>1, <1>2, <1>3, TerminatedFacts, QuietStray DEF DriverInv
<1> QED  BY <1>3, <1>4, <1>5, <1>6 DEF DriverInv

LEMMA KillByNameStep ==
    ASSUME DriverInv, NEW r \in Runners, KillByName(r)
    PROVE  DriverInv'
<1> DEFINE ds == {d \in Daemons : <<drive[r].name, daemon[d].name>> \in Matches}
<1>1. /\ drive[r].at = "pkill" /\ daemon' = Terminated(ds) /\ Proceeds(r, "unlink")
      /\ UNCHANGED <<pidFile, runLog, socket, wgUp, bundle, temps, left, orphaned>>
  BY DEF KillByName, At
<1> PICK n \in OvpnNames : drive[r].name = n
  BY <1>1 DEF DriverInv, CallsInv
<1>2. \A d \in Daemons : daemon[d].name = n => d \in ds
  BY DriverAssumption
<1> HIDE DEF ds
<1>3. PICK w \in DriveRecords : Becomes(r, w) /\ w.at = "unlink" /\ w.name = n
  BY <1>1, DriveMoves, StageSets DEF DriverInv
<1>4. CallsInv' /\ \A m : Driven(m)' <=> Driven(m)
  BY <1>1, <1>3, WithinCall, TerminatedFacts DEF DriverInv, WgStages
<1>5. MachineTypes'
  BY <1>1, TerminatedFacts DEF DriverInv, MachineTypes
<1>6. SecretsInv'
  BY <1>1, <1>3, SameSecrets
<1>7. StrayInv'
  <2> SUFFICES ASSUME NEW d \in Daemons, NEW m \in OvpnNames, Serving(d)', daemon'[d].name = m
               PROVE  Placed(m, d)'
    BY DEF StrayInv
  <2>1. Serving(d) /\ daemon'[d] = daemon[d] /\ d \notin ds
    BY <1>1, TerminatedFacts
  <2>2. Placed(m, d) /\ m # n
    BY <2>1, <1>2 DEF DriverInv, StrayInv
  <2> QED  BY <2>1, <2>2, <1>1, <1>3, <1>4, OtherPlaced
<1> QED  BY <1>4, <1>5, <1>6, <1>7 DEF DriverInv

LEMMA UnlinksStep ==
    ASSUME DriverInv, NEW r \in Runners, Unlinks(r)
    PROVE  DriverInv'
<1>0. drive[r].at = "unlink"
  BY DEF Unlinks, At
<1> PICK n \in OvpnNames : drive[r].name = n
  BY <1>0 DEF DriverInv, CallsInv
<1>1. /\ pidFile' = [pidFile EXCEPT ![n] = 0] /\ runLog' = [runLog EXCEPT ![n] = NoLog]
      /\ drive' = [drive EXCEPT ![r] = NoDrive] /\ orphaned' = orphaned \ {n}
      /\ UNCHANGED <<daemon, socket, wgUp, bundle, temps, left>>
  BY DEF Unlinks
<1>2. /\ Becomes(r, NoDrive) /\ CallsInv' /\ \A s \in Runners : drive'[s].name # n
      /\ \A m \in OvpnNames : m # n => (Driven(m)' <=> Driven(m))
  BY <1>1, DriveEnds, NamedNow DEF DaemonsNamed
<1>3. MachineTypes'
  <2>1. NoLog \in [by : 0..MaxDaemons, says : {"nothing", "success", "noInterface", "failure"}]
    BY StageSets DEF NoLog
  <2>2. runLog' \in [OvpnNames -> [by : 0..MaxDaemons, says : {"nothing", "success", "noInterface", "failure"}]]
    BY <2>1, <1>1 DEF DriverInv, MachineTypes
  <2>3. pidFile' \in [OvpnNames -> 0..MaxDaemons]
    BY <1>1, StageSets DEF DriverInv, MachineTypes
  <2> QED  BY <2>2, <2>3, <1>1 DEF DriverInv, MachineTypes
<1>4. SecretsInv'
  BY <1>0, <1>1, <1>2, RecordFields, SameSecrets
<1>5. StrayInv'
  <2> SUFFICES ASSUME NEW d \in Daemons, NEW m \in OvpnNames, Serving(d)', daemon'[d].name = m
               PROVE  Placed(m, d)'
    BY DEF StrayInv
  <2>1. Placed(m, d)
    BY <1>1 DEF DriverInv, StrayInv, Serving
  <2>2. m # n
    BY <2>1, <1>0 DEF Placed
  <2>3. m # NoDrive.name /\ NoDrive \in DriveRecords
    BY RecordFields, DriverAssumption
  <2>4. pidFile'[m] = pidFile[m] /\ runLog'[m] = runLog[m] /\ (m \in orphaned => m \in orphaned')
    BY <2>2, <1>1 DEF DriverInv, MachineTypes
  <2> QED  BY <2>1, <2>2, <2>3, <2>4, <1>1, <1>2, OtherPlaced
<1> QED  BY <1>2, <1>3, <1>4, <1>5 DEF DriverInv

-----------------------------------------------------------------------------
(* WgTunnel *)

LEMMA WgTakes ==
    ASSUME DriverInv, NEW r \in Runners, NEW n \in WgNames, NEW a \in WgStages, Takes(r, n, a, 0),
           UNCHANGED <<daemon, pidFile, runLog, orphaned>>
    PROVE  /\ CallsInv' /\ StrayInv' /\ drive[r].at = "idle"
           /\ \E w \in DriveRecords : Becomes(r, w) /\ w.at = a /\ w.name = n
<1>1. /\ CallsInv' /\ ~Driven(n) /\ drive[r].at = "idle"
      /\ \A m : m # n /\ m # Nobody => (Driven(m)' <=> Driven(m))
      /\ \E w \in DriveRecords : Becomes(r, w) /\ w.at = a /\ w.name = n
  <2>1. a \in DriveStages /\ a # "idle" /\ 0 \in 0..MaxDaemons
    BY StageSets DEF WgStages
  <2> QED  BY <2>1, CallBegins, NamedNow DEF DriverInv, DaemonsNamed
<1>2. PICK w \in DriveRecords : Becomes(r, w) /\ w.at = a /\ w.name = n
  BY <1>1
<1>3. \A m \in OvpnNames : Driven(m)' <=> Driven(m)
  BY <1>1, DriverAssumption
<1>4. \A s \in Runners : drive'[s].name \in OvpnNames => drive'[s] = drive[s]
  BY <1>2, DriverAssumption DEF Becomes
<1>5. StrayInv'
  BY <1>3, <1>4, SameStray DEF DriverInv
<1> QED  BY <1>1, <1>5

LEMMA WgUpStep ==
    ASSUME DriverInv, NEW r \in Runners, NEW n \in WgNames, NEW strip \in BOOLEAN, WgUp(r, n, strip)
    PROVE  DriverInv'
<1>1. /\ Takes(r, n, "quick", 0) /\ temps' \in {temps, temps \cup {<<r, n>>}}
      /\ UNCHANGED <<daemon, pidFile, runLog, socket, wgUp, bundle, left, orphaned>>
  BY DEF WgUp, machine
<1>2. /\ CallsInv' /\ StrayInv' /\ drive[r].at = "idle"
      /\ \E w \in DriveRecords : Becomes(r, w) /\ w.at = "quick" /\ w.name = n
  <2>1. "quick" \in WgStages
    BY DEF WgStages
  <2> QED  BY <1>1, <2>1, WgTakes
<1>3. PICK w \in DriveRecords : Becomes(r, w) /\ w.at = "quick" /\ w.name = n
  BY <1>2
<1>4. MachineTypes'
  <2>1. <<r, n>> \in Runners \X WgNames
    OBVIOUS
  <2> QED  BY <2>1, <1>1 DEF DriverInv, MachineTypes
<1>5. SecretsInv'
  <2>1. \A s \in Runners : drive[s].at # "idle" => drive'[s] = drive[s]
    BY <1>2, <1>3 DEF Becomes
  <2>2. ASSUME NEW m \in bundle
        PROVE  m \in left \/ \E s \in Runners : drive'[s].name = m /\ drive'[s].at \in {"probe", "bundle"}
    BY <2>1 DEF DriverInv, SecretsInv
  <2>3. ASSUME NEW t \in temps'
        PROVE  t[2] \in left \/ (drive'[t[1]].name = t[2] /\ drive'[t[1]].at = "quick")
    <3>1. CASE t \in temps
      <4>1. t[1] \in Runners
        BY <3>1 DEF DriverInv, MachineTypes
      <4> QED  BY <3>1, <4>1, <2>1 DEF DriverInv, SecretsInv
    <3>2. CASE t = <<r, n>>
      BY <3>2, <1>3 DEF Becomes
    <3> QED  BY <2>3, <3>1, <3>2, <1>1
  <2> QED  BY <2>2, <2>3, <1>1 DEF SecretsInv
<1> QED  BY <1>2, <1>4, <1>5 DEF DriverInv

LEMMA WgDownStep ==
    ASSUME DriverInv, NEW r \in Runners, NEW n \in WgNames, WgDown(r, n)
    PROVE  DriverInv'
<1>1. /\ Takes(r, n, "wgDown", 0)
      /\ UNCHANGED <<daemon, pidFile, runLog, socket, wgUp, bundle, temps, left, orphaned>>
  BY DEF WgDown, machine
<1>2. /\ CallsInv' /\ StrayInv' /\ drive[r].at = "idle"
      /\ \E w \in DriveRecords : Becomes(r, w) /\ w.at = "wgDown" /\ w.name = n
  <2>1. "wgDown" \in WgStages
    BY DEF WgStages
  <2> QED  BY <1>1, <2>1, WgTakes
<1>3. MachineTypes'
  BY <1>1 DEF DriverInv, MachineTypes
<1>4. SecretsInv'
  BY <1>1, <1>2, SameSecrets
<1> QED  BY <1>2, <1>3, <1>4 DEF DriverInv

LEMMA WgMoves ==
    ASSUME DriverInv, NEW r \in Runners, NEW n \in WgNames, drive[r].name = n,
           UNCHANGED <<daemon, pidFile, runLog, orphaned>>,
           NEW w \in DriveRecords, Becomes(r, w), CallsInv',
           w.name \in {n, Nobody}, \A m \in OvpnNames \cup WgNames : m # n => (Driven(m)' <=> Driven(m))
    PROVE  StrayInv'
<1>1. \A m \in OvpnNames : Driven(m)' <=> Driven(m)
  BY DriverAssumption
<1>2. \A s \in Runners : drive'[s].name \in OvpnNames => drive'[s] = drive[s]
  BY DriverAssumption DEF Becomes
<1> QED  BY <1>1, <1>2, SameStray DEF DriverInv

LEMMA WgQuickUpStep ==
    ASSUME DriverInv, NEW r \in Runners, WgQuickUp(r)
    PROVE  DriverInv'
<1>0. drive[r].at = "quick"
  BY DEF WgQuickUp, At
<1> PICK n \in WgNames : drive[r].name = n
  BY <1>0 DEF DriverInv, CallsInv
<1>1. /\ wgUp' = wgUp \cup {n} /\ drive' = [drive EXCEPT ![r] = NoDrive]
      /\ left' = IF <<r, n>> \in temps THEN left \cup {n} ELSE left
      /\ UNCHANGED <<daemon, pidFile, runLog, socket, bundle, temps, orphaned>>
  BY DEF WgQuickUp
<1>2. /\ Becomes(r, NoDrive) /\ CallsInv'
      /\ \A m \in OvpnNames \cup WgNames : m # n => (Driven(m)' <=> Driven(m))
  BY <1>1, DriveEnds, NamedNow DEF DaemonsNamed
<1>3. MachineTypes'
  BY <1>1 DEF DriverInv, MachineTypes
<1>4. SecretsInv'
  <2>1. \A s \in Runners : s # r => drive'[s] = drive[s]
    BY <1>2 DEF Becomes
  <2>2. ASSUME NEW m \in bundle
        PROVE  m \in left' \/ \E s \in Runners : drive'[s].name = m /\ drive'[s].at \in {"probe", "bundle"}
    BY <2>1, <1>0, <1>1 DEF DriverInv, SecretsInv
  <2>3. ASSUME NEW t \in temps
        PROVE  t[2] \in left' \/ (drive'[t[1]].name = t[2] /\ drive'[t[1]].at = "quick")
    <3>1. t[1] \in Runners /\ t = <<t[1], t[2]>>
      BY DEF DriverInv, MachineTypes
    <3>2. t[2] \in left \/ (drive[t[1]].name = t[2] /\ drive[t[1]].at = "quick")
      BY DEF DriverInv, SecretsInv
    <3>3. CASE t[1] = r
      BY <3>1, <3>2, <3>3, <1>1
    <3>4. CASE t[1] # r
      BY <3>1, <3>2, <3>4, <2>1, <1>1
    <3> QED  BY <3>3, <3>4
  <2> QED  BY <2>2, <2>3, <1>1 DEF SecretsInv
<1>5. StrayInv'
  BY <1>1, <1>2, RecordFields, WgMoves
<1> QED  BY <1>2, <1>3, <1>4, <1>5 DEF DriverInv

LEMMA WgQuickFailsStep ==
    ASSUME DriverInv, NEW r \in Runners, WgQuickFails(r)
    PROVE  DriverInv'
<1>0. drive[r].at = "quick"
  BY DEF WgQuickFails, At
<1> PICK n \in WgNames : drive[r].name = n
  BY <1>0 DEF DriverInv, CallsInv
<1>1. /\ temps' = temps \ {<<r, n>>} /\ Proceeds(r, "wgDown")
      /\ UNCHANGED <<daemon, pidFile, runLog, socket, wgUp, bundle, left, orphaned>>
  BY DEF WgQuickFails, Proceeds, machine
<1>2. PICK w \in DriveRecords : Becomes(r, w) /\ w.at = "wgDown" /\ w.name = n
  BY <1>1, DriveMoves, StageSets DEF DriverInv
<1>3. CallsInv' /\ \A m : Driven(m)' <=> Driven(m)
  BY <1>0, <1>1, <1>2, WithinCall, NamedNow DEF DriverInv, WgStages, DaemonsNamed
<1>4. MachineTypes'
  BY <1>1 DEF DriverInv, MachineTypes
<1>5. SecretsInv'
  <2>1. \A s \in Runners : s # r => drive'[s] = drive[s]
    BY <1>2 DEF Becomes
  <2>2. ASSUME NEW m \in bundle
        PROVE  m \in left \/ \E s \in Runners : drive'[s].name = m /\ drive'[s].at \in {"probe", "bundle"}
    BY <2>1, <1>0 DEF DriverInv, SecretsInv
  <2>3. ASSUME NEW t \in temps'
        PROVE  t[2] \in left \/ (drive'[t[1]].name = t[2] /\ drive'[t[1]].at = "quick")
    <3>1. t[1] \in Runners /\ t = <<t[1], t[2]>> /\ t \in temps /\ t # <<r, n>>
      BY <1>1 DEF DriverInv, MachineTypes
    <3>2. t[2] \in left \/ (drive[t[1]].name = t[2] /\ drive[t[1]].at = "quick")
      BY <3>1 DEF DriverInv, SecretsInv
    <3> QED  BY <3>1, <3>2, <2>1
  <2> QED  BY <2>2, <2>3, <1>1 DEF SecretsInv
<1>6. StrayInv'
  BY <1>1, <1>2, <1>3, WgMoves
<1> QED  BY <1>3, <1>4, <1>5, <1>6 DEF DriverInv

LEMMA WgQuickDownStep ==
    ASSUME DriverInv, NEW r \in Runners, WgQuickDown(r)
    PROVE  DriverInv'
<1>0. drive[r].at = "wgDown"
  BY DEF WgQuickDown, At
<1> PICK n \in WgNames : drive[r].name = n
  BY <1>0 DEF DriverInv, CallsInv
<1>1. /\ wgUp' \subseteq wgUp /\ drive' = [drive EXCEPT ![r] = NoDrive]
      /\ UNCHANGED <<daemon, pidFile, runLog, socket, bundle, temps, left, orphaned>>
  BY DEF WgQuickDown
<1>2. /\ Becomes(r, NoDrive) /\ CallsInv'
      /\ \A m \in OvpnNames \cup WgNames : m # n => (Driven(m)' <=> Driven(m))
  BY <1>1, DriveEnds, NamedNow DEF DaemonsNamed
<1>3. MachineTypes'
  BY <1>1 DEF DriverInv, MachineTypes
<1>4. SecretsInv'
  BY <1>0, <1>1, <1>2, RecordFields, SameSecrets
<1>5. StrayInv'
  BY <1>1, <1>2, RecordFields, WgMoves
<1> QED  BY <1>2, <1>3, <1>4, <1>5 DEF DriverInv

-----------------------------------------------------------------------------
(* Processes of vortix, and the daemons *)

LEMMA StartStep ==
    ASSUME DriverInv, NEW r \in Runners, NEW journal \in BOOLEAN, Start(r, journal)
    PROVE  DriverInv'
<1>1. /\ bundle' = {} /\ temps' = (IF journal THEN {} ELSE temps)
      /\ left' = (IF journal THEN {} ELSE left \cap WgNames)
      /\ UNCHANGED <<daemon, pidFile, runLog, socket, wgUp, drive, orphaned>>
  BY DEF Start, machine
<1>2. CallsInv' /\ MachineTypes'
  BY <1>1 DEF DriverInv, CallsInv, MachineTypes
<1>3. SecretsInv'
  <2>1. ASSUME NEW t \in temps'
        PROVE  t[2] \in left' \/ (drive'[t[1]].name = t[2] /\ drive'[t[1]].at = "quick")
    <3>1. t \in temps /\ left' = left \cap WgNames
      BY <1>1
    <3>2. t[2] \in WgNames
      BY <3>1 DEF DriverInv, MachineTypes
    <3> QED  BY <3>1, <3>2, <1>1 DEF DriverInv, SecretsInv
  <2> QED  BY <2>1, <1>1 DEF SecretsInv
<1>4. StrayInv'
  BY <1>1, SameStray DEF DriverInv, Driven
<1> QED  BY <1>2, <1>3, <1>4 DEF DriverInv

LEMMA RunnerDiesStep ==
    ASSUME DriverInv, NEW r \in Runners, RunnerDies(r)
    PROVE  DriverInv'
<1>0. drive[r].at # "idle"
  BY DEF RunnerDies, At
<1> PICK n \in OvpnNames \cup WgNames : drive[r].name = n
  BY <1>0, RecordFields DEF DriverInv, CallsInv
<1>1. /\ drive' = [drive EXCEPT ![r] = NoDrive] /\ left' = left \cup {n} /\ orphaned' = orphaned \cup {n}
      /\ UNCHANGED <<daemon, pidFile, runLog, socket, wgUp, bundle, temps>>
  BY DEF RunnerDies, machine
<1>2. /\ Becomes(r, NoDrive) /\ CallsInv' /\ \A s \in Runners : drive'[s].name # n
      /\ \A m \in OvpnNames \cup WgNames : m # n => (Driven(m)' <=> Driven(m))
  BY <1>1, DriveEnds, NamedNow DEF DaemonsNamed
<1>3. MachineTypes'
  BY <1>1 DEF DriverInv, MachineTypes
<1>4. SecretsInv'
  <2>1. \A s \in Runners : drive[s].name # n => drive'[s] = drive[s]
    BY <1>2 DEF Becomes
  <2>2. ASSUME NEW m \in bundle
        PROVE  m \in left' \/ \E s \in Runners : drive'[s].name = m /\ drive'[s].at \in {"probe", "bundle"}
    BY <2>1, <1>1 DEF DriverInv, SecretsInv
  <2>3. ASSUME NEW t \in temps
        PROVE  t[2] \in left' \/ (drive'[t[1]].name = t[2] /\ drive'[t[1]].at = "quick")
    <3>1. t[1] \in Runners
      BY DEF DriverInv, MachineTypes
    <3> QED  BY <3>1, <2>1, <1>1 DEF DriverInv, SecretsInv
  <2> QED  BY <2>2, <2>3, <1>1 DEF SecretsInv
<1>5. StrayInv'
  <2> SUFFICES ASSUME NEW d \in Daemons, NEW m \in OvpnNames, Serving(d)', daemon'[d].name = m
               PROVE  Placed(m, d)'
    BY DEF StrayInv
  <2>1. Placed(m, d)
    BY <1>1 DEF DriverInv, StrayInv, Serving
  <2>2. CASE m = n
    BY <2>2, <1>1, <1>2 DEF Placed
  <2>3. CASE m # n
    <3>1. m # NoDrive.name /\ NoDrive \in DriveRecords
      BY RecordFields, DriverAssumption
    <3> QED  BY <2>1, <2>3, <3>1, <1>1, <1>2, OtherPlaced
  <2> QED  BY <2>2, <2>3
<1> QED  BY <1>2, <1>3, <1>4, <1>5 DEF DriverInv

LEMMA BindsSocketStep ==
    ASSUME DriverInv, NEW d \in Daemons, BindsSocket(d)
    PROVE  DriverInv'
<1>1. /\ daemon[d].st = "parent" /\ socket' = socket \cup {daemon[d].name}
      /\ UNCHANGED <<daemon, pidFile, runLog, wgUp, bundle, temps, drive, left, orphaned>>
  BY DEF BindsSocket
<1>2. daemon[d].name \in OvpnNames
  BY <1>1, NamedNow DEF DaemonsNamed
<1>3. CallsInv' /\ MachineTypes' /\ SecretsInv'
  BY <1>1, <1>2 DEF DriverInv, CallsInv, MachineTypes, SecretsInv
<1>4. StrayInv'
  BY <1>1, SameStray DEF DriverInv, Driven
<1> QED  BY <1>3, <1>4 DEF DriverInv

\* A daemon at another stage.
LEMMA Restates ==
    ASSUME DriverInv, NEW d \in Daemons, daemon[d].st # "none",
           NEW st \in {"parent", "forked", "up", "dying", "dead"},
           daemon' = [daemon EXCEPT ![d].st = st],
           UNCHANGED <<drive, bundle, temps, left>>
    PROVE  /\ daemon' \in [Daemons -> [name : OvpnNames \cup {Nobody},
                                       st : {"none", "parent", "forked", "up", "dying", "dead"}]]
           /\ daemon'[d].st = st /\ \A e \in Daemons : daemon'[e].name = daemon[e].name
           /\ \A e \in Daemons : e # d => daemon'[e] = daemon[e]
           /\ CallsInv' /\ SecretsInv' /\ \A m : Driven(m)' <=> Driven(m)
<1> DEFINE States == [name : OvpnNames \cup {Nobody},
                      st : {"none", "parent", "forked", "up", "dying", "dead"}]
<1>1. daemon \in [Daemons -> States] /\ daemon[d] \in States
  BY DEF DriverInv, MachineTypes
<1>2. LET x == [daemon[d] EXCEPT !.st = st] IN x \in States /\ x.st = st /\ x.name = daemon[d].name
  BY <1>1
<1>3. daemon' = [daemon EXCEPT ![d] = [daemon[d] EXCEPT !.st = st]]
  OBVIOUS
<1> HIDE DEF States
<1>4. /\ daemon' \in [Daemons -> States] /\ daemon'[d].st = st
      /\ \A e \in Daemons : e # d => daemon'[e] = daemon[e]
      /\ \A e \in Daemons : daemon'[e].name = daemon[e].name
  BY <1>1, <1>2, <1>3
<1>5. CallsInv'
  BY <1>4 DEF DriverInv, CallsInv
<1>6. SecretsInv' /\ \A m : Driven(m)' <=> Driven(m)
  BY DEF DriverInv, SecretsInv, Driven
<1> QED  BY <1>4, <1>5, <1>6 DEF States

LEMMA ForksStep ==
    ASSUME DriverInv, NEW d \in Daemons, Forks(d)
    PROVE  DriverInv'
<1>0. daemon[d].st = "parent"
  BY DEF Forks
<1> PICK n \in OvpnNames : daemon[d].name = n
  BY <1>0, NamedNow DEF DaemonsNamed
<1>1. /\ daemon' = [daemon EXCEPT ![d].st = "forked"] /\ pidFile' = [pidFile EXCEPT ![n] = d]
      /\ UNCHANGED <<runLog, socket, wgUp, bundle, temps, drive, left, orphaned>>
  BY DEF Forks
<1>2. /\ daemon' \in [Daemons -> [name : OvpnNames \cup {Nobody},
                                  st : {"none", "parent", "forked", "up", "dying", "dead"}]]
      /\ daemon'[d].st = "forked" /\ \A e \in Daemons : daemon'[e].name = daemon[e].name
      /\ \A e \in Daemons : e # d => daemon'[e] = daemon[e]
      /\ CallsInv' /\ SecretsInv' /\ \A m : Driven(m)' <=> Driven(m)
  BY <1>0, <1>1, Restates
<1>3. MachineTypes'
  <2>1. d \in 0..MaxDaemons
    BY DriverAssumption DEF Daemons
  <2>2. pidFile' \in [OvpnNames -> 0..MaxDaemons]
    BY <2>1, <1>1 DEF DriverInv, MachineTypes
  <2> QED  BY <2>2, <1>1, <1>2 DEF DriverInv, MachineTypes
<1>4. StrayInv'
  <2> SUFFICES ASSUME NEW e \in Daemons, NEW m \in OvpnNames, Serving(e)', daemon'[e].name = m
               PROVE  Placed(m, e)'
    BY DEF StrayInv
  <2>1. Placed(m, e) /\ Placed(n, d)
    BY <1>0, <1>2 DEF DriverInv, StrayInv, Serving
  <2>2. ~Tracked(n, d)
    BY <1>0 DEF Tracked
  <2>3. CASE m = n
    <3>1. e = d => Tracked(m, e)'
      BY <2>3, <1>1, <1>2 DEF Tracked, DriverInv, MachineTypes
    <3>2. ASSUME NEW s \in Runners, drive[s].name = m, m \notin orphaned
          PROVE  Fits(drive[s].at, m, e)'
      <4>1. Fits(drive[s].at, m, e) /\ Fits(drive[s].at, n, d)
        BY <2>1, <2>3, <3>2 DEF Placed
      <4> QED  BY <4>1, <2>2, <1>1 DEF Fits
    <3>3. m \notin orphaned => Driven(m)
      BY <2>1, <2>2, <2>3 DEF Placed
    <3> QED  BY <2>1, <3>2, <3>3, <1>1, <1>2 DEF Placed
  <2>4. CASE m # n
    <3>1. daemon'[e] = daemon[e] /\ pidFile'[m] = pidFile[m]
      BY <2>4, <1>1, <1>2 DEF DriverInv, MachineTypes
    <3> QED  BY <2>1, <3>1, <1>1, <1>2 DEF Placed, Fits, Tracked
  <2> QED  BY <2>3, <2>4
<1> QED  BY <1>2, <1>3, <1>4 DEF DriverInv

\* Logs and DaemonEnds: a daemon goes on, or ends.
LEMMA GoesOnStep ==
    ASSUME DriverInv, NEW d \in Daemons, NEW st \in {"up", "dead"},
           daemon[d].st # "none", st = "up" => daemon[d].st = "forked",
           daemon' = [daemon EXCEPT ![d].st = st],
           runLog' \in [OvpnNames -> [by : 0..MaxDaemons, says : {"nothing", "success", "noInterface", "failure"}]],
           \A n \in OvpnNames : runLog'[n].by = runLog[n].by,
           UNCHANGED <<pidFile, socket, wgUp, bundle, temps, drive, left, orphaned>>
    PROVE  DriverInv'
<1>1. /\ daemon' \in [Daemons -> [name : OvpnNames \cup {Nobody},
                                  st : {"none", "parent", "forked", "up", "dying", "dead"}]]
      /\ daemon'[d].st = st /\ \A e \in Daemons : daemon'[e].name = daemon[e].name
      /\ \A e \in Daemons : e # d => daemon'[e] = daemon[e]
      /\ CallsInv' /\ SecretsInv' /\ \A m : Driven(m)' <=> Driven(m)
  BY Restates
<1>2. MachineTypes'
  BY <1>1 DEF DriverInv, MachineTypes
<1>3. StrayInv'
  <2> SUFFICES ASSUME NEW e \in Daemons, NEW m \in OvpnNames, Serving(e)', daemon'[e].name = m
               PROVE  Placed(m, e)'
    BY DEF StrayInv
  <2>1. Serving(e) /\ daemon[e].name = m /\ (daemon[e].st # "parent" => daemon'[e].st # "parent")
    BY <1>1 DEF Serving
  <2>2. Placed(m, e)
    BY <2>1 DEF DriverInv, StrayInv
  <2>3. Tracked(m, e) => Tracked(m, e)'
    BY <2>1 DEF Tracked
  <2> QED  BY <2>2, <2>3, <1>1 DEF Placed, Fits
<1> QED  BY <1>1, <1>2, <1>3 DEF DriverInv

LEMMA LogsStep ==
    ASSUME DriverInv, NEW d \in Daemons, NEW st \in {"up", "dead"},
           NEW says \in {"nothing", "success", "noInterface", "failure"}, Logs(d, st, says)
    PROVE  DriverInv'
<1>1. /\ daemon[d].st = "forked" /\ daemon' = [daemon EXCEPT ![d].st = st]
      /\ runLog' = [n \in OvpnNames |-> IF runLog[n].by = d THEN [by |-> d, says |-> says] ELSE runLog[n]]
      /\ UNCHANGED <<pidFile, socket, wgUp, bundle, temps, drive, left, orphaned>>
  BY DEF Logs
<1>2. d \in 0..MaxDaemons
  BY DriverAssumption DEF Daemons
<1>3. /\ runLog' \in [OvpnNames -> [by : 0..MaxDaemons, says : {"nothing", "success", "noInterface", "failure"}]]
      /\ \A n \in OvpnNames : runLog'[n].by = runLog[n].by
  BY <1>1, <1>2 DEF DriverInv, MachineTypes
<1> QED  BY <1>1, <1>3, GoesOnStep

LEMMA DaemonEndsStep ==
    ASSUME DriverInv, NEW d \in Daemons, DaemonEnds(d)
    PROVE  DriverInv'
<1>1. /\ daemon[d].st # "none" /\ daemon' = [daemon EXCEPT ![d].st = "dead"]
      /\ UNCHANGED <<pidFile, runLog, socket, wgUp, bundle, temps, drive, left, orphaned>>
  BY DEF DaemonEnds, Lives
<1>2. runLog' \in [OvpnNames -> [by : 0..MaxDaemons, says : {"nothing", "success", "noInterface", "failure"}]]
  BY <1>1 DEF DriverInv, MachineTypes
<1> QED  BY <1>1, <1>2, GoesOnStep

-----------------------------------------------------------------------------
LEMMA DriverInvInit == DriverInit => DriverInv
<1> SUFFICES ASSUME DriverInit PROVE DriverInv
  OBVIOUS
<1>1. \A d \in Daemons : daemon[d].st = "none"
  BY DEF DriverInit, NoDaemon
<1>2. \A r \in Runners : drive[r] \in DriveRecords /\ drive[r].at = "idle" /\ drive[r].name = Nobody
  BY RecordFields DEF DriverInit
<1>3. CallsInv
  BY <1>1, <1>2 DEF DriverInit, CallsInv
<1>4. MachineTypes
  <2>1. NoLog \in [by : 0..MaxDaemons, says : {"nothing", "success", "noInterface", "failure"}]
    BY StageSets DEF NoLog
  <2>2. NoDaemon \in [name : OvpnNames \cup {Nobody}, st : {"none", "parent", "forked", "up", "dying", "dead"}]
    BY DEF NoDaemon
  <2> QED  BY <2>1, <2>2, StageSets DEF DriverInit, MachineTypes
<1>5. SecretsInv /\ StrayInv
  BY <1>1 DEF DriverInit, SecretsInv, StrayInv, Serving
<1> QED  BY <1>3, <1>4, <1>5 DEF DriverInv

LEMMA DriverInvStep == DriverInv /\ [DriverNext]_driverVars => DriverInv'
<1> SUFFICES ASSUME DriverInv, [DriverNext]_driverVars PROVE DriverInv'
  OBVIOUS
<1>1. ASSUME NEW r \in Runners,
             \/ \E n \in OvpnNames, mfa \in BOOLEAN : OvpnUp(r, n, mfa)
             \/ OvpnRefused(r) \/ OvpnCleans(r) \/ OvpnReadsBundle(r) \/ OvpnSpawns(r)
      PROVE  DriverInv'
  BY <1>1, OvpnUpStep, OvpnRefusedStep, OvpnCleansStep, OvpnReadsBundleStep, OvpnSpawnsStep
<1>2. ASSUME NEW r \in Runners,
             \/ MgmtConnects(r) \/ MgmtFails(r) \/ MgmtConnected(r)
             \/ MgmtEvent(r, "held", "released") \/ MgmtEvent(r, "released", "answered")
      PROVE  DriverInv'
  BY <1>2, MgmtStep
<1>3. ASSUME NEW r \in Runners,
             \/ OvpnJoins(r) \/ PollReady(r) \/ PollFails(r)
             \/ \E n \in OvpnNames : OvpnDown(r, n)
             \/ KillPid(r) \/ KillByName(r) \/ Unlinks(r)
      PROVE  DriverInv'
  BY <1>3, OvpnJoinsStep, PollReadyStep, PollFailsStep, OvpnDownStep, KillPidStep, KillByNameStep,
     UnlinksStep
<1>4. ASSUME NEW r \in Runners,
             \/ \E n \in WgNames, strip \in BOOLEAN : WgUp(r, n, strip)
             \/ WgQuickUp(r) \/ WgQuickFails(r) \/ WgQuickDown(r)
             \/ \E n \in WgNames : WgDown(r, n)
             \/ \E journal \in BOOLEAN : Start(r, journal)
             \/ RunnerDies(r)
      PROVE  DriverInv'
  BY <1>4, WgUpStep, WgQuickUpStep, WgQuickFailsStep, WgQuickDownStep, WgDownStep, StartStep,
     RunnerDiesStep
<1>5. ASSUME NEW d \in Daemons,
             \/ BindsSocket(d) \/ Forks(d) \/ DaemonEnds(d)
             \/ Logs(d, "up", "success") \/ Logs(d, "up", "noInterface")
             \/ Logs(d, "dead", "failure")
      PROVE  DriverInv'
  BY <1>5, BindsSocketStep, ForksStep, DaemonEndsStep, LogsStep
<1>6. CASE UNCHANGED driverVars
  <2>1. UNCHANGED <<daemon, pidFile, runLog, socket, wgUp, bundle, temps, drive, left, orphaned>>
    BY <1>6 DEF driverVars, machine
  <2>2. StrayInv'
    BY <2>1, SameStray DEF DriverInv, Driven
  <2> QED  BY <2>1, <2>2 DEF DriverInv, MachineTypes, CallsInv, SecretsInv
<1> QED  BY <1>1, <1>2, <1>3, <1>4, <1>5, <1>6 DEF DriverNext

LEMMA DriverInvImplies == DriverInv => NothingLeftBehind
<1> SUFFICES ASSUME DriverInv PROVE NothingLeftBehind
  OBVIOUS
<1>1. SecretsHaveOwner
  <2>1. \A n \in bundle : n \in left \/ Driven(n)
    BY DEF DriverInv, SecretsInv, Driven
  <2>2. \A t \in temps : t[2] \in left \/ Driven(t[2])
    BY DEF DriverInv, SecretsInv, MachineTypes, Driven
  <2> QED  BY <2>1, <2>2 DEF SecretsHaveOwner
<1>2. NoStrayDaemon
  <2> SUFFICES ASSUME NEW d \in Daemons, Serving(d), ~Driven(daemon[d].name), daemon[d].name \notin orphaned
               PROVE  pidFile[daemon[d].name] = d
    BY DEF NoStrayDaemon, Serving
  <2>1. daemon[d].name \in OvpnNames
    BY NamedNow DEF Serving, DaemonsNamed
  <2>2. Placed(daemon[d].name, d)
    BY <2>1 DEF DriverInv, StrayInv
  <2> QED  BY <2>2 DEF Placed, Tracked
<1> QED  BY <1>1, <1>2 DEF NothingLeftBehind

\* The variables of the protocol drivers always have their types.
THEOREM DriverTypeCorrect == DriverSpec => []DriverTypeOK
<1>1. DriverInv => DriverTypeOK
  BY TypesImply DEF DriverInv
<1> QED  BY <1>1, DriverInvInit, DriverInvStep, PTL DEF DriverSpec

\* Whatever any number of vortix processes do to any number of profiles, and
\* whenever their daemons write, die or are killed by a name that contains
\* theirs: a call that is over leaves no secret and no daemon behind.
THEOREM NothingLeftBehindHolds == DriverSpec => []NothingLeftBehind
BY DriverInvInit, DriverInvStep, DriverInvImplies, PTL DEF DriverSpec
=============================================================================
