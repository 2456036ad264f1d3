---------------------------- MODULE ProfileStore ----------------------------
(* The sidecar store of the profiles directory (FsProfileStore), the         *)
(* migration that every start of vortix runs over it, and the App beside     *)
(* them, which imports, renames and deletes profile files and knows nothing  *)
(* of sidecars.  Processes interleave at every file operation and may die    *)
(* between two; std::fs::write truncates before it writes, and two writers   *)
(* of one temporary file share its inode.                                    *)
EXTENDS Naturals

CONSTANTS
    Starters,     \* the processes
    StoreNames,   \* display names
    StoreIds,     \* profile ids given to insert; 0 stands for none
    Directories,  \* the sets of config files a start may find
    StoreFaults,  \* what may go wrong
    MaxStoreOps   \* bound: operations started, the App's included

Protos == {"conf", "ovpn"}
Configs == StoreNames \X Protos
StoreFaultKinds == {"crash", "io"}

ASSUME StoreAssumption ==
    /\ StoreIds \subseteq Nat \ {0}
    /\ StoreNames \subseteq Nat \ {0}
    /\ Directories \subseteq SUBSET Configs
    /\ StoreFaults \subseteq StoreFaultKinds
    /\ MaxStoreOps \in Nat

VARIABLES
    cfgs,      \* config files
    cfgTmp,    \* *.conf.tmp, *.ovpn.tmp
    sidecar,   \* *.meta.toml
    sideTmp,   \* *.meta.toml.tmp
    op,        \* process -> its operation
    held,      \* process -> what its open descriptor is by now
    todo,      \* process -> the directory entries it has not come to
    walk,      \* history: the entries its migration found, has it just ended
    shared,    \* history: two processes wrote one temporary file at a time
    broke,     \* history: a process died or a write failed
    storeOps

storeFiles == <<cfgs, cfgTmp, sidecar, sideTmp>>
storeProcs == <<op, held, todo>>
storeVars == <<storeFiles, storeProcs, walk, shared, broke, storeOps>>

\* A sidecar that is missing, truncated, or a record of a profile.
NoRecord == [is |-> "none", name |-> 0, id |-> 0, ext |-> "conf"]
Truncated == [NoRecord EXCEPT !.is = "empty"]
SideRecord(n, i, x) == [is |-> "full", name |-> n, id |-> i, ext |-> x]

\* stable_profile_id: of the name and the first 4 KiB.
StableId(n) == 100 * n
AllIds == StoreIds \cup {StableId(n) : n \in StoreNames}
SidecarFiles == [is : {"none", "empty", "full"}, name : StoreNames \cup {0},
                 id : AllIds \cup {0}, ext : Protos]

NoOp == [kind |-> "idle", at |-> "idle", rec |-> NoRecord]
Op(k, a, r) == [kind |-> k, at |-> a, rec |-> r]
Ops == [kind : {"idle", "insert", "touch", "delete", "migrate"},
        at : {"idle", "cfgRename", "sideOpen", "sideFill", "sideRename",
              "rmCfg", "rmSide", "next"},
        rec : SidecarFiles]

StoreTypeOK ==
    /\ cfgs \subseteq Configs /\ cfgTmp \subseteq Configs
    /\ sidecar \in [StoreNames -> SidecarFiles]
    /\ sideTmp \in [StoreNames -> SidecarFiles]
    /\ op \in [Starters -> Ops]
    /\ held \in [Starters -> {"nothing", "tmp", "file", "unlinked"}]
    /\ todo \in [Starters -> SUBSET Configs]
    /\ walk \in [Starters -> [found : SUBSET Configs, over : BOOLEAN]]
    /\ shared \in BOOLEAN /\ broke \in BOOLEAN

\* A directory from before sidecars.
StoreInit ==
    /\ cfgs \in Directories
    /\ cfgTmp = {} /\ sidecar = [n \in StoreNames |-> NoRecord]
    /\ sideTmp = [n \in StoreNames |-> NoRecord]
    /\ op = [p \in Starters |-> NoOp]
    /\ held = [p \in Starters |-> "nothing"]
    /\ todo = [p \in Starters |-> {}]
    /\ walk = [p \in Starters |-> [found |-> {}, over |-> FALSE]]
    /\ shared = FALSE /\ broke = FALSE /\ storeOps = 0

\* Something begins; history: a config is no longer there.
Begins == storeOps < MaxStoreOps /\ storeOps' = storeOps + 1
Ended(w) == [p \in Starters |-> [w[p] EXCEPT !.over = FALSE]]
WithoutConfig(w, c) == [p \in Starters |-> [w[p] EXCEPT !.found = @ \ {c}]]

Goes(p, a) == op' = [op EXCEPT ![p].at = a]
Starts(p, o) == op[p] = NoOp /\ Begins /\ op' = [op EXCEPT ![p] = o]

\* Once a sidecar is in place, or was given up.
AfterSidecar(p) == IF op[p].kind = "migrate" THEN Op("migrate", "next", NoRecord) ELSE NoOp

-----------------------------------------------------------------------------
(* The operations, one file operation at a time *)

\* insert: refused if another profile has a sidecar of that name.
InsertProfile(p, n, i, x) ==
    /\ sidecar[n].is = "none" \/ (sidecar[n].is = "full" /\ sidecar[n].id = i)
    /\ Starts(p, Op("insert", "cfgRename", SideRecord(n, i, x)))
    /\ cfgTmp' = cfgTmp \cup {<<n, x>>}
    /\ walk' = Ended(walk)
    /\ UNCHANGED <<cfgs, sidecar, sideTmp, held, todo, shared, broke>>

\* touch and delete: the first sidecar with that id in the order of the directory,
\* which is any.  One that does not parse is an error when it comes before it, and
\* then nothing is done; one that comes after it is never read.
FindSidecar(p, i, k, a) ==
    /\ \E n \in StoreNames :
          sidecar[n].is = "full" /\ sidecar[n].id = i /\ Starts(p, Op(k, a, sidecar[n]))
    /\ walk' = Ended(walk)
    /\ UNCHANGED <<storeFiles, held, todo, shared, broke>>

\* migrate_legacy_profiles.
Migrate(p) ==
    /\ Starts(p, Op("migrate", "next", NoRecord))
    /\ todo' = [todo EXCEPT ![p] = cfgs]
    /\ walk' = [Ended(walk) EXCEPT ![p].found = cfgs]
    /\ UNCHANGED <<storeFiles, held, shared, broke>>

\* The next entry, if it is still a file; one whose name has a sidecar is done,
\* whatever its extension.
MigrateNext(p) ==
    /\ op[p].at = "next" /\ todo[p] # {}
    /\ \E c \in todo[p] :
          /\ todo' = [todo EXCEPT ![p] = @ \ {c}]
          /\ IF c \notin cfgs \/ sidecar[c[1]].is # "none" THEN UNCHANGED op
             ELSE op' = [op EXCEPT ![p] = Op("migrate", "sideOpen",
                                             SideRecord(c[1], StableId(c[1]), c[2]))]
    /\ UNCHANGED <<storeFiles, held, walk, shared, broke, storeOps>>

MigrateDone(p) ==
    /\ op[p].at = "next" /\ todo[p] = {}
    /\ op' = [op EXCEPT ![p] = NoOp]
    /\ walk' = [walk EXCEPT ![p].over = TRUE]
    /\ UNCHANGED <<storeFiles, held, todo, shared, broke, storeOps>>

ConfigRename(p) ==
    /\ op[p].at = "cfgRename" /\ Goes(p, "sideOpen")
    /\ LET c == <<op[p].rec.name, op[p].rec.ext>> IN
       cfgs' = cfgs \cup {c} /\ cfgTmp' = cfgTmp \ {c}
    /\ UNCHANGED <<sidecar, sideTmp, held, todo, walk, shared, broke, storeOps>>

\* Mutant: the sidecar is written in place.
SidecarOpenInPlace(p) ==
    /\ op[p].at = "sideOpen" /\ Goes(p, "sideFill")
    /\ held' = [held EXCEPT ![p] = "file"]
    /\ sidecar' = [sidecar EXCEPT ![op[p].rec.name] = Truncated]
    /\ UNCHANGED <<cfgs, cfgTmp, sideTmp, todo, walk, shared, broke, storeOps>>

\* write_sidecar, write_sidecar_for: truncate the temporary file, fill it,
\* rename it.
SidecarOpen(p) ==
    /\ op[p].at = "sideOpen" /\ Goes(p, "sideFill")
    /\ held' = [held EXCEPT ![p] = "tmp"]
    /\ sideTmp' = [sideTmp EXCEPT ![op[p].rec.name] = Truncated]
    /\ shared' = (shared \/ \E q \in Starters \ {p} :
                       op[q].rec.name = op[p].rec.name /\ op[q].at \in {"sideFill", "sideRename"})
    /\ UNCHANGED <<cfgs, cfgTmp, sidecar, todo, walk, broke, storeOps>>

SidecarFill(p) ==
    LET n == op[p].rec.name IN
    /\ op[p].at = "sideFill" /\ Goes(p, "sideRename")
    /\ sideTmp' = IF held[p] = "tmp" THEN [sideTmp EXCEPT ![n] = op[p].rec] ELSE sideTmp
    /\ sidecar' = IF held[p] = "file" THEN [sidecar EXCEPT ![n] = op[p].rec] ELSE sidecar
    /\ held' = [held EXCEPT ![p] = "nothing"]
    /\ UNCHANGED <<cfgs, cfgTmp, todo, walk, shared, broke, storeOps>>

\* What the descriptors of the others are when the file p works on replaces the
\* sidecar, or the sidecar goes.
Moved(p, n) ==
    [q \in Starters |->
        IF op[q].rec.name # n THEN held[q]
        ELSE IF held[q] = "file" THEN "unlinked"
        ELSE IF held[q] = "tmp" /\ op[p].at = "sideRename" THEN "file" ELSE held[q]]

\* The rename fails if another process has moved the temporary file already.
SidecarRename(p) ==
    LET n == op[p].rec.name IN
    /\ op[p].at = "sideRename"
    /\ op' = [op EXCEPT ![p] = AfterSidecar(p)]
    /\ IF sideTmp[n].is = "none" THEN UNCHANGED <<sidecar, sideTmp, held>>
       ELSE /\ sidecar' = [sidecar EXCEPT ![n] = sideTmp[n]]
            /\ sideTmp' = [sideTmp EXCEPT ![n] = NoRecord]
            /\ held' = Moved(p, n)
    /\ UNCHANGED <<cfgs, cfgTmp, todo, walk, shared, broke, storeOps>>

\* delete: the config, whether or not that works, then the sidecar.
RemoveConfig(p) ==
    LET c == <<op[p].rec.name, op[p].rec.ext>> IN
    /\ op[p].at = "rmCfg" /\ Goes(p, "rmSide")
    /\ cfgs' = cfgs \ {c}
    /\ walk' = WithoutConfig(walk, c)
    /\ UNCHANGED <<cfgTmp, sidecar, sideTmp, held, todo, shared, broke, storeOps>>

RemoveSidecar(p) ==
    /\ op[p].at = "rmSide" /\ op' = [op EXCEPT ![p] = NoOp]
    /\ sidecar' = [sidecar EXCEPT ![op[p].rec.name] = NoRecord]
    /\ held' = Moved(p, op[p].rec.name)
    /\ walk' = [q \in Starters |->
                   [walk[q] EXCEPT !.found = {c \in @ : c[1] # op[p].rec.name}]]
    /\ UNCHANGED <<cfgs, cfgTmp, sideTmp, todo, shared, broke, storeOps>>

\* A write fails: the operation ends, a migration goes on with the next file.
WriteFails(p) ==
    /\ "io" \in StoreFaults
    /\ op[p].at \in {"cfgRename", "sideOpen", "sideFill"}
    /\ op' = [op EXCEPT ![p] = AfterSidecar(p)]
    /\ held' = [held EXCEPT ![p] = "nothing"]
    /\ walk' = [walk EXCEPT ![p].found = {c \in @ : c[1] # op[p].rec.name}]
    /\ broke' = TRUE
    /\ UNCHANGED <<storeFiles, todo, shared, storeOps>>

ProcessDies(p) ==
    /\ "crash" \in StoreFaults /\ op[p] # NoOp
    /\ op' = [op EXCEPT ![p] = NoOp]
    /\ held' = [held EXCEPT ![p] = "nothing"]
    /\ todo' = [todo EXCEPT ![p] = {}]
    /\ broke' = TRUE
    /\ UNCHANGED <<storeFiles, walk, shared, storeOps>>

-----------------------------------------------------------------------------
(* The App: import_profile, rename_profile, confirm_delete *)

AppImports(c) ==
    /\ Begins /\ c \notin cfgs /\ cfgs' = cfgs \cup {c}
    /\ walk' = Ended(walk)
    /\ UNCHANGED <<cfgTmp, sidecar, sideTmp, storeProcs, shared, broke>>

AppRenames(c, n) ==
    /\ Begins /\ c \in cfgs /\ <<n, c[2]>> \notin cfgs
    /\ cfgs' = (cfgs \ {c}) \cup {<<n, c[2]>>}
    /\ walk' = WithoutConfig(Ended(walk), c)
    /\ UNCHANGED <<cfgTmp, sidecar, sideTmp, storeProcs, shared, broke>>

AppDeletes(c) ==
    /\ Begins /\ c \in cfgs /\ cfgs' = cfgs \ {c}
    /\ walk' = WithoutConfig(Ended(walk), c)
    /\ UNCHANGED <<cfgTmp, sidecar, sideTmp, storeProcs, shared, broke>>

StoreNext ==
    \/ \E p \in Starters :
          \/ Migrate(p) \/ MigrateNext(p) \/ MigrateDone(p)
          \/ ConfigRename(p) \/ SidecarOpen(p) \/ SidecarFill(p) \/ SidecarRename(p)
          \/ RemoveConfig(p) \/ RemoveSidecar(p) \/ WriteFails(p) \/ ProcessDies(p)
          \/ \E i \in StoreIds, n \in StoreNames, x \in Protos : InsertProfile(p, n, i, x)
          \/ \E i \in AllIds :
                FindSidecar(p, i, "touch", "sideOpen") \/ FindSidecar(p, i, "delete", "rmCfg")
    \/ \E c \in Configs :
          AppImports(c) \/ AppDeletes(c) \/ \E n \in StoreNames : AppRenames(c, n)

StoreSpec == StoreInit /\ [][StoreNext]_storeVars

-----------------------------------------------------------------------------
\* However the starts of vortix interleave, and wherever one of them dies,
\* between operations every sidecar is whole and names its own file: a broken
\* one would be taken for done by every later migration and make the store
\* refuse all profiles.  (The exception: two of them write one temporary file
\* at a time and one dies, or cannot write.)
SidecarsWhole ==
    (~(shared /\ broke) /\ \A p \in Starters : op[p] = NoOp) =>
        \A n \in StoreNames :
            sidecar[n].is # "none" => sidecar[n].is = "full" /\ sidecar[n].name = n

\* A migration that ran to its end, after however many that did not, leaves no
\* file it found and could write for without a sidecar.
MigrationCovers ==
    \A p \in Starters : walk[p].over =>
        \A c \in walk[p].found : sidecar[c[1]].is # "none"

\* After any deaths, failures and interleaved starts, the next migration that
\* runs to its end finds nothing that stops it and leaves nothing out
\* (migrate_legacy_profiles, write_sidecar_for).
StoreRecovers == SidecarsWhole /\ MigrationCovers
=============================================================================
