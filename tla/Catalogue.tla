----------------------------- MODULE Catalogue -----------------------------
(* The profile catalogue of the TUI: the list it shows, the dialogs, queue   *)
(* and retry entries that hold positions in that list, and the files behind  *)
(* it, which CLI commands change as well.                                    *)
(*                                                                           *)
(* A name is a number: 10 * b for the base name b, 10 * b + k for the name   *)
(* "b_k" that get_unique_path makes of it, so that numbers sort as the names *)
(* do.  The connection control plane is VortixApp; here a tunnel is what the *)
(* catalogue's handlers ask of the registry, and the legacy view is any of   *)
(* its entries.                                                              *)
EXTENDS Naturals, Sequences, FiniteSets

CONSTANTS
    Bases,        \* base names
    Kinds,        \* what can be imported: <<extension, is it OpenVPN>>
    FirstOrders,  \* sort orders a session may have when we look at it first
    CatRetries,   \* connect_max_retries
    Commands,     \* what CLI commands do to the files meanwhile, each once
    MaxSteps,     \* bound: keys, answers, results, drops, imports, commands
    MaxFiles      \* bound: files ever imported

CommandKinds == {"import", "delete", "rename"}
ExtKinds == {"conf", "ovpn"}

ASSUME CatAssumption ==
    /\ Bases \subseteq Nat \ {0}
    /\ Kinds \subseteq ExtKinds \X BOOLEAN
    /\ FirstOrders \subseteq 1 .. 4 /\ CatRetries \in Nat
    /\ Commands \subseteq CommandKinds
    /\ MaxSteps \in Nat /\ MaxFiles \in Nat

VARIABLES
    list,       \* runtime.profiles
    order,      \* runtime.sort_order
    sel,        \* profile_list_state, 0 if nothing is selected
    dialog,     \* input_mode: the dialogs that are about a profile
    queue,      \* runtime.pending_connect, 0 if nothing is queued
    tunnel,     \* name -> its registry entry
    retry,      \* name -> runtime.retry_state
    timers,     \* RetryConnect messages on their way
    downloads,  \* imports being downloaded
    disk,       \* the profile files
    meta,       \* metadata.json: the last_used of each file's key
    auth,       \* the names with a saved auth file
    born,       \* files imported so far
    uses,       \* successful connects so far
    steps,
    ran,        \* history: the CLI commands that have run
    late        \* history: an import has failed under an open dialog

catFiles == <<disk, meta, auth, born>>
catConn  == <<queue, tunnel, retry, timers, uses>>
catUi    == <<list, order, sel, dialog>>
catHist  == <<downloads, steps, ran, late>>
catVars  == <<catUi, catConn, catFiles, catHist>>

Names  == {10 * b + k : b \in Bases, k \in 0 .. MaxFiles}
Orders == <<"NameAsc", "NameDesc", "LastUsed", "Protocol">>
TunnelStates == {"down", "connecting", "up", "closing"}
DialogKinds == {"none", "delete", "rename", "auth", "authConnect", "takeover", "refused"}

\* A file; its id tells one import from the next under the same name.
FileRecords == [name : Names, ext : ExtKinds, ov : BOOLEAN, id : Nat]
File(e) == [name |-> e.name, ext |-> e.ext, ov |-> e.ov, id |-> e.id]
Listing(f, u) == [name |-> f.name, ext |-> f.ext, ov |-> f.ov, id |-> f.id, used |-> u]
Key(f) == <<f.name, f.ext>>

NoDialog == [kind |-> "none", idx |-> 0, name |-> 0]
Dialog(k, i) == [kind |-> k, idx |-> i, name |-> list[i].name]
NoEntry == [attempt |-> 0, idx |-> 0, auto |-> FALSE]
Entry(a, i, x) == [attempt |-> a, idx |-> i, auto |-> x]

CatTypeOK ==
    /\ \A i \in DOMAIN list : File(list[i]) \in FileRecords /\ list[i].used \in Nat
    /\ order \in 1 .. 4
    /\ sel \in Nat
    /\ dialog \in [kind : DialogKinds, idx : Nat, name : Names \cup {0}]
    /\ queue \in Nat
    /\ tunnel \in [Names -> TunnelStates]
    /\ retry \in [Names -> [attempt : 0 .. CatRetries \cup {1}, idx : Nat, auto : BOOLEAN]]
    /\ disk \subseteq FileRecords
    /\ meta \in [Names \X ExtKinds -> Nat]
    /\ auth \subseteq Names

-----------------------------------------------------------------------------
(* sort_profiles, a stable sort *)

Precedes(o, a, b) ==
    \/ Orders[o] = "NameAsc" /\ a.name < b.name
    \/ Orders[o] = "NameDesc" /\ a.name > b.name
    \/ Orders[o] = "LastUsed" /\ a.used > b.used
    \/ Orders[o] = "Protocol" /\ \/ ~a.ov /\ b.ov
                                 \/ a.ov = b.ov /\ a.name < b.name

Place(l, o, i) ==
    Cardinality({j \in DOMAIN l : \/ Precedes(o, l[j], l[i])
                                  \/ ~Precedes(o, l[i], l[j]) /\ j < i}) + 1

SortedBy(l, o) ==
    [n \in DOMAIN l |-> l[CHOOSE i \in DOMAIN l : Place(l, o, i) = n]]

\* profiles.iter().position by name: the first one, 0 if there is none.
Position(l, n) ==
    IF \E i \in DOMAIN l : l[i].name = n
    THEN CHOOSE i \in DOMAIN l : l[i].name = n /\ \A j \in 1 .. i - 1 : l[j].name # n
    ELSE 0

Listed(i) == i \in DOMAIN list
Without(l, i) == SubSeq(l, 1, i - 1) \o SubSeq(l, i + 1, Len(l))

\* save_metadata: the listed profiles and nothing else.
Saved(l) ==
    [k \in Names \X ExtKinds |->
        IF \E i \in DOMAIN l : Key(l[i]) = k
        THEN l[CHOOSE i \in DOMAIN l : Key(l[i]) = k].used ELSE 0]

\* A session under way: load_profiles over two files and load_metadata, an order
\* chosen with CycleSortOrder, perhaps a profile used since, whose tunnel may
\* still be up, and a URL being downloaded.
CatInit ==
    /\ \E b, c \in Bases, k, m \in Kinds :
          /\ b <= c /\ <<b, k[1]>> # <<c, m[1]>>
          /\ disk = {[name |-> 10 * b, ext |-> k[1], ov |-> k[2], id |-> 1],
                     [name |-> 10 * c, ext |-> m[1], ov |-> m[2], id |-> 2]}
    /\ order \in FirstOrders
    /\ \E used \in 0 .. 2 :
          LET loaded == SortedBy([i \in 1 .. 2 |->
                                     Listing(CHOOSE f \in disk : f.id = i, 0)], order)
          IN /\ list = [i \in 1 .. 2 |-> [loaded[i] EXCEPT !.used = IF i = used THEN 1 ELSE 0]]
             /\ tunnel \in {[n \in Names |-> IF used # 0 /\ n = loaded[used].name THEN s ELSE "down"] :
                                s \in {"down", "connecting", "up"}}
    /\ uses = 1
    /\ meta = Saved(list)
    /\ sel = 1
    /\ downloads \in 0 .. 1
    /\ dialog = NoDialog
    /\ queue = 0
    /\ retry = [n \in Names |-> NoEntry]
    /\ timers = {}
    /\ auth = {}
    /\ born = 2 /\ steps = 0
    /\ ran = {} /\ late = FALSE

-----------------------------------------------------------------------------
(* Connecting, as far as the catalogue is concerned *)

Busy == {n \in Names : tunnel[n] # "down"}

\* connect_profile_inner(i): a missing tool or a missing root, the conflict
\* dialog (every profile claims the default route), the credentials dialog, or
\* the start.  The dialogs replace whatever is open.
ConnectAt(i, force, afterAuth, t) ==
    IF ~Listed(i) THEN tunnel' = t /\ UNCHANGED dialog
    ELSE LET n == list[i].name IN
      \/ dialog' = [NoDialog EXCEPT !.kind = "refused"] /\ tunnel' = t
      \/ /\ ~force /\ \E m \in Names \ {n} : t[m] \in {"connecting", "up"}
         /\ dialog' = [Dialog("takeover", i) EXCEPT !.idx = 0]
         /\ tunnel' = t
      \/ /\ force \/ \A m \in Names \ {n} : t[m] \notin {"connecting", "up"}
         /\ IF list[i].ov /\ ~afterAuth /\ n \notin auth
            THEN dialog' = Dialog("authConnect", i) /\ tunnel' = t
            ELSE tunnel' = [t EXCEPT ![n] = "connecting"] /\ UNCHANGED dialog

\* A key or a menu entry of the main screen.
Step == steps < MaxSteps /\ steps' = steps + 1
Act == Step /\ UNCHANGED <<downloads, ran, late>>
AtList == dialog.kind = "none"

\* profile_next, profile_previous, First, Last, QuickConnect's selection.
Select ==
    /\ AtList /\ Act
    /\ sel' \in (IF list = <<>> THEN {1} ELSE DOMAIN list) \ {sel}
    /\ UNCHANGED <<list, order, dialog, catConn, catFiles>>

\* CycleSortOrder: the selection stays with the name.
CycleSortOrder ==
    /\ AtList /\ Act
    /\ order' = (order % 4) + 1
    /\ list' = SortedBy(list, order')
    /\ sel' = IF Listed(sel) THEN Position(list', list[sel].name) ELSE sel
    /\ UNCHANGED <<dialog, catConn, catFiles>>

\* toggle_connection on the selected profile; queue' = i when the entry it
\* looks at is being torn down.
Toggle ==
    /\ AtList /\ Act /\ Listed(sel)
    /\ LET n == list[sel].name IN
       /\ retry' = [retry EXCEPT ![n] = NoEntry]
       /\ \/ /\ tunnel[n] = "up"
             /\ tunnel' = [tunnel EXCEPT ![n] = "closing"]
             /\ UNCHANGED <<dialog, queue>>
          \/ /\ tunnel[n] \in {"down", "closing"} /\ Busy = {}
             /\ ConnectAt(sel, FALSE, FALSE, tunnel)
             /\ UNCHANGED queue
          \/ /\ tunnel[n] \in {"down", "closing"}
             /\ \E m \in Busy :
                   \/ tunnel[m] = "closing" /\ queue' = sel /\ UNCHANGED dialog
                   \/ /\ tunnel[m] = "up"
                      /\ dialog' = [Dialog("takeover", sel) EXCEPT !.idx = 0]
                      /\ UNCHANGED queue
             /\ UNCHANGED tunnel
    /\ UNCHANGED <<list, order, sel, timers, uses, catFiles>>

\* The dialog resolves its profile by name; [B] connects it beside the other
\* one, [Y] queues it and takes the legacy entry down.
Takeover ==
    /\ dialog.kind = "takeover" /\ Act
    /\ dialog' = NoDialog
    /\ LET i == Position(list, dialog.name) IN
       \/ /\ i # 0 /\ queue' = 0
          /\ tunnel' = [tunnel EXCEPT ![dialog.name] = "connecting"]
       \/ /\ i # 0 /\ queue' = i
          /\ \/ Busy = {} /\ UNCHANGED tunnel
             \/ \E m \in Busy : tunnel' = [tunnel EXCEPT ![m] = "closing"]
       \/ UNCHANGED <<queue, tunnel>>
    /\ UNCHANGED <<list, order, sel, retry, timers, uses, catFiles>>

\* request_delete, handle_open_rename, handle_manage_auth.
OpenDialog ==
    /\ AtList /\ Act /\ Listed(sel)
    /\ \/ tunnel[list[sel].name] = "down" /\ dialog' = Dialog("delete", sel)
       \/ tunnel[list[sel].name] = "down" /\ dialog' = Dialog("rename", sel)
       \/ list[sel].ov /\ dialog' = Dialog("auth", sel)
    /\ UNCHANGED <<list, order, sel, catConn, catFiles>>

\* Esc, and the dialogs with nothing to say but what they say.
Cancel ==
    /\ dialog.kind # "none" /\ Act
    /\ dialog' = NoDialog
    /\ UNCHANGED <<list, order, sel, catConn, catFiles>>

\* confirm_delete: by position, refused if that profile is active by now; past the
\* list it returns at once and the dialog stays.
ConfirmDelete ==
    /\ dialog.kind = "delete" /\ Act
    /\ dialog' = IF Listed(dialog.idx) THEN NoDialog ELSE dialog
    /\ IF Listed(dialog.idx) /\ tunnel[list[dialog.idx].name] = "down"
       THEN LET e == list[dialog.idx] IN
            /\ list' = Without(list, dialog.idx)
            /\ disk' = {f \in disk : Key(f) # Key(e)}
            /\ auth' = IF e.ov THEN auth \ {e.name} ELSE auth
            /\ sel' = IF list' = <<>> THEN 0
                      ELSE IF sel > Len(list') THEN Len(list') ELSE sel
       ELSE UNCHANGED <<list, disk, auth, sel>>
    /\ UNCHANGED <<order, meta, born, catConn>>

\* rename_profile: refused if the file exists or has gone.  An active profile
\* is renamed all the same; its registry and retry entries keep the old name.
Rename(n) ==
    /\ dialog.kind = "rename" /\ Act
    /\ dialog' = NoDialog
    /\ IF /\ Listed(dialog.idx)
          /\ \A f \in disk : Key(f) # <<n, list[dialog.idx].ext>>
          /\ \E f \in disk : Key(f) = Key(list[dialog.idx])
       THEN LET e == list[dialog.idx]
                renamed == [list EXCEPT ![dialog.idx] = [e EXCEPT !.name = n]]
            IN
            /\ disk' = {IF Key(f) = Key(e) THEN [f EXCEPT !.name = n] ELSE f : f \in disk}
            /\ auth' = IF e.ov /\ e.name \in auth THEN (auth \ {e.name}) \cup {n} ELSE auth
            /\ meta' = Saved(renamed)
            /\ list' = SortedBy(renamed, order)
            /\ sel' = Position(list', n)
       ELSE UNCHANGED <<list, disk, auth, meta, sel>>
    /\ UNCHANGED <<order, born, catConn>>

\* handle_auth_submit: the file is written for whoever is at that position now.
\* Without "save" it goes again as soon as the worker was started.
SubmitAuth(save) ==
    /\ dialog.kind \in {"auth", "authConnect"} /\ Act
    /\ IF ~Listed(dialog.idx)
       THEN dialog' = NoDialog /\ UNCHANGED <<auth, tunnel>>
       ELSE LET n == list[dialog.idx].name IN
            /\ auth' = IF save \/ dialog.kind = "auth" THEN auth \cup {n} ELSE auth \ {n}
            /\ \/ dialog.kind = "auth" /\ dialog' = NoDialog /\ UNCHANGED tunnel
               \/ /\ dialog.kind = "authConnect"
                  /\ \/ /\ \E m \in Names \ {n} : tunnel[m] \in {"connecting", "up"}
                        /\ dialog' = [Dialog("takeover", dialog.idx) EXCEPT !.idx = 0]
                        /\ UNCHANGED tunnel
                     \/ /\ \A m \in Names \ {n} : tunnel[m] \notin {"connecting", "up"}
                        /\ dialog' = NoDialog
                        /\ tunnel' = [tunnel EXCEPT ![n] = "connecting"]
    /\ UNCHANGED <<list, order, sel, queue, retry, timers, uses, disk, meta, born>>

-----------------------------------------------------------------------------
(* Imports *)

\* Mutant: a file of that name is overwritten.
UniqueNameBlind(n, x) == n

\* get_unique_path: the name itself or the first free "_k".
UniqueName(n, x) ==
    n + (CHOOSE k \in 0 .. MaxFiles :
            /\ \A f \in disk : Key(f) # <<n + k, x>>
            /\ \A j \in 0 .. k - 1 : \E f \in disk : Key(f) = <<n + j, x>>)

\* vpn::import_profile: a copy in the profiles directory and a record of it.
Imported(b, k) == [name |-> UniqueName(10 * b, k[1]), ext |-> k[1], ov |-> k[2], id |-> born + 1]

\* import_profile_from_path of a file: the list is sorted whatever came of it;
\* a success selects the new profile and closes what is open.
ImportDone(b, k) ==
    /\ born < MaxFiles
    /\ born' = born + 1
    /\ disk' = disk \cup {Imported(b, k)}
    /\ list' = SortedBy(Append(list, Listing(Imported(b, k), 0)), order)
    /\ sel' = Position(list', Imported(b, k).name)
    /\ dialog' = NoDialog
    /\ UNCHANGED <<order, meta, auth, catConn>>

ImportRejected ==
    /\ list' = SortedBy(list, order)
    /\ UNCHANGED <<order, sel, dialog, catConn, catFiles>>

\* A file or, one after the other, the files of a directory; a URL.
ImportKey ==
    /\ AtList
    /\ \/ Act /\ (ImportRejected \/ \E b \in Bases, k \in Kinds : ImportDone(b, k))
       \/ /\ downloads' = downloads + 1 /\ Step
          /\ UNCHANGED <<ran, late, catUi, catConn, catFiles>>

Event == Step /\ UNCHANGED ran

\* Message::Import from the download thread, whatever is open.
Downloaded ==
    /\ downloads > 0 /\ Event
    /\ downloads' = downloads - 1
    /\ \/ \E b \in Bases, k \in Kinds : ImportDone(b, k) /\ UNCHANGED late
       \/ ImportRejected /\ late' = (late \/ dialog.kind # "none")

-----------------------------------------------------------------------------
(* What happens to tunnels *)

Seen == Event /\ UNCHANGED <<downloads, late>>

\* Mutant: the list is sorted whenever last_used changes.
ConnectOkSorts(n) ==
    LET i == Position(list, n)
        stamped == [list EXCEPT ![i] = [list[i] EXCEPT !.used = uses + 1]]
    IN /\ tunnel[n] = "connecting" /\ Seen /\ i # 0
       /\ tunnel' = [tunnel EXCEPT ![n] = "up"]
       /\ retry' = [retry EXCEPT ![n] = NoEntry]
       /\ uses' = uses + 1
       /\ list' = SortedBy(stamped, order)
       /\ meta' = Saved(stamped)
       /\ UNCHANGED <<order, sel, dialog, queue, timers, disk, auth, born>>

\* handle_connect_result, success: last_used is stamped, the list not sorted.
ConnectOk(n) ==
    LET i == Position(list, n)
        stamped == IF i = 0 THEN list
                   ELSE [list EXCEPT ![i] = [list[i] EXCEPT !.used = uses + 1]]
    IN /\ tunnel[n] = "connecting" /\ Seen
       /\ tunnel' = [tunnel EXCEPT ![n] = "up"]
       /\ retry' = [retry EXCEPT ![n] = NoEntry]
       /\ uses' = uses + 1
       /\ list' = stamped
       /\ meta' = Saved(stamped)
       /\ UNCHANGED <<order, sel, dialog, queue, timers, disk, auth, born>>

\* The same, failure: a retry at the position the profile has now.
ConnectFailed(n) ==
    LET i == Position(list, n)
        a == retry[n].attempt + 1
        again == i # 0 /\ a <= CatRetries /\ queue = 0
    IN /\ tunnel[n] = "connecting" /\ Seen
       /\ tunnel' = [tunnel EXCEPT ![n] = "down"]
       /\ retry' = [retry EXCEPT ![n] = IF again THEN Entry(a, i, retry[n].auto) ELSE NoEntry]
       /\ timers' = IF again THEN timers \cup {[idx |-> i, attempt |-> a]} ELSE timers
       /\ queue' = IF again THEN queue ELSE 0
       /\ UNCHANGED <<uses, catUi, catFiles>>

\* scanner_handle_drop, with auto_reconnect.
Drop(n) ==
    LET i == Position(list, n) IN
    /\ tunnel[n] = "up" /\ Seen
    /\ tunnel' = [tunnel EXCEPT ![n] = "down"]
    /\ retry' = IF i = 0 THEN retry ELSE [retry EXCEPT ![n] = Entry(1, i, TRUE)]
    /\ timers' = IF i = 0 THEN timers ELSE timers \cup {[idx |-> i, attempt |-> 1]}
    /\ UNCHANGED <<queue, uses, catUi, catFiles>>

\* scanner_adopt_session: a tunnel of a listed profile started outside.
Adopt(n) ==
    /\ tunnel[n] = "down" /\ Position(list, n) # 0 /\ Seen
    /\ tunnel' = [tunnel EXCEPT ![n] = "up"]
    /\ UNCHANGED <<queue, retry, timers, uses, catUi, catFiles>>

\* complete_disconnect: the queued position is connected, whoever is there.
Closed(n) ==
    /\ tunnel[n] = "closing" /\ Seen
    /\ queue' = 0
    /\ IF Listed(queue) THEN ConnectAt(queue, FALSE, FALSE, [tunnel EXCEPT ![n] = "down"])
       ELSE tunnel' = [tunnel EXCEPT ![n] = "down"] /\ UNCHANGED dialog
    /\ UNCHANGED <<list, order, sel, retry, timers, uses, catFiles>>

\* handle_retry_connect.  Of two equal timers the other one may still come.
RetryFires(t) ==
    /\ t \in timers /\ Seen
    /\ timers' \in {timers, timers \ {t}}
    /\ LET matches == /\ Listed(t.idx)
                      /\ retry[list[t.idx].name].idx = t.idx
                      /\ retry[list[t.idx].name].attempt = t.attempt
       IN \/ ~matches /\ UNCHANGED <<tunnel, dialog, retry>>
          \/ /\ matches /\ Busy # {}
             /\ retry' = [retry EXCEPT ![list[t.idx].name] = NoEntry]
             /\ UNCHANGED <<tunnel, dialog>>
          \/ /\ matches /\ Busy = {}
             /\ ConnectAt(t.idx, FALSE, FALSE, tunnel)
             /\ UNCHANGED retry
    /\ UNCHANGED <<list, order, sel, queue, uses, catFiles>>

\* handle_network_changed: every auto-reconnect entry, by the name that is at
\* its position now.
NetworkChanged ==
    LET idxs == {retry[n].idx : n \in {m \in Names : retry[m].auto}} \cap DOMAIN list IN
    /\ Busy = {} /\ idxs # {} /\ Seen
    /\ retry' = [n \in Names |->
                    IF \E i \in idxs : list[i].name = n
                    THEN Entry(1, CHOOSE i \in idxs : list[i].name = n, TRUE) ELSE retry[n]]
    /\ timers' = timers \cup {[idx |-> i, attempt |-> 1] : i \in idxs}
    /\ UNCHANGED <<queue, tunnel, uses, catUi, catFiles>>

-----------------------------------------------------------------------------
(* CLI commands beside the TUI; each builds its own list from the files *)

Beside(c) ==
    /\ c \in Commands \ ran /\ Step
    /\ ran' = ran \cup {c}
    /\ UNCHANGED <<downloads, late, catUi, catConn>>

\* handle_import.
CliImport(b, k) ==
    /\ Beside("import") /\ born < MaxFiles
    /\ born' = born + 1
    /\ disk' = disk \cup {Imported(b, k)}
    /\ UNCHANGED <<meta, auth>>

\* handle_delete of a profile whose tunnel is not up.
CliDelete(f) ==
    /\ Beside("delete") /\ tunnel[f.name] = "down"
    /\ disk' = disk \ {f}
    /\ auth' = IF f.ov THEN auth \ {f.name} ELSE auth
    /\ UNCHANGED <<meta, born>>

\* handle_rename.  new_headless reads no metadata, so that save_metadata writes
\* a file without any last_used; the credentials keep the old name.
CliRename(f, n) ==
    /\ Beside("rename") /\ tunnel[f.name] = "down"
    /\ \A g \in disk : Key(g) # <<n, f.ext>>
    /\ disk' = (disk \ {f}) \cup {[f EXCEPT !.name = n]}
    /\ meta' = [k \in Names \X ExtKinds |-> 0]
    /\ UNCHANGED <<auth, born>>

-----------------------------------------------------------------------------
UserKey ==
    \/ Select \/ CycleSortOrder \/ Toggle \/ Takeover \/ OpenDialog \/ Cancel
    \/ ConfirmDelete \/ ImportKey
    \/ \E b \in Bases : Rename(10 * b)
    \/ \E save \in BOOLEAN : SubmitAuth(save)

Arrival ==
    \/ Downloaded \/ NetworkChanged
    \/ \E n \in Names : ConnectOk(n) \/ ConnectFailed(n) \/ Drop(n) \/ Adopt(n) \/ Closed(n)
    \/ \E t \in timers : RetryFires(t)

Command ==
    \/ \E b \in Bases, k \in Kinds : CliImport(b, k)
    \/ \E f \in disk : CliDelete(f) \/ \E b \in Bases : CliRename(f, 10 * b)

CatNext == UserKey \/ Arrival \/ Command

CatSpec == CatInit /\ [][CatNext]_catVars

-----------------------------------------------------------------------------
(* Properties *)

\* A dialog acts on the profile it names: nothing that happens behind it moves
\* the list under the position it holds, except an import that was downloading,
\* fails, and sorts the list on its way out.
DialogIsRight ==
    (dialog.kind \in {"delete", "rename", "auth", "authConnect"} /\ ~late)
        => Listed(dialog.idx) /\ list[dialog.idx].name = dialog.name

\* As long as no CLI command renames or deletes behind the TUI, the list and
\* the profiles directory agree: every entry has a file of its own, and every
\* file the TUI's user put there is listed.
FilesMatchList ==
    ran \cap {"rename", "delete"} = {} =>
        /\ \A i \in DOMAIN list : File(list[i]) \in disk
        /\ \A i, j \in DOMAIN list : Key(list[i]) = Key(list[j]) => i = j
        /\ ran = {} => \A f \in disk : \E i \in DOMAIN list : File(list[i]) = f

\* Saved credentials do not outlive the OpenVPN profile they are named after.
NoOrphanSecrets ==
    (ran \cap {"rename", "delete"} = {} /\ ~late) =>
        \A n \in auth : \E f \in disk : f.name = n /\ f.ov

\* What metadata.json says of a listed profile is never older than what the
\* list shows: a restart does not forget a connect, a rename included.
HistoryKept ==
    ran \cap {"rename", "delete"} = {} =>
        \A i \in DOMAIN list : meta[Key(list[i])] >= list[i].used

\* What is on disk is what the list says, and what a restart will read: the
\* files, the credentials and the history of connects (confirm_delete,
\* rename_profile, import_profile, save_metadata).
DiskMatchesList == FilesMatchList /\ NoOrphanSecrets /\ HistoryKept
=============================================================================
