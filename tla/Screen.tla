------------------------------- MODULE Screen -------------------------------
(* The terminal interface: which panel, menu, viewer or dialog the keyboard   *)
(* belongs to, what each key does there, and what arrives meanwhile from the  *)
(* background.  Profiles are counted, texts have a length and a cursor, and a *)
(* letter that stands for an arrow key outside text is that arrow key.        *)
EXTENDS Naturals, FiniteSets, Sequences

CONSTANTS
    MaxProfiles,     \* profiles in the list (bound)
    MaxText,         \* characters in a text field (bound)
    Heights,         \* lines of a viewer that the terminal can show: 13 or more where the
                     \* dashboard is drawn, in a lower terminal a notice replaces it
    FileLines,       \* lengths of configuration files
    HelpLines,       \* [HelpTabs -> lines of the tab]
    PageSize         \* constants::PROFILE_LIST_PAGE_SIZE

Panels   == <<"Sidebar", "Chart", "ConnectionDetails", "Security", "Logs">>
HelpTabs == <<"Keys", "Roles", "Sigils", "Guard">>
Flippable == {"Chart", "ConnectionDetails", "Security"}

Asking   == {"ConfirmDelete", "Takeover", "RouteOverlap", "DisconnectAll"}
Alerts   == {"DependencyError", "PermissionDenied"}
Modes    == {"Normal", "Import", "Rename", "Search", "AuthPrompt", "Help"} \union Asking \union Alerts

Chars == {"q", "v", "z", "x", "b", "y", "n", "?", "/", "i", "a", "R", "d", "D", "1"}
Keys  == Chars \union {"Esc", "Enter", "Tab", "BackTab", "Up", "Down", "Left", "Right",
                       "Home", "End", "PageUp", "PageDown", "Backspace", "Delete", "F1", "F5"}

ASSUME ScreenAssumption ==
    /\ MaxProfiles \in Nat /\ MaxText \in Nat /\ PageSize \in Nat
    /\ Heights \subseteq Nat \ {0} /\ FileLines \subseteq Nat
    /\ HelpLines \in [{"Keys", "Roles", "Sigils", "Guard"} -> Nat]

VARIABLE ui          \* App's fields of the interface, a record

screenVars == <<ui>>

\* InputMode: the fields a kind of dialog has not are at rest.  wide counts the
\* bytes of a character of a saved credential.
NoMode == [kind |-> "Normal", chars |-> 0, cursor |-> 0, wide |-> 1, yes |-> FALSE,
           field |-> "Username", hasOtp |-> FALSE, pass |-> FALSE, otp |-> FALSE,
           scroll |-> 0, tab |-> "Keys"]
NoConfig == [open |-> FALSE, scroll |-> 0, lines |-> 0]
NoMenu   == [kind |-> "none", item |-> 0]

\* sel is 0 for no selection and k for the k-th row, which an empty list lacks.
ScreenInit ==
    \E n \in 0..MaxProfiles, h \in Heights :
        ui = [running |-> TRUE, profiles |-> n, sel |-> IF n > 0 THEN 1 ELSE 0,
              panel |-> "Sidebar", zoom |-> "none", config |-> NoConfig, menu |-> NoMenu,
              mode |-> NoMode, toast |-> FALSE, rows |-> h]

Toasted(u) == [u EXCEPT !.toast = TRUE]
Perhaps(u) == {u, Toasted(u)}

\* The App is dropped, and its fields with it.
Quit(u) == [u EXCEPT !.running = FALSE, !.panel = "Sidebar", !.zoom = "none", !.toast = FALSE,
                     !.sel = 0, !.config = NoConfig, !.menu = NoMenu, !.mode = NoMode]

Lesser(a, b)  == IF a < b THEN a ELSE b
Minus(a, b)   == IF a < b THEN 0 ELSE a - b
IndexIn(s, x) == CHOOSE i \in DOMAIN s : s[i] = x
PanelAfter(s, x) == s[(IndexIn(s, x) % Len(s)) + 1]
Before(s, x)  == s[((IndexIn(s, x) + Len(s) - 2) % Len(s)) + 1]

Opened(u, kind) == [u EXCEPT !.mode = [NoMode EXCEPT !.kind = kind]]
CloseOverlay(u) == [u EXCEPT !.config = NoConfig, !.menu = NoMenu, !.mode = NoMode]

-----------------------------------------------------------------------------
(* Connecting, as far as the screen sees it                                   *)

\* The prompt of a connect: saved credentials are filled in, and a static
\* challenge moves straight to the code when they are complete.
AuthPrompts(u) ==
    {[Opened(u, "AuthPrompt") EXCEPT !.mode.hasOtp = otp] : otp \in BOOLEAN} \union
    {[Opened(u, "AuthPrompt") EXCEPT !.mode.hasOtp = TRUE, !.mode.pass = TRUE, !.mode.field = "Otp",
        !.mode.chars = MaxText, !.mode.cursor = MaxText, !.mode.wide = wide] : wide \in {1, 2}}

Gates(u) == {Opened(u, kind) : kind \in Alerts}
Conflicts(u) ==
    {[Opened(u, kind) EXCEPT !.mode.yes = TRUE] : kind \in {"Takeover", "RouteOverlap"}}

\* connect_profile: one of its gates takes over the screen, or it goes ahead.
AskToConnect(u) == {u} \union Gates(u) \union Conflicts(u) \union AuthPrompts(u)

-----------------------------------------------------------------------------
(* Messages                                                                   *)

Selected(u) == u.sel \in 1..u.profiles      \* profiles.get(selected) is Some

ConfigMax(u) == Minus(u.config.lines, u.rows)

OpenConfig(u) ==
    IF u.sel = 0 THEN {u}
    ELSE {[u EXCEPT !.config = [open |-> TRUE, scroll |-> 0, lines |-> n]] :
            n \in IF Selected(u) THEN FileLines ELSE {0}}

\* A bug: the cursor of the prefilled name counts one place too many.
OpenRenamePast(u) ==
    IF ~Selected(u) THEN {u}
    ELSE {Toasted(u)} \union
         {[Opened(u, "Rename") EXCEPT !.mode.chars = n, !.mode.cursor = n + 1] : n \in 1..MaxText}

OpenRename(u) ==
    IF ~Selected(u) THEN {u}
    ELSE {Toasted(u)} \union
         {[Opened(u, "Rename") EXCEPT !.mode.chars = n, !.mode.cursor = n] : n \in 1..MaxText}

\* handle_manage_auth puts the cursors behind the last byte, not the last character.
ManageAuth(u) ==
    IF ~Selected(u) THEN {u}
    ELSE {Toasted(u), Opened(u, "AuthPrompt")} \union
         {[Opened(u, "AuthPrompt") EXCEPT !.mode.chars = MaxText, !.mode.cursor = wide * MaxText,
            !.mode.wide = wide, !.mode.pass = TRUE] : wide \in {1, 2}}

RequestDelete(u) == IF Selected(u) THEN {Toasted(u), Opened(u, "ConfirmDelete")} ELSE {u}

Sorted(u) ==
    IF Selected(u) THEN {Toasted([u EXCEPT !.sel = i]) : i \in 1..u.profiles} ELSE {Toasted(u)}

ToggleZoom(u) == [u EXCEPT !.zoom = IF @ = "none" THEN u.panel ELSE "none"]

OpenActionMenu(u) ==
    IF u.sel # 0 \/ u.panel # "Sidebar"
    THEN [u EXCEPT !.menu = [kind |-> "action", item |-> 1]] ELSE u

\* handle_message, for the messages that keys and menus send.
HandleMessage(u, msg) ==
    CASE msg = "OpenImport"        -> {Opened(u, "Import")}
      [] msg = "OpenSearch"        -> {Opened(u, "Search")}
      [] msg = "OpenHelp"          -> {Opened(u, "Help")}
      [] msg = "OpenConfig"        -> OpenConfig(u)
      [] msg = "OpenRename"        -> OpenRename(u)
      [] msg = "OpenDelete"        -> RequestDelete(u)
      [] msg = "ManageAuth"        -> ManageAuth(u)
      [] msg = "CycleSortOrder"    -> Sorted(u)
      [] msg = "ToggleZoom"        -> {ToggleZoom(u)}
      [] msg = "NextPanel"         -> {[u EXCEPT !.panel = PanelAfter(Panels, @)]}
      [] msg = "PreviousPanel"     -> {[u EXCEPT !.panel = Before(Panels, @)]}
      [] msg = "Quit"              -> {Quit(u)}
      [] msg = "ToggleConnect"     -> IF Selected(u) THEN AskToConnect(u) ELSE {u}
      [] msg = "Reconnect"         -> AskToConnect(u) \union {Toasted(u)}
      [] OTHER                     -> Perhaps(u)   \* acts on tunnels, firewall, clipboard or log

\* get_single_actions and get_bulk_actions: the key and the message of each row.
SingleActions(panel) ==
    (CASE panel = "Sidebar" ->
            <<<<"i", "OpenImport">>, <<"c", "ToggleConnect">>, <<"r", "ToggleConnect">>,
              <<"v", "OpenConfig">>, <<"a", "ManageAuth">>, <<"A", "ClearAuth">>,
              <<"DEL", "OpenDelete">>, <<"s", "CycleSortOrder">>, <<"R", "OpenRename">>>>
       [] panel = "Logs"              -> <<<<"L", "ClearLogs">>, <<"f", "CycleLogFilter">>>>
       [] panel = "ConnectionDetails" -> <<<<"y", "CopyIp">>>>
       [] panel = "Security"          -> <<<<"K", "ToggleKillSwitch">>>>
       [] OTHER                       -> <<>>)
    \o (IF panel \in Flippable THEN <<<<"f", "ToggleFlip">>>> ELSE <<>>)
    \o <<<<"z", "ToggleZoom">>>>
BulkActions ==
    <<<<"i", "OpenImport">>, <<"r", "Reconnect">>, <<"D", "Disconnect">>, <<"y", "CopyIp">>,
      <<"K", "ToggleKillSwitch">>, <<"/", "OpenSearch">>, <<"?", "OpenHelp">>,
      <<"l", "NextPanel">>, <<"h", "PreviousPanel">>, <<"q", "Quit">>>>
Actions(u) == IF u.menu.kind = "bulk" THEN BulkActions ELSE SingleActions(u.panel)

-----------------------------------------------------------------------------
(* Keys, layer by layer                                                       *)

\* The menu is closed first, then its row acts.
Fire(u, msg) == HandleMessage([u EXCEPT !.menu = NoMenu], msg)

MenuKey(u, k) ==
    LET rows  == Actions(u)
        n     == Len(rows)
        keyed == {i \in 1..n : rows[i][1] = k \/ (rows[i][1] = "DEL" /\ k \in {"Delete", "Backspace"})
                                  \/ (rows[i][1] = "d" /\ k = "D") \/ (rows[i][1] = "D" /\ k = "d")}
    IN  CASE k \in {"Esc", "x", "b"} -> {CloseOverlay(u)}
          [] k = "Up"    -> {[u EXCEPT !.menu.item = IF @ > 1 THEN @ - 1 ELSE n]}
          [] k = "Down"  -> {[u EXCEPT !.menu.item = IF @ < n THEN @ + 1 ELSE 1]}
          [] k = "Enter" -> IF u.menu.item \in 1..n THEN Fire(u, rows[u.menu.item][2]) ELSE {u}
          [] OTHER       -> IF keyed = {} THEN {u}
                            ELSE Fire(u, rows[CHOOSE i \in keyed : \A j \in keyed : i <= j][2])

ConfigKey(u, k) ==
    CASE k \in {"Esc", "v"} -> CloseOverlay(u)
      [] k = "Up"   -> [u EXCEPT !.config.scroll = Minus(@, 1)]
      [] k = "Down" -> [u EXCEPT !.config.scroll = IF @ < ConfigMax(u) THEN @ + 1 ELSE @]
      [] k = "Home" -> [u EXCEPT !.config.scroll = 0]
      [] k = "End"  -> [u EXCEPT !.config.scroll = ConfigMax(u)]
      [] OTHER      -> u

\* handle_text_field_input, of a text of m.chars characters.  Removing from an empty
\* text panics: {} is the end of the program.
TextKey(m, k) ==
    CASE k = "Left"      -> {[m EXCEPT !.cursor = Minus(@, 1)]}
      [] k = "Right"     -> {[m EXCEPT !.cursor = IF @ < m.chars THEN @ + 1 ELSE @]}
      [] k = "Home"      -> {[m EXCEPT !.cursor = 0]}
      [] k = "End"       -> {[m EXCEPT !.cursor = m.chars]}
      [] k = "Backspace" -> IF m.cursor = 0 THEN {m}
                            ELSE IF m.chars = 0 THEN {}
                            ELSE {[m EXCEPT !.chars = @ - 1, !.cursor = @ - 1]}
      [] k = "Delete"    -> {[m EXCEPT !.chars = IF m.cursor < @ THEN @ - 1 ELSE @]}
      [] k \in Chars     -> IF m.chars = MaxText THEN {m}
                            ELSE {[m EXCEPT !.chars = @ + 1, !.cursor = @ + 1]}
      [] OTHER           -> {m}

Typed(u, k) ==
    IF TextKey(u.mode, k) = {} THEN {Quit(u)}
    ELSE {[u EXCEPT !.mode = m] : m \in TextKey(u.mode, k)}

\* A profile file, a directory of them or a finished download comes into the list.
CatalogueGrew(u) ==
    IF u.profiles = MaxProfiles THEN {}
    ELSE {Toasted(CloseOverlay([u EXCEPT !.profiles = @ + 1, !.sel = i])) :
            i \in {u.sel} \union 1..u.profiles + 1}

ImportOverlayKey(u, k) ==
    CASE k = "Esc"   -> {CloseOverlay(u)}
      [] k = "Enter" -> {Toasted(u)} \union CatalogueGrew(u)
      [] OTHER       -> Typed(u, k)

RenameKey(u, k) ==
    LET closed == [u EXCEPT !.mode = NoMode]
    IN  CASE k = "Esc"   -> {closed}
          [] k = "Enter" -> IF u.mode.chars = 0 THEN {closed} ELSE {Toasted(closed)} \union Sorted(closed)
          [] OTHER       -> Typed(u, k)

\* apply_search_filter: the empty query selects the first row, even of no rows.
SearchKey(u, k) ==
    IF k \in {"Esc", "Enter"} THEN {[u EXCEPT !.mode = NoMode]}
    ELSE IF k \notin Chars \union {"Backspace", "Delete"} THEN Typed(u, k)
    ELSE UNION {IF v.mode.chars = 0 THEN {[v EXCEPT !.sel = 1]}
                ELSE {[v EXCEPT !.sel = i] : i \in {v.sel} \union 1..v.profiles} : v \in Typed(u, k)}

Fields(hasOtp) ==
    IF hasOtp THEN <<"Username", "Password", "Otp", "SaveCheckbox">>
              ELSE <<"Username", "Password", "SaveCheckbox">>

\* AuthSubmit closes the prompt; a connect follows, without a second prompt.
AuthSubmit(u) ==
    LET closed == [u EXCEPT !.mode = NoMode]
    IN  Perhaps(closed) \union Gates(closed) \union Conflicts(closed)

AuthKey(u, k) ==
    LET m == u.mode IN
    CASE k = "Esc"                -> {CloseOverlay(u)}
      [] k \in {"Tab", "Down"}    -> {[u EXCEPT !.mode.field = PanelAfter(Fields(m.hasOtp), @)]}
      [] k \in {"BackTab", "Up"}  -> {[u EXCEPT !.mode.field = Before(Fields(m.hasOtp), @)]}
      [] k = "Enter" ->
            IF m.field = "SaveCheckbox" THEN {u}
            ELSE IF m.chars = 0 \/ ~m.pass \/ (m.hasOtp /\ ~m.otp) THEN {Toasted(u)}
            ELSE AuthSubmit(u)
      [] OTHER ->
            IF m.field = "Username" THEN Typed(u, k)
            ELSE IF k \in Chars THEN {IF m.field = "Otp" THEN [u EXCEPT !.mode.otp = TRUE]
                                      ELSE IF m.field = "Password" THEN [u EXCEPT !.mode.pass = TRUE]
                                      ELSE u}
            ELSE IF k \in {"Backspace", "Delete"} /\ m.field # "SaveCheckbox"
                 THEN {u, IF m.field = "Otp" THEN [u EXCEPT !.mode.otp = FALSE]
                                             ELSE [u EXCEPT !.mode.pass = FALSE]}
            ELSE {u}

HelpKey(u, k) ==
    LET m   == u.mode
        max == Minus(HelpLines[m.tab], u.rows)
        now == Lesser(m.scroll, max)
    IN  CASE k \in {"Esc", "?", "q"} -> CloseOverlay(u)
          [] k = "Tab"     -> [u EXCEPT !.mode.tab = PanelAfter(HelpTabs, @), !.mode.scroll = 0]
          [] k = "BackTab" -> [u EXCEPT !.mode.tab = Before(HelpTabs, @), !.mode.scroll = 0]
          [] k = "Down"    -> [u EXCEPT !.mode.scroll = Lesser(now + 1, max)]
          [] k = "Up"      -> [u EXCEPT !.mode.scroll = Minus(now, 1)]
          [] k = "Home"    -> [u EXCEPT !.mode.scroll = 0]
          [] k = "End"     -> [u EXCEPT !.mode.scroll = max]
          [] OTHER         -> [u EXCEPT !.mode.scroll = now]

\* confirm_delete, and what the other questions lead to.
Confirmed(u) ==
    LET closed == [u EXCEPT !.mode = NoMode]
        kept   == Minus(u.profiles, 1)
    IN  CASE u.mode.kind = "ConfirmDelete" ->
                IF u.profiles = 0 THEN {u}
                ELSE {Toasted(closed),
                      Toasted([closed EXCEPT !.profiles = kept, !.sel = Lesser(@, kept)])}
          [] u.mode.kind = "RouteOverlap" -> {closed} \union Gates(closed) \union AuthPrompts(closed)
          [] OTHER -> Perhaps(closed)

ConfirmKey(u, k) ==
    CASE k = "Tab"          -> {[u EXCEPT !.mode.yes = ~@]}
      [] k = "Left"         -> {[u EXCEPT !.mode.yes = TRUE]}
      [] k = "Right"        -> {[u EXCEPT !.mode.yes = FALSE]}
      [] k = "y"            -> Confirmed(u)
      [] k \in {"n", "Esc"} -> {CloseOverlay(u)}
      [] k = "Enter"        -> IF u.mode.yes THEN Confirmed(u) ELSE {CloseOverlay(u)}
      [] k = "b" /\ u.mode.kind = "Takeover" ->       \* both tunnels stay up
            LET closed == [u EXCEPT !.mode = NoMode]
            IN  {closed} \union Gates(closed) \union AuthPrompts(closed)
      [] OTHER              -> {u}

\* profile_next, profile_previous and their relatives: 1 even in an empty list.
LastRow(u) == IF u.profiles = 0 THEN 1 ELSE u.profiles
MoveKey(u, k) ==
    CASE k = "Down"     -> [u EXCEPT !.sel = IF @ = 0 \/ @ >= LastRow(u) THEN 1 ELSE @ + 1]
      [] k = "Up"       -> [u EXCEPT !.sel = IF @ = 0 THEN 1 ELSE IF @ = 1 THEN LastRow(u) ELSE @ - 1]
      [] k = "Home"     -> [u EXCEPT !.sel = 1]
      [] k = "End"      -> [u EXCEPT !.sel = LastRow(u)]
      [] k = "PageUp"   -> [u EXCEPT !.sel = IF @ <= PageSize THEN 1 ELSE @ - PageSize]
      [] k = "PageDown" -> [u EXCEPT !.sel = Lesser((IF @ = 0 THEN 1 ELSE @) + PageSize, LastRow(u))]

NormalKey(u, k) ==
    CASE k = "Tab"     -> IF u.zoom = "none" THEN HandleMessage(u, "NextPanel") ELSE {u}
      [] k = "BackTab" -> IF u.zoom = "none" THEN HandleMessage(u, "PreviousPanel") ELSE {u}
      [] k = "z"       -> HandleMessage(u, "ToggleZoom")
      [] k = "x"       -> {OpenActionMenu(u)}
      [] k = "b"       -> {[u EXCEPT !.menu = [kind |-> "bulk", item |-> 1]]}
      [] k = "Esc"     -> {[u EXCEPT !.zoom = "none"]}
      [] k \in {"PageUp", "PageDown"} -> {MoveKey(u, k)}
      [] k \in {"Home", "End"} -> IF u.panel = "Logs" THEN {u} ELSE {MoveKey(u, k)}
      [] k = "1"       -> IF u.profiles >= 1 THEN AskToConnect([u EXCEPT !.sel = 1]) ELSE {u}
      [] k = "d"       -> Perhaps(u)
      [] k = "D"       -> Perhaps(u) \union
                          (IF u.panel # "Sidebar" THEN {}
                           ELSE {[Opened(u, "DisconnectAll") EXCEPT !.mode.yes = TRUE]})
      [] k = "i"       -> HandleMessage(u, "OpenImport")
      [] k = "F1"      -> {[u EXCEPT !.panel = "Sidebar"]}
      [] k = "F5"      -> {[u EXCEPT !.panel = "Logs"]}
      [] k = "?"       -> HandleMessage(u, "OpenHelp")
      [] k = "/"       -> HandleMessage(u, "OpenSearch")
      [] OTHER ->
           IF u.panel # "Sidebar" THEN {u}
           ELSE CASE k \in {"Up", "Down"}          -> {MoveKey(u, k)}
                  [] k \in {"Delete", "Backspace"} -> HandleMessage(u, "OpenDelete")
                  [] k = "Enter"                   -> HandleMessage(u, "ToggleConnect")
                  [] k = "v" -> IF u.sel = 0 THEN {Toasted(u)} ELSE HandleMessage(u, "OpenConfig")
                  [] k = "a" -> HandleMessage(u, "ManageAuth")
                  [] k = "R" -> HandleMessage(u, "OpenRename")
                  [] OTHER   -> {u}

\* The layer that gets the keys, in the order of handle_key.
Keyboard(u) ==
    CASE u.config.open       -> "config"
      [] ~u.config.open /\ u.menu # NoMenu -> "menu"
      [] OTHER               -> u.mode.kind

ModeKey(u, k) ==
    CASE u.mode.kind = "Import"     -> ImportOverlayKey(u, k)
      [] u.mode.kind = "AuthPrompt" -> AuthKey(u, k)
      [] u.mode.kind = "Help"       -> {HelpKey(u, k)}
      [] u.mode.kind = "Rename"     -> RenameKey(u, k)
      [] u.mode.kind = "Search"     -> SearchKey(u, k)
      [] u.mode.kind \in Asking     -> ConfirmKey(u, k)
      [] u.mode.kind \in Alerts     -> {IF k = "Esc" THEN CloseOverlay(u) ELSE u}
      [] OTHER                      -> NormalKey(u, k)

HandleKey(u, k) ==
    IF k = "q" /\ u.mode.kind = "Normal"  THEN {Quit(u)}
    ELSE IF k = "Esc" /\ u.toast          THEN {[u EXCEPT !.toast = FALSE]}
    ELSE IF Keyboard(u) = "config"        THEN {ConfigKey(u, k)}
    ELSE IF Keyboard(u) = "menu"          THEN MenuKey(u, k)
    ELSE ModeKey(u, k)

SomeKey == ui.running /\ ui' \in UNION {HandleKey(ui, k) : k \in Keys}

-----------------------------------------------------------------------------
(* The mouse, the terminal and the background                                 *)

BehindOverlay(u) == u.mode.kind # "Normal" \/ u.config.open \/ u.menu # NoMenu

\* A click on a panel, and on a row of the list when it is the sidebar.
Click ==
    /\ ui.running /\ ~BehindOverlay(ui)
    /\ \E i \in 1..Len(Panels) :
        \/ ui' = [ui EXCEPT !.panel = Panels[i]]
        \/ /\ Panels[i] = "Sidebar"
           /\ \E row \in 1..ui.profiles : ui' = [ui EXCEPT !.panel = "Sidebar", !.sel = row]

\* The wheel: help by three lines, the viewer by one, the sidebar row by row.
Wheel ==
    /\ ui.running
    /\ \E down \in BOOLEAN :
        LET max == Minus(HelpLines[ui.mode.tab], ui.rows)
            now == Lesser(ui.mode.scroll, max)
        IN  IF ui.mode.kind = "Help"
            THEN ui' = [ui EXCEPT !.mode.scroll = IF down THEN Lesser(now + 3, max) ELSE Minus(now, 3)]
            ELSE IF ui.mode.kind # "Normal" THEN FALSE
            ELSE IF ui.config.open THEN ui' = ConfigKey(ui, IF down THEN "Down" ELSE "Up")
            ELSE /\ ui.menu = NoMenu
                 /\ LET row == IF ui.sel = 0 THEN 1 ELSE ui.sel
                    IN  IF down THEN row < ui.profiles /\ ui' = [ui EXCEPT !.sel = row + 1]
                                ELSE row > 1 /\ ui' = [ui EXCEPT !.sel = row - 1]

\* The terminal's size is taken as it comes; no position is adjusted to it.
Resize ==
    /\ ui.running
    /\ \E h \in Heights \ {ui.rows} : ui' = [ui EXCEPT !.rows = h]

\* Results, retries, queued connects and downloads arrive whatever is on screen.
Background ==
    /\ ui.running
    /\ ui' \in {Toasted(ui)} \union CatalogueGrew(ui)
              \union (IF ui.profiles > 0 THEN AskToConnect(ui) ELSE {})

\* Tick: the toast is four seconds old.
ToastExpires ==
    /\ ui.running /\ ui.toast
    /\ ui' = [ui EXCEPT !.toast = FALSE]

ScreenNext == SomeKey \/ Click \/ Wheel \/ Resize \/ Background \/ ToastExpires

ScreenSpec == ScreenInit /\ [][ScreenNext]_screenVars

-----------------------------------------------------------------------------
ScreenTypeOK ==
    /\ ui.running \in BOOLEAN /\ ui.toast \in BOOLEAN
    /\ ui.profiles \in 0..MaxProfiles /\ ui.sel \in 0..MaxProfiles + 1
    /\ \E i \in DOMAIN Panels : ui.panel = Panels[i]
    /\ ui.zoom = "none" \/ \E i \in DOMAIN Panels : ui.zoom = Panels[i]
    /\ ui.mode.kind \in Modes /\ ui.mode.chars \in 0..MaxText

\* The selection is a row of the list; only an empty list may keep one.  The list
\* changes under it by deletes, imports, renames and sorts.
SelectionIsARow == ui.sel > ui.profiles => ui.sel = 1 /\ ui.profiles = 0

\* The layer drawn on top, in the order of render_overlays: a zoomed panel is
\* drawn over all of them and is left out.
Drawn == IF ui.menu # NoMenu THEN "menu" ELSE IF ui.config.open THEN "config" ELSE ui.mode.kind

\* Keys go to the layer the user sees on top, also when a dialog opens behind a
\* menu or the viewer.
TopLayerHasKeys == Keyboard(ui) = Drawn

\* The row marked in a menu is one of the menu's rows: the panel whose actions it
\* shows does not change behind it.
MarkedRowExists == ui.menu # NoMenu => ui.menu.item \in 1..Len(Actions(ui))

\* A cursor stands within its text.  ManageAuth breaks this for credentials that
\* are not ASCII, which are left out here.
CursorInText == ui.mode.wide = 1 => ui.mode.cursor <= ui.mode.chars

\* Escape always removes something, so that repeating it leads to the dashboard.
Layers(u) ==
    Cardinality({l \in {"toast", "overlay", "zoom"} :
        \/ l = "toast" /\ u.toast
        \/ l = "overlay" /\ BehindOverlay(u)
        \/ l = "zoom" /\ u.zoom # "none"})
EscLeadsHome == \A u \in HandleKey(ui, "Esc") : Layers(u) < Layers(ui) \/ Layers(ui) = 0

\* A viewer shows at least one line of its file, whatever the terminal's size was
\* when it was scrolled.
FileInView == ui.config.open => ui.config.scroll = 0 \/ ui.config.scroll < ui.config.lines

\* Whatever arrives from the background, the keyboard belongs to what the user
\* sees, acts on rows and characters that exist, and can always leave
\* (handle_key, render_overlays).
ScreenAnswers ==
    /\ SelectionIsARow /\ TopLayerHasKeys /\ MarkedRowExists
    /\ CursorInText /\ EscLeadsHome /\ FileInView

=============================================================================
