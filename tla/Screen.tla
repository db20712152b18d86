------------------------------- MODULE Screen -------------------------------
(***************************************************************************)
(* The screen of the TUI: pages, tabs, list cursors, dialogs and what a    *)
(* key does (clard-tui app.rs, event.rs, nav.rs, app/*.rs).                *)
(*                                                                         *)
(* The main loop takes one event at a time from one channel: a key of the  *)
(* user, or the answer of an operation that runs in a task of its own.     *)
(* Every action below is the handling of one such event.  What a key       *)
(* starts is recorded in "asked"; module Client runs the operations.       *)
(*                                                                         *)
(* The answers arrive whenever they like, so a list can be replaced and a  *)
(* dialog can open between two keys of the user.                           *)
(***************************************************************************)
EXTENDS Integers, Sequences, FiniteSets

CONSTANTS
    UIDS,      \* profiles
    BACKUPS,   \* backup archives
    HEIGHT,    \* rows of a list that fit on the screen (viewport_h)
    ANSWERS,   \* bound: the switches a SettingsGet may answer
    MAX_NEWS   \* bound: answers that reach the screen in a behaviour

\* set_viewport keeps at least five rows; any positive number will do here.
ASSUME ScreenAssumption ==
    /\ IsFiniteSet(UIDS) /\ IsFiniteSet(BACKUPS)
    /\ HEIGHT \in Nat \ {0} /\ MAX_NEWS \in Nat
    /\ ANSWERS \subseteq [{"TunEnabled", "StrictRoute", "AutoRedirect"}
                          -> BOOLEAN]

VARIABLES
    page,      \* APP::current_page
    tab,       \* SettingsState::tab
    help,      \* APP::show_help
    confirm,   \* APP::confirm: what Enter will do, or NOTHING
    choice,    \* APP::choice: [for, at], or NOTHING
    input,     \* APP::input: [for, of, text], or NOTHING
    profiles,  \* ProfilesState: [items, cursor]
    backups,   \* SettingsState::backups: [items, cursor]
    rows,      \* SettingsState::list_state, the cursor over setting rows
    known,     \* SettingsState::settings as last fetched, or NOTHING
    detail,    \* LogsState::audit_detail is open
    awaiting,  \* an EnableTun request has not been answered yet
    geo,       \* APP::geo_auto_install_started
    news,      \* answers so far, for the bound
    asked      \* the operation the last event started, or NOTHING

place   == <<page, tab>>
dialogs == <<help, confirm, choice, input>>
lists   == <<profiles, backups, rows, known, detail>>
others  == <<awaiting, geo, news>>
vars    == <<place, dialogs, lists, others, asked>>

NOTHING == [op |-> "Nothing", of |-> "-"]
NOBODY  == "-"
NOWHERE == -1

Min2(a, b) == IF a < b THEN a ELSE b

PAGES == <<"Home", "Profiles", "Proxies", "Connections", "Logs",
           "Settings", "Rules">>
SETTINGS_TABS == <<"General", "Dns", "Tun", "Core", "Service", "Backup",
                   "Logs", "About">>

ROWS == [General |-> <<"MixedPort", "Mode", "AutoUpdateHours", "Language",
                       "Theme", "TestUrl">>,
         Dns     |-> <<"FakeIpFilterMode", "FakeIpFilter", "UseHosts",
                       "UseSystemHosts", "Hosts", "NameserverPolicy",
                       "Nameserver", "DefaultNameserver">>,
         Tun     |-> <<"TunEnabled", "TunStack", "TunDnsMode", "DnsHijack",
                       "RouteExclude", "StrictRoute", "AutoRedirect",
                       "RecoverDirect">>,
         Logs    |-> <<"CoreLogLevel", "AppLogMaxBytes", "AppLogKeep",
                       "AuditKeep", "AuditDualWrite">>]

\* Rows edited by a list of options, with the number of options, and rows
\* edited by a line of text.
OPTIONS == [Mode |-> 3, Language |-> 2, Theme |-> 2, TunStack |-> 3,
            TunDnsMode |-> 2, FakeIpFilterMode |-> 3]
TEXT_ROWS == {"MixedPort", "AutoUpdateHours", "TestUrl", "FakeIpFilter",
              "Hosts", "NameserverPolicy", "Nameserver",
              "DefaultNameserver", "DnsHijack", "RouteExclude"}

\* What a line holds, as far as submit_input tells apart: nothing, a text
\* that the purpose accepts, a text that is no number.
TEXTS == {"", "good", "bad"}

\* Keys that on_char takes before any page sees them.
GLOBAL_KEYS == {"?", "q", "j", "k", "h", "l"}

\* <<page, key, purpose>>: letters that open a line of text.
LINE_KEYS == {<<"Profiles", "i", "ImportProfileUrl">>,
              <<"Profiles", "r", "RenameProfile">>,
              <<"Proxies", "f", "FilterProxies">>,
              <<"Connections", "f", "FilterConnections">>,
              <<"Rules", "f", "FilterRules">>,
              <<"Logs", "f", "FilterLogs">>,
              <<"Logs", "o", "FilterAuditOp">>,
              <<"Logs", "x", "ExportAudit">>}

\* <<page, key, operation>>: letters that start an operation at once.
START_KEYS == {<<"Profiles", "u", "UpdateProfile">>,
               <<"Profiles", "h", "OpenHistory">>,
               <<"Profiles", "[", "MoveProfile">>,
               <<"Profiles", "]", "MoveProfile">>,
               <<"Proxies", "t", "TestGroup">>,
               <<"Proxies", "d", "ClearSelection">>,
               <<"Connections", "x", "CloseConnection">>,
               <<"Core", "s", "StartCore">>,
               <<"Core", "r", "RestartCore">>,
               <<"Core", "c", "CheckUpdate">>,
               <<"Backup", "b", "CreateBackup">>,
               <<"Providers", "u", "UpdateRuleProvider">>}

\* <<page, key, operation>>: letters that ask for a confirmation first.  A
\* key with a modifier is dropped; that a terminal may report a capital as
\* one with Shift is left out, so a capital is heard here.
CONFIRM_KEYS == {<<"Profiles", "d", "DeleteProfile">>,
                 <<"Connections", "X", "CloseAllConnections">>,
                 <<"Core", "S", "StopCore">>,
                 <<"Core", "i", "UpgradeCore">>,
                 <<"Core", "g", "UpdateGeoData">>,
                 <<"Backup", "d", "DeleteBackup">>}

OF_PROFILE == {"UpdateProfile", "OpenHistory", "MoveProfile",
               "DeleteProfile", "RenameProfile", "SwitchProfile"}
OF_BACKUP  == {"DeleteBackup", "RestoreBackup"}

-----------------------------------------------------------------------------
(* List cursors.                                                           *)

Top == [sel |-> NOWHERE, off |-> 0]

\* select(Some(i)) leaves the offset alone, select(None) clears it.
SelectAt(c, i) == [c EXCEPT !.sel = i]

\* One step up or down in a list of len items, around the ends; the offset
\* follows when the cursor would leave the view.
MoveCursor(c, len, step) ==
    IF len = 0 THEN c
    ELSE LET sel  == IF c.sel = NOWHERE THEN 0 ELSE c.sel
             next == (sel + step) % len
         IN  [sel |-> next,
              off |-> IF next < c.off THEN next
                      ELSE IF c.off + HEIGHT <= next THEN next + 1 - HEIGHT
                      ELSE c.off]

Selected(list) ==
    IF list.cursor.sel + 1 \in DOMAIN list.items
    THEN list.items[list.cursor.sel + 1]
    ELSE NOBODY

\* Mutant: the cursor keeps its row, whatever is there now.
UpdateListByRow(list, items) ==
    [items  |-> items,
     cursor |-> IF items = <<>> THEN Top
                ELSE IF list.cursor.sel \in 0 .. Len(items) - 1
                     THEN list.cursor
                ELSE SelectAt(list.cursor, 0)]

\* The new list, the cursor on the profile it was on, else on the first.
UpdateList(list, items) ==
    LET at == {i \in DOMAIN items : items[i] = Selected(list)}
    IN  [items  |-> items,
         cursor |-> IF items = <<>> THEN Top
                    ELSE IF at = {} THEN SelectAt(list.cursor, 0)
                    ELSE SelectAt(list.cursor, (CHOOSE i \in at : TRUE) - 1)]

\* Mutant: no clamp.
ApplyBackupsUnclamped(list, items) ==
    [items  |-> items,
     cursor |-> IF items = <<>> THEN Top
                ELSE IF list.cursor.sel = NOWHERE
                     THEN SelectAt(list.cursor, 0)
                ELSE list.cursor]

\* The new list, the cursor on the row it was on, if there still is one.
ApplyBackups(list, items) ==
    [items  |-> items,
     cursor |-> IF items = <<>> THEN Top
                ELSE IF list.cursor.sel = NOWHERE
                     THEN SelectAt(list.cursor, 0)
                ELSE SelectAt(list.cursor,
                              Min2(list.cursor.sel, Len(items) - 1))]

RowsOf(t) == IF t \in DOMAIN ROWS THEN ROWS[t] ELSE <<>>

SelectedRow ==
    LET all == RowsOf(tab)
    IN  IF rows.sel + 1 \in DOMAIN all THEN all[rows.sel + 1] ELSE NOBODY

After(seq, x) == LET i == CHOOSE j \in DOMAIN seq : seq[j] = x
                 IN  seq[(i % Len(seq)) + 1]

-----------------------------------------------------------------------------
(* The answers.                                                            *)

SettingRows == {"TunEnabled", "StrictRoute", "AutoRedirect"}

\* A switch that was never fetched reads as off.
On(row) == known # NOTHING /\ known[row]

NoDialog == ~help /\ confirm = NOTHING /\ choice = NOTHING /\ input = NOTHING
Running  == page # "Closed"

\* Mutant: the help does not take the keys.
BareUnderHelp == /\ Running /\ confirm = NOTHING
                 /\ choice = NOTHING /\ input = NOTHING
Bare == Running /\ NoDialog

Ask(op, of) == asked' = [op |-> op, of |-> of]
Silent      == asked' = NOTHING

EMPTY == [items |-> <<>>, cursor |-> Top]

Init ==
    /\ page = "Home" /\ tab = "General"
    /\ help = FALSE
    /\ confirm = NOTHING /\ choice = NOTHING /\ input = NOTHING
    /\ profiles = EMPTY /\ backups = EMPTY
    /\ rows = Top /\ known = NOTHING /\ detail = FALSE
    /\ awaiting = FALSE /\ geo = FALSE /\ news = 0
    /\ asked = NOTHING

Orders(S) == {s \in UNION {[1 .. n -> S] : n \in 0 .. Cardinality(S)} :
                  \A i, j \in DOMAIN s : s[i] = s[j] => i = j}

News == Running /\ news < MAX_NEWS /\ news' = news + 1

ProfilesUpdated ==
    /\ News
    /\ \E items \in Orders(UIDS) : profiles' = UpdateList(profiles, items)
    /\ Silent
    /\ UNCHANGED <<place, dialogs, backups, rows, known, detail, awaiting, geo>>

BackupsReady ==
    /\ News
    /\ \E items \in Orders(BACKUPS) : backups' = ApplyBackups(backups, items)
    /\ Silent
    /\ UNCHANGED <<place, dialogs, profiles, rows, known, detail, awaiting, geo>>

SettingsReady ==
    /\ News
    /\ known' \in ANSWERS
    /\ Silent
    /\ UNCHANGED <<place, dialogs, profiles, backups, rows, detail, awaiting,
                   geo>>

\* The helper answered an EnableTun: another TUN is active, ask the user.
TunConflict ==
    /\ News
    /\ awaiting
    /\ confirm' = [op |-> "SetTunForce", of |-> NOBODY]
    /\ awaiting' = FALSE
    /\ Silent
    /\ UNCHANGED <<place, help, choice, input, lists, geo>>

\* The helper answered an EnableTun in any other way.
TunAnswered ==
    /\ News
    /\ awaiting
    /\ awaiting' = FALSE
    /\ Silent
    /\ UNCHANGED <<place, dialogs, lists, geo>>

\* A status of the core, at the start, after every operation and at every
\* reconnection.  on_core_status: the first one that misses the geo data
\* starts their installation, without a question, once in a session.
CoreStatusReady ==
    /\ News
    /\ \/ Silent /\ UNCHANGED geo
       \/ ~geo /\ geo' = TRUE /\ Ask("UpdateGeoData", NOBODY)
    /\ UNCHANGED <<place, dialogs, lists, awaiting>>

-----------------------------------------------------------------------------
(* Keys while a dialog is open: help, then confirm, choice, line of text.  *)

HelpKey ==
    /\ Running /\ help
    /\ help' = FALSE
    /\ Silent
    /\ UNCHANGED <<place, confirm, choice, input, lists, others>>

ConfirmTop == Running /\ ~help /\ confirm # NOTHING

ConfirmNo ==
    /\ ConfirmTop
    /\ confirm' = NOTHING
    /\ Silent
    /\ UNCHANGED <<place, help, choice, input, lists, others>>

\* Mutant: the profile under the cursor when the user confirms.
ConfirmYesLate ==
    /\ ConfirmTop
    /\ confirm' = NOTHING
    /\ Ask(confirm.op, IF confirm.op = "DeleteProfile"
                       THEN Selected(profiles) ELSE confirm.of)
    /\ awaiting' = (awaiting \/ confirm.op = "EnableTun")
    /\ UNCHANGED <<place, help, choice, input, lists, geo, news>>

\* submit_confirm: the operation and the name kept when the dialog opened.
ConfirmYes ==
    /\ ConfirmTop
    /\ confirm' = NOTHING
    /\ Ask(confirm.op, confirm.of)
    /\ awaiting' = (awaiting \/ confirm.op = "EnableTun")
    /\ UNCHANGED <<place, help, choice, input, lists, geo, news>>

ChoiceTop == Running /\ ~help /\ confirm = NOTHING /\ choice # NOTHING

ChoiceMove(step) ==
    /\ ChoiceTop
    /\ choice' = [choice EXCEPT !.at = (@ + step) % OPTIONS[choice.for]]
    /\ Silent
    /\ UNCHANGED <<place, help, confirm, input, lists, others>>

ChoiceNo ==
    /\ ChoiceTop
    /\ choice' = NOTHING
    /\ Silent
    /\ UNCHANGED <<place, help, confirm, input, lists, others>>

ChoiceYes ==
    /\ ChoiceTop
    /\ choice' = NOTHING
    /\ Ask("SettingsSet", choice.for)
    /\ UNCHANGED <<place, help, confirm, input, lists, others>>

InputTop == /\ Running /\ ~help
            /\ confirm = NOTHING /\ choice = NOTHING /\ input # NOTHING

\* A letter, Backspace, Ctrl+u; a paste reaches the line under a dialog too.
InputEdit ==
    /\ Running /\ input # NOTHING
    /\ \E t \in TEXTS \ {input.text} :
          /\ InputTop \/ t # ""
          /\ input' = [input EXCEPT !.text = t]
    /\ Silent
    /\ UNCHANGED <<place, help, confirm, choice, lists, others>>

InputNo ==
    /\ InputTop
    /\ input' = NOTHING
    /\ Silent
    /\ UNCHANGED <<place, help, confirm, choice, lists, others>>

\* submit_input: an empty URL or name and a number that is none are dropped,
\* a filter stays on the screen, the rest is sent.
Accepted(i) ==
    \/ i.for \in {"ImportProfileUrl", "RenameProfile"} /\ i.text # ""
    \/ i.for \in {"MixedPort", "AutoUpdateHours"} /\ i.text = "good"
    \/ i.for \in (TEXT_ROWS \ {"MixedPort", "AutoUpdateHours"})
                 \union {"ExportAudit"}

InputYes ==
    /\ InputTop
    /\ input' = NOTHING
    /\ IF Accepted(input)
       THEN Ask(IF input.for \in TEXT_ROWS THEN "SettingsSet" ELSE input.for,
                IF input.for \in TEXT_ROWS THEN input.for ELSE input.of)
       ELSE Silent
    /\ UNCHANGED <<place, help, confirm, choice, lists, others>>

-----------------------------------------------------------------------------
(* Keys while no dialog is open.                                           *)

OpenHelp ==
    /\ Bare
    /\ help' = TRUE
    /\ Silent
    /\ UNCHANGED <<place, confirm, choice, input, lists, others>>

\* switch_page also fetches what the page shows: the answers are the news.
GoTo(p) ==
    /\ Bare /\ p # page
    /\ page' = p
    /\ Silent
    /\ UNCHANGED <<tab, dialogs, lists, others>>

\* Esc: the audit detail first, wherever the user is by now; then Home; on
\* the home page it leaves, as q does everywhere.
Escape ==
    /\ Bare /\ (detail \/ page # "Home")
    /\ IF detail
       THEN detail' = FALSE /\ UNCHANGED page
       ELSE page' = "Home" /\ UNCHANGED detail
    /\ Silent
    /\ UNCHANGED <<tab, dialogs, profiles, backups, rows, known, others>>

\* q.  The program ends; of its state nothing is left.  (Ctrl+c, which does
\* the same from under any dialog, is left out.)
Quit ==
    /\ Bare
    /\ page' = "Closed" /\ tab' = "General"
    /\ profiles' = EMPTY /\ backups' = EMPTY
    /\ rows' = Top /\ known' = NOTHING /\ detail' = FALSE
    /\ awaiting' = FALSE /\ geo' = FALSE /\ news' = 0
    /\ Silent
    /\ UNCHANGED dialogs

MoveInProfiles(step) ==
    /\ Bare /\ page = "Profiles" /\ profiles.items # <<>>
    /\ profiles' = [profiles EXCEPT !.cursor =
                        MoveCursor(@, Len(profiles.items), step)]
    /\ Silent
    /\ UNCHANGED <<place, dialogs, backups, rows, known, detail, others>>

MoveInSettings(step) ==
    /\ Bare /\ page = "Settings"
    /\ \/ /\ RowsOf(tab) # <<>>
          /\ rows' = MoveCursor(rows, Len(RowsOf(tab)), step)
          /\ UNCHANGED backups
       \/ /\ tab = "Backup" /\ backups.items # <<>>
          /\ backups' = [backups EXCEPT !.cursor =
                             MoveCursor(@, Len(backups.items), step)]
          /\ UNCHANGED rows
    /\ Silent
    /\ UNCHANGED <<place, dialogs, profiles, known, detail, others>>

\* set_tab puts the cursor on the first row of the tab, or nowhere.
NextSettingsTab ==
    /\ Bare /\ page = "Settings"
    /\ LET t == After(SETTINGS_TABS, tab)
       IN  /\ tab' = t
           /\ rows' = IF t \in DOMAIN ROWS THEN SelectAt(rows, 0) ELSE Top
           /\ backups' = [backups EXCEPT !.cursor =
                              IF t = "Backup" /\ backups.items # <<>>
                              THEN SelectAt(Top, 0) ELSE Top]
    /\ Silent
    /\ UNCHANGED <<page, dialogs, profiles, known, detail, others>>

\* The pages a letter may be looked up under.  The tab of the rules page
\* decides nothing but this, and is not kept.
Contexts == {IF page = "Settings" THEN tab ELSE page}
            \union (IF page = "Rules" THEN {"Providers"} ELSE {})

\* What the operation will be about, taken now.
Target(op) == CASE op \in OF_PROFILE -> Selected(profiles)
                [] op \in OF_BACKUP -> Selected(backups)
                [] OTHER -> NOBODY

HasTarget(op) ==
    op \in OF_PROFILE \union OF_BACKUP => Target(op) # NOBODY

Confirm(op) == confirm' = [op |-> op, of |-> Target(op)]

LetterStarts ==
    /\ Bare
    /\ \E k \in START_KEYS :
          /\ k[1] \in Contexts /\ k[2] \notin GLOBAL_KEYS
          /\ HasTarget(k[3])
          /\ Ask(k[3], Target(k[3]))
    /\ UNCHANGED <<place, dialogs, lists, others>>

LetterConfirms ==
    /\ Bare
    /\ \E k \in CONFIRM_KEYS :
          /\ k[1] \in Contexts
          /\ HasTarget(k[3])
          /\ Confirm(k[3])
    /\ Silent
    /\ UNCHANGED <<place, help, choice, input, lists, others>>

OpenInput(for, of) ==
    \E t \in TEXTS : input' = [for |-> for, of |-> of, text |-> t]

LetterOpensLine ==
    /\ Bare
    /\ \E k \in LINE_KEYS :
          /\ k[1] \in Contexts
          /\ HasTarget(k[3])
          /\ OpenInput(k[3], Target(k[3]))
    /\ Silent
    /\ UNCHANGED <<place, help, confirm, choice, lists, others>>

\* e or Enter on a row of the settings page.
EditByChoice ==
    /\ Bare /\ page = "Settings" /\ SelectedRow \in DOMAIN OPTIONS
    /\ \E i \in 0 .. OPTIONS[SelectedRow] - 1 :
          choice' = [for |-> SelectedRow, at |-> i]
    /\ Silent
    /\ UNCHANGED <<place, help, confirm, input, lists, others>>

EditByLine ==
    /\ Bare /\ page = "Settings" /\ SelectedRow \in TEXT_ROWS
    /\ OpenInput(SelectedRow, NOBODY)
    /\ Silent
    /\ UNCHANGED <<place, help, confirm, choice, lists, others>>

\* A switch without risk is turned over at once, and so is a risky one that
\* is being turned off.
EditAtOnce ==
    /\ Bare /\ page = "Settings"
    /\ \/ SelectedRow \in {"UseHosts", "UseSystemHosts"}
       \/ SelectedRow \in {"StrictRoute", "AutoRedirect"} /\ On(SelectedRow)
    /\ Ask("SettingsSet", SelectedRow)
    /\ UNCHANGED <<place, dialogs, lists, others>>

EditConfirmed ==
    /\ Bare /\ page = "Settings"
    /\ \/ /\ SelectedRow = "TunEnabled"
          /\ Confirm(IF On("TunEnabled") THEN "DisableTun" ELSE "EnableTun")
       \/ /\ SelectedRow = "StrictRoute" /\ ~On("StrictRoute")
          /\ Confirm("EnableStrictRoute")
       \/ /\ SelectedRow = "AutoRedirect" /\ ~On("AutoRedirect")
          /\ Confirm("EnableAutoRedirect")
       \/ SelectedRow = "RecoverDirect" /\ Confirm("CleanupTun")
       \/ /\ tab = "Backup" /\ HasTarget("RestoreBackup")
          /\ Confirm("RestoreBackup")
    /\ Silent
    /\ UNCHANGED <<place, help, choice, input, lists, others>>

\* Enter on the other pages: on a node, on a rule or on its provider.
EnterStarts ==
    /\ Bare
    /\ \/ /\ page = "Profiles" /\ HasTarget("SwitchProfile")
          /\ Ask("SwitchProfile", Target("SwitchProfile"))
       \/ page = "Proxies" /\ Ask("SelectNode", NOBODY)
       \/ /\ page = "Rules"
          /\ Ask("ToggleRule", NOBODY) \/ Ask("UpdateRuleProvider", NOBODY)
    /\ UNCHANGED <<place, dialogs, lists, others>>

\* Enter on the audit table, if a row of it is selected.
ToggleAuditDetail ==
    /\ Bare /\ page = "Logs"
    /\ detail' = ~detail
    /\ Silent
    /\ UNCHANGED <<place, dialogs, profiles, backups, rows, known, others>>

Answers == \/ ProfilesUpdated \/ BackupsReady \/ SettingsReady
           \/ TunConflict \/ TunAnswered \/ CoreStatusReady

DialogKeys == \/ HelpKey \/ ConfirmNo \/ ConfirmYes
              \/ \E step \in {-1, 1} : ChoiceMove(step)
              \/ ChoiceNo \/ ChoiceYes
              \/ InputEdit \/ InputNo \/ InputYes

PageKeys == \/ OpenHelp \/ Escape \/ Quit
            \/ \E i \in DOMAIN PAGES : GoTo(PAGES[i])
            \/ \E step \in {-1, 1} : MoveInProfiles(step)
                                       \/ MoveInSettings(step)
            \/ NextSettingsTab
            \/ LetterStarts \/ LetterConfirms \/ LetterOpensLine
            \/ EditByChoice \/ EditByLine \/ EditAtOnce \/ EditConfirmed
            \/ EnterStarts \/ ToggleAuditDetail

Next == Answers \/ DialogKeys \/ PageKeys

Spec == Init /\ [][Next]_vars

-----------------------------------------------------------------------------
(* Properties.                                                             *)

Cursors == [sel : Nat \union {NOWHERE}, off : Nat]
List(S) == [items : Orders(S), cursor : Cursors]

Dangerous == {"DeleteProfile", "CloseAllConnections", "StopCore",
              "UpgradeCore", "UpdateGeoData", "DeleteBackup",
              "RestoreBackup", "CleanupTun", "EnableTun", "DisableTun",
              "SetTunForce", "EnableStrictRoute", "EnableAutoRedirect"}

Purposes == DOMAIN OPTIONS \union TEXT_ROWS
            \union {k[3] : k \in LINE_KEYS}

Targets == UIDS \union BACKUPS \union {NOBODY}

\* No dialog, or one that holds what its keys need: the option under the
\* cursor is one there is.
TypeOK ==
    /\ page \in {"Closed"} \union {PAGES[i] : i \in DOMAIN PAGES}
    /\ tab \in {SETTINGS_TABS[i] : i \in DOMAIN SETTINGS_TABS}
    /\ help \in BOOLEAN /\ detail \in BOOLEAN
    /\ awaiting \in BOOLEAN /\ geo \in BOOLEAN
    /\ confirm \in {NOTHING} \union [op : Dangerous, of : Targets]
    /\ choice \in {NOTHING} \union
           {c \in [for : DOMAIN OPTIONS, at : Nat] : c.at < OPTIONS[c.for]}
    /\ input \in {NOTHING}
                   \union [for : Purposes, of : Targets, text : TEXTS]
    /\ profiles \in List(UIDS) /\ backups \in List(BACKUPS)
    /\ rows \in Cursors
    /\ known \in {NOTHING} \union [SettingRows -> BOOLEAN]
    /\ news \in 0 .. MAX_NEWS

\* Whatever lists arrive and tabs are turned, a cursor is on an item its
\* list has, and a list of profiles that is not empty has a cursor: the keys
\* that act on "the selected one" act on something the user sees.
CursorOnAnItem ==
    /\ profiles.cursor.sel < Len(profiles.items)
    /\ profiles.items # <<>> => profiles.cursor.sel # NOWHERE
    /\ backups.cursor.sel < Len(backups.items)
    /\ RowsOf(tab) # <<>>
         => rows.sel < Len(RowsOf(tab))

\* The user presses Enter on the confirmation on top of the screen that
\* names the operation and its target.
ByConfirmation == ~help /\ confirm = asked' /\ confirm' = NOTHING

\* The exception the code makes: geo data that are missing are installed
\* unasked, the first time a status of the core says so.
ByMissingGeo ==
    asked' = [op |-> "UpdateGeoData", of |-> NOBODY] /\ ~geo /\ geo'

\* Whatever has arrived since the question opened, a dangerous operation
\* starts by the confirmation that names it and its target; but for the
\* geo data, once in a session.
DangerIsConfirmed ==
    [][asked'.op \in Dangerous => ByConfirmation \/ ByMissingGeo]_vars

\* While a dialog is open no event reaches what lies under it: the page, the
\* tab, the cursor over the rows and the audit detail stay.  A question is
\* not replaced under the user's hand, save by the one that the answer to
\* his own EnableTun raises.
DialogTakesTheKeys ==
    [][/\ ~NoDialog => UNCHANGED <<page, tab, rows, detail>>
       /\ confirm # NOTHING =>
             \/ confirm' \in {confirm, NOTHING}
             \/ confirm'.op = "SetTunForce" /\ awaiting /\ ~awaiting']_vars

\* A list of profiles that arrives leaves the cursor on the profile it was
\* on, wherever that has moved, unless it is gone.
SelectionFollowsProfile ==
    [][profiles'.items # profiles.items =>
          \/ Selected(profiles') = Selected(profiles)
          \/ \A i \in DOMAIN profiles'.items :
                profiles'.items[i] # Selected(profiles)]_vars

=============================================================================
