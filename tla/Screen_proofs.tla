---------------------------- MODULE Screen_proofs ----------------------------
(***************************************************************************)
(* Proofs about Screen, for every set of profiles and backups, every       *)
(* screen height and every number of answers.                              *)
(*                                                                         *)
(* IInv, the typing together with CursorOnAnItem, is inductive.  It falls  *)
(* into three parts that are kept one at a time: the lists and their       *)
(* cursors, the dialogs, and the rest.                                     *)
(***************************************************************************)
EXTENDS Screen, FiniteSetTheorems, SequenceTheorems, TLAPS

\* The lists and the tab that say where a cursor may be.
ListsOK ==
    /\ tab \in {SETTINGS_TABS[i] : i \in DOMAIN SETTINGS_TABS}
    /\ profiles \in List(UIDS) /\ backups \in List(BACKUPS)
    /\ rows \in Cursors
    /\ CursorOnAnItem

\* What an open dialog holds.
DialogsOK ==
    /\ confirm \in {NOTHING} \union [op : Dangerous, of : Targets]
    /\ choice \in {NOTHING} \union
           {c \in [for : DOMAIN OPTIONS, at : Nat] : c.at < OPTIONS[c.for]}
    /\ input \in {NOTHING}
                   \union [for : Purposes, of : Targets, text : TEXTS]

\* The rest of the state.
RestOK ==
    /\ page \in {"Closed"} \union {PAGES[i] : i \in DOMAIN PAGES}
    /\ help \in BOOLEAN /\ detail \in BOOLEAN
    /\ awaiting \in BOOLEAN /\ geo \in BOOLEAN
    /\ known \in {NOTHING} \union [SettingRows -> BOOLEAN]
    /\ news \in 0 .. MAX_NEWS

IInv == TypeOK /\ CursorOnAnItem

LEMMA PartsOfIInv == IInv <=> ListsOK /\ DialogsOK /\ RestOK
BY Zenon DEF IInv, TypeOK, ListsOK, DialogsOK, RestOK

-----------------------------------------------------------------------------
(* The operators.                                                          *)

\* An order of a set is a sequence of its elements.
LEMMA OrdersAreSequences ==
    ASSUME NEW S, NEW q \in Orders(S)
    PROVE  /\ q \in Seq(S) /\ Len(q) \in Nat /\ DOMAIN q = 1 .. Len(q)
           /\ (q = <<>>) <=> (Len(q) = 0)
<1>1. PICK n \in 0 .. Cardinality(S) : q \in [1 .. n -> S]
  BY DEF Orders
<1>2. n \in Nat
  OBVIOUS
<1>3. q \in Seq(S)
  BY <1>1, <1>2, SeqDef
<1>. QED
  BY <1>3, EmptySeq, LenProperties

\* The empty list is an order of every finite set.
LEMMA EmptyIsAnOrder ==
    ASSUME NEW S, IsFiniteSet(S)
    PROVE  <<>> \in Orders(S)
<1>1. Cardinality(S) \in Nat
  BY FS_CardinalityType
<1>2. 0 \in 0 .. Cardinality(S)
  BY <1>1
<1>3. <<>> \in [1 .. 0 -> S]
  OBVIOUS
<1>4. \A i, j \in DOMAIN <<>> : <<>>[i] = <<>>[j] => i = j
  OBVIOUS
<1>. QED
  BY <1>2, <1>3, <1>4 DEF Orders

\* The cursor of a list that is not empty moves to a row of the list; the
\* offset stays a natural number.
LEMMA MoveCursorStays ==
    ASSUME NEW c \in Cursors, NEW len \in Nat \ {0}, NEW step \in {-1, 1}
    PROVE  /\ MoveCursor(c, len, step) \in Cursors
           /\ MoveCursor(c, len, step).sel \in 0 .. len - 1
<1> DEFINE sel  == IF c.sel = NOWHERE THEN 0 ELSE c.sel
           next == (sel + step) % len
<1>1. sel \in Nat /\ c.off \in Nat
  BY DEF Cursors, NOWHERE
<1>2. next \in 0 .. len - 1
  BY <1>1
<1>3. HEIGHT \in Nat \ {0}
  BY ScreenAssumption
<1> DEFINE off == IF next < c.off THEN next
                  ELSE IF c.off + HEIGHT <= next THEN next + 1 - HEIGHT
                  ELSE c.off
<1>4. off \in Nat
  <2> HIDE DEF next
  <2>. QED  BY <1>1, <1>2, <1>3
<1>5. MoveCursor(c, len, step) = [sel |-> next, off |-> off]
  BY DEF MoveCursor
<1>. QED
  <2> HIDE DEF next, off
  <2>. QED  BY <1>2, <1>4, <1>5 DEF Cursors

\* Putting a cursor on a row keeps its offset.
LEMMA SelectAtTyped ==
    ASSUME NEW c \in Cursors, NEW i \in Nat
    PROVE  SelectAt(c, i) \in Cursors /\ SelectAt(c, i).sel = i
BY DEF SelectAt, Cursors

LEMMA TopTyped == Top \in Cursors /\ Top.sel = NOWHERE
BY DEF Top, Cursors, NOWHERE

LEMMA ListTyped ==
    ASSUME NEW S, NEW q \in Orders(S), NEW c \in Cursors,
           NEW l, l = [items |-> q, cursor |-> c]
    PROVE  l \in List(S) /\ l.items = q /\ l.cursor = c
BY DEF List

\* A list that arrives gets a cursor on one of its rows.
LEMMA UpdateListTyped ==
    ASSUME NEW S, NEW list \in List(S), NEW items \in Orders(S)
    PROVE  LET new == UpdateList(list, items)
           IN  /\ new \in List(S) /\ new.items = items
               /\ new.cursor.sel < Len(new.items)
               /\ new.items # <<>> => new.cursor.sel # NOWHERE
<1> DEFINE at  == {i \in DOMAIN items : items[i] = Selected(list)}
           new == UpdateList(list, items)
<1>1. list.cursor \in Cursors
  BY DEF List
<1>2. /\ Len(items) \in Nat /\ DOMAIN items = 1 .. Len(items)
      /\ (items = <<>>) <=> (Len(items) = 0)
  BY OrdersAreSequences
<1>3. CASE items = <<>>
  <2>1. new = [items |-> items, cursor |-> Top]
    BY <1>3 DEF UpdateList
  <2>. QED  BY <2>1, <1>2, <1>3, TopTyped DEF List, NOWHERE
<1>4. CASE items # <<>> /\ at = {}
  <2>1. new = [items |-> items, cursor |-> SelectAt(list.cursor, 0)]
    BY <1>4 DEF UpdateList
  <2>. QED  BY <2>1, <1>1, <1>2, <1>4, SelectAtTyped DEF List, NOWHERE
<1>5. CASE items # <<>> /\ at # {}
  <2>1. PICK i \in at : i = CHOOSE j \in at : TRUE
    BY <1>5
  <2>2. new = [items |-> items, cursor |-> SelectAt(list.cursor, i - 1)]
    BY <1>5, <2>1 DEF UpdateList
  <2>3. i \in 1 .. Len(items)
    BY <1>2
  <2>4. i - 1 \in Nat /\ i - 1 < Len(items) /\ i - 1 # NOWHERE
    BY <2>3, <1>2 DEF NOWHERE
  <2> DEFINE to == SelectAt(list.cursor, i - 1)
  <2>5. to \in Cursors /\ to.sel = i - 1
    BY <2>4, <1>1, SelectAtTyped
  <2>6. new = [items |-> items, cursor |-> to]
    BY <2>2
  <2> HIDE DEF to
  <2>7. new \in List(S) /\ new.items = items /\ new.cursor = to
    BY <2>5, <2>6, ListTyped
  <2>. QED  BY <2>4, <2>5, <2>7
<1>. QED
  BY <1>3, <1>4, <1>5

\* The clamp keeps the cursor of the backups on a row.
LEMMA ApplyBackupsTyped ==
    ASSUME NEW S, NEW list \in List(S), NEW items \in Orders(S)
    PROVE  LET new == ApplyBackups(list, items)
           IN  new \in List(S) /\ new.cursor.sel < Len(new.items)
<1> DEFINE new == ApplyBackups(list, items)
           row == Min2(list.cursor.sel, Len(items) - 1)
<1>1. list.cursor \in Cursors
  BY DEF List
<1>2. Len(items) \in Nat /\ (items = <<>>) <=> (Len(items) = 0)
  BY OrdersAreSequences
<1>3. CASE items = <<>>
  <2>1. new = [items |-> items, cursor |-> Top]
    BY <1>3 DEF ApplyBackups
  <2>. QED  BY <2>1, <1>2, <1>3, TopTyped DEF List, NOWHERE
<1>4. CASE items # <<>> /\ list.cursor.sel = NOWHERE
  <2>1. new = [items |-> items, cursor |-> SelectAt(list.cursor, 0)]
    BY <1>4 DEF ApplyBackups
  <2>. QED  BY <2>1, <1>1, <1>2, <1>4, SelectAtTyped DEF List
<1>5. CASE items # <<>> /\ list.cursor.sel # NOWHERE
  <2>1. new = [items |-> items, cursor |-> SelectAt(list.cursor, row)]
    BY <1>5 DEF ApplyBackups
  <2>2. list.cursor.sel \in Nat
    BY <1>1, <1>5 DEF Cursors
  <2>3. row \in Nat /\ row < Len(items)
    BY <2>2, <1>2, <1>5 DEF Min2
  <2> HIDE DEF row
  <2> DEFINE to == SelectAt(list.cursor, row)
  <2>4. to \in Cursors /\ to.sel = row
    BY <2>3, <1>1, SelectAtTyped
  <2>5. new = [items |-> items, cursor |-> to]
    BY <2>1
  <2> HIDE DEF to
  <2>6. new \in List(S) /\ new.items = items /\ new.cursor = to
    BY <2>4, <2>5, ListTyped
  <2>. QED  BY <2>3, <2>4, <2>6
<1>. QED
  BY <1>3, <1>4, <1>5

\* A page with rows has at least one.
LEMMA RowsOfLength ==
    /\ \A t \in DOMAIN ROWS : 0 < Len(RowsOf(t)) /\ RowsOf(t) # <<>>
    /\ \A t : Len(RowsOf(t)) \in Nat
    /\ \A t : RowsOf(t) # <<>> => 0 < Len(RowsOf(t))
    /\ \A t : t \notin DOMAIN ROWS => RowsOf(t) = <<>>
<1>1. DOMAIN ROWS = {"General", "Dns", "Tun", "Logs"}
  BY DEF ROWS
<1>2. /\ Len(ROWS["General"]) = 6 /\ Len(ROWS["Dns"]) = 8
      /\ Len(ROWS["Tun"]) = 8 /\ Len(ROWS["Logs"]) = 5
  BY DEF ROWS
<1>3. Len(<<>>) = 0
  OBVIOUS
<1>4. \A t \in DOMAIN ROWS : Len(ROWS[t]) \in Nat /\ 0 < Len(ROWS[t])
  BY <1>1, <1>2
<1>. QED
  BY <1>3, <1>4 DEF RowsOf

\* The tab after a tab is a tab.
LEMMA AfterIsATab ==
    ASSUME tab \in {SETTINGS_TABS[i] : i \in DOMAIN SETTINGS_TABS}
    PROVE  After(SETTINGS_TABS, tab)
             \in {SETTINGS_TABS[i] : i \in DOMAIN SETTINGS_TABS}
<1>1. DOMAIN SETTINGS_TABS = 1 .. 8 /\ Len(SETTINGS_TABS) = 8
  BY DEF SETTINGS_TABS
<1>2. PICK i \in 1 .. 8 :
         i = CHOOSE j \in DOMAIN SETTINGS_TABS : SETTINGS_TABS[j] = tab
  BY <1>1
<1>3. (i % 8) + 1 \in 1 .. 8
  OBVIOUS
<1>. QED
  BY <1>1, <1>2, <1>3 DEF After

-----------------------------------------------------------------------------
(* The initial state.                                                      *)

LEMMA InitIInv == Init => IInv
<1> SUFFICES ASSUME Init PROVE IInv
  OBVIOUS
<1>1. EMPTY \in List(UIDS) /\ EMPTY \in List(BACKUPS)
  BY EmptyIsAnOrder, ScreenAssumption, TopTyped DEF EMPTY, List
<1>2. "General" \in {SETTINGS_TABS[i] : i \in DOMAIN SETTINGS_TABS}
  <2>1. 1 \in DOMAIN SETTINGS_TABS /\ SETTINGS_TABS[1] = "General"
    BY DEF SETTINGS_TABS
  <2>. QED  BY <2>1
<1>3. "Home" \in {PAGES[i] : i \in DOMAIN PAGES}
  <2>1. 1 \in DOMAIN PAGES /\ PAGES[1] = "Home"
    BY DEF PAGES
  <2>. QED  BY <2>1
<1>4. CursorOnAnItem
  <2>1. EMPTY.items = <<>> /\ EMPTY.cursor.sel = -1 /\ rows.sel = -1
    BY DEF Init, EMPTY, Top, NOWHERE
  <2>2. 0 < Len(RowsOf(tab))
    BY RowsOfLength DEF Init, ROWS
  <2>3. Len(<<>>) = 0
    OBVIOUS
  <2>. QED  BY <2>1, <2>2, <2>3, RowsOfLength DEF Init, CursorOnAnItem
<1>5. ListsOK
  BY <1>1, <1>2, <1>4, TopTyped DEF Init, ListsOK
<1>6. DialogsOK
  BY DEF Init, DialogsOK
<1>7. RestOK
  <2>1. 0 \in 0 .. MAX_NEWS
    BY ScreenAssumption
  <2>. QED  BY <1>3, <2>1 DEF Init, RestOK
<1>. QED
  BY <1>5, <1>6, <1>7, PartsOfIInv

-----------------------------------------------------------------------------
(* The steps that touch a list, a cursor or the settings tab.              *)

LEMMA ProfilesUpdatedLists ==
    ASSUME ListsOK, ProfilesUpdated PROVE ListsOK'
<1>1. PICK items \in Orders(UIDS) : profiles' = UpdateList(profiles, items)
  BY DEF ProfilesUpdated
<1>2. /\ profiles' \in List(UIDS)
      /\ profiles'.cursor.sel < Len(profiles'.items)
      /\ profiles'.items # <<>> => profiles'.cursor.sel # NOWHERE
  BY <1>1, UpdateListTyped DEF ListsOK
<1>3. UNCHANGED <<tab, backups, rows>>
  BY DEF ProfilesUpdated, place
<1>. QED
  BY <1>2, <1>3 DEF ListsOK, CursorOnAnItem

LEMMA BackupsReadyLists ==
    ASSUME ListsOK, BackupsReady PROVE ListsOK'
<1>1. PICK items \in Orders(BACKUPS) :
         backups' = ApplyBackups(backups, items)
  BY DEF BackupsReady
<1>2. /\ backups' \in List(BACKUPS)
      /\ backups'.cursor.sel < Len(backups'.items)
  BY <1>1, ApplyBackupsTyped DEF ListsOK
<1>3. UNCHANGED <<tab, profiles, rows>>
  BY DEF BackupsReady, place
<1>. QED
  BY <1>2, <1>3 DEF ListsOK, CursorOnAnItem

\* A list whose cursor is moved.
LEMMA MovedListTyped ==
    ASSUME NEW S, NEW list \in List(S), list.items # <<>>,
           NEW step \in {-1, 1}, NEW new,
           new = [list EXCEPT !.cursor =
                      MoveCursor(@, Len(list.items), step)]
    PROVE  /\ new \in List(S) /\ new.items = list.items
           /\ new.cursor.sel < Len(new.items)
           /\ new.cursor.sel # NOWHERE
<1> DEFINE to == MoveCursor(list.cursor, Len(list.items), step)
<1>1. list.items \in Orders(S) /\ list.cursor \in Cursors
  BY DEF List
<1>2. Len(list.items) \in Nat \ {0}
  BY <1>1, OrdersAreSequences
<1>3. to \in Cursors /\ to.sel \in 0 .. Len(list.items) - 1
  BY <1>1, <1>2, MoveCursorStays
<1>4. new = [items |-> list.items, cursor |-> to]
  BY DEF List
<1> HIDE DEF to
<1>5. new \in List(S) /\ new.items = list.items /\ new.cursor = to
  BY ONLY <1>1, <1>3, <1>4, ListTyped
<1>. QED
  BY <1>2, <1>3, <1>5 DEF NOWHERE

LEMMA MoveInProfilesLists ==
    ASSUME ListsOK, NEW step \in {-1, 1}, MoveInProfiles(step)
    PROVE  ListsOK'
<1>1. /\ profiles' \in List(UIDS)
      /\ profiles'.cursor.sel < Len(profiles'.items)
      /\ profiles'.cursor.sel # NOWHERE
  BY MovedListTyped DEF MoveInProfiles, ListsOK
<1>2. UNCHANGED <<tab, backups, rows>>
  BY DEF MoveInProfiles, place
<1>. QED
  BY <1>1, <1>2 DEF ListsOK, CursorOnAnItem

LEMMA MoveInSettingsLists ==
    ASSUME ListsOK, NEW step \in {-1, 1}, MoveInSettings(step)
    PROVE  ListsOK'
<1>1. UNCHANGED <<tab, profiles>>
  BY DEF MoveInSettings, place
<1>2. CASE /\ RowsOf(tab) # <<>> /\ UNCHANGED backups
           /\ rows' = MoveCursor(rows, Len(RowsOf(tab)), step)
  <2>1. Len(RowsOf(tab)) \in Nat \ {0}
    BY <1>2, RowsOfLength
  <2>2. rows' \in Cursors /\ rows'.sel \in 0 .. Len(RowsOf(tab)) - 1
    BY <1>2, <2>1, MoveCursorStays DEF ListsOK
  <2>3. rows'.sel < Len(RowsOf(tab))
    BY <2>1, <2>2
  <2>. QED  BY <1>1, <1>2, <2>2, <2>3 DEF ListsOK, CursorOnAnItem
<1>3. CASE /\ backups.items # <<>> /\ UNCHANGED rows
           /\ backups' = [backups EXCEPT !.cursor =
                              MoveCursor(@, Len(backups.items), step)]
  <2>1. /\ backups' \in List(BACKUPS)
        /\ backups'.cursor.sel < Len(backups'.items)
    BY <1>3, MovedListTyped DEF ListsOK
  <2>. QED  BY <1>1, <1>3, <2>1 DEF ListsOK, CursorOnAnItem
<1>. QED
  BY <1>2, <1>3 DEF MoveInSettings

LEMMA NextSettingsTabLists ==
    ASSUME ListsOK, NextSettingsTab PROVE ListsOK'
<1>1. /\ tab' \in {SETTINGS_TABS[i] : i \in DOMAIN SETTINGS_TABS}
      /\ rows' = IF tab' \in DOMAIN ROWS THEN SelectAt(rows, 0) ELSE Top
      /\ UNCHANGED profiles
  BY AfterIsATab DEF NextSettingsTab, ListsOK
<1>2. PICK to \in {SelectAt(Top, 0), Top} :
         /\ backups' = [backups EXCEPT !.cursor = to]
         /\ backups.items = <<>> => to = Top
  BY DEF NextSettingsTab
<1>3. backups.items \in Orders(BACKUPS) /\ rows \in Cursors
  BY DEF ListsOK, List
<1>4. to \in Cursors /\ to.sel \in {0, NOWHERE}
      /\ (backups.items = <<>> => to.sel = NOWHERE)
  BY <1>2, TopTyped, SelectAtTyped
<1>5. backups' = [items |-> backups.items, cursor |-> to]
  BY <1>2 DEF ListsOK, List
<1>6. /\ backups' \in List(BACKUPS)
      /\ backups'.items = backups.items /\ backups'.cursor = to
  BY <1>3, <1>4, <1>5, ListTyped
<1>7. backups'.cursor.sel < Len(backups'.items)
  <2>1. /\ Len(backups.items) \in Nat
        /\ (backups.items = <<>>) <=> (Len(backups.items) = 0)
    BY <1>3, OrdersAreSequences
  <2>. QED  BY <1>4, <1>6, <2>1 DEF NOWHERE
<1>8. rows' \in Cursors /\ (tab' \in DOMAIN ROWS => rows'.sel = 0)
  BY <1>1, <1>3, SelectAtTyped, TopTyped
<1>9. RowsOf(tab') # <<>> => rows'.sel < Len(RowsOf(tab'))
  BY <1>8, RowsOfLength
<1>. QED
  BY <1>1, <1>6, <1>7, <1>8, <1>9 DEF ListsOK, CursorOnAnItem

\* The end of the program leaves what a program starts with.
LEMMA QuitLists ==
    ASSUME Quit PROVE ListsOK'
<1>1. EMPTY \in List(UIDS) /\ EMPTY \in List(BACKUPS)
  BY EmptyIsAnOrder, ScreenAssumption, TopTyped DEF EMPTY, List
<1>2. "General" \in {SETTINGS_TABS[i] : i \in DOMAIN SETTINGS_TABS}
  <2>1. 1 \in DOMAIN SETTINGS_TABS /\ SETTINGS_TABS[1] = "General"
    BY DEF SETTINGS_TABS
  <2>. QED  BY <2>1
<1>3. EMPTY.items = <<>> /\ EMPTY.cursor.sel = -1 /\ Top.sel = -1
  BY DEF EMPTY, Top, NOWHERE
<1>4. 0 < Len(RowsOf("General")) /\ Len(<<>>) = 0
  BY RowsOfLength DEF ROWS
<1>5. Len(RowsOf("General")) \in Nat
  BY RowsOfLength
<1>6. /\ tab' = "General" /\ profiles' = EMPTY /\ backups' = EMPTY
      /\ rows' = Top
  BY DEF Quit
<1>. QED
  BY <1>1, <1>2, <1>3, <1>4, <1>5, <1>6, TopTyped
     DEF ListsOK, CursorOnAnItem

\* Every other step leaves them alone.
LEMMA OthersLeaveLists ==
    ASSUME [Next]_vars
    PROVE  \/ UNCHANGED <<tab, profiles, backups, rows>>
           \/ ProfilesUpdated \/ BackupsReady \/ Quit \/ NextSettingsTab
           \/ \E step \in {-1, 1} :
                 MoveInProfiles(step) \/ MoveInSettings(step)
<1> USE DEF place, lists, dialogs, others
<1>1. CASE Answers
  BY <1>1 DEF Answers, SettingsReady, TunConflict, TunAnswered,
              CoreStatusReady
<1>2. CASE DialogKeys
  BY <1>2 DEF DialogKeys, HelpKey, ConfirmNo, ConfirmYes, ChoiceMove,
              ChoiceNo, ChoiceYes, InputEdit, InputNo, InputYes
<1>3. CASE PageKeys
  BY <1>3 DEF PageKeys, OpenHelp, Escape, GoTo, LetterStarts,
              LetterConfirms, LetterOpensLine, EditByChoice, EditByLine,
              EditAtOnce, EditConfirmed, EnterStarts, ToggleAuditDetail
<1>4. CASE UNCHANGED vars
  BY <1>4 DEF vars
<1>. QED
  BY <1>1, <1>2, <1>3, <1>4 DEF Next

LEMMA ListsKept ==
    ASSUME ListsOK, [Next]_vars PROVE ListsOK'
<1>1. CASE UNCHANGED <<tab, profiles, backups, rows>>
  BY <1>1 DEF ListsOK, CursorOnAnItem
<1>. QED
  BY <1>1, OthersLeaveLists, ProfilesUpdatedLists, BackupsReadyLists,
     QuitLists, NextSettingsTabLists, MoveInProfilesLists,
     MoveInSettingsLists

-----------------------------------------------------------------------------
(* The steps that open or change a dialog.                                 *)

LEMMA SelectedIsATarget ==
    ASSUME ListsOK
    PROVE  \A op : Target(op) \in Targets
<1>1. ASSUME NEW S, NEW list \in List(S)
      PROVE  Selected(list) \in S \union {NOBODY}
  <2>1. list.items \in Seq(S) /\ DOMAIN list.items = 1 .. Len(list.items)
    BY OrdersAreSequences DEF List
  <2>2. \A i \in DOMAIN list.items : list.items[i] \in S
    BY <2>1, ElementOfSeq
  <2>. QED  BY <2>2 DEF Selected
<1>2. /\ Selected(profiles) \in UIDS \union {NOBODY}
      /\ Selected(backups) \in BACKUPS \union {NOBODY}
  BY <1>1 DEF ListsOK
<1>. QED
  BY <1>2 DEF Target, Targets

\* What Confirm puts on the screen is a dangerous operation on a target.
LEMMA ConfirmTyped ==
    ASSUME ListsOK, NEW op \in Dangerous, Confirm(op)
    PROVE  confirm' \in [op : Dangerous, of : Targets]
BY SelectedIsATarget DEF Confirm

LEMMA OpenInputTyped ==
    ASSUME NEW for \in Purposes, NEW of \in Targets, OpenInput(for, of)
    PROVE  input' \in [for : Purposes, of : Targets, text : TEXTS]
BY DEF OpenInput

LEMMA OptionsPositive ==
    \A for \in DOMAIN OPTIONS : OPTIONS[for] \in Nat \ {0}
BY DEF OPTIONS

LEMMA ConfirmKeysAreDangerous == \A k \in CONFIRM_KEYS : k[3] \in Dangerous
BY DEF CONFIRM_KEYS, Dangerous

LEMMA ConfirmKept ==
    ASSUME ListsOK, DialogsOK, [Next]_vars
    PROVE  confirm' \in {NOTHING} \union [op : Dangerous, of : Targets]
<1> USE DEF dialogs
<1>1. CASE UNCHANGED confirm
  BY <1>1 DEF DialogsOK
<1>2. CASE confirm' = NOTHING
  BY <1>2
<1>3. CASE TunConflict
  BY <1>3 DEF TunConflict, Dangerous, Targets
<1>4. CASE LetterConfirms
  BY <1>4, ConfirmTyped, ConfirmKeysAreDangerous DEF LetterConfirms
<1>5. CASE EditConfirmed
  <2>1. PICK op \in {"DisableTun", "EnableTun", "EnableStrictRoute",
                     "EnableAutoRedirect", "CleanupTun", "RestoreBackup"} :
           Confirm(op)
    BY <1>5 DEF EditConfirmed
  <2>2. op \in Dangerous
    BY DEF Dangerous
  <2>. QED  BY <2>1, <2>2, ConfirmTyped
<1>6. CASE Answers
  BY <1>1, <1>3, <1>6
     DEF Answers, ProfilesUpdated, BackupsReady, SettingsReady, TunAnswered,
         CoreStatusReady
<1>7. CASE DialogKeys
  BY <1>1, <1>2, <1>7
     DEF DialogKeys, HelpKey, ConfirmNo, ConfirmYes, ChoiceMove, ChoiceNo,
         ChoiceYes, InputEdit, InputNo, InputYes
<1>8. CASE PageKeys
  BY <1>1, <1>4, <1>5, <1>8
     DEF PageKeys, OpenHelp, Escape, Quit, GoTo, MoveInProfiles,
         MoveInSettings, NextSettingsTab, LetterStarts, LetterOpensLine,
         EditByChoice, EditByLine, EditAtOnce, EnterStarts,
         ToggleAuditDetail
<1>. QED
  BY <1>1, <1>6, <1>7, <1>8 DEF Next, vars

\* The option under the cursor stays one there is.
LEMMA ChoiceKept ==
    ASSUME DialogsOK, [Next]_vars
    PROVE  choice' \in {NOTHING} \union
             {c \in [for : DOMAIN OPTIONS, at : Nat] : c.at < OPTIONS[c.for]}
<1> USE DEF dialogs
<1>1. CASE UNCHANGED choice
  BY <1>1 DEF DialogsOK
<1>2. CASE choice' = NOTHING
  BY <1>2
<1>3. ASSUME NEW step \in {-1, 1}, ChoiceMove(step)
      PROVE  choice' \in {c \in [for : DOMAIN OPTIONS, at : Nat] :
                            c.at < OPTIONS[c.for]}
  <2>1. choice \in [for : DOMAIN OPTIONS, at : Nat]
    BY <1>3 DEF ChoiceMove, ChoiceTop, DialogsOK
  <2>2. OPTIONS[choice.for] \in Nat \ {0}
    BY <2>1, OptionsPositive
  <2> DEFINE at == (choice.at + step) % OPTIONS[choice.for]
  <2>3. at \in 0 .. OPTIONS[choice.for] - 1
    BY <2>1, <2>2
  <2>4. at \in Nat /\ at < OPTIONS[choice.for]
    BY <2>2, <2>3
  <2>5. choice' = [for |-> choice.for, at |-> at]
    BY <1>3, <2>1 DEF ChoiceMove
  <2> HIDE DEF at
  <2>. QED  BY <2>1, <2>4, <2>5
<1>4. CASE EditByChoice
  <2>1. PICK i \in 0 .. OPTIONS[SelectedRow] - 1 :
           choice' = [for |-> SelectedRow, at |-> i]
    BY <1>4 DEF EditByChoice
  <2>2. SelectedRow \in DOMAIN OPTIONS
    BY <1>4 DEF EditByChoice
  <2>3. OPTIONS[SelectedRow] \in Nat \ {0}
    BY <2>2, OptionsPositive
  <2>4. i \in Nat /\ i < OPTIONS[SelectedRow]
    BY <2>3
  <2>. QED  BY <2>1, <2>2, <2>4
<1>6. CASE Answers
  BY <1>1, <1>6
     DEF Answers, ProfilesUpdated, BackupsReady, SettingsReady, TunConflict,
         TunAnswered, CoreStatusReady
<1>7. CASE DialogKeys
  BY <1>1, <1>2, <1>3, <1>7
     DEF DialogKeys, HelpKey, ConfirmNo, ConfirmYes, ChoiceNo, ChoiceYes,
         InputEdit, InputNo, InputYes
<1>8. CASE PageKeys
  BY <1>1, <1>4, <1>8
     DEF PageKeys, OpenHelp, Escape, Quit, GoTo, MoveInProfiles,
         MoveInSettings, NextSettingsTab, LetterStarts, LetterConfirms,
         LetterOpensLine, EditByLine, EditAtOnce, EditConfirmed,
         EnterStarts, ToggleAuditDetail
<1>. QED
  BY <1>1, <1>6, <1>7, <1>8 DEF Next, vars

LEMMA InputKept ==
    ASSUME ListsOK, DialogsOK, [Next]_vars
    PROVE  input' \in {NOTHING}
                       \union [for : Purposes, of : Targets, text : TEXTS]
<1> USE DEF dialogs
<1>1. CASE UNCHANGED input
  BY <1>1 DEF DialogsOK
<1>2. CASE input' = NOTHING
  BY <1>2
<1>3. CASE InputEdit
  <2>1. input \in [for : Purposes, of : Targets, text : TEXTS]
    BY <1>3 DEF InputEdit, InputTop, DialogsOK
  <2>. QED  BY <1>3, <2>1 DEF InputEdit
<1>4. CASE LetterOpensLine
  <2>1. PICK k \in LINE_KEYS : OpenInput(k[3], Target(k[3]))
    BY <1>4 DEF LetterOpensLine
  <2>2. k[3] \in Purposes
    BY DEF Purposes
  <2>. QED  BY <2>1, <2>2, OpenInputTyped, SelectedIsATarget
<1>5. CASE EditByLine
  <2>1. SelectedRow \in Purposes /\ NOBODY \in Targets
    BY <1>5 DEF EditByLine, Purposes, Targets
  <2>. QED  BY <1>5, <2>1, OpenInputTyped DEF EditByLine
<1>6. CASE Answers
  BY <1>1, <1>6
     DEF Answers, ProfilesUpdated, BackupsReady, SettingsReady, TunConflict,
         TunAnswered, CoreStatusReady
<1>7. CASE DialogKeys
  BY <1>1, <1>2, <1>3, <1>7
     DEF DialogKeys, HelpKey, ConfirmNo, ConfirmYes, ChoiceMove, ChoiceNo,
         ChoiceYes, InputNo, InputYes
<1>8. CASE PageKeys
  BY <1>1, <1>4, <1>5, <1>8
     DEF PageKeys, OpenHelp, Escape, Quit, GoTo, MoveInProfiles,
         MoveInSettings, NextSettingsTab, LetterStarts, LetterConfirms,
         EditByChoice, EditAtOnce, EditConfirmed, EnterStarts,
         ToggleAuditDetail
<1>. QED
  BY <1>1, <1>6, <1>7, <1>8 DEF Next, vars

-----------------------------------------------------------------------------
(* The rest, and the invariant.                                            *)

LEMMA RestKept ==
    ASSUME RestOK, DialogsOK, [Next]_vars PROVE RestOK'
<1> USE DEF place, lists, dialogs, others, RestOK
<1>1. CASE News /\ UNCHANGED <<page, help, detail>>
           /\ awaiting' \in BOOLEAN /\ geo' \in BOOLEAN
           /\ known' \in {NOTHING} \union [SettingRows -> BOOLEAN]
  <2>1. news' \in 0 .. MAX_NEWS
    BY <1>1, ScreenAssumption DEF News
  <2>. QED  BY <1>1, <2>1
<1>2. CASE Answers
  <2>1. CASE SettingsReady
    <3>1. known' \in [SettingRows -> BOOLEAN]
      BY <2>1, ScreenAssumption DEF SettingsReady, SettingRows
    <3>. QED  BY <1>1, <2>1, <3>1 DEF SettingsReady
  <2>. QED
    BY <1>1, <1>2, <2>1
       DEF Answers, ProfilesUpdated, BackupsReady, TunConflict, TunAnswered,
           CoreStatusReady
<1>3. CASE /\ UNCHANGED <<page, detail, known, geo, news>>
           /\ help' \in BOOLEAN /\ awaiting' \in BOOLEAN
  BY <1>3
<1>4. CASE DialogKeys
  BY <1>3, <1>4
     DEF DialogKeys, HelpKey, ConfirmNo, ConfirmYes, ChoiceMove, ChoiceNo,
         ChoiceYes, InputEdit, InputNo, InputYes
<1>5. CASE UNCHANGED <<page, help, awaiting, detail, known, geo, news>>
  BY <1>5
<1>6. CASE PageKeys
  <2>1. CASE OpenHelp
    BY <1>3, <2>1 DEF OpenHelp
  <2>2. CASE Escape
    <3>1. "Home" \in {PAGES[i] : i \in DOMAIN PAGES}
      <4>1. 1 \in DOMAIN PAGES /\ PAGES[1] = "Home"
        BY DEF PAGES
      <4>. QED  BY <4>1
    <3>. QED  BY <2>2, <3>1 DEF Escape
  <2>3. CASE Quit
    <3>1. 0 \in 0 .. MAX_NEWS
      BY ScreenAssumption
    <3>. QED  BY <2>3, <3>1 DEF Quit
  <2>4. CASE \E i \in DOMAIN PAGES : GoTo(PAGES[i])
    BY <2>4 DEF GoTo
  <2>5. CASE ToggleAuditDetail
    BY <2>5 DEF ToggleAuditDetail
  <2>. QED
    BY <1>5, <1>6, <2>1, <2>2, <2>3, <2>4, <2>5
       DEF PageKeys, MoveInProfiles, MoveInSettings, NextSettingsTab,
           LetterStarts, LetterConfirms, LetterOpensLine, EditByChoice,
           EditByLine, EditAtOnce, EditConfirmed, EnterStarts
<1>. QED
  BY <1>2, <1>4, <1>5, <1>6 DEF Next, vars

LEMMA StepIInv == IInv /\ [Next]_vars => IInv'
<1> SUFFICES ASSUME IInv, [Next]_vars PROVE IInv'
  OBVIOUS
<1>1. ListsOK /\ DialogsOK /\ RestOK
  BY PartsOfIInv
<1>2. ListsOK' /\ RestOK'
  BY <1>1, ListsKept, RestKept
<1>3. DialogsOK'
  BY <1>1, ConfirmKept, ChoiceKept, InputKept DEF DialogsOK
<1>4. IInv' <=> ListsOK' /\ DialogsOK' /\ RestOK'
  BY Zenon DEF IInv, TypeOK, ListsOK, DialogsOK, RestOK
<1>. QED
  BY <1>2, <1>3, <1>4

-----------------------------------------------------------------------------
(* The theorems.                                                           *)

\* The invariant holds in every state of every behaviour.
THEOREM InductiveInvariant == Spec => []IInv
<1>1. Init => IInv
  BY InitIInv
<1>2. IInv /\ [Next]_vars => IInv'
  BY StepIInv
<1>. QED
  BY <1>1, <1>2, PTL DEF Spec

\* Every variable of the screen has its type: an open dialog holds what its
\* keys need, and a confirmation is only ever about a dangerous operation.
THEOREM TypeInvariant == Spec => []TypeOK
<1>1. IInv => TypeOK
  BY DEF IInv
<1>. QED
  BY <1>1, InductiveInvariant, PTL

\* However lists shrink and tabs are turned, a cursor stays on an item: for
\* any number of profiles and backups and any height of the screen.
THEOREM CursorOnAnItemAlways == Spec => []CursorOnAnItem
<1>1. IInv => CursorOnAnItem
  BY DEF IInv
<1>. QED
  BY <1>1, InductiveInvariant, PTL

\* No key but Enter on the confirmation that names it starts a dangerous
\* operation, and no answer but the first that misses the geo data.
LEMMA StartKeysAreHarmless == \A k \in START_KEYS : k[3] \notin Dangerous
BY DEF START_KEYS, Dangerous

LEMMA StepDanger ==
    ASSUME IInv, [Next]_vars
    PROVE  \/ asked'.op \notin Dangerous \/ UNCHANGED vars
           \/ ByConfirmation \/ ByMissingGeo
<1>1. NOTHING.op \notin Dangerous
  BY DEF NOTHING, Dangerous
<1>2. CASE Silent
  BY <1>1, <1>2 DEF Silent
<1>3. CASE ConfirmYes
  <2>1. confirm \in [op : Dangerous, of : Targets]
    BY <1>3 DEF ConfirmYes, ConfirmTop, IInv, TypeOK
  <2>2. asked' = [op |-> confirm.op, of |-> confirm.of]
    BY <1>3 DEF ConfirmYes, Ask
  <2>3. confirm = asked'
    BY <2>1, <2>2
  <2>. QED  BY <1>3, <2>3 DEF ConfirmYes, ConfirmTop, ByConfirmation
<1>4. CASE ChoiceYes
  BY <1>4 DEF ChoiceYes, Ask, Dangerous
<1>5. CASE InputYes
  <2>1. CASE ~Accepted(input)
    BY <1>2, <1>5, <2>1 DEF InputYes
  <2>2. CASE Accepted(input)
    <3>1. asked'.op = IF input.for \in TEXT_ROWS THEN "SettingsSet"
                      ELSE input.for
      BY <1>5, <2>2 DEF InputYes, Ask
    <3>2. input.for \in TEXT_ROWS \union
             {"ImportProfileUrl", "RenameProfile", "ExportAudit"}
      BY <2>2 DEF Accepted, TEXT_ROWS
    <3>. QED  BY <3>1, <3>2 DEF Dangerous
  <2>. QED  BY <2>1, <2>2
<1>6. CASE LetterStarts
  BY <1>6, StartKeysAreHarmless DEF LetterStarts, Ask
<1>7. CASE EditAtOnce
  BY <1>7 DEF EditAtOnce, Ask, Dangerous
<1>8. CASE EnterStarts
  BY <1>8 DEF EnterStarts, Ask, Dangerous
<1>9. CASE Answers
  <2>1. CASE CoreStatusReady
    BY <1>2, <2>1 DEF CoreStatusReady, Ask, ByMissingGeo
  <2>. QED
    BY <1>2, <1>9, <2>1
       DEF Answers, ProfilesUpdated, BackupsReady, SettingsReady,
           TunConflict, TunAnswered
<1>10. CASE DialogKeys
  BY <1>2, <1>3, <1>4, <1>5, <1>10
     DEF DialogKeys, HelpKey, ConfirmNo, ChoiceMove, ChoiceNo, InputEdit,
         InputNo
<1>11. CASE PageKeys
  BY <1>2, <1>6, <1>7, <1>8, <1>11
     DEF PageKeys, OpenHelp, Escape, Quit, GoTo, MoveInProfiles,
         MoveInSettings, NextSettingsTab, LetterConfirms, LetterOpensLine,
         EditByChoice, EditByLine, EditConfirmed, ToggleAuditDetail
<1>. QED
  BY <1>9, <1>10, <1>11 DEF Next

\* Whatever arrives while a confirmation is open, a dangerous operation
\* starts by Enter on the one that names it, with the target it named when
\* it was opened; or it is the installation of missing geo data, which
\* on_core_status starts unasked, the first time in a session.
THEOREM DangerIsConfirmedAlways == Spec => DangerIsConfirmed
<1>1. IInv /\ [Next]_vars =>
        [asked'.op \in Dangerous => ByConfirmation \/ ByMissingGeo]_vars
  BY StepDanger
<1>. QED
  BY <1>1, InductiveInvariant, PTL DEF Spec, DangerIsConfirmed

\* The only question that replaces one is that of TunConflict.
LEMMA QuestionStays ==
    ASSUME [Next]_vars, confirm # NOTHING, confirm' \notin {confirm, NOTHING}
    PROVE  confirm'.op = "SetTunForce" /\ awaiting /\ ~awaiting'
<1> USE DEF dialogs
<1>1. CASE TunConflict
  BY <1>1 DEF TunConflict
<1>2. CASE Answers
  BY <1>1, <1>2
     DEF Answers, ProfilesUpdated, BackupsReady, SettingsReady, TunAnswered,
         CoreStatusReady
<1>3. CASE DialogKeys
  BY <1>3
     DEF DialogKeys, HelpKey, ConfirmNo, ConfirmYes, ChoiceMove, ChoiceNo,
         ChoiceYes, InputEdit, InputNo, InputYes
<1>4. ~PageKeys
  BY DEF PageKeys, Bare, NoDialog, OpenHelp, Escape, Quit, GoTo,
         MoveInProfiles, MoveInSettings, NextSettingsTab, LetterStarts,
         LetterConfirms, LetterOpensLine, EditByChoice, EditByLine,
         EditAtOnce, EditConfirmed, EnterStarts, ToggleAuditDetail
<1>. QED
  BY <1>2, <1>3, <1>4 DEF Next, vars

\* Under a dialog of any kind the page, the tab, the cursor over the rows
\* and the audit detail stay, whatever is typed and whatever arrives; and
\* only the answer to an EnableTun puts its question over an open one.
THEOREM DialogTakesTheKeysAlways == Spec => DialogTakesTheKeys
<1>1. [Next]_vars =>
        [~NoDialog => UNCHANGED <<page, tab, rows, detail>>]_vars
  <2> SUFFICES ASSUME [Next]_vars, ~NoDialog, ~UNCHANGED vars
               PROVE  UNCHANGED <<page, tab, rows, detail>>
    OBVIOUS
  <2> USE DEF place, lists
  <2>1. CASE Answers
    BY <2>1
       DEF Answers, ProfilesUpdated, BackupsReady, SettingsReady,
           TunConflict, TunAnswered, CoreStatusReady
  <2>2. CASE DialogKeys
    BY <2>2
       DEF DialogKeys, HelpKey, ConfirmNo, ConfirmYes, ChoiceMove, ChoiceNo,
           ChoiceYes, InputEdit, InputNo, InputYes
  <2>3. ~PageKeys
    BY DEF PageKeys, Bare, OpenHelp, Escape, Quit, GoTo, MoveInProfiles,
           MoveInSettings, NextSettingsTab, LetterStarts, LetterConfirms,
           LetterOpensLine, EditByChoice, EditByLine, EditAtOnce,
           EditConfirmed, EnterStarts, ToggleAuditDetail
  <2>. QED  BY <2>1, <2>2, <2>3 DEF Next
<1>2. [Next]_vars =>
        [confirm # NOTHING =>
            \/ confirm' \in {confirm, NOTHING}
            \/ confirm'.op = "SetTunForce" /\ awaiting /\ ~awaiting']_vars
  BY QuestionStays
<1>. QED
  BY <1>1, <1>2, PTL DEF Spec, DialogTakesTheKeys

\* What UpdateList does to the profile under the cursor.
LEMMA UpdateListFollows ==
    ASSUME NEW S, NEW list \in List(S), NEW items \in Orders(S)
    PROVE  LET new == UpdateList(list, items)
           IN  \/ Selected(new) = Selected(list)
               \/ \A i \in DOMAIN new.items : new.items[i] # Selected(list)
<1> DEFINE at  == {i \in DOMAIN items : items[i] = Selected(list)}
           new == UpdateList(list, items)
<1>1. new.items = items
  BY DEF UpdateList
<1>2. CASE at = {}
  BY <1>1, <1>2
<1>3. CASE at # {}
  <2>1. PICK i \in at : i = CHOOSE j \in at : TRUE
    BY <1>3
  <2>2. DOMAIN items = 1 .. Len(items) /\ Len(items) \in Nat
    BY OrdersAreSequences
  <2>3. i \in 1 .. Len(items) /\ items[i] = Selected(list)
    BY <2>2
  <2>4. items # <<>>
    BY <2>3, OrdersAreSequences
  <2>5. new = [items |-> items, cursor |-> SelectAt(list.cursor, i - 1)]
    BY <2>1, <2>4, <1>3 DEF UpdateList
  <2>6. list.cursor \in Cursors /\ i - 1 \in Nat /\ (i - 1) + 1 = i
    BY <2>3, <2>2 DEF List
  <2>7. new.cursor.sel = i - 1
    BY <2>5, <2>6, SelectAtTyped
  <2>. QED  BY <1>1, <2>2, <2>3, <2>6, <2>7 DEF Selected
<1>. QED
  BY <1>2, <1>3

\* For every two lists of profiles, the cursor follows its profile.
THEOREM SelectionFollowsProfileAlways == Spec => SelectionFollowsProfile
<1>1. ASSUME IInv, [Next]_vars, profiles'.items # profiles.items
      PROVE  \/ Selected(profiles') = Selected(profiles)
             \/ \A i \in DOMAIN profiles'.items :
                   profiles'.items[i] # Selected(profiles)
  <2>1. CASE ProfilesUpdated
    <3>1. PICK items \in Orders(UIDS) :
             profiles' = UpdateList(profiles, items)
      BY <2>1 DEF ProfilesUpdated
    <3>2. profiles \in List(UIDS)
      BY <1>1, PartsOfIInv DEF ListsOK
    <3>. QED  BY <3>1, <3>2, UpdateListFollows
  <2>2. CASE Quit
    <3>1. profiles'.items = <<>>
      BY <2>2 DEF Quit, EMPTY
    <3>. QED  BY <3>1
  <2>3. ASSUME NEW step \in {-1, 1}, MoveInProfiles(step)
        PROVE  FALSE
    <3>1. profiles'.items = profiles.items
      BY <2>3, MovedListTyped DEF MoveInProfiles, IInv, TypeOK
    <3>. QED  BY <1>1, <3>1
  <2>4. UNCHANGED profiles
          \/ ProfilesUpdated \/ Quit
          \/ \E step \in {-1, 1} : MoveInProfiles(step)
    BY <1>1, OthersLeaveLists DEF BackupsReady, NextSettingsTab,
       MoveInSettings
  <2>. QED  BY <1>1, <2>1, <2>2, <2>3, <2>4
<1>2. IInv /\ [Next]_vars =>
        [profiles'.items # profiles.items =>
           \/ Selected(profiles') = Selected(profiles)
           \/ \A i \in DOMAIN profiles'.items :
                 profiles'.items[i] # Selected(profiles)]_vars
  BY <1>1
<1>. QED
  BY <1>2, InductiveInvariant, PTL DEF Spec, SelectionFollowsProfile
=============================================================================
