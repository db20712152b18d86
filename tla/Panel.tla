------------------------------- MODULE Panel -------------------------------
(***************************************************************************)
(* The pages of the TUI that show what the core has: groups and nodes,     *)
(* connections, rules and rule providers (clard-tui app/proxy.rs,          *)
(* app/connections.rs, app/rules.rs and their operations in app.rs, over   *)
(* the REST client of clard-core).                                         *)
(*                                                                         *)
(* A page keeps the last list the core sent, a view of it (filtered,       *)
(* sorted) and cursors into the view.  The core changes on its own, lists  *)
(* come back from tasks, and the delays of a group are measured by several *)
(* workers of one task.  The pages share nothing, so a behaviour is about  *)
(* one of them.  A name is a number, in the order names are sorted by; a   *)
(* filter is the set of names it matches.                                  *)
(***************************************************************************)
EXTENDS Rows, SequencesExt

CONSTANTS
    NODES,        \* names of nodes, of connections, positions of rules
    CONFIGS,      \* what the core may have: [set of groups -> set of nodes]
    TRAFFIC,      \* [ids -> bytes up and down] of the open connections
    FILTERS,      \* the filters the user types; NODES is no filter
    CONCURRENCY,  \* workers of a test
    MAX_CHANGES,  \* bound: changes of the core's lists
    MAX_TASKS     \* bound: selections and tests

ASSUME PanelAssumption ==
    /\ IsFiniteSet(NODES) /\ NODES \subseteq Nat \ {0}
    /\ \A c \in CONFIGS : /\ IsFiniteSet(DOMAIN c) /\ DOMAIN c \subseteq Nat \ {0}
                          /\ c \in [DOMAIN c -> SUBSET NODES]
    /\ \A c \in TRAFFIC : /\ DOMAIN c \subseteq NODES
                          /\ c \in [DOMAIN c -> [up : Nat, down : Nat]]
    /\ FILTERS \subseteq SUBSET NODES
    /\ CONCURRENCY \in Nat \ {0} /\ MAX_CHANGES \in Nat /\ MAX_TASKS \in Nat

VARIABLES
    page,      \* the page the behaviour is about
    core,      \* the core's list for it
    now,       \* the node every group of the core uses
    all,       \* raw_groups, ConnectionsState::all, all_rules, providers
    view,      \* groups, connections, rules: what is drawn
    filter,
    sort,      \* ConnectionsState::sort
    cursor,    \* [group, item]: the group list and the list, from 1, 0: none
    focus,     \* ProxyState::focus
    testing,   \* ProxyState::testing
    tests,     \* the tests of a group: nodes, next, workers, reported, told
    selects,   \* the selections and clearings: [group, node, at]
    memory,    \* the node the helper memorised for every group
    changes

shown == <<all, view, filter, sort, cursor, focus>>
tasks == <<testing, tests, selects, memory>>
vars  == <<page, core, now, shown, tasks, changes>>

NOBODY == 0

\* What a worker has instead of a node: none yet, or none any more.
FREE == 0
OVER == -1

PAGES  == {"Proxies", "Connections", "Rules", "Providers"}
Workers == 1 .. CONCURRENCY

Min2(a, b) == IF a < b THEN a ELSE b

Change == changes < MAX_CHANGES /\ changes' = changes + 1

\* apply_sort: stable, the connection with most traffic of the kind first.
Sorted(seq, by) ==
    LET rows == DOMAIN seq
        bytes == [i \in rows |->
                    IF by = "Upload" THEN seq[i].up ELSE seq[i].down]
        is == Ordered(rows, {p \in rows \X rows :
                               \/ bytes[p[1]] > bytes[p[2]]
                               \/ bytes[p[1]] = bytes[p[2]] /\ p[1] < p[2]})
    IN  [k \in DOMAIN is |-> seq[is[k]]]

-----------------------------------------------------------------------------
(* What the core may have.                                                 *)

RuleLists == UNION {[1 .. n -> BOOLEAN] : n \in 0 .. Cardinality(NODES)}

Lists(p) == CASE p = "Proxies" -> CONFIGS
              [] p = "Connections" -> TRAFFIC
              [] p = "Rules" -> RuleLists
              [] p = "Providers" -> SUBSET NODES

\* The list as the core sends it; groups without nodes are left out, groups
\* and nodes are sorted by name.
Sent == CASE page = "Proxies" ->
               LET gs == InOrder({g \in DOMAIN core : core[g] # {}})
               IN  [i \in DOMAIN gs |->
                      [name |-> gs[i], all |-> InOrder(core[gs[i]]),
                       now |-> now[gs[i]]]]
          [] page = "Connections" ->
               LET ids == InOrder(DOMAIN core)
               IN  [i \in DOMAIN ids |-> [name |-> ids[i], up |-> core[ids[i]].up,
                                          down |-> core[ids[i]].down]]
          [] page = "Rules" ->
               [i \in DOMAIN core |-> [name |-> i, disabled |-> core[i]]]
          [] page = "Providers" ->
               LET ps == InOrder(core)
               IN  [i \in DOMAIN ps |-> [name |-> ps[i]]]

-----------------------------------------------------------------------------
(* The views.                                                              *)

\* refresh_view, refresh_rules: a group keeps its matching nodes, a list its
\* matching rows; connections are sorted by what the user chose.
Matching(list, f) == RowsAt(list, {i \in DOMAIN list : list[i].name \in f})

ViewOf(list, f, by) ==
    CASE page = "Proxies" ->
           [i \in DOMAIN list |->
              [list[i] EXCEPT
                 !.all = RowsAt(@, {k \in DOMAIN @ : @[k] \in f})]]
      [] page = "Connections" -> Sorted(Matching(list, f), by)
      [] page = "Rules" -> Matching(list, f)
      [] page = "Providers" -> list

\* The nodes under the group cursor.
NodesAt(v, c) == IF c.group \in DOMAIN v THEN v[c.group].all ELSE <<>>

SelectedNode ==
    LET ns == NodesAt(view, cursor)
    IN  IF cursor.item \in DOMAIN ns THEN ns[cursor.item] ELSE NOBODY

SelectedGroup == IF cursor.group \in DOMAIN view
                 THEN view[cursor.group].name ELSE NOBODY

PositionOf(seq, x) == IF \E i \in DOMAIN seq : seq[i] = x
                      THEN CHOOSE i \in DOMAIN seq : seq[i] = x ELSE 0

\* The node in use, else the first.
DefaultItem(v, g) ==
    IF g \notin DOMAIN v THEN 0
    ELSE LET i == PositionOf(v[g].all, v[g].now)
         IN  IF i # 0 THEN i ELSE 1

\* Mutant: the cursor goes to the node in use.
GroupCursorToNow(v) ==
    IF v = <<>> THEN [group |-> 0, item |-> 0]
    ELSE LET g == PositionOf([i \in DOMAIN v |-> v[i].name], SelectedGroup)
             at == IF g = 0 THEN 1 ELSE g
         IN  [group |-> at, item |-> DefaultItem(v, at)]

\* update_groups: the same group and node, if they are still there.
GroupCursor(v) ==
    IF v = <<>> THEN [group |-> 0, item |-> 0]
    ELSE LET g == PositionOf([i \in DOMAIN v |-> v[i].name], SelectedGroup)
             at == IF g = 0 THEN 1 ELSE g
             i == PositionOf(v[at].all, SelectedNode)
         IN  [group |-> at,
              item  |-> IF i # 0 THEN i ELSE DefaultItem(v, at)]

\* The cursor of a list: kept within it, on the first row if it was nowhere.
ListCursor(v) ==
    [cursor EXCEPT !.item = IF v = <<>> THEN 0
                            ELSE IF @ = 0 THEN 1 ELSE Min2(@, Len(v))]

\* clamp_selection, after a filter.
Clamped(v) ==
    IF cursor.group \notin DOMAIN v THEN cursor
    ELSE LET ns == v[cursor.group].all
         IN  [cursor EXCEPT !.item = IF ns = <<>> THEN 0
                                     ELSE IF @ = 0 THEN 1
                                     ELSE Min2(@, Len(ns))]

-----------------------------------------------------------------------------
(* The core, and the answers of the tasks that fetch a list.               *)

Init ==
    /\ page \in PAGES
    /\ core \in Lists(page)
    /\ now = IF page = "Proxies"
             THEN [g \in DOMAIN core |->
                     IF core[g] = {} THEN NOBODY
                     ELSE CHOOSE n \in core[g] : \A m \in core[g] : n <= m]
             ELSE <<>>
    /\ all = <<>> /\ view = <<>>
    /\ filter = NODES /\ sort = "Download"
    /\ cursor = [group |-> 0, item |-> 0] /\ focus = "Groups"
    /\ testing = {} /\ tests = <<>> /\ selects = <<>> /\ memory = <<>>
    /\ changes = 0

\* A reload, a new connection, traffic.
CoreChanges ==
    /\ Change
    /\ core' \in Lists(page)
    /\ IF page = "Proxies"
       THEN \E choice \in [DOMAIN core' -> NODES \union {NOBODY}] :
               /\ \A g \in DOMAIN core' :
                     choice[g] \in IF core'[g] = {} THEN {NOBODY}
                                   ELSE core'[g]
               /\ now' = choice
       ELSE UNCHANGED now
    /\ UNCHANGED <<page, shown, tasks>>

\* update_groups, update_connections, update_rules, update_providers.
Shows ==
    /\ all' = Sent
    /\ view' = ViewOf(Sent, filter, sort)
    /\ cursor' = IF page = "Proxies" THEN GroupCursor(view')
                 ELSE ListCursor(view')
    /\ UNCHANGED <<filter, sort, focus>>

\* A page that is entered, the refresh of the connections every second, the
\* end of an operation: the list of the core now.
Fetched ==
    /\ Sent # all \/ view = <<>>
    /\ Shows
    /\ UNCHANGED <<page, core, now, tasks, changes>>

-----------------------------------------------------------------------------
(* Keys.                                                                   *)

\* move_list_cursor, without its offset.
Turn(i, len, step) == (((IF i = 0 THEN 1 ELSE i) - 1 + step) % len) + 1

MoveGroup(step) ==
    /\ page = "Proxies" /\ focus = "Groups" /\ view # <<>>
    /\ LET g == Turn(cursor.group, Len(view), step)
       IN  cursor' = [group |-> g, item |-> DefaultItem(view, g)]
    /\ UNCHANGED <<page, core, now, all, view, filter, sort, focus, tasks,
                   changes>>

MoveItem(step) ==
    /\ page # "Proxies" \/ focus = "Proxies"
    /\ LET list == IF page = "Proxies" THEN NodesAt(view, cursor) ELSE view
       IN  /\ list # <<>>
           /\ cursor' = [cursor EXCEPT !.item = Turn(@, Len(list), step)]
    /\ UNCHANGED <<page, core, now, all, view, filter, sort, focus, tasks,
                   changes>>

Left ==
    /\ page = "Proxies"
    /\ focus' = "Groups"
    /\ UNCHANGED <<page, core, now, all, view, filter, sort, cursor, tasks,
                   changes>>

Right ==
    /\ page = "Proxies"
    /\ focus' = "Proxies"
    /\ cursor' = [cursor EXCEPT !.item = IF @ = 0 THEN 1 ELSE @]
    /\ UNCHANGED <<page, core, now, all, view, filter, sort, tasks, changes>>

\* Mutant: the view is as before until the next list.
SetFilterLater(f) ==
    /\ filter' = f /\ UNCHANGED <<view, cursor>>

SetFilter(f) ==
    /\ filter' = f
    /\ view' = ViewOf(all, f, sort)
    /\ cursor' = IF page = "Proxies" THEN Clamped(view')
                 ELSE ListCursor(view')

Filter ==
    /\ page # "Providers"
    /\ \E f \in FILTERS : SetFilter(f)
    /\ UNCHANGED <<page, core, now, all, sort, focus, tasks, changes>>

\* sort_by_upload, sort_by_download
SortBy ==
    /\ page = "Connections"
    /\ sort' \in {"Upload", "Download"}
    /\ view' = ViewOf(all, filter, sort')
    /\ cursor' = ListCursor(view')
    /\ UNCHANGED <<page, core, now, all, filter, focus, tasks, changes>>

-----------------------------------------------------------------------------
(* Operations on rows: one request, then the list again.                   *)

Selected == view[cursor.item]

\* close_selected_connection, or all of them.
Close ==
    /\ page = "Connections" /\ Change
    /\ \E gone \in {DOMAIN core} \union
                   {{Selected.name} : i \in {cursor.item} \intersect DOMAIN view} :
          core' = [c \in DOMAIN core \ gone |-> core[c]]
    /\ UNCHANGED <<page, now, shown, tasks>>

\* toggle_rule: the position and the state as they are shown.
ToggleRule ==
    /\ page = "Rules" /\ cursor.item \in DOMAIN view /\ Change
    /\ core' = IF Selected.name \in DOMAIN core
               THEN [core EXCEPT ![Selected.name] = ~Selected.disabled]
               ELSE core
    /\ UNCHANGED <<page, now, shown, tasks>>

-----------------------------------------------------------------------------
(* Selecting a node: PUT to the core, then Memorize at the helper.         *)

More == Len(tests) + Len(selects) < MAX_TASKS

SelectNode ==
    /\ page = "Proxies" /\ focus = "Proxies" /\ SelectedNode # NOBODY /\ More
    /\ selects' = Append(selects, [group |-> SelectedGroup,
                                   node |-> SelectedNode, at |-> "put"])
    /\ UNCHANGED <<page, core, now, shown, testing, tests, memory, changes>>

\* The core refuses a group or a node it does not have.
Put(i) ==
    /\ selects[i].at = "put"
    /\ LET s == selects[i]
       IN  IF s.group \in DOMAIN core /\ s.node \in core[s.group]
           THEN /\ now' = [now EXCEPT ![s.group] = s.node]
                /\ selects' = [selects EXCEPT ![i].at = "memorize"]
           ELSE selects' = [selects EXCEPT ![i].at = "done"] /\ UNCHANGED now
    /\ UNCHANGED <<page, core, shown, testing, tests, memory, changes>>

\* ProfileMemorize; its failure is ignored.
Memorize(i) ==
    /\ selects[i].at = "memorize"
    /\ LET s == selects[i]
       IN  memory' = [g \in DOMAIN memory \union {s.group} |->
                        IF g = s.group THEN s.node ELSE memory[g]]
    /\ selects' = [selects EXCEPT ![i].at = "done"]
    /\ UNCHANGED <<page, core, now, shown, testing, tests, changes>>

\* clear_group_selection: DELETE lets the core choose.
ClearSelection ==
    /\ page = "Proxies" /\ SelectedGroup \in DOMAIN core /\ Change
    /\ core[SelectedGroup] # {}
    /\ now' \in {[now EXCEPT ![SelectedGroup] = n] : n \in core[SelectedGroup]}
    /\ UNCHANGED <<page, core, shown, tasks>>

-----------------------------------------------------------------------------
(* Testing the nodes of a group.                                           *)

\* All nodes of the group, the filtered ones too.
GroupNodes == all[PositionOf([i \in DOMAIN all |-> all[i].name],
                             SelectedGroup)].all

Test ==
    /\ page = "Proxies" /\ SelectedGroup # NOBODY /\ More
    /\ testing' = ToSet(GroupNodes)
    /\ tests' = Append(tests, [nodes |-> GroupNodes, next |-> 1,
                               at |-> [w \in Workers |-> FREE],
                               taken |-> <<>>, reported |-> {},
                               told |-> FALSE])
    /\ UNCHANGED <<page, core, now, shown, selects, memory, changes>>

\* Mutant: the counter is read and not advanced.
GrabLoad(t, w) ==
    /\ tests[t].at[w] = FREE
    /\ LET i == tests[t].next
       IN  tests' = IF i \in DOMAIN tests[t].nodes
                    THEN [tests EXCEPT
                            ![t].at[w] = tests[t].nodes[i],
                            ![t].taken = Append(@, tests[t].nodes[i])]
                    ELSE [tests EXCEPT ![t].at[w] = OVER]
    /\ UNCHANGED <<page, core, now, shown, testing, selects, memory, changes>>

\* A worker takes the next node off the counter they share, or ends.
Grab(t, w) ==
    /\ tests[t].at[w] = FREE
    /\ LET i == tests[t].next
       IN  tests' = IF i \in DOMAIN tests[t].nodes
                    THEN [tests EXCEPT
                            ![t].next = i + 1,
                            ![t].at[w] = tests[t].nodes[i],
                            ![t].taken = Append(@, tests[t].nodes[i])]
                    ELSE [tests EXCEPT ![t].next = i + 1,
                                       ![t].at[w] = OVER]
    /\ UNCHANGED <<page, core, now, shown, testing, selects, memory, changes>>

\* The delay of its node, or none: NodeDelay either way, and the view is
\* made again.
Report(t, w) ==
    /\ tests[t].at[w] \notin {FREE, OVER}
    /\ tests' = [tests EXCEPT ![t].at[w] = FREE,
                              ![t].reported = @ \union {tests[t].at[w]}]
    /\ testing' = testing \ {tests[t].at[w]}
    /\ view' = ViewOf(all, filter, sort)
    /\ UNCHANGED <<page, core, now, all, filter, sort, cursor, focus, selects,
                   memory, changes>>

\* "n nodes tested", when all workers have ended.
Tell(t) ==
    /\ ~tests[t].told
    /\ \A w \in Workers : tests[t].at[w] = OVER
    /\ tests' = [tests EXCEPT ![t].told = TRUE]
    /\ UNCHANGED <<page, core, now, shown, testing, selects, memory, changes>>

Work == \E t \in DOMAIN tests :
           Tell(t) \/ \E w \in Workers : Grab(t, w) \/ Report(t, w)

Next ==
    \/ CoreChanges \/ Fetched
    \/ \E step \in {-1, 1} : MoveGroup(step) \/ MoveItem(step)
    \/ Left \/ Right \/ Filter \/ SortBy
    \/ Close \/ ToggleRule
    \/ SelectNode \/ ClearSelection \/ Test
    \/ \E i \in DOMAIN selects : Put(i) \/ Memorize(i)
    \/ Work

Spec == Init /\ [][Next]_vars

-----------------------------------------------------------------------------
(* Properties.                                                             *)

\* What is drawn is the last list under the filter and the order on the
\* screen, whichever of the three changed last.
ViewIsCurrent == view = ViewOf(all, filter, sort)

\* The workers of a test share the nodes out: none is measured twice, and
\* the end is announced only when every node has its result.
TestIsComplete ==
    \A t \in DOMAIN tests :
       /\ Cardinality(ToSet(tests[t].taken)) = Len(tests[t].taken)
       /\ tests[t].told => tests[t].reported = ToSet(tests[t].nodes)

\* A list of groups that arrives leaves the cursor on the node it was on, as
\* long as the group still has it.
CursorFollowsNode ==
    [][page = "Proxies" /\ all' # all /\ SelectedNode # NOBODY =>
          \A g \in DOMAIN view' :
             /\ view'[g].name = SelectedGroup
             /\ SelectedNode \in ToSet(view'[g].all)
             => SelectedGroup' = SelectedGroup
                  /\ SelectedNode' = SelectedNode]_vars

=============================================================================
