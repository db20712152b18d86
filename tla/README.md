# A verification model of clard

clard is a Linux proxy manager: a root daemon (`clard-helper`) owns the mihomo
core, the TUN routing and all data; a terminal client (`clard-tui`) talks to
it over a Unix socket. This directory holds TLA+ modules that model the
helper and the client, TLC configurations that check them on small instances,
and proofs that TLAPS checks for every value of the constants. Paths below are
relative to `src/`; `helper/`, `tui/` and `gen/` stand for
`crates/clard-helper/src/`, `crates/clard-tui/src/` and
`crates/clard-config/src/config_gen/`.

## 1. The system

### Components

| component | state it keeps | operations | interacts through |
|---|---|---|---|
| core manager (`helper/core.rs`) | child and pid, version, `want_running`, crash times; the process | `start`, `stop`, `restart`, `state`, `crash_backoff`, `apply_config` | `Mutex<CoreManager>`; HTTP over `core.sock` |
| watchdogs (`helper/watchdog.rs`) | failure count, `degraded`, start time | look for a crash every 2 s, at the TUN every 3 s; `fail_open` | core lock, `cleanup_tun`, events |
| daemon (`helper/daemon.rs`, `main.rs`, `packaging/clard-helper.service`) | the shared stores, the broadcast channel | start-up self-check, connections, subscription, SIGTERM, helper.toml poll | three mutexes, always in the order store, settings, core |
| TUN (`helper/tun.rs`) | none of its own: ip rules 9100..9109, table 2023, `clard0` in the kernel | `cleanup_tun`, `residuals`, prechecks | `ip`, `nft`, `resolvectl` |
| regenerate (`helper/config.rs`) | `runtime/config.yaml` | R1 to R7, with rollback | called with all three locks held |
| RPC handlers (`helper/rpc.rs`) | none | one per request; each is the transaction around a `regenerate` | the stores, audit, events |
| profiles (`helper/profiles.rs`) | index in memory and in `profiles.yaml`, content files, three history files each | import, update, remove, switch, rename, move, restore, memorize | store lock, disk |
| settings (`helper/settings.rs`) | settings in memory and in `clard.toml` | patch, apply, save, restore | settings lock, disk |
| subscription timer (`helper/autoupdate.rs`) | the download in flight | due list, download without a lock, apply | store lock, then settings and core |
| backups (`helper/backup.rs`) | archives | create, list, delete, restore | disk, then a reload of the stores |
| logs and audit (`helper/logs.rs`, `audit.rs`) | rotated files, a sequence number | append and rotate, read from a cursor, intent and result | disk |
| helper.toml (`helper/helper_config.rs`) | a global, its mtime | reload if changed | polled every 30 s |
| events (`helper/daemon.rs`, `crates/clard-tui/src/lib.rs`) | a bounded broadcast channel, one cursor per subscriber | send, subscribe, lag, reconnect | socket |
| TUI screen (`tui/app.rs`, `tui/app/*.rs`, `event.rs`, `nav.rs`) | page, tab, dialogs, lists with cursors, what is known of the settings | one per key and per answer | one channel of events |
| TUI operations (`tui/app.rs`, `tui/rpc.rs`) | none beyond the task | import, update, switch, remove, settings, backups, upgrades | RPC with a 10 s timeout, messages to the screen |
| TUI pages over the core (`tui/app/proxy.rs`, `connections.rs`, `rules.rs`) | last list, its view, filter, sort, cursors, tests under way | select, clear, measure, close, toggle | REST calls without a timeout |
| configuration generation (`crates/clard-config`) | none | normalise, merge, inject, default routing, conversion of node links | pure |
| mihomo client (`crates/clard-core`) | WebSocket workers | REST calls, streams, downloads | sockets |

### What is hard about it

* Seven tasks of the helper take one `Mutex<CoreManager>`. Two of them
  drop it between looking and acting (the crash watchdog sleeps its backoff
  without it, the fail-open cleans the routing without it); three keep it while
  the core answers `PUT` or `PATCH /configs`, for which there is no timeout.
* The core is another process. It may die, be slow or refuse a configuration
  at any step, and the kernel keeps what it installed (the ip rules) or drops it
  (the device and the routes through it) depending on how it died.
* The helper may be killed at any step; systemd then runs `cleanup-tun` and
  starts a new instance with an empty memory.
* A configuration change touches up to five places (memory, index, content,
  runtime file, core), each of which may fail, with rollbacks that may fail.
* Downloads are taken without locks and applied later.
* The client gives up after ten seconds what the helper may still carry out;
  its tasks end in any order, and each replaces what the screen shows.
* Profile and settings write the same keys of the configuration; the core
  reports what came of it, and a difference rolls a setting back.

### What makes each component correct

core manager: one core, always reachable by `stop()`, always supervised.
watchdogs: a dead core is attended to; a broken TUN is given up, so that the
machine goes online directly. daemon: a clean exit leaves nothing. regenerate
and its callers: success means applied, failure leaves no trace, settings never
change silently. profiles: `current` names an item, the text a profile had is
never lost by its replacement. backups: what was packed comes back. install:
nothing partial is installed, ok means installed. generation: a node list is
converted as a whole and as written; what is not managed is the profile's.
events: a client that is subscribed is told, or asks, after every change.
screen: a key acts on what the user sees, and nothing dangerous starts
unasked. operations: what the user is told is true, and nothing is done twice.
The hazards behind these, each at its line, are listed in `PROJECT.json`.

## 2. The modules

| module | what it is |
|---|---|
| `CoreLifecycle` | the core under the helper: core manager, watchdogs, self-check, core-control requests, SIGTERM, systemd, the core process, the kernel, the clock |
| `ConfigStore` | stores, `regenerate` and the transactions around it, step by step |
| `AtomicConfig` | what those transactions promise, without steps; `ConfigStore` implements it |
| `Stores` | profiles, settings and backups file by file |
| `Events` | the broadcast channel, the client's subscription and its refreshes |
| `Rows` | the rows of a list at some of its positions, positions in an order; for `NodeList` and `Panel` |
| `NodeList` | conversion of node links, as functions |
| `NodeFormats` | how a node is written and what it says, without the converters: the reference for `NodeList` |
| `ConfigGen` | from subscription and settings to the configuration; over `NodeList` |
| `Install` | upgrades of core and geo data, from the download to the running core |
| `Screen` | pages, dialogs, keys, list cursors |
| `Client` | the operations behind the keys, with their calls |
| `Panel` | the pages over the core's own lists |

Each has an `MC` module with its instance for TLC (`AtomicConfig` is checked
through `ConfigStore`, `NodeList` and `NodeFormats` through `ConfigGen`, `Rows` through
both its users).
The theorems are in `CoreLifecycle_proofs`, `ConfigStore_proofs` (with the refinement of
`AtomicConfig`), `Stores_proofs`, `Install_proofs`, `Events_proofs`,
`Screen_proofs`, `Client_proofs` and `Lists_proofs`. The last one has those of
`Panel` and of `ConfigGen`, which need the same lemmas about `Rows`; it extends
both, so the specification of `ConfigGen` has names of its own (`GenInit`, `GenNext`,
`GenSpec`).

The modules meet at the requests. `Screen` records in `asked` what a key
starts, `Client` and `Install` run it as calls, and `ConfigStore`, `Stores` and
`CoreLifecycle` open up what the helper does for one call. `Events` is what
comes back unasked. A request holds the store, settings and core locks from
start to end, which is why the inside of one can be left to another module.

### CoreLifecycle

State: `handle` and `want_running` are the fields of `CoreManager`; `crash_ages` are its
crash times as ages; `lock` is the holder of its mutex; `pc` says where each of the
tasks `boot`, `crash_watch`, `tun_watch`, `rpc`, `autoupdate`, `helper_poll` and `term`
is; `core` is the state of each process (booting, API up, TUN up, terminating, dead);
`owner` is the process whose descriptor keeps the device; `tun` is the set of
identifiers in the kernel.

Actions: each await point of the code is a boundary between actions, and what
lies between two of them is one action. `start()` is `StartIdempotent`, `StartRefused`,
`StartSpawnFails`, `StartSpawn`, `ProbeReady`, `ProbeTimeout`; `stop()` is
`StopSignal` followed by `StopReaped` or `StopKill`; `AfterStop` says what each
caller goes on with. `cleanup_tun` is `CleanRule` and `CleanDevice`, each of
which may fail. A request that configures (`ApplyConfig`, or any that
regenerates), the subscription timer and the poll of helper.toml are `ConfigureCold` if
no core runs. With a core they are `ConfigureHot`, which takes the lock and waits,
then `LoadAnswered`, which the core may leave out for ever, or `LoadBroken`, when
the core dies and the connection with it.

Abstractions:

* One tick is a second. The polling intervals are left out: a watchdog may
  look at any moment, which covers every interval.
* One `rpc` task stands for all connections, because `handle()` runs with all
  three locks held from start to end. The locks of the stores are always taken
  before that of the core, so they are not shown: who waits for one of them waits
  for the holder of the next.
* The requests to the core within one `regenerate` (the reload, its read-back, the
  reload of a rollback) are one wait.
* The two families of rules, the nft table and resolvectl follow the step
  they belong to. The TUN watchdog's three queries are one observation.
* `tun_enabled` is fixed in a behaviour: the settings belong to `ConfigStore`.
* Two crashes in the same second count once in `crash_ages` (a set of ages);
  the watchdog cannot see two in one second, since its first delay is a second.
* `kill_on_drop` takes effect at once. `try_wait` does not fail.
* systemd runs `ExecStopPost` when the control group is empty, and its command
  may leave any part of the TUN.
* The programs that a cleanup calls come to an end (`helper/tun.rs:51` waits for them
  without a timeout).

### ConfigStore

State: index and settings in memory and on disk, one content per profile, the
runtime file, what the core has loaded, the transaction in progress with the
snapshot its caller took, the download in flight, and a count of failed writes.

Actions: a request that begins a transaction changes memory or disk as its handler does
and takes the snapshot (`Begin`); `RegenRefused`, `RegenWrite`, `RegenReload`,
`RegenVerify`, `RegenUndoWrite`, `RegenUndoReload` are R1 to R7; `Commit` and `Abort`
are what the callers do with the result. `Remove`, `RestoreVersion` and `ApplyConfig`
change one thing and never assemble. `BackupRestore` begins a recovery: `CopyIndex`,
`CopySettings` and `CopyText` put the files of the archive over those of the stores,
`Reload` reads both stores again, and `CopyFails` is the error at any file, after which
nothing is read. Between two requests the helper goes by `mem_set`; `Loaded` is that,
and inside a `SettingsSet` the value before it. The helper may restart between any two
steps. Since every request takes the store lock first and the timer holds it too, one
transaction is in progress at a time.

Abstractions:

* A profile is named by its URL, which `import` keeps unique. A content is
  the version of the subscription, `Missing` or `Torn` (a write that was cut;
  it may or may not parse).
* The settings are one value. `Rejected` lists the pairs of version and
  settings that generation and R3 refuse; the core may refuse any of them.
* The history files, names, order, remembered nodes and the display settings
  are in `Stores`, the texts themselves in `ConfigGen`.
* Whether a profile is due is left open.
* A file that the index does not name is out of reach after a restart or a reload.
* An archive may hold any settings, any of the indexes `Archived` and any texts, each
  file or not. A copy of `clard.toml` that is cut short and still parses has other
  settings than the archive's; one that does not parse, like an index that does not, is
  in `Stores`, as is a reload that fails (its error is ignored, `helper/rpc.rs:109`).

The refinement. `AtomicConfig` has the settings a restart would read, those the
helper goes by, the settings a request asks for and the configuration in force. The
mapping takes the first from the disk, the second from `Loaded`, the third from
memory while a `SettingsSet` is in progress (`Asked`), and the last from the
snapshot while `regenerate` tries a new one (`InForce`); the file itself then holds
the configuration on trial. `AtomicConfig` names the four exceptions to "at once or
not at all": `ApplyConfig`, a write that fails, a kill, and a recovery, which changes the
settings on disk, then those in force, and never the configuration.

### Stores

State: index and settings in memory and on disk, one text and three versions
per profile, the archives, the request in progress and `todo`, what is left of
it. A request puts the file operations its handler makes, in their order, into
`todo`; `Perform` does the next one, `Fail` is that operation failing and what
the handler then does, `Killed` is the end of the helper at any of them, and
`Restarts` opens the stores as `open()` does. `JudgeAccepts` and `JudgeRefuses`
stand for `regenerate`, whose steps are in `ConfigStore`. A text is the number of the
request that brought it, so that every text is told from every other.

### Events

State: the helper's state as a number `now` that grows with every change, the
receiver in the helper (`rx`, at most `CAP` events; the oldest are dropped), the
wire, the queues of `rpc::subscribe` and of the main loop, the Status requests
under way, and what the screen shows. `noted` and `told` are history variables:
the last change published to the present subscription, and the newest state
the helper has answered with. The actions are the steps of `subscribe_loop`,
`subscribe_events`, `rpc::subscribe` and the main loop.

### NodeList and ConfigGen

A text is a sequence of tokens (a separator or a word), so that the parsers' cuts
at `@`, `:`, `?` and `#` are cuts of sequences. What base64, percent and JSON
decoding make of a word is given by constants. A YAML value is a record with one
field for its kind. Each converter is its checks, in their order (`Vless`), and the
fields it writes if they pass, under the conditions of the code (`VlessEntry`);
`f ++ g` is the mapping `f` with what `g` adds to it. A JSON value becomes
YAML by a recursive function over `JSON`, the set of the values in use.

`NodeFormats` is the other direction, and the standard the converters are held to. A
written node is a record of its parts; `LineOf` puts them together (`UrlText`: user, `@`,
host in brackets if it has colons, port, slash, query, name) and `Sayings` lists what
the line says, each saying a place in the entry and its value. `WellWritten...` says
which parts a format may have: a user without `?` and `#`, a port from 1 to 65535,
parameters whose keys have no separator, a query that is its parts with `&` between
them, a base64 word that decodes to what it stands for (`Wrapped`; `Shadowrocket` for
a vless node). All formats that the converters' comments name are there. Three of them
no converter reads (`Refused`): `https`, `socks` and Shadowrocket's vless, whatever their
parts are. It asks nothing of the parsers,
only what the decoders make of a word (base64, percent, digits, a `_` in a key), so
that a converter that cuts at the wrong place, reads the wrong parameter or lets an
earlier field hide a later one breaks `NodesAsWritten`.
The set `WRITTEN` of such nodes is a constant.

`ConfigGen` has the steps around them: `Import` and `AutoUpdate` convert and
generate, `SettingsSet` generates, a failure leaves what was there.

### Install

State: the releases on the server, the flows of the clients with the release they
hold, the inbox, the calls that wait, the install the helper is at (`job`, with
one step per file operation), the installed and temporary files, the records,
what the running core was started from. A flow may give up while its call is
served; the helper may crash between two steps; a step may fail, and the code says
which failures end the install. `left` is a history variable: the flows whose inbox
file a failure left where it is, which every failed step from opening the file
to recording its hash does.

### Screen

State: the page and tab, the four kinds of dialog, the lists of profiles,
backups and setting rows with their cursors, what is known of the settings, and
`asked`, the operation the last event started. An action is the handling of one
event: a key under a dialog (`DialogKeys`), a key on a page (`PageKeys`, each guarded by
`Bare`: no dialog is open), or an answer (`Answers`) that replaces a list, opens
a question or, if a status of the core misses the geo data (`CoreStatusReady`), starts
their installation. A list arrives in any order and at any time.

Left out: the history view of a profile, which no key reaches (the
branch of `on_char` at `tui/app.rs:2004` takes the letter first); Ctrl+C under a
dialog, which ends the program; the lists of the other pages (`Panel`); the
text of an input beyond whether it is acceptable.

### Client

State: the helper as a request sees it (profiles with the current one, core, TUN
setting, other TUN devices), one flow per slot, requests nobody waits for any
more (`late`), and what the screen has last listed. A table of rules says, for
each kind of operation, the next call and the message on the way, for every
answer; `Take` goes on by it. `Serve` is the helper performing a request, `Refuse` an
error, `GiveUp` the timeout: the request may be dropped or stay in `late`, where
`ServeLate` performs it. Switching TUN on takes two steps, `Precheck` (are other TUN
devices up?) and `TurnOn`, with the request in `checked` and the helper's locks held
in between; `OtherTun` may come at any time, and `came` says that it did since the check.
A recovery takes over the lists and the TUN setting of the backup, whatever they are.

### Panel

State: the core's list for the page, the last one fetched, the view (filtered
and sorted), the cursors, the tests with their workers, the selections under way.
`Fetched` replaces the list; `Grab` and `Report` are the two halves of a worker of
the latency test over the shared counter.

## 3. What is checked

| run | bounds | what it shows |
|---|---|---|
| `lifecycle_safety` | window 5, 3 restarts, backoff up to 2, threshold 3, grace 1, 2 processes | one core, supervision, clean exit, and the inductive invariant (types and lock discipline among its parts) |
| `lifecycle_live` | window 2, 1 restart, threshold 1, 1 process | lock given back, dead core attended to, broken TUN given up, all unless a living core never answers the task that holds the lock |
| `lifecycle_retry` | as above | a disagreement of document and code |
| `config_transactions` | 2 profiles, 2 versions (one refused under one of 2 settings), archives with no profile or no index, 1 failed write | success is applied, failure leaves no trace, settings change by a request or a recovery only, the invariant of the transactions, and the refinement of `AtomicConfig` |
| `stores_files` | 3 profile names, 2 URLs, 3 versions, 3 requests, 1 failed operation | texts and history are kept, memory is what is on disk, a recovery is complete |
| `stores_archive` | the same with 2 requests | a disagreement of document and code |
| `events_sync` | channel of 2, 2 changes, 1 death, 2 requests at a time, 1 lost | published means refreshed, degraded means refreshed, subscribed again |
| `generation` | 11 written nodes, three of them of a refused format, 11 odd lines, 5 documents, 5 settings, in any order | lists converted, read-back agrees, the profile's own is kept, nodes routed |
| `install` | 2 flows, 2 releases, 1 fault | nothing partial, records agree, ok means installed, inbox emptied but for known leftovers |
| `screen` | 2 profiles, 2 backups, 5 rows, 2 answers | cursors, confirmations, dialogs, selection |
| `client` | 2 flows of 11 kinds, 2 profiles, one of them known at the start and in a backup, 1 fault | messages true, nothing twice, no silent coexistence, every flow ends |
| `panel` | 3 nodes, 2 groups, 2 workers, 1 change, 2 tasks | view, test, cursor |

Why the bounds are enough. Two process names let a second core appear if any task could
start one, and a third would add nothing to a property about pairs. With three restarts
in a window of five the count can rise to its limit, fall as crashes leave the window,
and reach the limit again; the delays 1 and 2 show the cap at work. A threshold of three
makes "consecutive" matter. In `ConfigStore` two profiles allow a switch away and back,
two versions allow an old and a new text, one failed write reaches every error branch
once; rollbacks of rollbacks need no second failure because the results of the first are
ignored by the code; an archive takes every profile away or leaves the index as it is,
since adding one is what an import does; the proofs hold for any archive. The profiles
are alike, and TLC takes them as symmetric. In `Stores` three requests make an import,
its update and a restore of the version that made, over the three versions the code
keeps. A channel of two is the smallest that can drop half of the pair that `fail_open`
sends. Two flows are enough for each property of `Install` and `Client`, which are about
a flow and what another does in between; a list of two with five rows lets a list shrink
under its cursor. In `Panel` a group has two nodes, one for each worker, and the three
nodes let the groups share one. A client may give up without an end of its faults while
TUN is being turned on, which nothing bounds. The liveness run of the lifecycle uses the
smallest limits: its properties concern that a step happens, not how often. The proofs
hold for all bounds.

Fairness. Every task of either runtime is polled (weak fairness) and time passes (weak
fairness of `Tick`). The watchdogs have strong fairness: they ask for a lock that others
take again and again, and tokio's mutex is first come, first served; `Serve` of
`Install` has it for the same reason. The tasks that wait for the core go on only when
it dies (`LoadBroken`). A call to the helper ends by an answer or by its timeout, which
is weak fairness of the flow (`GoOn`). systemd restarts a dead helper (`Boot` in
`Events`; `Restart=` of the unit). Nothing is assumed of the core, the user or the
kernel: a flow that waits for the core, whose REST calls have no timeout, is excepted
from `EveryFlowEnds`. `ConfigStore`, `Stores`, `ConfigGen`, `Screen` and `Panel` have
safety properties only: `reload_config` has no timeout, and that the core answers is not
an assumption the code justifies.

Deadlock checking is off where bounds end a behaviour or the program may be idle
or closed; it is on in `generation`, where an import is always possible.

### Disagreements found

Shown by a run:

1. A watchdog restart that misses its readiness probe clears `want_running`:
   no retry follows and nothing fails open (`lifecycle_retry`; `helper/core.rs:207`).
2. `create()` packs the history files of `profiles/`, which `restore()` refuses: after
   a first update no backup can be restored (`stores_archive`; `helper/backup.rs:86`).

Met while modelling; the modules contain the behaviour:

* `StopCore` during the watchdog's backoff sleep is undone (`helper/watchdog.rs:102`).
* Requests are served before the start-up reconciliation is over
  (`helper/daemon.rs:117`; doc/01:230 asks for a latch).
* A first switch that fails keeps the refused profile as current
  (`helper/rpc.rs:316`; doc/01:534).
* A timer download overwrites a newer import (`helper/autoupdate.rs:106`;
  doc/01:462), and does not rotate the history as an import does.
* A restart in the middle of an update finds the unaccepted text in place of the
  old one, which is then version 1 (`helper/rpc.rs:225`; doc/01:532).
* `BackupRestore` does not regenerate (`helper/rpc.rs:105`; doc/05:183). One that
  fails half-way leaves `clard.toml` changed under a helper that goes by the old
  settings until it restarts (`helper/backup.rs:197`).
* A backup with TUN on turns `tun_enabled` on without the check for other TUN devices
  and without a question, in force with the next configuration (`helper/rpc.rs:133`: never
  silently, "不静默开"). And another TUN that comes up between the check and its effect is
  not seen (`helper/rpc.rs:127`, `139`). `NoSilentCoexistence` excepts both.
* A core that accepts `PUT` or `PATCH /configs` and never answers keeps the core lock with
  the task that asked (`helper/core.rs:310`, `326`): no request is served, neither
  watchdog sees anything, nothing fails open although `helper/watchdog.rs:8` says that
  the loss of the TUN always must, and SIGTERM ends by systemd's kill. `LockReleased` and
  `TunLossFailsOpen` except exactly this (`AwaitsCore`).
* The first status that misses the geo data starts their installation without the
  question that the key asks (`tui/app.rs:1097`).
* A patch with an invalid port leaves the fields before it changed in memory
  (`helper/settings.rs`, `apply_in_memory` without the caller's `restore`); `MemoryIsDisk`
  excepts them.
* The synchronisation comes when the subscription is spawned, before it is
  registered (`tui/lib.rs:131`; doc/01:289); a Status request that fails is dropped.
* `https://` and `socks://` node lines are in the list of schemes and in the comments of
  the converters ("https 同", `gen/convert/http_socks.rs:56`, "socks 同", `:64`), and
  always refused, because `base` strips `http://` and `socks5://` only (`:18`). A vless
  node with a base64 address ("兼容 Shadowrocket", `gen/convert/vless.rs:20`) is always
  refused too: the `?` goes behind the query when the line is put together again
  (`:30`), and the port is read up to it. `ListsConvert` and `WrittenTold` say so.
* `vmess` entries never get their `network` (`gen/convert/vmess.rs:88`).
* DNS settings at their default are not written, so a profile's other value wins
  (`gen/managed.rs:248`; doc/05:154).
* An empty server is refused by `vless` and in one form of `ss` only
  (`gen/convert/vless.rs:41`, `ss.rs:53`): `trojan`, `hysteria2`, `http` and `socks5` take
  the address `[]`, and `vmess` an empty `add`. So `ListIsWhole` promises a server of
  two formats and a port of all.
* `switch_profile_flow` does not roll back when `StartCore` fails
  (`tui/app.rs:2089`, against its comment at 2086).
* Two upgrades at the same time may leave the older release; a version
  record that cannot be written is ignored (`helper/rpc.rs:394`).
* An install that fails leaves its inbox file, unless the hash was wrong
  (`helper/core.rs:396`; `tui/app.rs:2159` says that the helper cleans).
* The history view is out of reach (`tui/app.rs:2004`; doc/03:169).
* A `TunConflict` that arrives replaces the confirmation that is open (`tui/app.rs:930`).

## 4. What is proved

Assumptions: the named `ASSUME` of each module (`LimitsAssumption`, `SlotsAssumption`,
`StoreAssumption`, `NoConfigAssumption`, `InstallAssumption`, `EventsAssumption`,
`ScreenAssumption`, `ClientAssumption`, `StoresAssumption`, `NoFileAssumption`,
`PanelAssumption`, `JsonAssumption`, `SettingsAssumption`, `ArchivedAssumption`,
`TextAssumption`, `LowerAssumption`, `WrittenAssumption`), which TLC evaluates in the
runs. `ArchivedAssumption` says that an archived index is one; the last three with those
of JSON and of the settings say what JSON, the settings, a subscription, the schemes and
the written nodes are: values closed under their parts; records of the fields of the
code; one kind per text, a list where the kind is a list; a known scheme is in lower
case, so it is not one that has to be lowered; each member of `WRITTEN` is well written
in the format of its scheme. The constants are otherwise arbitrary: any limits, any sets
of process names, subscriptions, settings, profiles, backups, flows and nodes, any
capacity, any number of versions, releases, answers and faults, any subscription texts.

Of `CoreLifecycle`:

* `TypeInvariant`: `Spec => []TypeOK`, one lemma per task. The two facts
  that need thought are that a crash age stays inside the window and that the
  backoff is within its cap for every number of crashes.
* `InductiveInvariant`: `Spec => []IndInv`; from it `OneCoreAlways`,
  `RunningIsSupervisedAlways`, `LockDisciplineAlways`, `GracefulExitAlways`.

The argument. `OneCore` is kept by `StartSpawn` because `state()` has just said
that the held process is dead, and by the clause that nothing but the held
process lives. `StopKill` and `StopReaped` clear the handle and `want_running`
only when the process is dead. None of that holds across a restart of the
helper without `DownIsEmpty` (an instance that is gone holds no handle) and
`SweptIsEmpty` (systemd restarts over an empty control group). `GracefulExit`
needs `TermIsLast`: once the SIGTERM branch cleans, no core lives, because it
holds the core lock to the end and `LockDiscipline` keeps every other task out of
`start()`. The proofs follow this split: lemmas on `Acquire`, `Release` and
`Goto` for the lock discipline, then one lemma per group of actions.

Of `ConfigStore`:

* `TransactionInvariant`: `Spec => []TxInv`, and from it `StoreTypes`,
  `SettingsNotSilentlyChangedAlways`, `CommitIsAppliedAlways` and
  `AbortLeavesNoTraceAlways`.
* `ImplementsAtomicConfig`: `Spec => Atomic!Spec`.

The argument. `TxInv` says what each place holds at each step. A settings transaction
restores the value it has found in memory after a refusal or a failed save, and no other
transaction changes it (`SettingsKept`). So what the helper goes by (`Loaded`) moves
only where `clard.toml` does, at a commit, or to it, at a restart and a reload; that is
`SettingsNotSilentlyChanged`, with a lemma per group of steps. From `reload` to `commit`
the runtime file is the current profile under the settings in memory, and in
`undo_reload` and `abort` it is the old one unless a write has failed since the start
(`RuntimeKept`; the snapshot remembers how many had failed by then). The core follows
the file because nobody can start one inside a transaction (`CoreKept`): a start that
does not wait for the lock breaks the invariant, as its mutant shows. The proof has one
lemma per action, over lemmas on `Begin`, `Step` and `Idle`; the two action properties
need in addition that no write fails in the last step. The refinement adds one conjunct,
`Tried` (what is on trial was made with the settings in memory), and maps each group of
actions: all of `regenerate` is a stutter but for a rollback that cannot be written,
`Commit` is the moment of a `Grant` or a `Renew`, `Abort` that of a `Refuse`, the copy
of the settings file a `Recover`, a failed one a `WriteFails`.

Of `Install`: `TypeInvariant`, `InstalledIsWholeAlways`, `QuietAgreesAlways` and
`OkMeansInstalledAlways`. The invariant adds `Pending` (the request being served is one
that waits, and who waits keeps the release it asked for), `Progress` (what the steps
of a job have done so far: the temporary file is whole when it is renamed) and
`Agreement` (which record may differ at which step if nothing has failed).

Of `Events`: `TypeInvariant`, `PublishedIsRefreshedAlways`,
`DegradedIsRefreshedAlways`. The channel drops its oldest events, so the pair that
`fail_open` sends may be parted only at the front. `Chain` says for each queue
on the way (receiver, wire, `rpc::subscribe`, main loop) that a notice in it has a
status event behind it, in the same queue or in those before it; `LastIsRetained`
is the lemma on what a full channel keeps.

Of `Screen`: `TypeInvariant`, `CursorOnAnItemAlways`, `DangerIsConfirmedAlways`,
`DialogTakesTheKeysAlways`, `SelectionFollowsProfileAlways`. `CursorOnAnItem` is
inductive with the types; it falls into lists, dialogs and the rest, kept one at a
time. `SelectionFollowsProfile` uses that a list holds every profile once.
`DangerIsConfirmed` goes through the events: two can start a dangerous operation, Enter
on its confirmation and a status without geo data.

Of `Client`: `ToldIsTrueAlways`, `AtMostOnceAlways`, `NoSilentCoexistenceAlways`. The
rules are a table; `RuleFacts` says once what the proofs need of it: where a flow
of a kind may be (`Path`), which changes it has behind it there (`Behind`), and when it
tells of a success. `Once` is the invariant: what was asked for a running flow
is behind it or is its present call, so that no call is made twice, late or not.
For TUN, `Working` says that a request past its check is one the helper still works on,
and `Seen` that another TUN that is up by now has come up since that check.

Of `Stores`: `TypeInvariant` and `TypeOKAlways`, `MemoryIsDiskAlways`,
`NamedTextsExistAlways`, `RecoveryCompleteAlways`, `OldTextKeptAlways`,
`HistoryShiftsAlways`. A request is a list of file operations consumed one by one, so
that an invariant about the files has to say what the rest of the list will still do:

* `Types`: the rest is a list of well-formed operations, and so are the undo and error
  lists the request carries.
* `Agreement` (for `MemoryIsDisk`): whatever the rest changes in memory it saves behind
  that change, so that memory and disk agree at its end; a verdict is the last thing
  that can send the request another way, and its undo list has the same property.
* `Naming` (for `NamedTextsExist`): an index on its way into memory names
  only profiles that are there already, have a text or get one before; a rollback names
  no more than memory does, and neither list removes a text.
* `Rotation` (for `OldTextKept` and `HistoryShifts`): at each position of a rotation,
  the text that was there is in its place or is version 1, whatever fails; which
  versions have moved and which have not, if nothing has failed.
* `Recovery` (for `RecoveryComplete`): what of the archive has been copied is as it was
  packed, and what has not is still in the rest.

Each request is first shown to ask for a list of one of eight shapes (`CreateAsked`,
`OverwriteAsked` and so on); the other invariants are proved for the shapes.

Of `Panel`: `TypeInvariant`, `ViewIsCurrentAlways`, `ViewShowsMatchesAlways`,
`CursorFollowsNodeAlways`, `TestIsCompleteAlways`. The types say of a list that it has
no name twice. That the view is the filtered and sorted list is the invariant;
`ViewShowsMatches` says what that means to the user, independently of the
operators: exactly the rows that match, each once, connections by traffic and
then by name. `OrderExists` is the lemma behind it: the members of a finite set, under any
total order, can be listed in that order, because the rank of a member (how many there
are up to it) is a bijection with `1 .. n`. For the latency test `Sharing` says that
every node below the shared counter is reported or in the hands of one worker,
and nothing above it is, so that a test that ends has every node once.

Of `ConfigGen`: `GeneratedInvariant`, `ListIsWholeAlways`, `ListsConvertAlways`,
`ReadBackAgreesAlways`, `ProfileIsKeptAlways`, `NodesAreRoutedAlways`, and
`WrittenTold` of the functions alone. The invariant is short: the stored profile is
what some text converts to, and the runtime file was assembled from it and the
settings in force, since every step that changes either generates and a failure puts
both back. What remains is about functions: `ManagedFacts`, `InjectFacts` and
`RoutingFacts` say for each stage which keys it may touch and what it leaves, and
the lemmas `...EntryDials` that no field written later in a converter takes the place of
its port or server (a plugin's options among them).

`ListsConvertAlways` is a round trip: a line written by `LineOf` and read by its
converter says the same. It goes in three steps, and a fourth for what is refused.

* The cuts. `SplitTextFacts` says what `split_once` and `rsplit_once` make of
  `a c b` when `c` is not in `a`, or not in `b`; `SplitJoined` that `split` gives back
  any number of parts that were joined (`InOrderIs`: the cuts in order are the ends of
  the parts). With them `UrlCuts`, `Parsed` and `SsMain` take a line apart and get the
  parts it was made of: the last `@`, because no host has one; the last `:`, because a
  port has none, although a bracketed host does; the query before the name. By
  `ParametersFacts` the parsed query is the parameters by key, the last of two with
  the same key.
* The fields. `...Gives` says for each converter which fields its entry has, whatever
  the other parameters are. An entry is a chain of `++`, so each field is followed from
  where it is written to the end, past all that come before and could have taken its
  place.
* The sayings. `...Told` puts the two together per scheme, `WrittenTold` over the
  schemes, and `ListTold` takes it to a list: if each line converts the list does, and
  entry `i` is that of line `i`.
* The refusals. `Chosen` says which converter a scheme is given to, and that `https`
  and `socks` come out of it as invalid. `ShadowrocketRefused` follows a base64 address
  through `vless`: neither the line itself nor the one put together from it has a colon
  before its last token (`NoPort`), so neither parse finds a port.

Only model-checked: the liveness properties (fairness and `ENABLED` are outside the
prover's reach); what the recursive `JsonToMapping` makes of every value, which is
induction over data. The violated properties are shown by their runs and not
proved about.

## 5. Not modelled

* Drawing, translation, themes, system figures (`tui/canvas.rs`, `i18n.rs`,
  `home.rs`, `sysinfo.rs`): presentation of state that the other modules have.
* Logs and audit (`helper/logs.rs`, `audit.rs`): nothing decides on them. That a
  rotation between the two reads makes a cursor point into another file
  (`logs.rs:104`), and that a write failing at R4 leaves an audit intent without a
  result (`config.rs:146`), is listed here and not checked.
* The poll of helper.toml, the flock of the daemon, the framing of messages and the
  rights of the peer.
* The capability probes of `tun.rs` before TUN is switched on: a request that may be
  refused, or asked back.
* HTTP: headers, proxies, mirrors, WebSocket frames, the JSON models of the core.
  A call is an answer that may come at any time, or never.
* Configurations as YAML text: documents are mappings.
