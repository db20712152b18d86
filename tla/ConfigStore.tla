---------------------------- MODULE ConfigStore ----------------------------
(***************************************************************************)
(* Where a running configuration comes from.  The helper keeps an index of *)
(* profiles and the settings in memory and on disk, one content file per   *)
(* profile, and the runtime configuration it assembles from the current    *)
(* profile and the settings (regenerate, steps R1 to R7).  Requests, the   *)
(* subscription timer and the start-up self-check change them as           *)
(* transactions; the core may die, a write may fail and the helper may be  *)
(* killed between any two of their steps.  A recovery replaces the files   *)
(* of both stores, one after the other, and assembles nothing.             *)
(*                                                                         *)
(* A profile is named by its URL, which import() keeps unique.  A content  *)
(* is a version number of the subscription; the settings are the fields    *)
(* that patch_affects_config lists, as one value.  A profiles.yaml or      *)
(* clard.toml that is cut short and no longer parses is left to Stores.    *)
(***************************************************************************)
EXTENDS Integers

CONSTANTS
  Urls,          (* subscriptions                                          *)
  NoUrl,         (* "no current profile"                                   *)
  MAX_VERSION,   (* versions a subscription goes through                   *)
  Nets,          (* values of the settings that shape the configuration    *)
  Rejected,      (* <<version, net>> that R2/R3 refuse to assemble         *)
  Archived,      (* indexes that the archives hold                         *)
  NoConfig,      (* no runtime configuration; no core                      *)
  MAX_FAULTS     (* bound on the writes that fail                          *)

ASSUME StoreAssumption ==
  /\ MAX_VERSION \in Nat \ {0}
  /\ MAX_FAULTS \in Nat
  /\ Nets # {}
  /\ Rejected \subseteq (1 .. MAX_VERSION) \X Nets
  /\ NoUrl \notin Urls

VARIABLES
  booted,      (* its start-up regenerate is over                          *)
  mem_index,   (* ProfilesStore.index                                      *)
  disk_index,  (* profiles.yaml                                            *)
  content,     (* profiles/<uid>.yaml: a version, Missing or Torn          *)
  mem_set,     (* SettingsStore.settings                                   *)
  disk_set,    (* clard.toml                                               *)
  runtime,     (* runtime/config.yaml                                      *)
  core,        (* what the core has loaded, NoConfig when none runs        *)
  txn,         (* the transaction under the store, settings and core locks *)
  fetched,     (* the subscription timer: downloaded, not yet applied      *)
  published,   (* the version the subscription servers have now            *)
  faults       (* writes that have failed so far                           *)

mem_vars  == <<mem_index, mem_set>>
disk_vars == <<disk_index, content, disk_set, runtime>>
vars == <<booted, mem_vars, disk_vars, core, txn, fetched, published,
          faults>>

Versions == 1 .. MAX_VERSION
Missing  == 0                (* no such file                               *)
Torn     == MAX_VERSION + 1  (* write_file was cut short                   *)
Contents == 0 .. MAX_VERSION + 1
Foreign  == 0                (* as a profile: the text of ApplyConfig      *)
Configs  == [profile : Contents, net : Nets]

ASSUME NoConfigAssumption == NoConfig \notin Configs

Indexes  == {i \in [current : Urls \cup {NoUrl}, items : SUBSET Urls] :
               i.current \in i.items \cup {NoUrl}}

ASSUME ArchivedAssumption == Archived \subseteq Indexes

(* config_gen::generate on a content and the settings.                     *)
Assembled(v, n) == [profile |-> v, net |-> n]

(* What a transaction remembers: what to restore, the runtime file before  *)
(* it, and whether it found the core running.                              *)
Kinds  == {"none", "settings", "import", "autoupdate", "switch", "boot",
           "recovery"}
Copies  == {"index", "set", "texts"}   (* what a recovery is about to copy *)
TxSteps == {"regen", "reload", "verify", "undo_write", "undo_reload",
            "commit", "abort"} \cup Copies
Idle == [kind |-> "none", step |-> "regen", url |-> NoUrl,
         index |-> [current |-> NoUrl, items |-> {}], content |-> Missing,
         set |-> CHOOSE n \in Nets : TRUE, runtime |-> NoConfig,
         hot |-> FALSE, faults |-> 0]

Free    == txn = Idle
Running == core # NoConfig
InTxn(step) == txn.kind # "none" /\ txn.step = step
Step(step)  == txn' = [txn EXCEPT !.step = step]

(* The files that an index names; any other is out of reach.               *)
InReach(index) ==
  [u \in Urls |-> IF u \in index.items THEN content[u] ELSE Missing]

(* R1 to R7 start: the snapshot is what the caller took before its change. *)
Begin(kind, url) ==
  txn' = [kind |-> kind, step |-> "regen", url |-> url,
          index |-> mem_index,
          content |-> IF url = NoUrl THEN Missing ELSE content[url],
          set |-> mem_set, runtime |-> runtime,
          hot |-> Running /\ kind # "boot", faults |-> faults]

(* A write that the disk refuses.                                          *)
Fault   == faults < MAX_FAULTS /\ faults' = faults + 1
NoFault == faults' = faults

(* save_index: the file is replaced as a whole, or stays.                  *)
SaveIndex == NoFault /\ disk_index' = mem_index'
SaveIndexFails == Fault /\ disk_index' = disk_index

-----------------------------------------------------------------------------
Init ==
  /\ booted = FALSE
  /\ mem_index = [current |-> NoUrl, items |-> {}]
  /\ disk_index = mem_index
  /\ content = [u \in Urls |-> Missing]
  /\ mem_set \in Nets /\ disk_set = mem_set
  /\ runtime = NoConfig /\ core = NoConfig
  /\ txn = Idle /\ fetched = NoConfig
  /\ published = 1 /\ faults = 0

-----------------------------------------------------------------------------
(* Requests and tasks that begin a transaction                             *)

(* Mutant: patch(), which saves, in place of apply_in_memory().            *)
SettingsSetSaved(n) ==
  /\ Free
  /\ mem_set' = n /\ disk_set' = n
  /\ Begin("settings", NoUrl)
  /\ UNCHANGED <<booted, mem_index, disk_index, content, runtime, core,
                 fetched, published, faults>>

(* SettingsSet on a field that shapes the configuration, its precheck      *)
(* passed: memory first.                                                   *)
SettingsSet(n) ==
  /\ Free
  /\ mem_set' = n
  /\ Begin("settings", NoUrl)
  /\ UNCHANGED <<booted, mem_index, disk_vars, core, fetched, published,
                 faults>>

(* ProfileSetCurrent.  When profiles.yaml cannot be written the request    *)
(* fails with the index changed in memory.                                 *)
SetCurrent(u) ==
  /\ Free /\ u \in mem_index.items
  /\ mem_index' = [mem_index EXCEPT !.current = u]
  /\ \/ SaveIndex /\ Begin("switch", NoUrl)
     \/ SaveIndexFails /\ txn' = txn
  /\ UNCHANGED <<booted, mem_set, content, disk_set, runtime, core,
                 fetched, published>>

(* write_file truncates before it writes: one that fails leaves the old    *)
(* text or a part of the new one.                                          *)
WriteContent(u, v) == content' = [content EXCEPT ![u] = v]
WriteContentFails(u) ==
  Fault /\ (content' = content \/ WriteContent(u, Torn))

(* The content goes to disk first, then the index.                         *)
WriteProfile(u, v) ==
  /\ WriteContent(u, v)
  /\ mem_index' = [mem_index EXCEPT !.items = @ \cup {u}]

(* ProfileImport and the timer's auto_update: a hit on the current profile *)
(* is a transaction, any other profile is just written.  A failed write    *)
(* ends the request; nothing is restored.                                  *)
Install(kind, u, v) ==
  \/ /\ WriteProfile(u, v)
     /\ SaveIndex
     /\ IF u \in mem_index.items /\ mem_index.current = u
        THEN Begin(kind, u) ELSE txn' = txn
  \/ /\ WriteProfile(u, v)
     /\ SaveIndexFails /\ txn' = txn
  \/ /\ WriteContentFails(u)
     /\ UNCHANGED <<mem_index, disk_index, txn>>

Import(u) ==
  /\ Free
  /\ Install("import", u, published)
  /\ UNCHANGED <<booted, mem_set, disk_set, runtime, core, fetched,
                 published>>

(* run_once: the due profiles are listed under the lock and downloaded     *)
(* without it, ...                                                         *)
AutoFetch(u) ==
  /\ fetched = NoConfig
  /\ Free /\ u \in mem_index.items
  /\ fetched' = [url |-> u, version |-> published]
  /\ UNCHANGED <<booted, mem_vars, disk_vars, core, txn, published, faults>>

(* ... a download that fails or has no node is dropped, ...                *)
AutoSkip ==
  /\ fetched # NoConfig
  /\ fetched' = NoConfig
  /\ UNCHANGED <<booted, mem_vars, disk_vars, core, txn, published, faults>>

(* ... and any other is written over the profile, if it still exists.      *)
AutoApply ==
  /\ Free /\ fetched # NoConfig
  /\ fetched' = NoConfig
  /\ IF fetched.url \in mem_index.items
     THEN Install("autoupdate", fetched.url, fetched.version)
     ELSE UNCHANGED <<content, mem_index, disk_index, txn, faults>>
  /\ UNCHANGED <<booted, mem_set, disk_set, runtime, core, published>>

(* The start-up self-check calls regenerate in its Startup context.        *)
BootRegenerate ==
  /\ Free /\ ~booted
  /\ Begin("boot", NoUrl)
  /\ UNCHANGED <<booted, mem_vars, disk_vars, core, fetched, published,
                 faults>>

-----------------------------------------------------------------------------
(* regenerate                                                              *)

(* What R2 and R3 accept; a torn text may still parse, or not.             *)
Acceptable(v, n) == v \in Versions /\ <<v, n>> \notin Rejected
Current  == content[mem_index.current]
Readable == mem_index.current # NoUrl /\ Current # Missing
Assembles == Readable /\ (Acceptable(Current, mem_set) \/ Current = Torn)

(* R1 to R3 find no current profile, no content, or refuse the result; or  *)
(* R4 cannot write.                                                        *)
RegenRefused ==
  /\ InTxn("regen")
  /\ IF Readable /\ Acceptable(Current, mem_set)
     THEN Fault
     ELSE NoFault
  /\ Step("abort")
  /\ UNCHANGED <<booted, mem_vars, disk_vars, core, fetched, published>>

(* Mutant: R1 reads the settings that are on disk.                         *)
RegenWriteSaved ==
  /\ InTxn("regen") /\ Assembles
  /\ runtime' = Assembled(Current, disk_set)
  /\ Step(IF txn.hot THEN "reload" ELSE "commit")
  /\ UNCHANGED <<booted, mem_vars, disk_index, content, disk_set, core,
                 fetched, published, faults>>

(* R4, atomically.                                                         *)
RegenWrite ==
  /\ InTxn("regen") /\ Assembles
  /\ runtime' = Assembled(Current, mem_set)
  /\ Step(IF txn.hot THEN "reload" ELSE "commit")
  /\ UNCHANGED <<booted, mem_vars, disk_index, content, disk_set, core,
                 fetched, published, faults>>

(* R5: the core takes the new configuration, or answers with an error, or  *)
(* is gone.                                                                *)
RegenReload ==
  /\ InTxn("reload")
  /\ \/ Running /\ core' = runtime /\ Step("verify")
     \/ core' = core /\ Step("undo_write")
  /\ UNCHANGED <<booted, mem_vars, disk_vars, fetched, published, faults>>

(* R6: a port that is taken or a TUN that does not come up shows here.     *)
RegenVerify ==
  /\ InTxn("verify")
  /\ \/ Running /\ Step("commit")
     \/ Step("undo_write")
  /\ UNCHANGED <<booted, mem_vars, disk_vars, core, fetched, published,
                 faults>>

(* Mutant: a rollback that leaves the file to the reload.                  *)
RegenUndoSkipped ==
  /\ InTxn("undo_write")
  /\ NoFault
  /\ Step(IF txn.runtime # NoConfig THEN "undo_reload" ELSE "abort")
  /\ UNCHANGED <<booted, mem_vars, disk_vars, core, fetched, published>>

(* R7: the old file, if there was one, then the old configuration into the *)
(* core; the outcome of either is ignored.                                 *)
RegenUndoWrite ==
  /\ InTxn("undo_write")
  /\ \/ NoFault /\ runtime' = IF txn.runtime # NoConfig THEN txn.runtime
                                                        ELSE runtime
     \/ Fault /\ txn.runtime # NoConfig /\ runtime' = runtime
  /\ Step(IF txn.runtime # NoConfig THEN "undo_reload" ELSE "abort")
  /\ UNCHANGED <<booted, mem_vars, disk_index, content, disk_set, core,
                 fetched, published>>

RegenUndoReload ==
  /\ InTxn("undo_reload")
  /\ core' \in {core} \cup (IF Running THEN {txn.runtime} ELSE {})
  /\ Step("abort")
  /\ UNCHANGED <<booted, mem_vars, disk_vars, fetched, published, faults>>

-----------------------------------------------------------------------------
(* What the caller does with the result                                    *)

Done == txn' = Idle /\ booted' = (booted \/ txn.kind = "boot")

(* Mutant: a save that fails and keeps the new value in memory.            *)
CommitUnrestored ==
  /\ InTxn("commit") /\ Done
  /\ IF txn.kind # "settings"
     THEN NoFault /\ UNCHANGED <<disk_set, mem_set>>
     ELSE \/ NoFault /\ disk_set' = mem_set /\ mem_set' = mem_set
          \/ Fault /\ UNCHANGED <<disk_set, mem_set>>
  /\ UNCHANGED <<mem_index, disk_index, content, runtime, core, fetched,
                 published>>

(* Success.  Only SettingsSet has something left to do: save(), and if it  *)
(* fails, restore() of the memory alone.                                   *)
Commit ==
  /\ InTxn("commit") /\ Done
  /\ IF txn.kind # "settings"
     THEN NoFault /\ UNCHANGED <<disk_set, mem_set>>
     ELSE \/ NoFault /\ disk_set' = mem_set /\ mem_set' = mem_set
          \/ Fault /\ disk_set' = disk_set /\ mem_set' = txn.set
  /\ UNCHANGED <<mem_index, disk_index, content, runtime, core, fetched,
                 published>>

AbortSettings ==
  /\ txn.kind = "settings"
  /\ mem_set' = txn.set
  /\ NoFault /\ UNCHANGED <<mem_index, disk_index, content>>

(* set_content and restore_index; a write that fails is ignored.           *)
AbortInstall ==
  /\ txn.kind \in {"import", "autoupdate"}
  /\ mem_index' = txn.index /\ mem_set' = mem_set
  /\ \/ /\ SaveIndex \/ SaveIndexFails
        /\ IF txn.content = Missing THEN content' = content
                                   ELSE WriteContent(txn.url, txn.content)
     \/ /\ txn.content # Missing /\ WriteContentFails(txn.url)
        /\ disk_index' = mem_index'

(* The switch goes back to the profile before, if there was one.           *)
AbortSwitch ==
  /\ txn.kind = "switch"
  /\ mem_set' = mem_set /\ content' = content
  /\ IF txn.index.current = NoUrl
     THEN NoFault /\ UNCHANGED <<mem_index, disk_index>>
     ELSE /\ mem_index' = [mem_index EXCEPT !.current = txn.index.current]
          /\ SaveIndex \/ SaveIndexFails

AbortBoot ==
  /\ txn.kind = "boot"
  /\ NoFault /\ UNCHANGED <<mem_vars, disk_index, content>>

Abort ==
  /\ InTxn("abort") /\ Done
  /\ AbortSettings \/ AbortInstall \/ AbortSwitch \/ AbortBoot
  /\ UNCHANGED <<disk_set, runtime, core, fetched, published>>
-----------------------------------------------------------------------------
(* Requests that change one thing and never assemble                       *)

(* ProfileRemove: the file goes first, then the index entry.               *)
Remove(u) ==
  /\ Free /\ u \in mem_index.items
  /\ content' = [content EXCEPT ![u] = Missing]
  /\ mem_index' = [current |-> IF mem_index.current = u
                               THEN NoUrl ELSE mem_index.current,
                   items |-> mem_index.items \ {u}]
  /\ SaveIndex \/ SaveIndexFails
  /\ UNCHANGED <<booted, mem_set, disk_set, runtime, core, txn, fetched,
                 published>>

(* ProfileRestore: an older version over the content, whatever the current *)
(* profile is.                                                             *)
RestoreVersion(u) ==
  /\ Free /\ u \in mem_index.items
  /\ \/ NoFault /\ \E v \in 1 .. published : WriteContent(u, v)
     \/ WriteContentFails(u)
  /\ UNCHANGED <<booted, mem_vars, disk_index, disk_set, runtime, core,
                 txn, fetched, published>>

(* ApplyConfig: a text from outside into the file and, when the core runs, *)
(* into the core; a core that refuses it leaves the file as it is.         *)
ApplyConfig(n) ==
  /\ Free
  /\ NoFault
  /\ runtime' = Assembled(Foreign, n)
  /\ core' \in {core} \cup (IF Running THEN {runtime'} ELSE {})
  /\ UNCHANGED <<booted, mem_vars, disk_index, content, disk_set, txn,
                 fetched, published>>

(* BackupRestore.  An archive that is refused or does not unpack changes   *)
(* nothing; any other is copied over the files in its own order: the       *)
(* index, the settings, the texts.  It may hold any of them or not, and a  *)
(* copy that is cut short may leave other settings than the archive's.     *)
BackupRestore ==
  /\ Free
  /\ txn' = [Idle EXCEPT !.kind = "recovery", !.step = "index"]
  /\ UNCHANGED <<booted, mem_vars, disk_vars, core, fetched, published,
                 faults>>

CopyIndex ==
  /\ InTxn("index") /\ Step("set")
  /\ disk_index' \in Archived \cup {disk_index}
  /\ UNCHANGED <<booted, mem_vars, content, disk_set, runtime, core, fetched,
                 published, faults>>

CopySettings ==
  /\ InTxn("set") /\ Step("texts")
  /\ disk_set' \in Nets
  /\ UNCHANGED <<booted, mem_vars, disk_index, content, runtime, core,
                 fetched, published, faults>>

CopyText ==
  /\ InTxn("texts")
  /\ \E u \in disk_index.items, v \in 1 .. published : WriteContent(u, v)
  /\ UNCHANGED <<booted, mem_vars, disk_index, disk_set, runtime, core, txn,
                 fetched, published, faults>>

(* A copy that fails ends the request: what was copied stays, and neither  *)
(* store is read again.                                                    *)
CopyFails ==
  /\ txn.kind = "recovery" /\ Fault
  /\ \/ content' = content
     \/ InTxn("texts") /\ \E u \in disk_index.items : WriteContent(u, Torn)
  /\ txn' = Idle
  /\ UNCHANGED <<booted, mem_vars, disk_index, disk_set, runtime, core,
                 fetched, published>>

(* All is copied: both stores are read again, and nothing is assembled.    *)
Reload ==
  /\ InTxn("texts")
  /\ mem_index' = disk_index /\ mem_set' = disk_set
  /\ content' = InReach(disk_index)
  /\ txn' = Idle
  /\ UNCHANGED <<booted, disk_index, disk_set, runtime, core, fetched,
                 published, faults>>

-----------------------------------------------------------------------------
(* The core and the helper as processes, and the outside world             *)

(* Mutant: a start that does not wait for the core lock.                   *)
CoreStartsUnlocked ==
  /\ ~Running /\ runtime # NoConfig
  /\ core' = runtime
  /\ UNCHANGED <<booted, mem_vars, disk_vars, txn, fetched, published,
                 faults>>

(* start(), from a request, the self-check or the watchdog, reads the      *)
(* runtime file with the core lock held.                                   *)
CoreStarts ==
  /\ Free /\ ~Running /\ runtime # NoConfig
  /\ core' = runtime
  /\ UNCHANGED <<booted, mem_vars, disk_vars, txn, fetched, published,
                 faults>>

CoreStops ==
  /\ Running
  /\ core' = NoConfig
  /\ UNCHANGED <<booted, mem_vars, disk_vars, txn, fetched, published,
                 faults>>

(* Killed at any step, or stopped between two of them; the core goes       *)
(* along.  The next instance opens both stores, and nothing else moves     *)
(* before it does.                                                         *)
HelperRestarts ==
  /\ booted' = FALSE
  /\ mem_index' = disk_index /\ mem_set' = disk_set
  /\ content' = InReach(disk_index)
  /\ core' = NoConfig /\ txn' = Idle /\ fetched' = NoConfig
  /\ UNCHANGED <<disk_index, disk_set, runtime, published, faults>>

Publish ==
  /\ published < MAX_VERSION /\ published' = published + 1
  /\ UNCHANGED <<booted, mem_vars, disk_vars, core, txn, fetched, faults>>

-----------------------------------------------------------------------------
Request ==
  \/ \E u \in Urls : \/ SetCurrent(u) \/ Import(u)
                     \/ Remove(u) \/ RestoreVersion(u)
  \/ \E n \in Nets : SettingsSet(n) \/ ApplyConfig(n)
  \/ BackupRestore

Recovery == CopyIndex \/ CopySettings \/ CopyText \/ CopyFails \/ Reload

Timer == (\E u \in Urls : AutoFetch(u)) \/ AutoSkip \/ AutoApply

Regenerate == RegenRefused \/ RegenWrite \/ RegenReload \/ RegenVerify
                \/ RegenUndoWrite \/ RegenUndoReload \/ Commit \/ Abort

World == CoreStarts \/ CoreStops \/ HelperRestarts \/ Publish

Next == Request \/ Recovery \/ Timer \/ BootRegenerate \/ Regenerate \/ World

Spec == Init /\ [][Next]_vars

-----------------------------------------------------------------------------
Transactions == [kind : Kinds, step : TxSteps, url : Urls \cup {NoUrl},
                 index : Indexes, content : Contents, set : Nets,
                 runtime : Configs \cup {NoConfig}, hot : BOOLEAN,
                 faults : 0 .. MAX_FAULTS]

(* Every variable has its type; in particular both indexes name a current  *)
(* profile that exists, after remove() as after every rollback.            *)
TypeOK ==
  /\ booted \in BOOLEAN
  /\ mem_index \in Indexes /\ disk_index \in Indexes
  /\ content \in [Urls -> Contents]
  /\ mem_set \in Nets /\ disk_set \in Nets
  /\ runtime \in Configs \cup {NoConfig} /\ core \in Configs \cup {NoConfig}
  /\ txn \in Transactions
  /\ fetched \in [url : Urls, version : Versions] \cup {NoConfig}
  /\ published \in Versions /\ faults \in 0 .. MAX_FAULTS

(* The settings the helper goes by: in memory, but for what a SettingsSet  *)
(* has put there and not yet saved.                                        *)
Loaded == IF txn.kind = "settings" THEN txn.set ELSE mem_set

(* Settings do not change silently.  What the helper goes by changes only  *)
(* to what clard.toml says then, and the two part only while a recovery    *)
(* copies; they stay apart only when that copy fails.  So no restart,      *)
(* crash, rollback or other failed write changes what the user was told.   *)
SettingsNotSilentlyChanged ==
  [][ /\ Loaded' # Loaded => Loaded' = disk_set'
      /\ Loaded' # disk_set' =>
           \/ Loaded # disk_set /\ txn.kind # "recovery"
           \/ txn'.kind = "recovery"
           \/ faults' > faults ]_vars

(* What a transaction has changed so far, by its kind and its step: what   *)
(* makes the properties of Commit and Abort provable.                      *)
SettingsKept ==
  txn.kind \notin {"none", "settings", "recovery"} => txn.set = mem_set

IndexKept ==
  /\ txn.kind \in {"settings", "boot"} => mem_index = txn.index
  /\ txn.kind = "switch" => mem_index.items = txn.index.items
  /\ txn.kind \in {"import", "autoupdate", "switch"} => disk_index = mem_index
  /\ txn.url # NoUrl <=> txn.kind \in {"import", "autoupdate"}

RuntimeKept ==
  /\ txn.kind = "none" => txn = Idle
  /\ txn.kind = "recovery" <=> txn.step \in Copies
  /\ txn.faults <= faults
  /\ txn.step = "regen" /\ txn.kind # "none" => runtime = txn.runtime
  /\ txn.step \in {"reload", "verify", "commit"} =>
       runtime = Assembled(Current, mem_set)
  /\ txn.step \in {"undo_reload", "abort"} /\ txn.faults = faults =>
       runtime = txn.runtime

CoreKept ==
  /\ Running => runtime # NoConfig
  /\ txn.hot => txn.runtime # NoConfig
  /\ txn.step \in {"reload", "verify", "undo_write", "undo_reload"} => txn.hot
  /\ ~txn.hot /\ txn.kind \notin {"none", "boot", "recovery"} => ~Running
  /\ txn.step \in {"verify", "commit"} /\ txn.kind # "boot" =>
       core \in {runtime, NoConfig}

(* The inductive invariant of the transactions.                            *)
TxInv == TypeOK /\ SettingsKept /\ IndexKept /\ RuntimeKept /\ CoreKept

(* A request that is answered with success, all its writes done, has been  *)
(* applied: the file is the current profile under the settings, what it    *)
(* changed of settings and index is on disk, and a core that ran at the    *)
(* start and still runs has loaded that file.                              *)
CommitIsApplied ==
  [][ Commit /\ faults' = txn.faults =>
        /\ runtime' = Assembled(Current', mem_set')
        /\ txn.kind = "settings" => disk_set' = mem_set'
        /\ txn.kind \in {"import", "autoupdate", "switch"} =>
             disk_index' = mem_index'
        /\ txn.kind # "boot" => core' \in {runtime', NoConfig} ]_vars

(* A transaction that fails, its own rollback writes done, leaves no trace *)
(* in the settings, the runtime file, the profile's text or the index; the *)
(* one exception is a first switch, which has no profile to go back to.    *)
AbortLeavesNoTrace ==
  [][ Abort /\ faults' = txn.faults =>
        /\ mem_set' = txn.set
        /\ runtime' = txn.runtime
        /\ txn.url # NoUrl /\ txn.content # Missing =>
             content'[txn.url] = txn.content
        /\ txn.kind # "switch" \/ txn.index.current # NoUrl =>
             mem_index' = txn.index
        /\ txn.kind # "boot" /\ txn.kind # "settings" =>
             disk_index' = mem_index' ]_vars

(* While regenerate tries a configuration, the file holds it already; the  *)
(* one in force is the one before.                                         *)
Trying == txn.step \in {"reload", "verify", "commit", "undo_write"}

InForce == IF Trying THEN txn.runtime ELSE runtime
Asked   == IF txn.kind = "settings" THEN {mem_set} ELSE {}

Atomic == INSTANCE AtomicConfig WITH
  Profiles <- Contents, settings <- disk_set, loaded <- Loaded, asked <- Asked,
  config <- InForce

(* Settings and configuration change as AtomicConfig says: both at once,   *)
(* when a request succeeds, whatever steps, rollbacks, failed writes and   *)
(* kills there are on the way; a recovery, which changes the settings      *)
(* alone, is the fourth exception named there.                             *)
ConfigIsAtomic == Atomic!Spec
=============================================================================
