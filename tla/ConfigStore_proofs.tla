------------------------- MODULE ConfigStore_proofs -------------------------
(***************************************************************************)
(* Proofs about ConfigStore, for every set of subscriptions and settings,  *)
(* every number of versions and every bound on the writes that fail: the   *)
(* invariant of a transaction, what a refused one leaves, and that every   *)
(* step is one of AtomicConfig's or none.                                  *)
(***************************************************************************)
EXTENDS ConfigStore, TLAPS

-----------------------------------------------------------------------------
(* The transaction that is none.                                           *)
LEMMA IdleType ==
  /\ Idle \in Transactions
  /\ Idle.kind = "none" /\ Idle.step = "regen" /\ Idle.url = NoUrl
  /\ Idle.hot = FALSE /\ Idle.faults = 0
<1>1. (CHOOSE n \in Nets : TRUE) \in Nets
  BY StoreAssumption
<1>2. [current |-> NoUrl, items |-> {}] \in Indexes
  BY DEF Indexes
<1>3. 0 \in 0 .. MAX_FAULTS /\ Missing \in Contents
  BY StoreAssumption DEF Missing, Contents
<1> QED
  BY <1>1, <1>2, <1>3 DEF Idle, Transactions, Kinds, TxSteps

(* The transaction that Begin describes.                                   *)
LEMMA BeginType ==
  ASSUME TypeOK, NEW k \in Kinds, NEW u \in Urls \cup {NoUrl}, Begin(k, u)
  PROVE  /\ txn' \in Transactions
         /\ txn'.kind = k /\ txn'.step = "regen" /\ txn'.url = u
         /\ txn'.index = mem_index /\ txn'.set = mem_set
         /\ txn'.runtime = runtime /\ txn'.faults = faults
         /\ txn'.hot = (Running /\ k # "boot")
         /\ u # NoUrl => txn'.content = content[u]
<1>1. (IF u = NoUrl THEN Missing ELSE content[u]) \in Contents
  BY StoreAssumption DEF TypeOK, Missing, Contents
<1> QED
  BY <1>1 DEF Begin, TypeOK, Transactions, TxSteps, Running

(* A transaction that goes to its next step changes nothing else.          *)
LEMMA StepType ==
  ASSUME txn \in Transactions, NEW s \in TxSteps, Step(s)
  PROVE  /\ txn' \in Transactions
         /\ txn'.step = s
         /\ txn'.kind = txn.kind /\ txn'.url = txn.url
         /\ txn'.index = txn.index /\ txn'.set = txn.set
         /\ txn'.content = txn.content
         /\ txn'.runtime = txn.runtime /\ txn'.faults = txn.faults
         /\ txn'.hot = txn.hot
  BY DEF Step, Transactions

(* What R4 writes is a configuration.                                      *)
LEMMA AssembledType ==
  ASSUME NEW v \in Contents, NEW n \in Nets
  PROVE  Assembled(v, n) \in Configs /\ Assembled(v, n) # NoConfig
  BY NoConfigAssumption DEF Assembled, Configs

(* The current profile has a text of some kind.                            *)
LEMMA CurrentType ==
  ASSUME TypeOK, Readable
  PROVE  mem_index.current \in Urls /\ Current \in Contents
  BY DEF TypeOK, Readable, Current, Indexes

(* The number of writes that failed keeps its type.                        *)
LEMMA FaultType ==
  ASSUME faults \in 0 .. MAX_FAULTS, Fault \/ NoFault
  PROVE  faults' \in 0 .. MAX_FAULTS /\ faults' >= faults
  BY StoreAssumption DEF Fault, NoFault

(* What is in reach is a text of some kind, or none.                       *)
LEMMA InReachType ==
  ASSUME content \in [Urls -> Contents], NEW i
  PROVE  InReach(i) \in [Urls -> Contents]
  BY StoreAssumption DEF InReach, Contents, Missing

-----------------------------------------------------------------------------
(* The invariant holds initially.                                          *)
LEMMA InitTxInv == Init => TxInv
<1> SUFFICES ASSUME Init PROVE TxInv
  OBVIOUS
<1>1. TypeOK
  <2>1. mem_index \in Indexes /\ disk_index \in Indexes
    BY DEF Init, Indexes
  <2>2. content \in [Urls -> Contents]
    BY StoreAssumption DEF Init, Contents, Missing
  <2>3. published \in Versions /\ faults \in 0 .. MAX_FAULTS
    BY StoreAssumption DEF Init, Versions
  <2> QED BY <2>1, <2>2, <2>3, IdleType DEF Init, TypeOK
<1>2. txn = Idle /\ mem_set = disk_set /\ mem_index = disk_index
  BY DEF Init
<1>3. core = NoConfig /\ faults = 0
  BY DEF Init
<1>4. SettingsKept /\ IndexKept
  BY <1>2, IdleType DEF SettingsKept, IndexKept
<1>5. RuntimeKept /\ CoreKept
  BY <1>2, <1>3, IdleType DEF Copies, RuntimeKept, CoreKept, Running
<1> QED BY <1>1, <1>4, <1>5 DEF TxInv

(* A transaction that begins remembers the runtime file and the core.      *)
LEMMA BeginKept ==
  ASSUME TxInv, Free, NEW k \in Kinds \ {"none", "recovery"}, NEW u \in Urls \cup {NoUrl},
         Begin(k, u), UNCHANGED <<runtime, core, faults>>
  PROVE  RuntimeKept' /\ CoreKept'
<1>1. TypeOK /\ CoreKept
  BY DEF TxInv
<1>2. /\ txn'.kind = k /\ txn'.step = "regen"
      /\ txn'.runtime = runtime /\ txn'.faults = faults
      /\ txn'.hot = (Running /\ k # "boot")
  BY <1>1, BeginType
<1>3. RuntimeKept'
  BY <1>1, <1>2 DEF Copies, RuntimeKept, TypeOK
<1>4. CoreKept'
  BY <1>1, <1>2 DEF CoreKept, Running
<1> QED BY <1>3, <1>4

(* When no transaction is under way, a change that starts none may touch   *)
(* the file and the core, as long as a core that runs has a file.          *)
LEMMA FreeKept ==
  ASSUME TxInv, Free, txn' = txn, faults' >= faults, faults' \in Nat,
         Running' => runtime' # NoConfig
  PROVE  RuntimeKept' /\ CoreKept'
<1>1. faults \in Nat /\ txn.faults <= faults
  BY StoreAssumption DEF Copies, TxInv, TypeOK, RuntimeKept
<1>2. /\ txn' = Idle /\ txn'.kind = "none" /\ txn'.step = "regen"
      /\ txn'.hot = FALSE /\ txn'.faults = txn.faults /\ txn'.faults = 0
  BY IdleType DEF Free
<1>3. RuntimeKept'
  BY <1>1, <1>2 DEF Copies, RuntimeKept
<1>4. CoreKept'
  BY <1>2 DEF CoreKept
<1> QED BY <1>3, <1>4

-----------------------------------------------------------------------------
(* Requests that start a transaction                                       *)

(* SettingsSet keeps it: the snapshot holds the settings on disk.          *)
LEMMA SettingsSetInv ==
  ASSUME TxInv, NEW n \in Nets, SettingsSet(n)
  PROVE  TxInv'
<1>0. /\ TypeOK /\ SettingsKept /\ Free /\ Begin("settings", NoUrl)
      /\ UNCHANGED <<booted, mem_index, disk_index, content, disk_set, runtime,
                     core, fetched, published, faults>>
      /\ mem_set' = n
  BY DEF SettingsSet, TxInv, disk_vars
<1>1. /\ txn' \in Transactions /\ txn'.kind = "settings"
      /\ txn'.step = "regen" /\ txn'.url = NoUrl
      /\ txn'.index = mem_index /\ txn'.set = mem_set
  BY <1>0, BeginType DEF Kinds
<1>2. RuntimeKept' /\ CoreKept'
  BY <1>0, BeginKept DEF Kinds
<1>3. TypeOK'
  BY <1>0, <1>1 DEF TypeOK
<1>4. SettingsKept' /\ IndexKept'
  BY <1>0, <1>1, IdleType DEF SettingsKept, IndexKept, Free
<1> QED BY <1>2, <1>3, <1>4 DEF TxInv

(* A switch keeps it, whether or not the index can be written.             *)
LEMMA SetCurrentInv ==
  ASSUME TxInv, NEW u \in Urls, SetCurrent(u)
  PROVE  TxInv'
<1>0. /\ TypeOK /\ SettingsKept /\ IndexKept /\ CoreKept
      /\ Free /\ u \in mem_index.items
      /\ mem_index' = [mem_index EXCEPT !.current = u]
      /\ UNCHANGED <<booted, content, disk_set, runtime, core, mem_set,
                     fetched, published>>
  BY DEF SetCurrent, TxInv
<1>1. mem_index' \in Indexes /\ mem_index'.items = mem_index.items
  BY <1>0 DEF TypeOK, Indexes
<1>2. txn.kind = "none" /\ txn.url = NoUrl
  BY <1>0, IdleType DEF Free
<1>3. CASE SaveIndex /\ Begin("switch", NoUrl)
  <2>1. faults' = faults /\ disk_index' = mem_index'
    BY <1>3 DEF SaveIndex, NoFault
  <2>2. /\ txn' \in Transactions /\ txn'.kind = "switch"
        /\ txn'.step = "regen" /\ txn'.url = NoUrl
        /\ txn'.index = mem_index /\ txn'.set = mem_set
    BY <1>0, <1>3, BeginType DEF Kinds
  <2>3. RuntimeKept' /\ CoreKept'
    BY <1>0, <1>3, <2>1, BeginKept DEF Kinds
  <2>4. TypeOK'
    BY <1>0, <1>1, <2>1, <2>2 DEF TypeOK
  <2>5. SettingsKept' /\ IndexKept'
    BY <1>0, <1>1, <1>2, <2>1, <2>2 DEF SettingsKept, IndexKept
  <2> QED BY <2>3, <2>4, <2>5 DEF TxInv
<1>4. CASE SaveIndexFails /\ txn' = txn
  <2>1. /\ faults' \in 0 .. MAX_FAULTS /\ faults' >= faults
        /\ disk_index' = disk_index
    BY <1>0, <1>4, FaultType DEF SaveIndexFails, TypeOK
  <2>2. RuntimeKept' /\ CoreKept'
    BY <1>0, <1>4, <2>1, FreeKept DEF CoreKept, Running
  <2>3. TypeOK'
    BY <1>0, <1>1, <1>4, <2>1 DEF TypeOK
  <2>4. SettingsKept' /\ IndexKept'
    BY <1>0, <1>2, <1>4 DEF SettingsKept, IndexKept
  <2> QED BY <2>2, <2>3, <2>4 DEF TxInv
<1> QED BY <1>3, <1>4 DEF SetCurrent

(* A text that is written, in full or in part, is a content.               *)
LEMMA WriteContentType ==
  ASSUME TypeOK, NEW u \in Urls, NEW v \in Contents,
         WriteContent(u, v) \/ WriteContentFails(u)
  PROVE  content' \in [Urls -> Contents]
<1>1. Torn \in Contents
  BY StoreAssumption DEF Torn, Contents
<1> QED BY <1>1 DEF WriteContent, WriteContentFails, TypeOK

(* Install, with the rest of the state as Import and AutoApply leave it.   *)
LEMMA InstallInv ==
  ASSUME TxInv, Free, NEW k \in {"import", "autoupdate"}, NEW u \in Urls,
         NEW v \in Versions, Install(k, u, v),
         UNCHANGED <<booted, mem_set, disk_set, runtime, core, published>>,
         fetched' \in {fetched, NoConfig}
  PROVE  TxInv'
<1>0. /\ TypeOK /\ SettingsKept /\ IndexKept /\ CoreKept
      /\ txn.kind = "none" /\ txn.url = NoUrl
      /\ fetched' \in [url : Urls, version : Versions] \cup {NoConfig}
      /\ k \in Kinds \ {"none", "recovery"} /\ u # NoUrl /\ v \in Contents
  BY IdleType, StoreAssumption
  DEF TxInv, Free, TypeOK, Kinds, Versions, Contents
<1>1. ASSUME WriteProfile(u, v)
      PROVE  mem_index' \in Indexes /\ content' \in [Urls -> Contents]
  <2>1. mem_index' = [mem_index EXCEPT !.items = @ \cup {u}]
    BY <1>1 DEF WriteProfile
  <2>2. mem_index' \in Indexes
    BY <1>0, <2>1 DEF TypeOK, Indexes
  <2> QED BY <1>0, <1>1, <2>2, WriteContentType DEF WriteProfile
<1>2. ASSUME txn' = txn, faults' \in 0 .. MAX_FAULTS, faults' >= faults,
             mem_index' \in Indexes, disk_index' \in Indexes,
             content' \in [Urls -> Contents]
      PROVE  TxInv'
  <2>1. RuntimeKept' /\ CoreKept'
    BY <1>0, <1>2, FreeKept DEF CoreKept, Running
  <2>2. TypeOK'
    BY <1>0, <1>2 DEF TypeOK
  <2>3. SettingsKept' /\ IndexKept'
    BY <1>0, <1>2 DEF SettingsKept, IndexKept
  <2> QED BY <2>1, <2>2, <2>3 DEF TxInv
<1>3. CASE WriteProfile(u, v) /\ SaveIndex /\ Begin(k, u)
  <2>1. faults' = faults /\ disk_index' = mem_index'
    BY <1>3 DEF SaveIndex, NoFault
  <2>2. /\ txn' \in Transactions /\ txn'.kind = k
        /\ txn'.step = "regen" /\ txn'.url = u
        /\ txn'.index = mem_index /\ txn'.set = mem_set
    BY <1>0, <1>3, BeginType
  <2>3. RuntimeKept' /\ CoreKept'
    BY <1>0, <1>3, <2>1, BeginKept
  <2>4. TypeOK'
    BY <1>0, <1>1, <1>3, <2>1, <2>2 DEF TypeOK
  <2>5. SettingsKept' /\ IndexKept'
    BY <1>0, <2>1, <2>2 DEF SettingsKept, IndexKept
  <2> QED BY <2>3, <2>4, <2>5 DEF TxInv
<1>4. CASE WriteProfile(u, v) /\ SaveIndex /\ txn' = txn
  <2>1. faults' = faults /\ disk_index' = mem_index'
    BY <1>4 DEF SaveIndex, NoFault
  <2> QED BY <1>0, <1>1, <1>2, <1>4, <2>1 DEF TypeOK
<1>5. CASE WriteProfile(u, v) /\ SaveIndexFails /\ txn' = txn
  <2>1. faults' \in 0 .. MAX_FAULTS /\ faults' >= faults
    BY <1>0, <1>5, FaultType DEF SaveIndexFails, TypeOK
  <2> QED BY <1>0, <1>1, <1>2, <1>5, <2>1 DEF TypeOK, SaveIndexFails
<1>6. CASE WriteContentFails(u) /\ UNCHANGED <<mem_index, disk_index, txn>>
  <2>1. faults' \in 0 .. MAX_FAULTS /\ faults' >= faults
    BY <1>0, <1>6, FaultType DEF WriteContentFails, TypeOK
  <2>2. content' \in [Urls -> Contents]
    BY <1>0, <1>6, WriteContentType
  <2> QED BY <1>0, <1>2, <1>6, <2>1, <2>2 DEF TypeOK
<1> QED BY <1>3, <1>4, <1>5, <1>6 DEF Install

(* So does the timer, whose profile may have gone since.                   *)
LEMMA AutoApplyInv ==
  ASSUME TxInv, AutoApply
  PROVE  TxInv'
<1>0. /\ TypeOK /\ Free /\ fetched # NoConfig /\ fetched' = NoConfig
      /\ UNCHANGED <<booted, mem_set, disk_set, runtime, core, published>>
  BY DEF AutoApply, TxInv
<1>1. fetched.url \in Urls /\ fetched.version \in Versions
  BY <1>0 DEF TypeOK
<1>2. CASE Install("autoupdate", fetched.url, fetched.version)
  BY <1>0, <1>1, <1>2, InstallInv
<1>3. CASE UNCHANGED <<content, mem_index, disk_index, txn, faults>>
  BY <1>0, <1>3
  DEF Copies, TxInv, TypeOK, SettingsKept, IndexKept, RuntimeKept, CoreKept, Current,
      Running
<1> QED BY <1>2, <1>3 DEF AutoApply

(* So does the start-up regenerate, with or without a core.                *)
LEMMA BootRegenerateInv ==
  ASSUME TxInv, BootRegenerate
  PROVE  TxInv'
<1>0. /\ TypeOK /\ SettingsKept /\ Free /\ Begin("boot", NoUrl)
      /\ UNCHANGED <<booted, mem_index, mem_set, disk_index, content, disk_set,
                     runtime, core, fetched, published, faults>>
  BY DEF BootRegenerate, TxInv, disk_vars, mem_vars
<1>1. /\ txn' \in Transactions /\ txn'.kind = "boot"
      /\ txn'.step = "regen" /\ txn'.url = NoUrl
      /\ txn'.index = mem_index /\ txn'.set = mem_set
  BY <1>0, BeginType DEF Kinds
<1>2. RuntimeKept' /\ CoreKept'
  BY <1>0, BeginKept DEF Kinds
<1>3. TypeOK'
  BY <1>0, <1>1 DEF TypeOK
<1>4. SettingsKept' /\ IndexKept'
  BY <1>0, <1>1, IdleType DEF SettingsKept, IndexKept, Free
<1> QED BY <1>2, <1>3, <1>4 DEF TxInv

-----------------------------------------------------------------------------
(* regenerate                                                              *)

(* A step of regenerate keeps the invariant if it keeps the parts about    *)
(* the runtime file and the core, and touches nothing but these two, the   *)
(* step and the failures.                                                  *)
LEMMA RegenStepInv ==
  ASSUME TxInv, NEW s \in TxSteps, Step(s),
         UNCHANGED <<booted, mem_index, mem_set, disk_index, content, disk_set,
                     fetched, published>>,
         runtime' \in Configs \cup {NoConfig},
         core' \in Configs \cup {NoConfig},
         faults' \in 0 .. MAX_FAULTS, RuntimeKept', CoreKept'
  PROVE  TxInv'
<1>1. TypeOK'
  BY StepType DEF TxInv, TypeOK
<1>2. SettingsKept' /\ IndexKept'
  BY StepType DEF TxInv, TypeOK, SettingsKept, IndexKept
<1> QED BY <1>1, <1>2 DEF TxInv

(* R1 to R4 refuse: nothing was written.                                   *)
LEMMA RegenRefusedInv ==
  ASSUME TxInv, RegenRefused
  PROVE  TxInv'
<1>0. /\ TypeOK /\ RuntimeKept /\ CoreKept
      /\ InTxn("regen") /\ Step("abort") /\ (Fault \/ NoFault)
      /\ UNCHANGED <<booted, mem_index, mem_set, disk_index, content, disk_set,
                     runtime, core, fetched, published>>
  BY DEF RegenRefused, TxInv, mem_vars, disk_vars
<1>1. faults' \in 0 .. MAX_FAULTS /\ faults' >= faults /\ faults \in Nat
  BY <1>0, FaultType, StoreAssumption DEF TypeOK
<1>2. "abort" \in TxSteps /\ txn \in Transactions /\ txn.faults \in Nat
  BY <1>0, StoreAssumption DEF TypeOK, TxSteps, Transactions
<1>3. RuntimeKept'
  BY <1>0, <1>1, <1>2, StepType DEF Copies, RuntimeKept, InTxn
<1>4. CoreKept'
  BY <1>0, <1>2, StepType DEF CoreKept, InTxn, Running
<1> QED BY <1>0, <1>1, <1>2, <1>3, <1>4, RegenStepInv DEF TypeOK

(* R4 writes what is assembled from memory.                                *)
LEMMA RegenWriteInv ==
  ASSUME TxInv, RegenWrite
  PROVE  TxInv'
<1>0. /\ TypeOK /\ RuntimeKept /\ CoreKept
      /\ InTxn("regen") /\ Assembles /\ runtime' = Assembled(Current, mem_set)
      /\ Step(IF txn.hot THEN "reload" ELSE "commit")
      /\ UNCHANGED <<booted, mem_index, mem_set, disk_index, content, disk_set,
                     core, fetched, published, faults>>
  BY DEF RegenWrite, TxInv, mem_vars
<1>1. runtime' \in Configs /\ runtime' # NoConfig
  BY <1>0, CurrentType, AssembledType DEF Assembles, TypeOK
<1>2. (IF txn.hot THEN "reload" ELSE "commit") \in TxSteps
  BY DEF TxSteps
<1>3. txn \in Transactions
  BY <1>0 DEF TypeOK
<1>4. RuntimeKept'
  BY <1>0, <1>2, <1>3, StepType DEF Copies, RuntimeKept, InTxn, Current, Assembled
<1>5. CoreKept'
  <2>1. txn.kind # "recovery"
    BY <1>0 DEF RuntimeKept, InTxn, Copies
  <2> QED BY <1>0, <1>1, <1>2, <1>3, <2>1, StepType DEF CoreKept, InTxn, Running
<1> QED BY <1>0, <1>1, <1>2, <1>4, <1>5, RegenStepInv DEF TypeOK

(* R5 leaves the core with the new file, or as it was.                     *)
LEMMA RegenReloadInv ==
  ASSUME TxInv, RegenReload
  PROVE  TxInv'
<1>0. /\ TypeOK /\ RuntimeKept /\ CoreKept /\ InTxn("reload")
      /\ \/ Running /\ core' = runtime /\ Step("verify")
         \/ core' = core /\ Step("undo_write")
      /\ UNCHANGED <<booted, mem_index, mem_set, disk_index, content, disk_set,
                     runtime, fetched, published, faults>>
  BY DEF RegenReload, TxInv, mem_vars, disk_vars
<1>1. PICK s \in {"verify", "undo_write"} :
        /\ Step(s)
        /\ s = "verify" => Running /\ core' = runtime
        /\ s = "undo_write" => core' = core
  BY <1>0
<1>2. s \in TxSteps /\ txn \in Transactions
  BY <1>0 DEF TxSteps, TypeOK
<1>3. RuntimeKept'
  BY <1>0, <1>1, <1>2, StepType DEF Copies, RuntimeKept, InTxn, Current
<1>4. CoreKept'
  BY <1>0, <1>1, <1>2, StepType DEF CoreKept, InTxn, Running
<1> QED BY <1>0, <1>1, <1>2, <1>3, <1>4, RegenStepInv DEF TypeOK

(* R6 decides on the outcome and changes nothing.                          *)
LEMMA RegenVerifyInv ==
  ASSUME TxInv, RegenVerify
  PROVE  TxInv'
<1>0. /\ TypeOK /\ RuntimeKept /\ CoreKept /\ InTxn("verify")
      /\ UNCHANGED <<booted, mem_index, mem_set, disk_index, content, disk_set,
                     runtime, core, fetched, published, faults>>
  BY DEF RegenVerify, TxInv, mem_vars, disk_vars
<1>1. PICK s \in {"commit", "undo_write"} : Step(s)
  BY DEF RegenVerify
<1>2. s \in TxSteps /\ txn \in Transactions
  BY <1>0 DEF TxSteps, TypeOK
<1>3. RuntimeKept'
  BY <1>0, <1>1, <1>2, StepType DEF Copies, RuntimeKept, InTxn, Current
<1>4. CoreKept'
  BY <1>0, <1>1, <1>2, StepType DEF CoreKept, InTxn, Running
<1> QED BY <1>0, <1>1, <1>2, <1>3, <1>4, RegenStepInv DEF TypeOK

(* R7 puts the old file back, or counts a failure.                         *)
LEMMA RegenUndoWriteInv ==
  ASSUME TxInv, RegenUndoWrite
  PROVE  TxInv'
<1>0. /\ TypeOK /\ RuntimeKept /\ CoreKept /\ InTxn("undo_write")
      /\ Fault \/ NoFault
      /\ UNCHANGED <<booted, mem_index, mem_set, disk_index, content, disk_set,
                     core, fetched, published>>
  BY DEF RegenUndoWrite, TxInv, mem_vars
<1>1. txn.hot /\ txn.runtime # NoConfig /\ Step("undo_reload")
  BY <1>0 DEF CoreKept, InTxn, RegenUndoWrite
<1>2. \/ NoFault /\ runtime' = txn.runtime
      \/ Fault /\ runtime' = runtime
  BY <1>1 DEF RegenUndoWrite
<1>3. faults' \in 0 .. MAX_FAULTS /\ faults' >= faults /\ faults \in Nat
  BY <1>0, FaultType, StoreAssumption DEF TypeOK
<1>4. /\ "undo_reload" \in TxSteps /\ txn \in Transactions
      /\ txn.faults \in Nat /\ txn.runtime \in Configs \cup {NoConfig}
  BY <1>0, StoreAssumption DEF TypeOK, TxSteps, Transactions
<1>5. RuntimeKept'
  <2>1. /\ txn'.kind = txn.kind /\ txn'.kind # "none"
        /\ txn'.faults = txn.faults /\ txn'.runtime = txn.runtime
        /\ txn'.step = "undo_reload" /\ txn'.kind # "recovery"
    BY <1>0, <1>1, <1>4, StepType DEF InTxn, RuntimeKept, Copies
  <2>2. txn.faults <= faults /\ txn.faults <= faults'
    BY <1>0, <1>3, <1>4 DEF Copies, RuntimeKept
  <2>3. txn.faults = faults' => runtime' = txn.runtime
    BY <1>2, <1>3, <1>4, <2>2 DEF Fault
  <2> QED BY <2>1, <2>2, <2>3 DEF Copies, RuntimeKept
<1>6. CoreKept'
  BY <1>0, <1>1, <1>2, <1>4, StepType DEF CoreKept, InTxn, Running
<1> QED BY <1>0, <1>1, <1>2, <1>3, <1>4, <1>5, <1>6, RegenStepInv DEF TypeOK

(* R7 puts the old configuration back, or leaves the core.                 *)
LEMMA RegenUndoReloadInv ==
  ASSUME TxInv, RegenUndoReload
  PROVE  TxInv'
<1>0. /\ TypeOK /\ RuntimeKept /\ CoreKept /\ InTxn("undo_reload")
      /\ Step("abort")
      /\ core' \in {core} \cup (IF Running THEN {txn.runtime} ELSE {})
      /\ UNCHANGED <<booted, mem_index, mem_set, disk_index, content, disk_set,
                     runtime, fetched, published, faults>>
  BY DEF RegenUndoReload, TxInv, mem_vars, disk_vars
<1>1. /\ "abort" \in TxSteps /\ txn \in Transactions
      /\ txn.runtime \in Configs \cup {NoConfig}
  BY <1>0 DEF TypeOK, TxSteps, Transactions
<1>2. RuntimeKept'
  BY <1>0, <1>1, StepType DEF Copies, RuntimeKept, InTxn
<1>3. CoreKept'
  BY <1>0, <1>1, StepType DEF CoreKept, InTxn, Running
<1> QED BY <1>0, <1>1, <1>2, <1>3, RegenStepInv DEF TypeOK

-----------------------------------------------------------------------------
(* The end of a transaction                                                *)

(* Once a transaction is over, what is left of the invariant is that a     *)
(* core that runs has a file.                                              *)
LEMMA IdleInv ==
  ASSUME txn' = Idle, TypeOK',
         Running' => runtime' # NoConfig
  PROVE  TxInv'
<1>1. /\ txn'.kind = "none" /\ txn'.step = "regen" /\ txn'.url = NoUrl
      /\ txn'.hot = FALSE /\ txn'.faults = 0 /\ faults' >= 0
  BY IdleType, StoreAssumption DEF TypeOK
<1>2. SettingsKept' /\ IndexKept'
  BY <1>1 DEF SettingsKept, IndexKept
<1>3. RuntimeKept'
  BY <1>1 DEF Copies, RuntimeKept
<1>4. CoreKept'
  BY <1>1 DEF CoreKept
<1> QED BY <1>2, <1>3, <1>4 DEF TxInv

(* A commit ends the transaction.                                          *)
LEMMA CommitInv ==
  ASSUME TxInv, Commit
  PROVE  TxInv'
<1>0. /\ TypeOK /\ SettingsKept /\ CoreKept /\ InTxn("commit") /\ Done
      /\ (Fault \/ NoFault)
      /\ UNCHANGED <<mem_index, disk_index, content, runtime, core, fetched,
                     published>>
  BY DEF Commit, TxInv
<1>1. txn' = Idle /\ booted' \in BOOLEAN
  BY <1>0 DEF Done, TypeOK
<1>2. mem_set' \in Nets /\ disk_set' \in Nets
  BY <1>0 DEF Commit, TypeOK, Transactions
<1>3. faults' \in 0 .. MAX_FAULTS
  BY <1>0, FaultType DEF TypeOK
<1>4. TypeOK'
  BY <1>0, <1>1, <1>2, <1>3, IdleType DEF TypeOK
<1>5. Running' => runtime' # NoConfig
  BY <1>0 DEF CoreKept, Running
<1> QED BY <1>1, <1>2, <1>4, <1>5, IdleInv

(* What each kind of transaction undoes has its type.                      *)
LEMMA AbortKindType ==
  ASSUME TxInv, txn.kind # "none",
         AbortSettings \/ AbortInstall \/ AbortSwitch \/ AbortBoot
  PROVE  /\ mem_index' \in Indexes /\ disk_index' \in Indexes
         /\ content' \in [Urls -> Contents]
         /\ mem_set' \in Nets
         /\ faults' \in 0 .. MAX_FAULTS
<1>0. TypeOK /\ SettingsKept /\ IndexKept
  BY DEF TxInv
<1>1. /\ txn.index \in Indexes /\ txn.content \in Contents
      /\ txn.url \in Urls \cup {NoUrl} /\ txn.set \in Nets
  BY <1>0 DEF TypeOK, Transactions
<1>2. CASE AbortSettings
  BY <1>0, <1>1, <1>2 DEF AbortSettings, TypeOK, NoFault
<1>3. CASE AbortInstall
  <2>1. txn.url \in Urls
    BY <1>0, <1>1, <1>3 DEF AbortInstall, IndexKept
  <2>2. \/ content' = content
        \/ WriteContent(txn.url, txn.content) \/ WriteContentFails(txn.url)
    BY <1>3 DEF AbortInstall
  <2>3. content' \in [Urls -> Contents]
    BY <1>0, <1>1, <2>1, <2>2, WriteContentType DEF TypeOK
  <2>4. /\ mem_index' = txn.index /\ mem_set' = mem_set
        /\ disk_index' \in {disk_index, mem_index'}
        /\ Fault \/ NoFault
    BY <1>3 DEF AbortInstall, SaveIndex, SaveIndexFails, WriteContentFails
  <2>5. faults' \in 0 .. MAX_FAULTS
    BY <1>0, <2>4, FaultType DEF TypeOK
  <2> QED
    BY <1>0, <1>1, <2>3, <2>4, <2>5 DEF TypeOK
<1>4. CASE AbortSwitch
  <2>1. /\ mem_set' = mem_set /\ content' = content
        /\ disk_index' \in {disk_index, mem_index'}
        /\ Fault \/ NoFault
    BY <1>4 DEF AbortSwitch, SaveIndex, SaveIndexFails
  <2>2. mem_index' \in Indexes
    BY <1>0, <1>1, <1>4 DEF AbortSwitch, IndexKept, TypeOK, Indexes
  <2>3. faults' \in 0 .. MAX_FAULTS
    BY <1>0, <2>1, FaultType DEF TypeOK
  <2> QED BY <1>0, <2>1, <2>2, <2>3 DEF TypeOK
<1>5. CASE AbortBoot
  BY <1>0, <1>5 DEF AbortBoot, TypeOK, NoFault, mem_vars
<1> QED BY <1>2, <1>3, <1>4, <1>5

(* So does an abort.                                                       *)
LEMMA AbortInv ==
  ASSUME TxInv, Abort
  PROVE  TxInv'
<1>0. /\ TypeOK /\ CoreKept /\ InTxn("abort") /\ Done
      /\ AbortSettings \/ AbortInstall \/ AbortSwitch \/ AbortBoot
      /\ UNCHANGED <<disk_set, runtime, core, fetched, published>>
  BY DEF Abort, TxInv
<1>1. txn' = Idle /\ booted' \in BOOLEAN /\ txn.kind # "none"
  BY <1>0 DEF Done, TypeOK, InTxn
<1>2. TypeOK'
  BY <1>0, <1>1, AbortKindType, IdleType DEF TypeOK
<1>3. Running' => runtime' # NoConfig
  BY <1>0 DEF CoreKept, Running
<1> QED BY <1>1, <1>2, <1>3, IdleInv

-----------------------------------------------------------------------------
(* Requests and steps outside a transaction                                *)

(* A step outside a transaction.                                           *)
LEMMA OutsideInv ==
  ASSUME TxInv, Free, txn' = txn, TypeOK',
         Running' => runtime' # NoConfig
  PROVE  TxInv'
<1>1. txn' = Idle
  BY DEF Free
<1> QED BY <1>1, IdleInv

(* remove() leaves no current profile that is not in the index.            *)
LEMMA RemoveInv ==
  ASSUME TxInv, NEW u \in Urls, Remove(u)
  PROVE  TxInv'
<1>0. /\ TypeOK /\ Free /\ CoreKept /\ (SaveIndex \/ SaveIndexFails)
      /\ UNCHANGED <<booted, mem_set, disk_set, runtime, core, txn, fetched,
                     published>>
  BY DEF Remove, TxInv
<1>1. mem_index' \in Indexes
  BY <1>0 DEF Remove, TypeOK, Indexes
<1>2. content' \in [Urls -> Contents]
  BY <1>0, StoreAssumption DEF Remove, TypeOK, Contents, Missing
<1>3. disk_index' \in {disk_index, mem_index'} /\ (Fault \/ NoFault)
  BY <1>0 DEF SaveIndex, SaveIndexFails
<1>4. TypeOK'
  BY <1>0, <1>1, <1>2, <1>3, FaultType DEF TypeOK
<1> QED BY <1>0, <1>4, OutsideInv DEF CoreKept, Running

(* An older version is a content like any other.                           *)
LEMMA RestoreVersionInv ==
  ASSUME TxInv, NEW u \in Urls, RestoreVersion(u)
  PROVE  TxInv'
<1>0. /\ TypeOK /\ Free /\ CoreKept
      /\ UNCHANGED <<booted, mem_index, mem_set, disk_index, disk_set, runtime,
                     core, txn, fetched, published>>
  BY DEF RestoreVersion, TxInv, mem_vars
<1>1. 1 .. published \subseteq Contents
  BY <1>0, StoreAssumption DEF TypeOK, Versions, Contents
<1>2. PICK v \in Contents : WriteContent(u, v) \/ WriteContentFails(u)
  BY <1>1, StoreAssumption DEF RestoreVersion, Contents
<1>3. content' \in [Urls -> Contents]
  BY <1>0, <1>2, WriteContentType
<1>4. Fault \/ NoFault
  BY DEF RestoreVersion, WriteContentFails
<1>5. TypeOK'
  BY <1>0, <1>3, <1>4, FaultType DEF TypeOK
<1> QED BY <1>0, <1>5, OutsideInv DEF CoreKept, Running

(* ApplyConfig leaves a file for the core that takes it.                   *)
LEMMA ApplyConfigInv ==
  ASSUME TxInv, NEW n \in Nets, ApplyConfig(n)
  PROVE  TxInv'
<1>0. /\ TypeOK /\ Free /\ CoreKept /\ faults' = faults
      /\ runtime' = Assembled(Foreign, n)
      /\ core' \in {core, runtime'} /\ (~Running => core' = core)
      /\ UNCHANGED <<booted, mem_index, mem_set, disk_index, content, disk_set,
                     txn, fetched, published>>
  BY DEF ApplyConfig, TxInv, mem_vars, NoFault
<1>1. runtime' \in Configs /\ runtime' # NoConfig
  BY <1>0, AssembledType, StoreAssumption DEF Foreign, Contents
<1>2. TypeOK'
  BY <1>0, <1>1 DEF TypeOK
<1> QED BY <1>0, <1>1, <1>2, OutsideInv

(* A core starts from the file, under the lock.                            *)
LEMMA CoreStartsInv ==
  ASSUME TxInv, CoreStarts
  PROVE  TxInv'
<1>0. /\ TypeOK /\ Free /\ runtime # NoConfig /\ core' = runtime
      /\ UNCHANGED <<booted, mem_index, mem_set, disk_index, content, disk_set,
                     runtime, txn, fetched, published, faults>>
  BY DEF CoreStarts, TxInv, mem_vars, disk_vars
<1>1. TypeOK'
  BY <1>0 DEF TypeOK
<1> QED BY <1>0, <1>1, OutsideInv

(* A core may die inside a transaction.                                    *)
LEMMA CoreStopsInv ==
  ASSUME TxInv, CoreStops
  PROVE  TxInv'
  BY DEF Copies, TxInv, TypeOK, SettingsKept, IndexKept, RuntimeKept, CoreKept,
         CoreStops, Current, Running, mem_vars, disk_vars

(* The next instance starts from what is on disk.                          *)
LEMMA HelperRestartsInv ==
  ASSUME TxInv, HelperRestarts
  PROVE  TxInv'
<1>0. /\ TypeOK /\ txn' = Idle /\ core' = NoConfig /\ fetched' = NoConfig
      /\ booted' = FALSE /\ mem_index' = disk_index /\ mem_set' = disk_set
      /\ UNCHANGED <<disk_index, disk_set, runtime, published, faults>>
  BY DEF HelperRestarts, TxInv
<1>1. content' \in [Urls -> Contents]
  BY <1>0, InReachType DEF HelperRestarts, TypeOK
<1>2. TypeOK'
  BY <1>0, <1>1, IdleType DEF TypeOK
<1> QED BY <1>0, <1>2, IdleInv DEF Running

(* A recovery begins, and copies the index, the settings and the texts.    *)
LEMMA CopyInv ==
  ASSUME TxInv, BackupRestore \/ CopyIndex \/ CopySettings \/ CopyText
  PROVE  TxInv'
<1>0. /\ TypeOK /\ IndexKept /\ RuntimeKept /\ CoreKept
      /\ UNCHANGED <<booted, mem_index, mem_set, runtime, core, fetched,
                     published, faults>>
  BY DEF TxInv, BackupRestore, CopyIndex, CopySettings, CopyText, mem_vars,
         disk_vars
<1>1. /\ txn' \in Transactions
      /\ txn'.kind = "recovery" /\ txn'.step \in Copies
      /\ txn'.url = NoUrl /\ txn'.faults <= faults
      /\ txn'.hot => txn'.runtime # NoConfig
  <2>1. CASE BackupRestore
    <3>1. txn' = [Idle EXCEPT !.kind = "recovery", !.step = "index"]
      BY <2>1 DEF BackupRestore
    <3>2. "recovery" \in Kinds /\ "index" \in TxSteps /\ "index" \in Copies
      BY DEF Kinds, TxSteps, Copies
    <3>3. txn' \in Transactions
      BY <3>1, <3>2, IdleType DEF Transactions
    <3>4. /\ txn'.kind = "recovery" /\ txn'.step = "index"
          /\ txn'.url = NoUrl /\ ~txn'.hot /\ txn'.faults = 0
      BY <3>1, IdleType DEF Transactions
    <3> QED BY <1>0, <3>2, <3>3, <3>4, StoreAssumption DEF TypeOK
  <2>2. CASE CopyIndex \/ CopySettings \/ CopyText
    <3>1. /\ txn \in Transactions
          /\ txn.kind = "recovery" /\ txn.url = NoUrl
          /\ txn.hot => txn.runtime # NoConfig
          /\ txn.step \in Copies /\ txn.faults <= faults
      BY <1>0, <2>2, StoreAssumption
      DEF CopyIndex, CopySettings, CopyText, InTxn, TypeOK, IndexKept,
          Transactions, Copies, RuntimeKept, CoreKept
    <3>2. "set" \in TxSteps /\ "texts" \in TxSteps
      BY DEF TxSteps, Copies
    <3> QED BY <2>2, <3>1, <3>2, StepType
            DEF CopyIndex, CopySettings, CopyText, Copies
  <2> QED BY <2>1, <2>2
<1>2. disk_index' \in Indexes /\ disk_set' \in Nets
  BY <1>0, ArchivedAssumption
  DEF TypeOK, BackupRestore, CopyIndex, CopySettings, CopyText, disk_vars
<1>3. content' \in [Urls -> Contents]
  <2>1. CASE CopyText
    <3>1. PICK u \in disk_index.items, v \in 1 .. published :
            WriteContent(u, v)
      BY <2>1 DEF CopyText
    <3>2. u \in Urls /\ v \in Contents
      BY <1>0, <3>1, StoreAssumption DEF TypeOK, Indexes, Versions, Contents
    <3> QED BY <1>0, <3>1, <3>2, WriteContentType
  <2>2. CASE BackupRestore \/ CopyIndex \/ CopySettings
    BY <1>0, <2>2
    DEF TypeOK, BackupRestore, CopyIndex, CopySettings, disk_vars
  <2> QED BY <2>1, <2>2 DEF TxInv
<1>4. TypeOK'
  BY <1>0, <1>1, <1>2, <1>3 DEF TypeOK
<1>5. SettingsKept' /\ IndexKept'
  BY <1>1 DEF SettingsKept, IndexKept
<1>6. RuntimeKept'
  BY <1>0, <1>1 DEF RuntimeKept, Copies
<1>7. CoreKept'
  BY <1>0, <1>1 DEF CoreKept, Copies, Running
<1> QED BY <1>4, <1>5, <1>6, <1>7 DEF TxInv

(* It ends with both stores read again, or with a copy that failed.        *)
LEMMA RecoveryEndsInv ==
  ASSUME TxInv, CopyFails \/ Reload
  PROVE  TxInv'
<1>0. /\ TypeOK /\ CoreKept /\ txn' = Idle
      /\ UNCHANGED <<booted, disk_index, disk_set, runtime, core, fetched,
                     published>>
  BY DEF TxInv, CopyFails, Reload, mem_vars
<1>1. /\ mem_index' \in Indexes /\ mem_set' \in Nets
      /\ faults' \in 0 .. MAX_FAULTS
  BY <1>0, FaultType DEF CopyFails, Reload, TypeOK, mem_vars, NoFault
<1>2. content' \in [Urls -> Contents]
  <2>1. CASE Reload
    BY <1>0, <2>1, InReachType DEF Reload, TypeOK
  <2>2. CASE CopyFails
    <3>1. disk_index.items \subseteq Urls /\ Torn \in Contents
      BY <1>0, StoreAssumption DEF TypeOK, Indexes, Torn, Contents
    <3> QED BY <1>0, <2>2, <3>1, WriteContentType DEF CopyFails, TypeOK
  <2> QED BY <2>1, <2>2
<1>3. TypeOK'
  BY <1>0, <1>1, <1>2, IdleType DEF TypeOK
<1> QED BY <1>0, <1>3, IdleInv DEF CoreKept, Running

(* The timer and the servers change nothing that the invariant is about.   *)
LEMMA OutsideWorldInv ==
  ASSUME TxInv, (\E u \in Urls : AutoFetch(u)) \/ AutoSkip \/ Publish
  PROVE  TxInv'
<1>0. /\ TypeOK /\ SettingsKept /\ IndexKept /\ RuntimeKept /\ CoreKept
      /\ UNCHANGED <<booted, mem_index, mem_set, disk_index, content, disk_set,
                     runtime, core, txn, faults>>
  BY DEF TxInv, AutoFetch, AutoSkip, Publish, mem_vars, disk_vars
<1>1. /\ fetched' \in [url : Urls, version : Versions] \cup {NoConfig}
      /\ published' \in Versions
  BY <1>0, StoreAssumption
  DEF TypeOK, AutoFetch, AutoSkip, Publish, Versions
<1>2. TypeOK'
  BY <1>0, <1>1 DEF TypeOK
<1>3. SettingsKept' /\ IndexKept' /\ RuntimeKept' /\ CoreKept'
  BY <1>0 DEF Copies, SettingsKept, IndexKept, RuntimeKept, CoreKept, Current, Running
<1> QED BY <1>2, <1>3 DEF TxInv

-----------------------------------------------------------------------------
(* A step that changes nothing.                                            *)
LEMMA StutterInv ==
  ASSUME TxInv, UNCHANGED vars
  PROVE  TxInv'
  BY DEF Copies, TxInv, TypeOK, SettingsKept, IndexKept, RuntimeKept, CoreKept,
         Current, Running, vars, mem_vars, disk_vars

(* Every step keeps the invariant.                                         *)
LEMMA StepTxInv == TxInv /\ [Next]_vars => TxInv'
<1> SUFFICES ASSUME TxInv, [Next]_vars PROVE TxInv'
  OBVIOUS
<1>1. CASE \E u \in Urls : \/ SetCurrent(u) \/ Import(u)
                          \/ Remove(u) \/ RestoreVersion(u)
  <2> PICK u \in Urls : \/ SetCurrent(u) \/ Import(u)
                       \/ Remove(u) \/ RestoreVersion(u)
    BY <1>1
  <2>1. CASE SetCurrent(u)
    BY <2>1, SetCurrentInv
  <2>2. CASE Import(u)
    <3>1. published \in Versions
      BY DEF TxInv, TypeOK
    <3> QED BY <2>2, <3>1, InstallInv DEF Import
  <2>3. CASE Remove(u)
    BY <2>3, RemoveInv
  <2>4. CASE RestoreVersion(u)
    BY <2>4, RestoreVersionInv
  <2> QED BY <2>1, <2>2, <2>3, <2>4
<1>2. CASE \E n \in Nets : SettingsSet(n) \/ ApplyConfig(n)
  BY <1>2, SettingsSetInv, ApplyConfigInv
<1>3. CASE Timer
  BY <1>3, OutsideWorldInv, AutoApplyInv DEF Timer
<1>4. CASE BootRegenerate
  BY <1>4, BootRegenerateInv
<1>5. CASE Regenerate
  BY <1>5, RegenRefusedInv, RegenWriteInv, RegenReloadInv, RegenVerifyInv,
     RegenUndoWriteInv, RegenUndoReloadInv, CommitInv, AbortInv
  DEF Regenerate
<1>6. CASE World
  BY <1>6, CoreStartsInv, CoreStopsInv, HelperRestartsInv, OutsideWorldInv
  DEF World
<1>7. CASE UNCHANGED vars
  BY <1>7, StutterInv
<1>8. CASE BackupRestore \/ Recovery
  BY <1>8, CopyInv, RecoveryEndsInv DEF Recovery
<1> QED BY <1>1, <1>2, <1>3, <1>4, <1>5, <1>6, <1>7, <1>8 DEF Next, Request

(* The transactions keep their books: what is in memory, on disk and in    *)
(* the core is, at every step, what the snapshot and the step say.         *)
THEOREM TransactionInvariant == Spec => []TxInv
<1> QED BY InitTxInv, StepTxInv, PTL DEF Spec

(* Every variable keeps its type, and both indexes name a current profile  *)
(* that exists.                                                            *)
THEOREM StoreTypes == Spec => []TypeOK
<1>1. TxInv => TypeOK
  BY DEF TxInv
<1> QED BY <1>1, TransactionInvariant, PTL

(* A request or a task that begins, or that ends at once, leaves what the  *)
(* helper goes by and clard.toml.                                          *)
LEMMA OutsideKeepsSettings ==
  ASSUME TypeOK, Request \/ BootRegenerate \/ Timer
  PROVE  /\ Loaded' = Loaded /\ disk_set' = disk_set
         /\ txn.kind # "recovery" \/ txn'.kind = "recovery"
<1>1. ASSUME Free, NEW k \in Kinds, NEW u \in Urls \cup {NoUrl}, Begin(k, u),
             k = "settings" \/ mem_set' = mem_set, k # "recovery"
      PROVE  Loaded' = Loaded /\ txn.kind # "recovery"
  <2>1. txn'.kind = k /\ txn'.set = mem_set /\ txn.kind = "none"
    BY <1>1, BeginType, IdleType DEF Free
  <2> QED BY <1>1, <2>1 DEF Loaded
<1>2. ASSUME txn' = txn, mem_set' = mem_set
      PROVE  /\ Loaded' = Loaded
             /\ txn.kind # "recovery" \/ txn'.kind = "recovery"
  BY <1>2 DEF Loaded
<1>3. ASSUME NEW n \in Nets, SettingsSet(n) \/ ApplyConfig(n)
      PROVE  /\ Loaded' = Loaded /\ disk_set' = disk_set
             /\ txn.kind # "recovery" \/ txn'.kind = "recovery"
  BY <1>1, <1>2, <1>3 DEF SettingsSet, ApplyConfig, Kinds, mem_vars, disk_vars
<1>4. ASSUME NEW u \in Urls,
             SetCurrent(u) \/ Import(u) \/ Remove(u) \/ RestoreVersion(u)
      PROVE  /\ Loaded' = Loaded /\ disk_set' = disk_set
             /\ txn.kind # "recovery" \/ txn'.kind = "recovery"
  BY <1>1, <1>2, <1>4
  DEF SetCurrent, Import, Install, Remove, RestoreVersion, Kinds, mem_vars
<1>5. CASE BackupRestore
  BY <1>5, IdleType DEF BackupRestore, Free, Loaded, mem_vars, disk_vars, Idle
<1>6. CASE BootRegenerate
  BY <1>1, <1>6 DEF BootRegenerate, Kinds, mem_vars, disk_vars
<1>7. CASE Timer
  <2>1. CASE AutoApply
    <3>1. fetched.url \in Urls
      BY <2>1 DEF AutoApply, TypeOK
    <3> QED BY <1>1, <1>2, <2>1, <3>1 DEF AutoApply, Install, Kinds
  <2>2. CASE AutoSkip \/ \E u \in Urls : AutoFetch(u)
    BY <1>2, <2>2 DEF AutoSkip, AutoFetch, mem_vars, disk_vars
  <2> QED BY <1>7, <2>1, <2>2 DEF Timer
<1> QED BY <1>3, <1>4, <1>5, <1>6, <1>7 DEF Request

(* A transaction leaves both until it commits; a SettingsSet changes both  *)
(* then, or neither.                                                       *)
LEMMA RegenerateKeepsSettings ==
  ASSUME TxInv, Regenerate
  PROVE  /\ txn.kind # "recovery"
         /\ \/ Loaded' = Loaded /\ disk_set' = disk_set
            \/ Loaded' = disk_set'
<1>0. TypeOK /\ RuntimeKept /\ txn \in Transactions
  BY DEF TxInv, TypeOK
<1>1. txn.kind # "recovery" /\ txn.kind # "none"
  BY <1>0
  DEF Regenerate, RegenRefused, RegenWrite, RegenReload, RegenVerify,
      RegenUndoWrite, RegenUndoReload, Commit, Abort, InTxn, Copies,
      RuntimeKept
<1>2. ASSUME NEW s \in TxSteps, Step(s), UNCHANGED <<mem_set, disk_set>>
      PROVE  Loaded' = Loaded /\ disk_set' = disk_set
  <2>1. txn'.kind = txn.kind /\ txn'.set = txn.set
    BY <1>0, <1>2, StepType
  <2> QED BY <1>2, <2>1 DEF Loaded
<1>3. CASE \/ RegenRefused \/ RegenWrite \/ RegenReload \/ RegenVerify
           \/ RegenUndoWrite \/ RegenUndoReload
  <2>1. UNCHANGED <<mem_set, disk_set>>
    BY <1>3
    DEF RegenRefused, RegenWrite, RegenReload, RegenVerify, RegenUndoWrite,
        RegenUndoReload, mem_vars, disk_vars
  <2>2. \E s \in TxSteps : Step(s)
    BY <1>3
    DEF RegenRefused, RegenWrite, RegenReload, RegenVerify, RegenUndoWrite,
        RegenUndoReload, TxSteps
  <2> QED BY <1>1, <1>2, <2>1, <2>2
<1>4. CASE Commit
  <2>1. txn' = Idle /\ Loaded' = mem_set'
    BY <1>4, IdleType DEF Commit, Done, Loaded
  <2>2. CASE txn.kind # "settings"
    BY <1>1, <1>4, <2>1, <2>2 DEF Commit, Loaded
  <2>3. CASE txn.kind = "settings"
    BY <1>4, <2>1, <2>3 DEF Commit, Loaded
  <2> QED BY <1>1, <2>2, <2>3
<1>5. CASE Abort
  BY <1>5, IdleType
  DEF Abort, Done, Loaded, AbortSettings, AbortInstall, AbortSwitch,
      AbortBoot, mem_vars
<1> QED BY <1>1, <1>3, <1>4, <1>5 DEF Regenerate

(* A recovery parts them as it copies; they are one again when it ends     *)
(* well.                                                                   *)
LEMMA RecoveryKeepsSettings ==
  ASSUME TxInv, Recovery
  PROVE  /\ Loaded' = Loaded \/ Loaded' = disk_set'
         /\ \/ Loaded' = disk_set' \/ faults' > faults
            \/ txn'.kind = "recovery"
<1>0. TypeOK /\ RuntimeKept /\ txn \in Transactions
  BY DEF TxInv, TypeOK
<1>1. txn.kind = "recovery" /\ Loaded = mem_set
  BY <1>0
  DEF Recovery, CopyIndex, CopySettings, CopyText, CopyFails, Reload, InTxn,
      Copies, RuntimeKept, Loaded
<1>2. CASE CopyIndex \/ CopySettings \/ CopyText
  <2>1. txn'.kind = "recovery" /\ mem_set' = mem_set
    BY <1>0, <1>1, <1>2, StepType
    DEF CopyIndex, CopySettings, CopyText, TxSteps, Copies, mem_vars
  <2> QED BY <1>1, <2>1 DEF Loaded
<1>3. CASE CopyFails
  <2>1. faults' > faults
    BY <1>0, <1>3, StoreAssumption DEF CopyFails, Fault, TypeOK
  <2>2. Loaded' = mem_set' /\ mem_set' = mem_set
    BY <1>3, IdleType DEF CopyFails, Loaded, mem_vars
  <2> QED BY <1>1, <2>1, <2>2
<1>4. CASE Reload
  BY <1>4, IdleType DEF Reload, Loaded
<1> QED BY <1>2, <1>3, <1>4 DEF Recovery

(* What the helper goes by becomes what clard.toml says, and nothing else, *)
(* at each step that changes it; no step but the copy of a recovery parts  *)
(* the two.                                                                *)
THEOREM SettingsNotSilentlyChangedAlways ==
  Spec => SettingsNotSilentlyChanged
<1> DEFINE P ==
      /\ Loaded' # Loaded => Loaded' = disk_set'
      /\ Loaded' # disk_set' =>
           \/ Loaded # disk_set /\ txn.kind # "recovery"
           \/ txn'.kind = "recovery"
           \/ faults' > faults
<1>1. TxInv /\ [Next]_vars => [P]_vars
  <2> SUFFICES ASSUME TxInv, Next PROVE P
    OBVIOUS
  <2>0. TypeOK
    BY DEF TxInv
  <2>1. CASE Request \/ BootRegenerate \/ Timer
    BY <2>0, <2>1, OutsideKeepsSettings
  <2>2. CASE Regenerate
    BY <2>2, RegenerateKeepsSettings
  <2>3. CASE Recovery
    BY <2>3, RecoveryKeepsSettings
  <2>4. CASE World
    <3>1. CASE HelperRestarts
      BY <3>1, IdleType DEF HelperRestarts, Loaded
    <3>2. CASE CoreStarts
      <4>1. txn' = txn /\ mem_set' = mem_set /\ disk_set' = disk_set
        BY <3>2 DEF CoreStarts, mem_vars, disk_vars
      <4>2. txn.kind # "recovery"
        BY <3>2, IdleType DEF CoreStarts, Free
      <4> QED BY <4>1, <4>2 DEF Loaded
    <3>3. CASE CoreStops \/ Publish
      BY <3>3 DEF CoreStops, Publish, Loaded, mem_vars, disk_vars
    <3> QED BY <2>4, <3>1, <3>2, <3>3 DEF World
  <2> QED BY <2>1, <2>2, <2>3, <2>4 DEF Next
<1> QED BY <1>1, TransactionInvariant, PTL
    DEF Spec, SettingsNotSilentlyChanged

(* A transaction that commits, its writes done, has been applied.          *)
THEOREM CommitIsAppliedAlways == Spec => CommitIsApplied
<1> DEFINE P ==
      Commit /\ faults' = txn.faults =>
        /\ runtime' = Assembled(Current', mem_set')
        /\ txn.kind = "settings" => disk_set' = mem_set'
        /\ txn.kind \in {"import", "autoupdate", "switch"} =>
             disk_index' = mem_index'
        /\ txn.kind # "boot" => core' \in {runtime', NoConfig}
<1>1. TxInv /\ [Next]_vars => [P]_vars
  <2> SUFFICES ASSUME TxInv, Commit, faults' = txn.faults PROVE P
    OBVIOUS
  <2>0. /\ faults \in Nat /\ txn.faults <= faults /\ txn.kind # "none"
        /\ txn.step = "commit" /\ txn.faults \in Nat
    BY StoreAssumption
    DEF Copies, TxInv, TypeOK, RuntimeKept, Commit, InTxn, Transactions
  <2>1. ~Fault
    BY <2>0 DEF Fault
  <2>2. /\ UNCHANGED <<mem_index, disk_index, content, runtime, core>>
        /\ IF txn.kind # "settings"
           THEN mem_set' = mem_set /\ disk_set' = disk_set
           ELSE mem_set' = mem_set /\ disk_set' = mem_set
    BY <2>1 DEF Commit
  <2>3. runtime = Assembled(Current, mem_set)
    BY <2>0 DEF Copies, TxInv, RuntimeKept
  <2>4. runtime' = Assembled(Current', mem_set')
    BY <2>2, <2>3 DEF Current
  <2>5. txn.kind = "settings" => disk_set' = mem_set'
    BY <2>2
  <2>6. txn.kind \in {"import", "autoupdate", "switch"} =>
          disk_index' = mem_index'
    BY <2>2 DEF TxInv, IndexKept
  <2>7. txn.kind # "boot" => core' \in {runtime', NoConfig}
    BY <2>0, <2>2 DEF TxInv, CoreKept
  <2> QED BY <2>4, <2>5, <2>6, <2>7
<1> QED BY <1>1, TransactionInvariant, PTL DEF Spec, CommitIsApplied

(* A transaction that aborts, its rollback writes done, leaves no trace.   *)
THEOREM AbortLeavesNoTraceAlways == Spec => AbortLeavesNoTrace
<1> DEFINE P ==
      Abort /\ faults' = txn.faults =>
        /\ mem_set' = txn.set
        /\ runtime' = txn.runtime
        /\ txn.url # NoUrl /\ txn.content # Missing =>
             content'[txn.url] = txn.content
        /\ txn.kind # "switch" \/ txn.index.current # NoUrl =>
             mem_index' = txn.index
        /\ txn.kind # "boot" /\ txn.kind # "settings" =>
             disk_index' = mem_index'
<1>1. TxInv /\ [Next]_vars => [P]_vars
  <2> SUFFICES ASSUME TxInv, Abort, faults' = txn.faults PROVE P
    OBVIOUS
  <2>0. /\ TypeOK /\ SettingsKept /\ IndexKept /\ RuntimeKept
        /\ txn.kind # "none" /\ txn.step = "abort"
        /\ UNCHANGED <<disk_set, runtime>>
    BY DEF TxInv, Abort, InTxn
  <2>1. faults' = faults /\ ~Fault
    <3>1. faults \in Nat /\ txn.faults <= faults /\ txn.faults \in Nat
      BY <2>0, StoreAssumption DEF Copies, TypeOK, RuntimeKept, Transactions
    <3>2. faults' = faults \/ faults' = faults + 1
      BY DEF Abort, AbortSettings, AbortInstall, AbortSwitch, AbortBoot,
             SaveIndex, SaveIndexFails, WriteContentFails, Fault, NoFault
    <3> QED BY <3>1, <3>2 DEF Fault
  <2>2. runtime' = txn.runtime
    BY <2>0, <2>1 DEF Copies, RuntimeKept
  <2>3. mem_set' = txn.set
    BY <2>0
    DEF SettingsKept, Abort, AbortSettings, AbortInstall, AbortSwitch,
        AbortBoot, mem_vars
  <2>4. ASSUME txn.url # NoUrl
        PROVE  AbortInstall /\ txn.url \in Urls
    <3>1. txn.kind \in {"import", "autoupdate"}
      BY <2>0, <2>4 DEF IndexKept
    <3>2. txn.url \in Urls
      BY <2>0, <2>4 DEF TypeOK, Transactions
    <3> QED
      BY <3>1, <3>2 DEF Abort, AbortSettings, AbortSwitch, AbortBoot
  <2>5. ASSUME txn.url # NoUrl, txn.content # Missing
        PROVE  content'[txn.url] = txn.content
    <3>1. WriteContent(txn.url, txn.content)
      BY <2>1, <2>4, <2>5 DEF AbortInstall, WriteContentFails
    <3> QED BY <2>0, <2>4, <2>5, <3>1 DEF WriteContent, TypeOK
  <2>6. ASSUME txn.kind # "switch" \/ txn.index.current # NoUrl
        PROVE  mem_index' = txn.index
    <3>1. CASE AbortSettings \/ AbortBoot
      BY <2>0, <3>1 DEF AbortSettings, AbortBoot, IndexKept, mem_vars
    <3>2. CASE AbortInstall
      BY <3>2 DEF AbortInstall
    <3>3. CASE AbortSwitch
      <4>1. mem_index' = [mem_index EXCEPT !.current = txn.index.current]
        BY <2>6, <3>3 DEF AbortSwitch
      <4>2. mem_index.items = txn.index.items
        BY <2>0, <3>3 DEF AbortSwitch, IndexKept
      <4>3. mem_index \in Indexes /\ txn.index \in Indexes
        BY <2>0 DEF TypeOK, Transactions
      <4> QED BY <4>1, <4>2, <4>3 DEF Indexes
    <3> QED BY <3>1, <3>2, <3>3 DEF Abort
  <2>7. ASSUME txn.kind # "boot", txn.kind # "settings"
        PROVE  disk_index' = mem_index'
    BY <2>0, <2>1, <2>7
    DEF IndexKept, Abort, AbortSettings, AbortInstall, AbortSwitch, AbortBoot,
        SaveIndex, SaveIndexFails
  <2> QED BY <2>2, <2>3, <2>5, <2>6, <2>7
<1> QED BY <1>1, TransactionInvariant, PTL DEF Spec, AbortLeavesNoTrace

-----------------------------------------------------------------------------
(* ConfigStore implements AtomicConfig: each step of a transaction is one  *)
(* of its actions or none at all.                                          *)

(* What is being tried is a configuration made with the settings in        *)
(* memory.                                                                 *)
Tried == Trying => runtime \in Configs /\ runtime.net = mem_set

AtomicStep == [Atomic!Next]_(Atomic!vars)

-----------------------------------------------------------------------------
(* Outside a transaction nothing is asked and the file is in force.        *)
LEMMA FreeMapping ==
  ASSUME Free
  PROVE  /\ ~Trying /\ Asked = {} /\ InForce = runtime
         /\ Loaded = mem_set
BY IdleType DEF Free, Trying, Asked, InForce, Loaded

(* A transaction that begins changes neither.                              *)
LEMMA BeginMapping ==
  ASSUME TypeOK, Free, NEW k \in Kinds, NEW u \in Urls \cup {NoUrl},
         Begin(k, u), runtime' = runtime,
         k = "settings" \/ mem_set' = mem_set
  PROVE  /\ ~Trying' /\ InForce' = InForce /\ Loaded' = Loaded
         /\ Asked' = (IF k = "settings" THEN {mem_set'} ELSE {})
<1>1. txn'.kind = k /\ txn'.step = "regen" /\ txn'.set = mem_set
  BY BeginType
<1> QED BY <1>1, FreeMapping DEF Trying, InForce, Asked, Loaded

(* A write that fails, or none, and everything the mapping looks at as it  *)
(* was.                                                                    *)
LEMMA QuietStep ==
  ASSUME Asked' = Asked, InForce' = InForce, Loaded' = Loaded,
         disk_set' = disk_set, booted' = booted, NoFault \/ Fault
  PROVE  AtomicStep
<1>1. CASE NoFault
  BY <1>1 DEF NoFault, AtomicStep, Atomic!vars
<1>2. CASE Fault
  <2>1. Atomic!WriteFails
    BY <1>2 DEF Fault, Atomic!WriteFails, Atomic!Unsettled
  <2> QED BY <2>1 DEF AtomicStep, Atomic!Next
<1> QED BY <1>1, <1>2

(* A configuration made with some settings.                                *)
LEMMA UnderFact ==
  ASSUME NEW c \in Configs, NEW S, c.net \in S
  PROVE  c \in Atomic!Under(S)
BY DEF Configs, Atomic!Under

-----------------------------------------------------------------------------
LEMMA InitTried == Init => Tried
BY IdleType DEF Init, Tried, Trying

LEMMA StepTried == TxInv /\ Tried /\ [Next]_vars => Tried'
<1> SUFFICES ASSUME TxInv, Tried, [Next]_vars PROVE Tried'
  OBVIOUS
<1> USE DEF TxInv
<1>1. ASSUME txn' = txn, mem_set' = mem_set, runtime' = runtime
      PROVE  Tried'
  BY <1>1 DEF Tried, Trying
<1>2. ASSUME txn'.step \notin {"reload", "verify", "commit", "undo_write"}
      PROVE  Tried'
  BY <1>2 DEF Tried, Trying
<1>3. ASSUME txn.step = "regen", txn' = txn PROVE Tried'
  BY <1>2, <1>3
<1>4. ASSUME NEW k \in Kinds, NEW u \in Urls \cup {NoUrl}, Begin(k, u)
      PROVE  Tried'
  <2>1. txn'.step = "regen"
    BY <1>4, BeginType
  <2> QED BY <1>2, <2>1
<1>5. Free => txn.step = "regen"
  BY IdleType DEF Free
<1>6. CASE Request
  <2>1. ASSUME NEW n \in Nets, SettingsSet(n) PROVE Tried'
    BY <2>1, <1>4 DEF SettingsSet, Kinds
  <2>2. ASSUME NEW n \in Nets, ApplyConfig(n) PROVE Tried'
    BY <2>2, <1>3, <1>5 DEF ApplyConfig
  <2>3. ASSUME NEW u \in Urls, SetCurrent(u) PROVE Tried'
    BY <2>3, <1>3, <1>4, <1>5 DEF SetCurrent, Kinds
  <2>4. ASSUME NEW u \in Urls, Import(u) PROVE Tried'
    BY <2>4, <1>3, <1>4, <1>5 DEF Import, Install, Kinds
  <2>5. ASSUME NEW u \in Urls, Remove(u) PROVE Tried'
    BY <2>5, <1>3, <1>5 DEF Remove
  <2>6. ASSUME NEW u \in Urls, RestoreVersion(u) PROVE Tried'
    BY <2>6, <1>3, <1>5 DEF RestoreVersion
  <2>7. CASE BackupRestore
    <3>1. txn'.step = "index"
      BY <2>7, IdleType DEF BackupRestore, Idle
    <3> QED BY <1>2, <3>1
  <2> QED BY <1>6, <2>1, <2>2, <2>3, <2>4, <2>5, <2>6, <2>7 DEF Request
<1>7. CASE Timer
  <2>1. ASSUME NEW u \in Urls, AutoFetch(u) PROVE Tried'
    BY <2>1, <1>3, <1>5 DEF AutoFetch
  <2>2. CASE AutoSkip
    BY <2>2, <1>1 DEF AutoSkip, mem_vars, disk_vars
  <2>3. CASE AutoApply
    <3>1. fetched.url \in Urls
      BY <2>3 DEF AutoApply, TypeOK
    <3> QED BY <2>3, <3>1, <1>3, <1>4, <1>5 DEF AutoApply, Install, Kinds
  <2> QED BY <1>7, <2>1, <2>2, <2>3 DEF Timer
<1>8. CASE BootRegenerate
  BY <1>8, <1>4 DEF BootRegenerate, Kinds
<1>9. CASE Regenerate
  <2>0. ASSUME NEW s \in TxSteps, Step(s) PROVE txn'.step = s
    BY <2>0, StepType DEF TypeOK
  <2>1. CASE RegenRefused
    BY <2>1, <2>0, <1>2 DEF RegenRefused, TxSteps
  <2>2. CASE RegenWrite
    <3>1. runtime' = Assembled(Current, mem_set) /\ mem_set' = mem_set
      BY <2>2 DEF RegenWrite, mem_vars
    <3>2. Current \in Contents /\ mem_set \in Nets
      BY <2>2, CurrentType DEF RegenWrite, Assembles, TypeOK
    <3> QED BY <3>1, <3>2 DEF Tried, Assembled, Configs
  <2>3. CASE RegenReload \/ RegenVerify
    BY <2>3, <2>0
    DEF RegenReload, RegenVerify, InTxn, Tried, Trying, TxSteps, mem_vars,
        disk_vars
  <2>4. CASE RegenUndoWrite
    BY <2>4, <2>0, <1>2 DEF RegenUndoWrite, TxSteps
  <2>5. CASE RegenUndoReload
    BY <2>5, <2>0, <1>2 DEF RegenUndoReload, TxSteps
  <2>6. CASE Commit \/ Abort
    BY <2>6, <1>2, IdleType DEF Commit, Abort, Done
  <2> QED BY <1>9, <2>1, <2>2, <2>3, <2>4, <2>5, <2>6 DEF Regenerate
<1>10. CASE World
  <2>1. CASE CoreStarts \/ CoreStops \/ Publish
    BY <2>1, <1>1 DEF CoreStarts, CoreStops, Publish, mem_vars, disk_vars
  <2>2. CASE HelperRestarts
    BY <2>2, <1>2, IdleType DEF HelperRestarts
  <2> QED BY <1>10, <2>1, <2>2 DEF World
<1>11. CASE UNCHANGED vars
  BY <1>11, <1>1 DEF vars, mem_vars, disk_vars
<1>12. CASE Recovery
  <2>1. CASE CopyIndex \/ CopySettings
    <3>1. txn'.step \in {"set", "texts"}
      BY <2>1, StepType DEF CopyIndex, CopySettings, TypeOK, TxSteps, Copies
    <3> QED BY <1>2, <3>1
  <2>2. CASE CopyText
    BY <2>2, <1>2 DEF CopyText, InTxn
  <2>3. CASE CopyFails \/ Reload
    BY <2>3, <1>2, IdleType DEF CopyFails, Reload
  <2> QED BY <1>12, <2>1, <2>2, <2>3 DEF Recovery
<1> QED BY <1>6, <1>7, <1>8, <1>9, <1>10, <1>11, <1>12 DEF Next

-----------------------------------------------------------------------------
(* Each group of actions, mapped.                                          *)

LEMMA RequestMaps == ASSUME TypeOK, Request PROVE AtomicStep
<1>1. ASSUME NEW n \in Nets, SettingsSet(n) PROVE AtomicStep
  <2>1. /\ Free /\ Begin("settings", NoUrl) /\ mem_set' = n
        /\ UNCHANGED <<booted, disk_set, runtime, faults>>
    BY <1>1 DEF SettingsSet, disk_vars
  <2>2. /\ Asked = {} /\ Asked' = {n}
        /\ InForce' = InForce /\ Loaded' = Loaded
    BY <2>1, FreeMapping, BeginMapping DEF Kinds
  <2>3. Atomic!Ask(n)
    BY <2>1, <2>2 DEF Atomic!Ask
  <2> QED BY <2>3 DEF AtomicStep, Atomic!Next
<1>2. ASSUME NEW n \in Nets, ApplyConfig(n) PROVE AtomicStep
  <2>1. /\ Free /\ txn' = txn /\ runtime' = Assembled(Foreign, n)
        /\ UNCHANGED <<booted, disk_set, mem_set, faults>>
    BY <1>2 DEF ApplyConfig, NoFault, mem_vars
  <2>2. /\ Asked = {} /\ Asked' = {}
        /\ InForce' = runtime' /\ Loaded' = Loaded
    BY <2>1, FreeMapping DEF Asked, InForce, Trying, Loaded
  <2>3. /\ runtime' \in Configs /\ runtime'.net \in Nets
        /\ runtime'.profile = Foreign
    BY <2>1, StoreAssumption DEF Assembled, Configs, Contents, Foreign
  <2>4. Atomic!ApplyConfig
    BY <2>1, <2>2, <2>3, UnderFact DEF Atomic!ApplyConfig
  <2> QED BY <2>4 DEF AtomicStep, Atomic!Next
<1>3. ASSUME NEW u \in Urls, SetCurrent(u) PROVE AtomicStep
  <2>1. CASE txn' = txn
    BY <1>3, <2>1, QuietStep
    DEF SetCurrent, SaveIndex, SaveIndexFails, Asked, InForce, Trying, Loaded
  <2>2. CASE Begin("switch", NoUrl)
    BY <1>3, <2>2, FreeMapping, BeginMapping, QuietStep
    DEF SetCurrent, SaveIndex, SaveIndexFails, Kinds
  <2> QED BY <1>3, <2>1, <2>2 DEF SetCurrent
<1>4. ASSUME NEW u \in Urls, Import(u) PROVE AtomicStep
  <2>0. /\ Free /\ (NoFault \/ Fault)
        /\ UNCHANGED <<booted, disk_set, mem_set, runtime>>
    BY <1>4
    DEF Import, Install, SaveIndex, SaveIndexFails, WriteContentFails
  <2>1. CASE txn' = txn
    BY <2>0, <2>1, QuietStep DEF Asked, InForce, Trying, Loaded
  <2>2. CASE Begin("import", u)
    BY <2>0, <2>2, FreeMapping, BeginMapping, QuietStep DEF Kinds
  <2> QED BY <1>4, <2>1, <2>2 DEF Import, Install
<1>5. ASSUME NEW u \in Urls, Remove(u) \/ RestoreVersion(u)
      PROVE  AtomicStep
  BY <1>5, QuietStep
  DEF Remove, RestoreVersion, SaveIndex, SaveIndexFails, WriteContentFails,
      mem_vars, Asked, InForce, Trying, Loaded
<1>6. CASE BackupRestore
  <2>1. /\ Free /\ NoFault /\ txn'.kind = "recovery" /\ txn'.step = "index"
        /\ UNCHANGED <<booted, disk_set, mem_set, runtime>>
    BY <1>6, IdleType
    DEF BackupRestore, NoFault, Idle, mem_vars, disk_vars
  <2>2. Asked' = {} /\ InForce' = runtime /\ Loaded' = mem_set
    BY <2>1 DEF Asked, InForce, Trying, Loaded
  <2> QED BY <2>1, <2>2, FreeMapping, QuietStep
<1> QED BY <1>1, <1>2, <1>3, <1>4, <1>5, <1>6 DEF Request

(* A recovery replaces the settings, and the helper reads them again.      *)
LEMMA RecoveryMaps == ASSUME TxInv, Recovery PROVE AtomicStep
<1> USE DEF TxInv
<1>1. /\ txn.kind = "recovery" /\ txn.step \in Copies /\ ~Trying
      /\ Asked = {} /\ InForce = runtime /\ Loaded = mem_set
  BY DEF Recovery, CopyIndex, CopySettings, CopyText, CopyFails, Reload, InTxn,
         Copies, RuntimeKept, Loaded, Trying, Asked, InForce
<1>2. UNCHANGED <<booted, runtime>>
  BY DEF Recovery, CopyIndex, CopySettings, CopyText, CopyFails, Reload
<1>3. CASE CopyIndex \/ CopySettings \/ CopyText
  <2>1. txn'.kind = "recovery" /\ txn'.step \in Copies
    BY <1>1, <1>3, StepType
    DEF CopyIndex, CopySettings, CopyText, TxSteps, Copies, TypeOK
  <2>2. Asked' = {} /\ InForce' = runtime /\ Loaded' = mem_set
    <3>1. mem_set' = mem_set
      BY <1>3 DEF CopyIndex, CopySettings, CopyText, mem_vars
    <3> QED BY <1>2, <2>1, <3>1 DEF Asked, InForce, Trying, Loaded, Copies
  <2>3. disk_set' \in Nets /\ faults' = faults
    BY <1>3 DEF CopyIndex, CopySettings, CopyText, TypeOK
  <2>4. Atomic!Recover
    BY <1>1, <1>2, <2>2, <2>3 DEF Atomic!Recover
  <2> QED BY <2>4 DEF AtomicStep, Atomic!Next
<1>4. CASE CopyFails \/ Reload
  <2>1. Asked' = {} /\ InForce' = runtime /\ Loaded' = mem_set'
    BY <1>2, <1>4, IdleType
    DEF CopyFails, Reload, Asked, InForce, Trying, Loaded
  <2>2. CASE CopyFails
    BY <1>1, <1>2, <2>1, <2>2, QuietStep DEF CopyFails, mem_vars
  <2>3. CASE Reload
    <3>1. Atomic!Reload
      BY <1>1, <1>2, <2>1, <2>3 DEF Reload, Atomic!Reload
    <3> QED BY <3>1 DEF AtomicStep, Atomic!Next
  <2> QED BY <1>4, <2>2, <2>3
<1> QED BY <1>3, <1>4 DEF Recovery

LEMMA TimerMaps == ASSUME TypeOK, Timer PROVE AtomicStep
<1>1. ASSUME NEW u \in Urls, AutoFetch(u) PROVE AtomicStep
  BY <1>1, QuietStep
  DEF AutoFetch, NoFault, mem_vars, disk_vars, Asked, InForce, Trying, Loaded
<1>2. CASE AutoSkip
  BY <1>2, QuietStep
  DEF AutoSkip, NoFault, mem_vars, disk_vars, Asked, InForce, Trying, Loaded
<1>3. CASE AutoApply
  <2>0. /\ Free /\ (NoFault \/ Fault)
        /\ UNCHANGED <<booted, disk_set, mem_set, runtime>>
    BY <1>3
    DEF AutoApply, Install, SaveIndex, SaveIndexFails, WriteContentFails,
        NoFault
  <2>1. CASE txn' = txn
    BY <2>0, <2>1, QuietStep DEF Asked, InForce, Trying, Loaded
  <2>2. CASE Begin("autoupdate", fetched.url) /\ fetched.url \in Urls
    BY <2>0, <2>2, FreeMapping, BeginMapping, QuietStep DEF Kinds
  <2>3. fetched.url \in Urls
    BY <1>3 DEF AutoApply, TypeOK
  <2> QED BY <1>3, <2>1, <2>2, <2>3 DEF AutoApply, Install
<1> QED BY <1>1, <1>2, <1>3 DEF Timer

LEMMA BootMaps == ASSUME TypeOK, BootRegenerate PROVE AtomicStep
<1>1. /\ Free /\ Begin("boot", NoUrl) /\ NoFault
      /\ UNCHANGED <<booted, disk_set, mem_set, runtime>>
  BY DEF BootRegenerate, NoFault, mem_vars, disk_vars
<1> QED BY <1>1, FreeMapping, BeginMapping, QuietStep DEF Kinds

(* regenerate is invisible, but for a rollback that cannot be written.     *)
LEMMA RegenMaps ==
  ASSUME TxInv, Tried, Regenerate, ~Commit, ~Abort PROVE AtomicStep
<1> USE DEF TxInv
<1>0. ASSUME NEW s \in TxSteps, Step(s)
      PROVE  /\ txn'.step = s /\ txn'.kind = txn.kind
             /\ txn'.runtime = txn.runtime /\ txn'.set = txn.set
  BY <1>0, StepType DEF TypeOK
<1>1. CASE RegenRefused
  <2>1. /\ txn.step = "regen" /\ txn'.step = "abort"
        /\ txn'.kind = txn.kind /\ txn'.set = txn.set
        /\ NoFault \/ Fault
        /\ UNCHANGED <<booted, disk_set, mem_set, runtime>>
    BY <1>0, <1>1 DEF RegenRefused, InTxn, TxSteps, mem_vars, disk_vars
  <2> QED BY <2>1, QuietStep DEF Asked, InForce, Trying, Loaded
<1>2. CASE RegenWrite
  <2>1. /\ txn.step = "regen" /\ txn.kind # "none"
        /\ txn'.step \in {"reload", "commit"}
        /\ txn'.kind = txn.kind /\ txn'.runtime = txn.runtime
        /\ txn'.set = txn.set /\ NoFault
        /\ UNCHANGED <<booted, disk_set, mem_set>>
    BY <1>0, <1>2 DEF RegenWrite, InTxn, TxSteps, NoFault, mem_vars
  <2>2. runtime = txn.runtime
    BY <2>1 DEF Copies, RuntimeKept
  <2> QED BY <2>1, <2>2, QuietStep DEF Asked, InForce, Trying, Loaded
<1>3. CASE RegenReload \/ RegenVerify
  <2>1. /\ txn.step \in {"reload", "verify"}
        /\ txn'.step \in {"verify", "commit", "undo_write"}
        /\ txn'.kind = txn.kind /\ txn'.runtime = txn.runtime
        /\ txn'.set = txn.set /\ NoFault
        /\ UNCHANGED <<booted, disk_set, mem_set>>
    BY <1>0, <1>3
    DEF RegenReload, RegenVerify, InTxn, TxSteps, NoFault, mem_vars,
        disk_vars
  <2> QED BY <2>1, QuietStep DEF Asked, InForce, Trying, Loaded
<1>4. CASE RegenUndoWrite
  <2>1. txn.step = "undo_write" /\ txn.kind # "none"
    BY <1>4 DEF RegenUndoWrite, InTxn
  <2>2. txn.runtime # NoConfig
    BY <2>1 DEF CoreKept
  <2>3. /\ txn'.step = "undo_reload"
        /\ txn'.kind = txn.kind /\ txn'.runtime = txn.runtime
        /\ txn'.set = txn.set
        /\ UNCHANGED <<booted, disk_set, mem_set>>
    BY <1>0, <1>4, <2>2 DEF RegenUndoWrite, TxSteps, mem_vars
  <2>4. /\ Asked' = Asked /\ InForce = txn.runtime /\ InForce' = runtime'
        /\ Loaded' = Loaded
    BY <2>1, <2>3 DEF Asked, InForce, Trying, Loaded
  <2>5. CASE runtime' = txn.runtime
    BY <1>4, <2>3, <2>4, <2>5, QuietStep DEF RegenUndoWrite
  <2>6. CASE Fault /\ runtime' = runtime
    <3>1. runtime \in Configs /\ runtime.net = mem_set
      BY <2>1 DEF Tried, Trying
    <3>2. mem_set \in {Loaded} \cup Asked
      BY DEF Loaded, Asked
    <3>3. runtime \in Atomic!Under({Loaded} \cup Asked)
      BY <3>1, <3>2, UnderFact
    <3>4. Atomic!WriteFails
      BY <2>3, <2>4, <2>6, <3>3
      DEF Fault, Atomic!WriteFails, Atomic!Unsettled
    <3> QED BY <3>4 DEF AtomicStep, Atomic!Next
  <2> QED BY <1>4, <2>2, <2>5, <2>6 DEF RegenUndoWrite
<1>5. CASE RegenUndoReload
  <2>1. /\ txn.step = "undo_reload" /\ txn'.step = "abort"
        /\ txn'.kind = txn.kind /\ txn'.set = txn.set /\ NoFault
        /\ UNCHANGED <<booted, disk_set, mem_set, runtime>>
    BY <1>0, <1>5
    DEF RegenUndoReload, InTxn, TxSteps, NoFault, mem_vars, disk_vars
  <2> QED BY <2>1, QuietStep DEF Asked, InForce, Trying, Loaded
<1> QED BY <1>1, <1>2, <1>3, <1>4, <1>5 DEF Regenerate

(* The moment at which a transaction takes effect.                         *)
LEMMA CommitMaps == ASSUME TxInv, Tried, Commit PROVE AtomicStep
<1> USE DEF TxInv
<1>1. /\ txn.kind # "none" /\ txn.step = "commit" /\ Trying
      /\ txn' = Idle /\ runtime' = runtime
      /\ booted' = (booted \/ txn.kind = "boot") /\ booted \in BOOLEAN
  BY DEF Commit, InTxn, Done, Trying, TypeOK
<1>2. InForce' = runtime /\ Asked' = {} /\ Loaded' = mem_set'
  BY <1>1, IdleType DEF InForce, Trying, Asked, Loaded
<1>3. runtime \in Configs /\ runtime.net = mem_set
  BY <1>1 DEF Tried
<1>4. CASE txn.kind # "settings"
  <2>1. /\ Asked = {} /\ Loaded = mem_set
        /\ NoFault /\ UNCHANGED <<disk_set, mem_set>>
    BY <1>1, <1>4 DEF Commit, Asked, Loaded
  <2>2. runtime \in Atomic!Under({Loaded})
    BY <1>3, <2>1, UnderFact
  <2>3. booted' \in {booted, TRUE}
    BY <1>1
  <2>4. Atomic!Renew
    BY <1>2, <2>1, <2>2, <2>3 DEF Atomic!Renew, NoFault
  <2> QED BY <2>4 DEF AtomicStep, Atomic!Next
<1>5. CASE /\ txn.kind = "settings" /\ NoFault
           /\ disk_set' = mem_set /\ mem_set' = mem_set
  <2>1. Asked = {mem_set} /\ booted' = booted
    BY <1>1, <1>5 DEF Asked
  <2>2. runtime \in Atomic!Under(Asked)
    BY <1>3, <2>1, UnderFact
  <2>3. Atomic!Grant
    BY <1>2, <1>5, <2>1, <2>2 DEF Atomic!Grant, NoFault
  <2> QED BY <2>3 DEF AtomicStep, Atomic!Next
<1>6. CASE /\ txn.kind = "settings" /\ Fault
           /\ disk_set' = disk_set /\ mem_set' = txn.set
  <2>1. Asked = {mem_set} /\ booted' = booted /\ Loaded = txn.set
    BY <1>1, <1>6 DEF Asked, Loaded
  <2>2. runtime \in Atomic!Under({Loaded} \cup Asked)
    BY <1>3, <2>1, UnderFact
  <2>3. Atomic!WriteFails
    BY <1>2, <1>6, <2>1, <2>2
    DEF Fault, Atomic!WriteFails, Atomic!Unsettled
  <2> QED BY <2>3 DEF AtomicStep, Atomic!Next
<1> QED BY <1>4, <1>5, <1>6 DEF Commit

(* ... and the one at which it is refused.                                 *)
LEMMA AbortMaps == ASSUME TxInv, Abort PROVE AtomicStep
<1> USE DEF TxInv
<1>1. /\ txn.kind # "none" /\ txn.step = "abort" /\ ~Trying
      /\ txn' = Idle
      /\ UNCHANGED <<disk_set, runtime>>
      /\ booted' = (booted \/ txn.kind = "boot") /\ booted \in BOOLEAN
  BY DEF Abort, InTxn, Done, Trying, TypeOK
<1>2. InForce' = InForce /\ Asked' = {} /\ Loaded' = Loaded
  <2>1. mem_set' = Loaded
    BY <1>1
    DEF Loaded, Abort, AbortSettings, AbortInstall, AbortSwitch, AbortBoot,
        mem_vars
  <2> QED BY <1>1, <2>1, IdleType DEF InForce, Trying, Asked, Loaded
<1>3. CASE AbortSettings
  <2>1. Asked = {mem_set} /\ booted' = booted
    BY <1>1, <1>3 DEF AbortSettings, Asked
  <2>2. Atomic!Refuse
    BY <1>1, <1>2, <1>3, <2>1 DEF AbortSettings, NoFault, Atomic!Refuse
  <2> QED BY <2>2 DEF AtomicStep, Atomic!Next
<1>4. CASE AbortInstall \/ AbortSwitch
  <2>1. txn.kind \in {"import", "autoupdate", "switch"}
    BY <1>4 DEF AbortInstall, AbortSwitch
  <2>2. Asked = {} /\ booted' = booted
    BY <1>1, <2>1 DEF Asked
  <2>3. NoFault \/ Fault
    BY <1>4
    DEF AbortInstall, AbortSwitch, SaveIndex, SaveIndexFails,
        WriteContentFails
  <2> QED BY <1>1, <1>2, <2>2, <2>3, QuietStep
<1>5. CASE AbortBoot
  <2>1. Asked = {} /\ booted' = TRUE
    BY <1>1, <1>5 DEF AbortBoot, Asked
  <2>2. Atomic!SelfCheckFails
    BY <1>1, <1>2, <1>5, <2>1 DEF AbortBoot, NoFault, Atomic!SelfCheckFails
  <2> QED BY <2>2 DEF AtomicStep, Atomic!Next
<1> QED BY <1>3, <1>4, <1>5 DEF Abort

LEMMA WorldMaps == ASSUME TxInv, Tried, World PROVE AtomicStep
<1> USE DEF TxInv
<1>1. CASE CoreStarts \/ CoreStops \/ Publish
  BY <1>1, QuietStep
  DEF CoreStarts, CoreStops, Publish, NoFault, mem_vars, disk_vars, Asked,
      InForce, Trying, Loaded
<1>2. CASE HelperRestarts
  <2>1. /\ booted' = FALSE /\ txn' = Idle
        /\ UNCHANGED <<disk_set, runtime, faults>>
    BY <1>2 DEF HelperRestarts
  <2>2. InForce' = runtime /\ Asked' = {} /\ Loaded' = disk_set
    BY <1>2, <2>1, IdleType DEF HelperRestarts, InForce, Trying, Asked, Loaded
  <2>3. runtime \in {InForce} \cup Atomic!Under({Loaded} \cup Asked)
    <3>1. CASE ~Trying
      BY <3>1 DEF InForce
    <3>2. CASE Trying
      <4>1. mem_set \in {Loaded} \cup Asked
        BY DEF Loaded, Asked
      <4> QED BY <3>2, <4>1, UnderFact DEF Tried
    <3> QED BY <3>1, <3>2
  <2>4. Atomic!Killed
    BY <2>1, <2>2, <2>3 DEF Atomic!Killed, Atomic!Unsettled
  <2> QED BY <2>4 DEF AtomicStep, Atomic!Next
<1> QED BY <1>1, <1>2 DEF World

-----------------------------------------------------------------------------
LEMMA StepMaps == TxInv /\ Tried /\ [Next]_vars => AtomicStep
<1> SUFFICES ASSUME TxInv, Tried, [Next]_vars PROVE AtomicStep
  OBVIOUS
<1>1. TypeOK
  BY DEF TxInv
<1>2. CASE UNCHANGED vars
  BY <1>2, QuietStep
  DEF vars, mem_vars, disk_vars, NoFault, Asked, InForce, Trying, Loaded
<1>3. CASE Next
  <2>1. CASE Regenerate
    BY <2>1, RegenMaps, CommitMaps, AbortMaps
  <2> QED BY <1>1, <1>3, <2>1, RequestMaps, RecoveryMaps, TimerMaps,
             BootMaps, WorldMaps
          DEF Next
<1> QED BY <1>2, <1>3

LEMMA InitMaps == Init => Atomic!Init
<1> SUFFICES ASSUME Init PROVE Atomic!Init
  OBVIOUS
<1>1. ~Trying /\ Asked = {} /\ Loaded = mem_set
  BY IdleType DEF Init, Trying, Asked, Loaded
<1> QED BY <1>1 DEF Init, InForce, Atomic!Init

(* Every behaviour of the transactions is one that AtomicConfig allows:    *)
(* requests take effect at one moment on clard.toml and the runtime        *)
(* configuration, or on neither.                                           *)
THEOREM ImplementsAtomicConfig == Spec => ConfigIsAtomic
<1>1. Spec => []Tried
  <2>1. TxInv /\ Tried /\ [Next]_vars => Tried'
    BY StepTried
  <2> QED BY <2>1, InitTried, TransactionInvariant, PTL DEF Spec
<1>2. TxInv /\ Tried /\ [Next]_vars => [Atomic!Next]_(Atomic!vars)
  BY StepMaps DEF AtomicStep
<1> QED
  BY <1>1, <1>2, InitMaps, TransactionInvariant, PTL
  DEF Spec, ConfigIsAtomic, Atomic!Spec
=============================================================================
