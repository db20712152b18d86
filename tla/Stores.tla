------------------------------- MODULE Stores -------------------------------
(***************************************************************************)
(* The two stores of the helper file by file: the index of the profiles    *)
(* (order, names, remembered nodes), one text per profile with its         *)
(* history, the settings, and the archives that backup.rs makes of all of  *)
(* them.  A request holds the store, settings and core locks, so requests  *)
(* do not interleave; but each is a list of file operations, one of which  *)
(* may fail, and the helper may be killed in the middle of any.            *)
(*                                                                         *)
(* A text is the number of the request that brought it, so every text is   *)
(* told from every other.  Whether regenerate accepts a text or a setting  *)
(* is a choice here (ConfigStore has its steps).                           *)
(***************************************************************************)
EXTENDS Integers, Sequences, FiniteSets, SequencesExt

CONSTANTS
  Uids,          (* what gen_uid draws from                                *)
  NoUid,
  Urls,          (* subscriptions                                          *)
  Names,         (* names a user may give                                  *)
  GivenName,     (* the name an import derives from its URL                *)
  Nodes,         (* nodes that can be remembered for a group               *)
  NoNode,
  Labels,        (* names of archives                                      *)
  Missing,       (* no such file, no such archive                          *)
  Torn,          (* of a file: a write was cut short                       *)
  MAX_BACKUPS,   (* versions kept of one profile                           *)
  MAX_OPS,       (* bound on the requests                                  *)
  MAX_FAULTS     (* bound on the file operations that fail                 *)

ASSUME StoresAssumption ==
  /\ MAX_BACKUPS \in Nat \ {0, 1} /\ MAX_OPS \in Nat /\ MAX_FAULTS \in Nat
  /\ Missing # Torn /\ {Missing, Torn} \cap Int = {}
  /\ NoUid \notin Uids /\ NoNode \notin Nodes
  /\ IsFiniteSet(Uids)
  /\ \E u, v \in Uids : u # v
  /\ \E s, t \in Urls : s # t

VARIABLES
  mem,      (* ProfilesStore.index and SettingsStore.settings              *)
  disk,     (* profiles.yaml and clard.toml                                *)
  file,     (* profiles/<uid>.yaml                                         *)
  bak,      (* profiles/<uid>.yaml.bak.<n>                                 *)
  arch,     (* the archives of /var/clard/backups                          *)
  up,       (* the helper runs                                             *)
  req,      (* the request in progress                                     *)
  todo,     (* what is left of it                                          *)
  ops,      (* requests so far                                             *)
  faults    (* operations that have failed so far                          *)

vars == <<mem, disk, file, bak, arch, up, req, todo, ops, faults>>

Texts   == 1 .. MAX_OPS + 4
Stored  == Texts \cup {Missing, Torn}

-----------------------------------------------------------------------------
(* The index                                                               *)

Items    == [uid : Uids, url : Urls, name : Names \cup {GivenName},
             node : Nodes \cup {NoNode}]
Index    == [current : Uids \cup {NoUid}, items : Seq(Items)]
NoIndex  == [current |-> NoUid, items |-> <<>>]
UidsOf(index) == {index.items[i].uid : i \in DOMAIN index.items}
PosOf(index, u) == CHOOSE i \in DOMAIN index.items : index.items[i].uid = u
UrlsOf(index) == {index.items[i].url : i \in DOMAIN index.items}

(* open: an index that is not there is the empty one.                      *)
OpenIndex(saved) == IF saved = Missing THEN NoIndex ELSE saved
SavedUids(saved) == IF saved \in {Missing, Torn} THEN {} ELSE UidsOf(saved)

Renamed(index, u, n) ==
  [index EXCEPT !.items[PosOf(index, u)].name = n]

(* Mutant: the two places are not exchanged.                               *)
MovedOver(index, u, up_) ==
  LET i == PosOf(index, u)
      j == IF up_ THEN i - 1 ELSE i + 1
  IN IF j \in DOMAIN index.items
     THEN [index EXCEPT !.items[j] = index.items[i]]
     ELSE index

(* move_item: the edge has no effect.                                      *)
Moved(index, u, up_) ==
  LET i == PosOf(index, u)
      j == IF up_ THEN i - 1 ELSE i + 1
  IN IF j \in DOMAIN index.items
     THEN [index EXCEPT !.items = [@ EXCEPT ![i] = index.items[j],
                                            ![j] = index.items[i]]]
     ELSE index

Removed(index, u) ==
  [current |-> IF index.current = u THEN NoUid ELSE index.current,
   items |-> RemoveAt(index.items, PosOf(index, u))]

(* memorize: for the current profile only.                                 *)
Memorized(index, n) ==
  [index EXCEPT !.items[PosOf(index, index.current)].node = n]

-----------------------------------------------------------------------------
(* The settings: a field that apply_in_memory sets before it looks at the  *)
(* port, the port, and a field after it, with a value that is not one of   *)
(* the known ones and is normalised                                        *)

Keep == "keep"                        (* None in the patch                 *)
Settings == [theme : {"dark", "light"}, port : {1, 2},
             mode : {"rule", "global", "bad"}]
Default  == [theme |-> "dark", port |-> 1, mode |-> "rule"]
Normal(set) == [set EXCEPT !.mode = IF @ = "bad" THEN "rule" ELSE @]
OpenSettings(saved) == IF saved = Missing THEN Default ELSE Normal(saved)

ASSUME NoFileAssumption ==
  {Missing, Torn} \cap Settings = {} /\ Missing \notin Index /\ Torn \notin Index

Patches == [theme : {Keep, "light"}, port : {-1, 0, 2},
            mode : {Keep, "global", "bad"}]
Affects(p) == p.port # -1 \/ p.mode # Keep     (* patch_affects_config     *)

(* apply_in_memory stops at a port 0 and keeps what it has set by then.    *)
Patched(set, p) ==
  LET early == [set EXCEPT !.theme = IF p.theme = Keep THEN @ ELSE p.theme]
  IN IF p.port = 0 THEN early
     ELSE Normal([early EXCEPT
            !.port = IF p.port = -1 THEN @ ELSE p.port,
            !.mode = IF p.mode = Keep THEN @ ELSE p.mode])

-----------------------------------------------------------------------------
(* A request as a list of effects                                          *)

Do(op, u, arg) == [op |-> op, uid |-> u, arg |-> arg]
(* Mutant: the index is saved as it was.                                   *)
SaveFirst(index) == <<Do("save", NoUid, index), Do("index", NoUid, index)>>

Save(index) == <<Do("index", NoUid, index), Do("save", NoUid, index)>>

(* rotate_backups: drop the oldest, move each version one down, copy the   *)
(* text to version 1.                                                      *)
Shifts(u) == [k \in 1 .. MAX_BACKUPS - 1 |-> Do("shift", u, MAX_BACKUPS - k)]

(* Mutant: the versions are moved from the newest on.                      *)
RotateForward(u) ==
  <<Do("drop", u, MAX_BACKUPS)>>
    \o [k \in 1 .. MAX_BACKUPS - 1 |-> Do("shift", u, k)]
    \o <<Do("keep", u, 1)>>

(* Mutant: the text is moved aside after the new one is written.           *)
RotateWithoutCopy(u) == <<Do("drop", u, MAX_BACKUPS)>> \o Shifts(u)

Rotate(u) ==
  <<Do("drop", u, MAX_BACKUPS)>> \o Shifts(u) \o <<Do("keep", u, 1)>>

Idle == [kind |-> "none", uid |-> NoUid, old |-> Missing, new |-> Missing,
         hist |-> <<>>, undo |-> <<>>, onerr |-> <<>>, failed |-> FALSE]

(* What the request remembers: its text before, the text it brings, the    *)
(* history before, and what it does when it is refused or an effect fails. *)
Ask(kind, u, new, effects, undo, onerr) ==
  /\ up /\ req = Idle /\ ops < MAX_OPS
  /\ ops' = ops + 1
  /\ req' = [Idle EXCEPT !.kind = kind, !.uid = u, !.new = new,
               !.undo = undo, !.onerr = onerr,
               !.old = IF u = NoUid THEN Missing ELSE file[u],
               !.hist = IF u = NoUid THEN <<>> ELSE bak[u]]
  /\ todo' = effects

Judge == <<Do("judge", NoUid, Missing)>>
NewText == ops + 5

Init ==
  /\ \/ /\ mem = [index |-> NoIndex, set |-> Default]
        /\ disk = [index |-> Missing, set |-> Missing]
        /\ file = [u \in Uids |-> Missing]
        /\ bak = [u \in Uids |-> [n \in 1 .. MAX_BACKUPS |-> Missing]]
     \/ \E versions \in {0, 2}, mode \in {"rule", "bad"} :
        LET two == CHOOSE x \in Uids \X Uids : x[1] # x[2]
            sub == CHOOSE x \in Urls \X Urls : x[1] # x[2]
            set == [Default EXCEPT !.mode = mode]
            u == two[1]  v == two[2]  s == sub[1]  t == sub[2]
        IN
          /\ disk = [index |-> [current |-> u, items |->
                       <<[uid |-> u, url |-> s, name |-> GivenName,
                          node |-> NoNode],
                         [uid |-> v, url |-> t, name |-> GivenName,
                          node |-> NoNode]>>], set |-> set]
          /\ mem = [index |-> disk.index, set |-> Normal(set)]
          /\ file = [w \in Uids |-> IF w = u THEN 3 ELSE
                                    IF w = v THEN 4 ELSE Missing]
          /\ bak = [w \in Uids |-> [n \in 1 .. MAX_BACKUPS |->
                      IF w = u /\ n <= versions THEN 3 - n
                        ELSE Missing]]
  /\ arch = [l \in Labels |-> Missing]
  /\ up = TRUE /\ req = Idle /\ todo = <<>> /\ ops = 0 /\ faults = 0

-----------------------------------------------------------------------------
(* Requests on profiles                                                    *)

(* A uid that was drawn before is not drawn again.                         *)
Fresh == {u \in Uids : /\ file[u] = Missing
                       /\ \A n \in 1 .. MAX_BACKUPS : bak[u][n] = Missing
                       /\ u \notin UidsOf(mem.index)
                       /\ \A l \in Labels : arch[l] \notin {Missing, Torn} =>
                            u \notin SavedUids(arch[l].index)}

(* Mutant: the index first.                                                *)
ImportIndexFirst(url) ==
  /\ url \notin UrlsOf(mem.index)
  /\ \E u \in Fresh :
       LET item == [uid |-> u, url |-> url, name |-> GivenName,
                    node |-> NoNode]
       IN Ask("create", u, NewText,
              Save([mem.index EXCEPT !.items = Append(@, item)])
                \o <<Do("write", u, NewText)>>,
              <<>>, <<>>)
  /\ UNCHANGED <<mem, disk, file, bak, arch, up, faults>>

(* import of a URL the index does not have: text, entry, index.            *)
ImportNew(url) ==
  /\ url \notin UrlsOf(mem.index)
  /\ \E u \in Fresh :
       LET item == [uid |-> u, url |-> url, name |-> GivenName,
                    node |-> NoNode]
       IN Ask("create", u, NewText,
              <<Do("write", u, NewText)>>
                \o Save([mem.index EXCEPT !.items = Append(@, item)]),
              <<>>, <<>>)
  /\ UNCHANGED <<mem, disk, file, bak, arch, up, faults>>

(* What an overwrite of the current profile does when regenerate refuses   *)
(* it: set_content, if there was a text, and restore_index.                *)
UndoText(u) ==
  (IF file[u] = Missing THEN <<>> ELSE <<Do("write", u, file[u])>>)
    \o Save(mem.index)

Overwrite(kind, u, text, before, judged) ==
  Ask(kind, u, text,
      before \o <<Do("write", u, text)>> \o Save(mem.index)
        \o (IF judged THEN Judge ELSE <<>>),
      UndoText(u), <<>>)

(* import of a URL it has keeps uid and name, and moves the old text into  *)
(* the history.                                                            *)
ImportUpdate(u) ==
  /\ u \in UidsOf(mem.index)
  /\ Overwrite("import", u, NewText, Rotate(u), mem.index.current = u)
  /\ UNCHANGED <<mem, disk, file, bak, arch, up, faults>>

(* auto_update writes over the text.                                       *)
AutoUpdate(u) ==
  /\ u \in UidsOf(mem.index)
  /\ Overwrite("update", u, NewText, <<>>, mem.index.current = u)
  /\ UNCHANGED <<mem, disk, file, bak, arch, up, faults>>

(* restore reads the version first, since the rotation may drop it; it     *)
(* does not regenerate.                                                    *)
RestoreVersion(u, n) ==
  /\ u \in UidsOf(mem.index) /\ bak[u][n] # Missing
  /\ Overwrite("restore", u, bak[u][n], Rotate(u), FALSE)
  /\ UNCHANGED <<mem, disk, file, bak, arch, up, faults>>

(* remove: memory, the text, the index; the history stays where it is.     *)
ProfileRemove(u) ==
  /\ u \in UidsOf(mem.index)
  /\ LET index == Removed(mem.index, u)
     IN Ask("remove", u, Missing,
            <<Do("index", NoUid, index), Do("unlink", u, Missing),
              Do("save", NoUid, index)>>, <<>>, <<>>)
  /\ UNCHANGED <<mem, disk, file, bak, arch, up, faults>>

(* set_current, and back to the one before, if there was one, when         *)
(* regenerate refuses.                                                     *)
SetCurrent(u) ==
  /\ u \in UidsOf(mem.index)
  /\ Ask("switch", NoUid, Missing,
         Save([mem.index EXCEPT !.current = u]) \o Judge,
         IF mem.index.current = NoUid THEN <<>>
         ELSE Save(mem.index), <<>>)
  /\ UNCHANGED <<mem, disk, file, bak, arch, up, faults>>

(* rename, move_item, memorize: the index in memory, then on disk.         *)
EditIndex(kind, index) ==
  /\ Ask(kind, NoUid, Missing, Save(index), <<>>, <<>>)
  /\ UNCHANGED <<mem, disk, file, bak, arch, up, faults>>

Rename(u, n) ==
  u \in UidsOf(mem.index) /\ EditIndex("edit", Renamed(mem.index, u, n))
Move(u, up_) ==
  /\ u \in UidsOf(mem.index) /\ Moved(mem.index, u, up_) # mem.index
  /\ EditIndex("edit", Moved(mem.index, u, up_))
Memorize(n) ==
  mem.index.current # NoUid /\ EditIndex("edit", Memorized(mem.index, n))

-----------------------------------------------------------------------------
(* Requests on settings                                                    *)

(* A patch that shapes the configuration is judged before it is saved and  *)
(* restored in memory when it is refused or cannot be saved; any other     *)
(* goes to memory and disk.  A port 0 is refused half way, and nothing is  *)
(* restored.                                                               *)
SettingsSet(p) ==
  /\ LET old == <<Do("set", NoUid, mem.set)>>
         new == <<Do("set", NoUid, Patched(mem.set, p))>>
         save == <<Do("save_set", NoUid, Missing)>>
     IN IF p.port = 0 THEN Ask("settings", NoUid, Missing, new, <<>>, <<>>)
        ELSE IF Affects(p)
             THEN Ask("settings", NoUid, Missing, new \o Judge \o save,
                      old, old)
             ELSE Ask("settings", NoUid, Missing, new \o save, <<>>, <<>>)
  /\ UNCHANGED <<mem, disk, file, bak, arch, up, faults>>

-----------------------------------------------------------------------------
(* Archives                                                                *)

(* create: every file of profiles/, the history included, is packed; the   *)
(* archive is torn until it is closed.                                     *)
Packed == [index |-> disk.index, set |-> disk.set, file |-> file,
           history |-> \E u \in Uids, n \in 1 .. MAX_BACKUPS :
                         bak[u][n] # Missing]

BackupCreate(l) ==
  /\ Ask("backup", NoUid, l,
         <<Do("open_tar", NoUid, l), Do("close_tar", NoUid, l)>>, <<>>, <<>>)
  /\ UNCHANGED <<mem, disk, file, bak, arch, up, faults>>

BackupDelete(l) ==
  /\ up /\ req = Idle /\ ops < MAX_OPS /\ ops' = ops + 1
  /\ arch[l] # Missing
  /\ arch' = [arch EXCEPT ![l] = Missing]
  /\ UNCHANGED <<mem, disk, file, bak, up, req, todo, faults>>

(* allowed_entry takes profiles.yaml, clard.toml and profiles/*.yaml.      *)
Accepted(a) == a \notin {Missing, Torn} /\ ~a.history

(* Mutant: clard.toml stays.                                               *)
CopyOutIndex(a) ==
  IF a.index = Missing THEN <<>> ELSE <<Do("copy_index", NoUid, a.index)>>

(* restore: checked and unpacked aside, then copied file by file in the    *)
(* order of the archive; the stores are read again only after a success.   *)
CopyOut(a) ==
  (IF a.index = Missing THEN <<>> ELSE <<Do("copy_index", NoUid, a.index)>>)
    \o (IF a.set = Missing THEN <<>> ELSE <<Do("copy_set", NoUid, a.set)>>)

Reload ==
  <<Do("reload_index", NoUid, Missing), Do("reload_set", NoUid, Missing)>>

BackupRestore(l) ==
  /\ Accepted(arch[l])
  /\ \E order \in SetToSeqs({u \in Uids : arch[l].file[u] # Missing}) :
       LET contents == [i \in DOMAIN order |->
                          Do("write", order[i], arch[l].file[order[i]])]
       IN Ask("recover", NoUid, l,
              <<Do("unpack", NoUid, l)>> \o CopyOut(arch[l]) \o contents
                \o Reload, <<>>, <<>>)
  /\ UNCHANGED <<mem, disk, file, bak, arch, up, faults>>

-----------------------------------------------------------------------------
(* The effects, one after the other                                        *)

Step(op) == up /\ todo # <<>> /\ Head(todo).op = op
E == Head(todo)

(* The file operations, each on what it changes.                           *)
Written(u, text) == file' = [file EXCEPT ![u] = text] /\ bak' = bak
BakMoved(u, n) ==
  /\ file' = file
  /\ bak' = IF bak[u][n] = Missing THEN bak
            ELSE [bak EXCEPT ![u][n] = Missing, ![u][n + 1] = bak[u][n]]
BakSet(u, n, text) == file' = file /\ bak' = [bak EXCEPT ![u][n] = text]

OnFiles ==
  /\ \/ E.op = "drop" /\ BakSet(E.uid, E.arg, Missing)
     \/ E.op = "shift" /\ BakMoved(E.uid, E.arg)
     \/ E.op = "keep" /\ IF file[E.uid] = Missing THEN UNCHANGED <<file, bak>>
                         ELSE BakSet(E.uid, 1, file[E.uid])
     \/ E.op = "write" /\ Written(E.uid, E.arg)
     \/ E.op = "unlink" /\ Written(E.uid, Missing)
  /\ UNCHANGED <<mem, disk, arch>>

(* `let _ = reload()`: memory stays as it was when the file does not parse. *)
OnMemory ==
  /\ \/ E.op = "index" /\ mem' = [mem EXCEPT !.index = E.arg]
     \/ E.op = "set" /\ mem' = [mem EXCEPT !.set = E.arg]
     \/ /\ E.op = "reload_index"
        /\ mem' = [mem EXCEPT !.index = IF disk.index = Torn THEN @
                                        ELSE OpenIndex(disk.index)]
     \/ /\ E.op = "reload_set"
        /\ mem' = [mem EXCEPT !.set = IF disk.set = Torn THEN @
                                      ELSE OpenSettings(disk.set)]
  /\ UNCHANGED <<disk, file, bak, arch>>

OnSaved ==
  /\ \/ E.op = "save" /\ disk' = [disk EXCEPT !.index = mem.index]
     \/ E.op = "save_set" /\ disk' = [disk EXCEPT !.set = mem.set]
     \/ E.op = "copy_index" /\ disk' = [disk EXCEPT !.index = E.arg]
     \/ E.op = "copy_set" /\ disk' = [disk EXCEPT !.set = E.arg]
  /\ UNCHANGED <<mem, file, bak, arch>>

OnArchives ==
  /\ \/ E.op = "open_tar" /\ arch' = [arch EXCEPT ![E.arg] = Torn]
     \/ E.op = "close_tar" /\ arch' = [arch EXCEPT ![E.arg] = Packed]
     \/ E.op = "unpack" /\ arch' = arch
  /\ UNCHANGED <<mem, disk, file, bak>>

(* The answer goes out when nothing is left to do.                         *)
GoOn(rest) ==
  /\ todo' = rest
  /\ req' = IF rest = <<>> THEN Idle ELSE req

Perform ==
  /\ up /\ todo # <<>>
  /\ OnFiles \/ OnMemory \/ OnSaved \/ OnArchives
  /\ GoOn(Tail(todo))
  /\ UNCHANGED <<up, ops, faults>>

(* regenerate accepts or refuses.                                          *)
JudgeAccepts ==
  /\ Step("judge")
  /\ GoOn(Tail(todo))
  /\ UNCHANGED <<mem, disk, file, bak, arch, up, ops, faults>>

Refuse(rest) ==
  /\ todo' = rest
  /\ req' = IF rest = <<>> THEN Idle ELSE [req EXCEPT !.failed = TRUE]

JudgeRefuses ==
  /\ Step("judge")
  /\ Refuse(req.undo)
  /\ UNCHANGED <<mem, disk, file, bak, arch, up, ops, faults>>

(* What an operation that fails or is cut short may leave: std::fs::write  *)
(* and copy truncate first, save_index and save rename a complete file.    *)
LeavesTorn ==
  \/ E.op = "write" /\ Written(E.uid, Torn) /\ disk' = disk
  \/ E.op = "keep" /\ BakSet(E.uid, 1, Torn) /\ disk' = disk
  \/ /\ E.op = "copy_index" /\ disk' = [disk EXCEPT !.index = Torn]
     /\ UNCHANGED <<file, bak>>
  \/ /\ E.op = "copy_set" /\ disk' = [disk EXCEPT !.set = Torn]
     /\ UNCHANGED <<file, bak>>

OnDisk == {"drop", "shift", "keep", "write", "unlink", "save", "save_set",
           "copy_index", "copy_set", "open_tar", "close_tar", "unpack"}
Ignored == {"drop", "unlink"}

(* An error ends the request, after its own rollback; inside a rollback,   *)
(* and where the code says `let _`, it is passed over.                     *)
Fail ==
  /\ up /\ todo # <<>> /\ E.op \in OnDisk
  /\ faults < MAX_FAULTS /\ faults' = faults + 1
  /\ LeavesTorn \/ UNCHANGED <<file, bak, disk>>
  /\ IF E.op \in Ignored \/ req.failed THEN GoOn(Tail(todo))
                                        ELSE Refuse(req.onerr)
  /\ UNCHANGED <<mem, arch, up, ops>>

(* The helper is killed.                                                   *)
Killed ==
  /\ up /\ up' = FALSE
  /\ \/ todo # <<>> /\ LeavesTorn
     \/ UNCHANGED <<file, bak, disk>>
  /\ req' = Idle /\ todo' = <<>>
  /\ UNCHANGED <<mem, arch, ops, faults>>

(* The next instance opens both stores; a file that does not parse keeps   *)
(* it from coming up.                                                      *)
Restarts ==
  /\ ~up /\ up' = TRUE
  /\ disk.index # Torn /\ disk.set # Torn
  /\ mem' = [index |-> OpenIndex(disk.index), set |-> OpenSettings(disk.set)]
  /\ UNCHANGED <<disk, file, bak, arch, req, todo, ops, faults>>

-----------------------------------------------------------------------------
Request ==
  \/ \E url \in Urls : ImportNew(url)
  \/ \E u \in Uids :
       \/ ImportUpdate(u) \/ AutoUpdate(u) \/ ProfileRemove(u) \/ SetCurrent(u)
       \/ \E n \in 1 .. MAX_BACKUPS : RestoreVersion(u, n)
       \/ \E n \in Names : Rename(u, n)
       \/ \E up_ \in BOOLEAN : Move(u, up_)
  \/ \E n \in Nodes : Memorize(n)
  \/ \E p \in Patches : SettingsSet(p)
  \/ \E l \in Labels : BackupCreate(l) \/ BackupDelete(l) \/ BackupRestore(l)

Next == Request \/ Perform \/ JudgeAccepts \/ JudgeRefuses \/ Fail
          \/ Killed \/ Restarts

Spec == Init /\ [][Next]_vars

-----------------------------------------------------------------------------
Archives == [index : Index \cup {Missing, Torn},
             set : Settings \cup {Missing, Torn},
             file : [Uids -> Stored], history : BOOLEAN]

Indexes(i) == /\ i \in Index
              /\ i.current \in UidsOf(i) \cup {NoUid}
              /\ \A j, k \in DOMAIN i.items :
                   j # k => /\ i.items[j].uid # i.items[k].uid
                            /\ i.items[j].url # i.items[k].url

(* Every variable has its type.  An index names a current profile that it  *)
(* has, and no uid and no URL twice, whatever was imported, moved, removed *)
(* or recovered from an archive.                                           *)
TypeOK ==
  /\ mem \in [index : Index, set : Settings]
  /\ Indexes(mem.index) /\ mem.set.mode # "bad"
  /\ disk \in [index : Index \cup {Missing, Torn},
              set : Settings \cup {Missing, Torn}]
  /\ disk.index \in {Missing, Torn} \/ Indexes(disk.index)
  /\ arch \in [Labels -> Archives \cup {Missing, Torn}]
  /\ \A l \in Labels : \/ arch[l] \in {Missing, Torn}
                       \/ arch[l].index \in {Missing, Torn}
                       \/ Indexes(arch[l].index)
  /\ file \in [Uids -> Stored]
  /\ bak \in [Uids -> [1 .. MAX_BACKUPS -> Stored]]
  /\ up \in BOOLEAN /\ ops \in 0 .. MAX_OPS /\ faults \in 0 .. MAX_FAULTS

(* The text that a profile had when an import or a restore of a version    *)
(* began is on disk at every moment of it, as the text or as version 1:    *)
(* neither a failed operation, a refusal nor a kill loses it.              *)
OldTextKept ==
  [][ req.kind \in {"import", "restore"} =>
        req.old \in {file'[req.uid], bak'[req.uid][1]} ]_vars

Ends(kinds) == /\ req.kind \in kinds /\ req' = Idle
               /\ up' /\ ~req.failed /\ faults' = faults

(* An import or a restore that ends well, nothing having failed: the text  *)
(* is the one it brings, and the history is the old text and then the      *)
(* versions before, the oldest one gone; so a restore can be reversed.     *)
HistoryShifts ==
  [][ Ends({"import", "restore"}) /\ faults' = 0 =>
        /\ file'[req.uid] = req.new
        /\ bak'[req.uid] =
             <<req.old>> \o SubSeq(req.hist, 1, MAX_BACKUPS - 1) ]_vars

(* Nothing failed and no request is in progress: memory is what a restart  *)
(* would read; except for what a patch with port 0 leaves in memory.       *)
MemoryIsDisk ==
  up /\ req = Idle /\ faults = 0 =>
    /\ mem.index = OpenIndex(disk.index)
    /\ [mem.set EXCEPT !.theme = OpenSettings(disk.set).theme]
         = OpenSettings(disk.set)

(* A recovery that ends well brings back what was packed: every text that   *)
(* was, and the index and the settings, in memory too, if they parse.      *)
RecoveryComplete ==
  [][ Ends({"recover"}) =>
        LET a == arch[req.new]
        IN /\ \A u \in Uids : a.file[u] # Missing => file'[u] = a.file[u]
           /\ a.index \notin {Missing, Torn} =>
                mem'.index = a.index /\ disk'.index = a.index
           /\ a.set \notin {Missing, Torn} =>
                mem'.set = OpenSettings(a.set) /\ disk'.set = a.set ]_vars

Dangling == {u \in Uids : /\ file[u] = Missing
                          /\ u \in UidsOf(mem.index) \cup SavedUids(disk.index)}

(* A profile named in memory or on disk comes to be without a text only by  *)
(* a remove or a recovery that does not end; an import, whatever fails,    *)
(* never lets it.                                                          *)
NamedTextsExist ==
  [][ Dangling' \subseteq Dangling \/ req.kind \in {"remove", "recover"} ]_vars

(* An archive that BackupCreate has closed can be recovered.               *)
ArchivesRecoverable ==
  \A l \in Labels : arch[l] \notin {Missing, Torn} => Accepted(arch[l])
=============================================================================
