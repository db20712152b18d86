--------------------------- MODULE Stores_proofs ---------------------------
(***************************************************************************)
(* What Stores promises, for every number of profiles, versions, archives, *)
(* requests and failing operations.                                        *)
(*                                                                         *)
(* A request is a list of effects that Tail consumes, so an invariant has  *)
(* to say what the rest of the list will still do.  Five of them are       *)
(* inductive, each on the types: Types, Agreement (memory and disk),       *)
(* Naming (profiles and texts), Rotation (a text and its history) and      *)
(* Recovery (what has been copied of an archive).                          *)
(***************************************************************************)
EXTENDS Stores, FiniteSetTheorems, SequenceTheorems, TLAPS

-----------------------------------------------------------------------------
(* Types of requests and effects                                           *)

Ops == OnDisk \cup {"judge", "index", "set", "reload_index", "reload_set"}
Kinds == {"none", "create", "import", "update", "restore", "remove", "switch",
          "edit", "settings", "backup", "recover"}

Args == Stored \cup Nat \cup Index \cup Settings \cup Labels

(* What the argument of each effect may be.                                *)
Legal(e) ==
  /\ e.op \in {"drop", "shift", "keep", "write", "unlink"} => e.uid \in Uids
  /\ e.op = "drop" => e.arg = MAX_BACKUPS
  /\ e.op = "shift" => e.arg \in 1 .. MAX_BACKUPS - 1
  /\ e.op = "write" => e.arg \in Stored \ {Missing}
  /\ e.op = "index" => Indexes(e.arg)
  /\ e.op = "set" => e.arg \in Settings /\ e.arg.mode # "bad"
  /\ e.op = "copy_index" => e.arg = Torn \/ Indexes(e.arg)
  /\ e.op = "copy_set" => e.arg \in Settings \cup {Torn}
  /\ e.op \in {"open_tar", "close_tar"} => e.arg \in Labels

Effects == {e \in [op : Ops, uid : Uids \cup {NoUid}, arg : Args] : Legal(e)}

Requests == [kind : Kinds, uid : Uids \cup {NoUid}, old : Stored,
             new : Stored \cup Labels,
             hist : [1 .. MAX_BACKUPS -> Stored] \cup {<<>>},
             undo : Seq(Effects), onerr : Seq(Effects), failed : BOOLEAN]

Types == /\ TypeOK
         /\ req \in Requests
         /\ todo \in Seq(Effects)
         /\ todo = <<>> <=> req = Idle
         /\ ~up => todo = <<>>

-----------------------------------------------------------------------------
(* Memory and disk                                                         *)

SetAgrees(s, saved) ==
  [s EXCEPT !.theme = OpenSettings(saved).theme] = OpenSettings(saved)

(* An index that the rest s brings to one side reaches the other after it. *)
IndexFollows(s) ==
  \A i \in 1 .. Len(s) : s[i].op \in {"index", "copy_index"} =>
     \E j \in i + 1 .. Len(s) : s[j].op \in {"save", "reload_index"}

(* The same of the settings; or they are those of the disk.                *)
SetFollows(s, saved) ==
  \A i \in 1 .. Len(s) :
     /\ s[i].op = "set" =>
          \/ SetAgrees(s[i].arg, saved)
          \/ \E j \in i + 1 .. Len(s) : s[j].op = "save_set"
     /\ s[i].op = "copy_set" => \E j \in i + 1 .. Len(s) : s[j].op = "reload_set"
     /\ s[i].op \in {"copy_set", "save_set"} =>
          \A j \in i + 1 .. Len(s) : s[j].op # "set"

Has(s, ops_) == \E i \in 1 .. Len(s) : s[i].op \in ops_

(* A list of effects that leaves the memory m and the disk d equal.        *)
Settles(s, m, d) ==
  /\ IndexFollows(s)
  /\ SetFollows(s, d.set)
  /\ m.index = OpenIndex(d.index) \/ Has(s, {"save", "reload_index"})
  /\ SetAgrees(m.set, d.set) \/ Has(s, {"set", "save_set", "reload_set"})

(* Only settings are saved after the verdict, and none before it; the      *)
(* rollback brings the settings back if the request has set any.           *)
JudgeIsLate(s, undo, m, d) ==
  \A k \in 1 .. Len(s) : s[k].op = "judge" =>
     /\ \A j \in k + 1 .. Len(s) : s[j].op = "save_set"
     /\ \A j \in 1 .. k - 1 : s[j].op \in {"drop", "shift", "keep", "write",
                                           "index", "save", "set"}
     /\ IndexFollows(undo)
     /\ \A i \in 1 .. Len(undo) :
          /\ undo[i].op \in {"write", "index", "save", "set"}
          /\ undo[i].op = "set" => SetAgrees(undo[i].arg, d.set)
     /\ Has(s, {"set"}) \/ ~SetAgrees(m.set, d.set) => Has(undo, {"set"})

NothingTorn ==
  /\ up => disk.index # Torn /\ disk.set # Torn
  /\ \A l \in Labels : \/ arch[l] \in {Missing, Torn}
                       \/ /\ arch[l].index # Torn
                          /\ arch[l].set # Torn
  /\ \A i \in 1 .. Len(todo) :
       todo[i].op \in {"copy_index", "copy_set"} => todo[i].arg # Torn

(* As long as no file operation has failed.                                *)
Agreement ==
  faults = 0 =>
    /\ NothingTorn
    /\ up => Settles(todo, mem, disk) /\ JudgeIsLate(todo, req.undo, mem, disk)

-----------------------------------------------------------------------------
(* Profiles and texts                                                      *)

Lasting == {"none", "create", "import", "update", "restore", "switch", "edit",
            "settings", "backup"}

KeepsTexts(s) == \A i \in 1 .. Len(s) :
  s[i].op \notin {"unlink", "copy_index", "copy_set", "reload_index",
                  "reload_set"}

(* The profiles of an index to come are in memory, have a text, or get one *)
(* before; in a rollback they are in memory.                               *)
IndexNames(s, failed, index, f) ==
  \A i \in 1 .. Len(s) : s[i].op = "index" =>
     /\ \A v \in UidsOf(s[i].arg) :
          \/ v \in UidsOf(index)
          \/ /\ ~failed
             /\ \/ f[v] # Missing
                \/ \E j \in 1 .. i - 1 : s[j].op = "write" /\ s[j].uid = v
     /\ \A j \in i + 1 .. Len(s) : s[j].op # "index"

(* Before a verdict the index only grows, and the rollback brings back one *)
(* that names no more.                                                     *)
JudgeNames(s, undo, index) ==
  Has(s, {"judge"}) =>
    /\ ~Has(undo, {"judge"})
    /\ \A i \in 1 .. Len(s) : s[i].op = "index" =>
         UidsOf(index) \subseteq UidsOf(s[i].arg)
    /\ \A i \in 1 .. Len(undo) : undo[i].op = "index" =>
         /\ UidsOf(undo[i].arg) \subseteq UidsOf(index)
         /\ \A j \in i + 1 .. Len(undo) : undo[j].op # "index"

Naming ==
  req.kind \in Lasting =>
    /\ KeepsTexts(todo) /\ KeepsTexts(req.undo)
    /\ \A i \in 1 .. Len(req.onerr) : req.onerr[i].op = "set"
    /\ IndexNames(todo, req.failed, mem.index, file)
    /\ JudgeNames(todo, req.undo, mem.index)

-----------------------------------------------------------------------------
(* A text and its history                                                  *)

Is(e, op, u, arg) == e.op = op /\ e.uid = u /\ e.arg = arg

Rotating == {"import", "restore"}

(* From position k on: the new text, the index, perhaps the verdict.       *)
Closing(s, k, r) ==
  /\ Is(s[k], "write", r.uid, r.new)
  /\ s[k + 1].op = "index" /\ s[k + 2].op = "save"
  /\ \/ Len(s) = k + 2
     \/ Len(s) = k + 3 /\ s[k + 3].op = "judge"

(* The history when j shifts are left, and at the end.                     *)
Shifted(hist, j) == [n \in 1 .. MAX_BACKUPS |->
                       IF n > j + 1 THEN hist[n - 1]
                       ELSE IF n = j + 1 THEN Missing ELSE hist[n]]
Final(old, hist) == [n \in 1 .. MAX_BACKUPS |->
                       IF n = 1 THEN old ELSE hist[n - 1]]

(* The request r with the rest s before it, with the text t and the        *)
(* history b on disk: before the drop, with j shifts left, and with the    *)
(* old text kept; clean if no operation has failed.                        *)
Dropping(s, r, t, b) ==
  /\ Is(s[1], "drop", r.uid, MAX_BACKUPS)
  /\ \A i \in 1 .. MAX_BACKUPS - 1 :
       Is(s[i + 1], "shift", r.uid, MAX_BACKUPS - i)
  /\ Is(s[MAX_BACKUPS + 1], "keep", r.uid, 1)
  /\ Closing(s, MAX_BACKUPS + 2, r)
  /\ ~r.failed /\ t = r.old /\ b = r.hist

Shifting(j, s, r, t, b, clean) ==
  /\ \A i \in 1 .. j : Is(s[i], "shift", r.uid, j + 1 - i)
  /\ Is(s[j + 1], "keep", r.uid, 1)
  /\ Closing(s, j + 2, r)
  /\ ~r.failed /\ t = r.old
  /\ clean => b = Shifted(r.hist, j)
  /\ j = 0 => b[1] = Missing

InPlace(s) == \A i \in 1 .. Len(s) :
  s[i].op \in {"write", "index", "save", "judge"}

Kept(s, r, t, b, clean) ==
  /\ InPlace(s)
  /\ b[1] = r.old
  /\ ~r.failed =>
       /\ clean => b = Final(r.old, r.hist)
       /\ \A i \in 1 .. Len(s) :
            s[i].op = "write" => Is(s[i], "write", r.uid, r.new)
       /\ t = r.new \/ s[1].op = "write"

Rotates(s, r, t, b, clean) ==
  \/ Dropping(s, r, t, b)
  \/ \E j \in 0 .. MAX_BACKUPS - 1 : Shifting(j, s, r, t, b, clean)
  \/ Kept(s, r, t, b, clean)

(* An import or a restore drops, shifts, keeps; from then on the old text  *)
(* is version 1.  A refusal finds something to undo.                       *)
Rotation ==
  req.kind \in Rotating =>
    /\ req.uid \in Uids /\ req.hist \in [1 .. MAX_BACKUPS -> Stored]
    /\ req.onerr = <<>> /\ req.undo # <<>> /\ InPlace(req.undo)
    /\ Rotates(todo, req, file[req.uid], bak[req.uid], faults = 0)

-----------------------------------------------------------------------------
(* What has been copied of an archive                                      *)

(* What is left of a recovery of the archive a: files of it, and at last   *)
(* both stores.                                                            *)
Recovering(s, a) ==
  /\ \A i \in 1 .. Len(s) :
       /\ s[i].op \in {"unpack", "copy_index", "copy_set", "write",
                       "reload_index", "reload_set"}
       /\ s[i].op = "copy_index" => s[i].arg = a.index
       /\ s[i].op = "copy_set" => s[i].arg = a.set
       /\ s[i].op = "write" => s[i].arg = a.file[s[i].uid]
       /\ s[i].op = "reload_set" => i = Len(s)
       /\ s[i].op = "reload_index" => i = Len(s) - 1
  /\ s[Len(s)].op = "reload_set"
  /\ Len(s) > 1 => s[Len(s) - 1].op = "reload_index"

(* All that the archive has is where it belongs or on its way.             *)
Recovered(s, a, m, d, f) ==
  /\ Len(s) = 1 /\ a.index \notin {Missing, Torn} => m.index = a.index
  /\ a.index # Missing => d.index = a.index \/ Has(s, {"copy_index"})
  /\ a.set # Missing => d.set = a.set \/ Has(s, {"copy_set"})
  /\ \A u \in Uids : a.file[u] # Missing =>
       \/ f[u] = a.file[u]
       \/ \E i \in 1 .. Len(s) : Is(s[i], "write", u, a.file[u])

Recovery ==
  req.kind = "recover" =>
    /\ req.new \in Labels /\ arch[req.new] \in Archives
    /\ req.onerr = <<>> /\ ~req.failed
    /\ Recovering(todo, arch[req.new])
    /\ Recovered(todo, arch[req.new], mem, disk, file)

-----------------------------------------------------------------------------
(* The lists that requests are made of                                     *)

LEMMA Bounds ==
  /\ MAX_BACKUPS \in Nat /\ MAX_BACKUPS >= 2
  /\ MAX_OPS \in Nat /\ MAX_FAULTS \in Nat
  /\ Missing # Torn /\ NoUid \notin Uids
BY StoresAssumption

USE Bounds

LEMMA DoIsEffect ==
  ASSUME NEW op \in Ops, NEW u \in Uids \cup {NoUid}, NEW arg \in Args,
         Legal(Do(op, u, arg))
  PROVE  /\ Do(op, u, arg) \in Effects
         /\ Do(op, u, arg).op = op /\ Do(op, u, arg).uid = u
         /\ Do(op, u, arg).arg = arg
BY DEF Do, Effects

LEMMA SaveIsLegal ==
  ASSUME NEW index, Indexes(index)
  PROVE  /\ Save(index) \in Seq(Effects) /\ Len(Save(index)) = 2
         /\ Save(index)[1] = Do("index", NoUid, index)
         /\ Save(index)[2] = Do("save", NoUid, index)
<1>1. index \in Args
  BY DEF Indexes, Args
<1>2. Do("index", NoUid, index) \in Effects
  BY <1>1, DoIsEffect DEF Legal, Do, Ops, OnDisk
<1>3. Do("save", NoUid, index) \in Effects
  BY <1>1, DoIsEffect DEF Legal, Do, Ops, OnDisk
<1>. QED BY <1>2, <1>3 DEF Save

LEMMA ShiftsAreLegal ==
  ASSUME NEW u \in Uids
  PROVE  /\ Shifts(u) \in Seq(Effects) /\ Len(Shifts(u)) = MAX_BACKUPS - 1
         /\ \A k \in 1 .. MAX_BACKUPS - 1 :
              Shifts(u)[k] = Do("shift", u, MAX_BACKUPS - k)
<1>1. \A k \in 1 .. MAX_BACKUPS - 1 : Do("shift", u, MAX_BACKUPS - k) \in Effects
  BY DoIsEffect DEF Legal, Do, Ops, OnDisk, Args
<1>2. Shifts(u) \in [1 .. MAX_BACKUPS - 1 -> Effects]
  BY <1>1 DEF Shifts
<1>3. MAX_BACKUPS - 1 \in Nat
  OBVIOUS
<1>4. Shifts(u) \in Seq(Effects)
  BY <1>2, <1>3, SeqDef
<1>. QED BY <1>2, <1>3, <1>4 DEF Shifts

LEMMA RotateIsLegal ==
  ASSUME NEW u \in Uids
  PROVE  /\ Rotate(u) \in Seq(Effects) /\ Len(Rotate(u)) = MAX_BACKUPS + 1
         /\ Rotate(u)[1] = Do("drop", u, MAX_BACKUPS)
         /\ \A k \in 1 .. MAX_BACKUPS - 1 :
              Rotate(u)[k + 1] = Do("shift", u, MAX_BACKUPS - k)
         /\ Rotate(u)[MAX_BACKUPS + 1] = Do("keep", u, 1)
<1> DEFINE a == <<Do("drop", u, MAX_BACKUPS)>>
           b == Shifts(u)
           c == <<Do("keep", u, 1)>>
<1>1. a \in Seq(Effects) /\ Len(a) = 1 /\ a[1] = Do("drop", u, MAX_BACKUPS)
  <2>1. Do("drop", u, MAX_BACKUPS) \in Effects
    BY DoIsEffect DEF Legal, Do, Ops, OnDisk, Args
  <2>. QED BY <2>1
<1>2. c \in Seq(Effects) /\ Len(c) = 1 /\ c[1] = Do("keep", u, 1)
  <2>1. Do("keep", u, 1) \in Effects
    BY DoIsEffect DEF Legal, Do, Ops, OnDisk, Args
  <2>. QED BY <2>1
<1>3. /\ b \in Seq(Effects) /\ Len(b) = MAX_BACKUPS - 1
      /\ \A k \in 1 .. MAX_BACKUPS - 1 : b[k] = Do("shift", u, MAX_BACKUPS - k)
  BY ShiftsAreLegal
<1> HIDE DEF a, b, c
<1>4. /\ a \o b \in Seq(Effects) /\ Len(a \o b) = MAX_BACKUPS
      /\ \A i \in 1 .. MAX_BACKUPS :
           (a \o b)[i] = IF i <= 1 THEN a[i] ELSE b[i - 1]
  <2>1. /\ a \o b \in Seq(Effects) /\ Len(a \o b) = Len(a) + Len(b)
        /\ \A i \in 1 .. Len(a) + Len(b) :
             (a \o b)[i] = IF i <= Len(a) THEN a[i] ELSE b[i - Len(a)]
    BY <1>1, <1>3, ConcatProperties
  <2>. QED BY <2>1, <1>1, <1>3
<1>5. /\ (a \o b) \o c \in Seq(Effects) /\ Len((a \o b) \o c) = MAX_BACKUPS + 1
      /\ \A i \in 1 .. MAX_BACKUPS + 1 :
           ((a \o b) \o c)[i] =
              IF i <= MAX_BACKUPS THEN (a \o b)[i] ELSE c[i - MAX_BACKUPS]
  <2> DEFINE ab == a \o b
  <2>1. ab \in Seq(Effects) /\ Len(ab) = MAX_BACKUPS
    BY <1>4
  <2> HIDE DEF ab
  <2>2. /\ ab \o c \in Seq(Effects) /\ Len(ab \o c) = Len(ab) + Len(c)
        /\ \A i \in 1 .. Len(ab) + Len(c) :
             (ab \o c)[i] = IF i <= Len(ab) THEN ab[i] ELSE c[i - Len(ab)]
    BY <1>2, <2>1, ConcatProperties
  <2>. QED BY <2>1, <2>2, <1>2 DEF ab
<1>6. Rotate(u) = (a \o b) \o c
  BY DEF Rotate, a, b, c
<1>. QED BY <1>1, <1>2, <1>3, <1>4, <1>5, <1>6
-----------------------------------------------------------------------------
(* Sequences                                                               *)

LEMMA OneAfterOne ==
  ASSUME NEW S, NEW a \in S, NEW b \in S
  PROVE  <<a>> \o <<b>> = <<a, b>>
<1>1. <<a>> \in Seq(S) /\ <<b>> \in Seq(S) /\ <<a, b>> \in Seq(S)
  OBVIOUS
<1>2. /\ <<a>> \o <<b>> \in Seq(S)
      /\ Len(<<a>> \o <<b>>) = Len(<<a>>) + Len(<<b>>)
      /\ \A i \in 1 .. Len(<<a>>) + Len(<<b>>) : (<<a>> \o <<b>>)[i] =
           IF i <= Len(<<a>>) THEN <<a>>[i] ELSE <<b>>[i - Len(<<a>>)]
  BY <1>1, ConcatProperties
<1>3. Len(<<a>> \o <<b>>) = 2 /\ \A i \in 1 .. 2 : (<<a>> \o <<b>>)[i] = <<a, b>>[i]
  BY <1>2
<1> DEFINE s == <<a>> \o <<b>>
           t == <<a, b>>
<1>4. /\ s \in Seq(S) /\ t \in Seq(S) /\ Len(s) = Len(t)
      /\ \A i \in 1 .. Len(s) : s[i] = t[i]
  BY <1>1, <1>2, <1>3
<1> HIDE DEF s, t
<1>5. s = t
  BY <1>4, SeqEqual
<1>. QED BY <1>5 DEF s, t

LEMMA OneAfterTwo ==
  ASSUME NEW S, NEW a \in S, NEW b \in S, NEW c \in S
  PROVE  <<a, b>> \o <<c>> = <<a, b, c>>
<1>1. <<a, b>> \in Seq(S) /\ <<c>> \in Seq(S) /\ <<a, b, c>> \in Seq(S)
  OBVIOUS
<1>2. /\ <<a, b>> \o <<c>> \in Seq(S)
      /\ Len(<<a, b>> \o <<c>>) = Len(<<a, b>>) + Len(<<c>>)
      /\ \A i \in 1 .. Len(<<a, b>>) + Len(<<c>>) : (<<a, b>> \o <<c>>)[i] =
           IF i <= Len(<<a, b>>) THEN <<a, b>>[i] ELSE <<c>>[i - Len(<<a, b>>)]
  BY <1>1, ConcatProperties
<1>3. Len(<<a, b>> \o <<c>>) = 3 /\ \A i \in 1 .. 3 : (<<a, b>> \o <<c>>)[i] = <<a, b, c>>[i]
  BY <1>2
<1> DEFINE s == <<a, b>> \o <<c>>
           t == <<a, b, c>>
<1>4. /\ s \in Seq(S) /\ t \in Seq(S) /\ Len(s) = Len(t)
      /\ \A i \in 1 .. Len(s) : s[i] = t[i]
  BY <1>1, <1>2, <1>3
<1> HIDE DEF s, t
<1>5. s = t
  BY <1>4, SeqEqual
<1>. QED BY <1>5 DEF s, t

LEMMA TwoAfterOne ==
  ASSUME NEW S, NEW a \in S, NEW b \in S, NEW c \in S
  PROVE  <<a>> \o <<b, c>> = <<a, b, c>>
<1>1. <<a>> \in Seq(S) /\ <<b, c>> \in Seq(S) /\ <<a, b, c>> \in Seq(S)
  OBVIOUS
<1>2. /\ <<a>> \o <<b, c>> \in Seq(S)
      /\ Len(<<a>> \o <<b, c>>) = Len(<<a>>) + Len(<<b, c>>)
      /\ \A i \in 1 .. Len(<<a>>) + Len(<<b, c>>) : (<<a>> \o <<b, c>>)[i] =
           IF i <= Len(<<a>>) THEN <<a>>[i] ELSE <<b, c>>[i - Len(<<a>>)]
  BY <1>1, ConcatProperties
<1>3. Len(<<a>> \o <<b, c>>) = 3 /\ \A i \in 1 .. 3 : (<<a>> \o <<b, c>>)[i] = <<a, b, c>>[i]
  BY <1>2
<1> DEFINE s == <<a>> \o <<b, c>>
           t == <<a, b, c>>
<1>4. /\ s \in Seq(S) /\ t \in Seq(S) /\ Len(s) = Len(t)
      /\ \A i \in 1 .. Len(s) : s[i] = t[i]
  BY <1>1, <1>2, <1>3
<1> HIDE DEF s, t
<1>5. s = t
  BY <1>4, SeqEqual
<1>. QED BY <1>5 DEF s, t

LEMMA RemoveAtIsShorter ==
  ASSUME NEW S, NEW s \in Seq(S), NEW k \in 1 .. Len(s)
  PROVE  /\ RemoveAt(s, k) \in Seq(S) /\ Len(RemoveAt(s, k)) = Len(s) - 1
         /\ \A i \in 1 .. Len(s) - 1 :
              RemoveAt(s, k)[i] = IF i < k THEN s[i] ELSE s[i + 1]
<1> DEFINE a == SubSeq(s, 1, k - 1)
           b == SubSeq(s, k + 1, Len(s))
<1>1. /\ a \in Seq(S) /\ Len(a) = k - 1
      /\ \A i \in 1 .. k - 1 : a[i] = s[i]
  <2>1. \A i \in 1 .. k - 1 : s[i] \in S
    OBVIOUS
  <2>2. 1 \in Int /\ k - 1 \in Int
    OBVIOUS
  <2>3. /\ a \in Seq(S)
        /\ Len(a) = IF 1 <= k - 1 THEN (k - 1) - 1 + 1 ELSE 0
        /\ \A i \in 1 .. (k - 1) - 1 + 1 : a[i] = s[1 + i - 1]
    BY <2>1, <2>2, SubSeqProperties
  <2>. QED BY <2>3
<1>2. /\ b \in Seq(S) /\ Len(b) = Len(s) - k
      /\ \A i \in 1 .. Len(s) - k : b[i] = s[k + i]
  <2>1. \A i \in k + 1 .. Len(s) : s[i] \in S
    OBVIOUS
  <2>2. k + 1 \in Int /\ Len(s) \in Int
    OBVIOUS
  <2>3. /\ b \in Seq(S)
        /\ Len(b) = IF k + 1 <= Len(s) THEN Len(s) - (k + 1) + 1 ELSE 0
        /\ \A i \in 1 .. Len(s) - (k + 1) + 1 : b[i] = s[k + 1 + i - 1]
    BY <2>1, <2>2, SubSeqProperties
  <2>. QED BY <2>3
<1> HIDE DEF a, b
<1>3. /\ a \o b \in Seq(S) /\ Len(a \o b) = Len(a) + Len(b)
      /\ \A i \in 1 .. Len(a) + Len(b) :
           (a \o b)[i] = IF i <= Len(a) THEN a[i] ELSE b[i - Len(a)]
  BY <1>1, <1>2, ConcatProperties
<1>4. RemoveAt(s, k) = a \o b
  BY DEF RemoveAt, a, b
<1>5. Len(a \o b) = Len(s) - 1
  BY <1>1, <1>2, <1>3
<1>6. ASSUME NEW i \in 1 .. Len(s) - 1
      PROVE  (a \o b)[i] = IF i < k THEN s[i] ELSE s[i + 1]
  <2>1. CASE i < k
    BY <2>1, <1>1, <1>2, <1>3
  <2>2. CASE ~(i < k)
    <3>1. (a \o b)[i] = b[i - (k - 1)]
      BY <2>2, <1>1, <1>2, <1>3
    <3>2. i - (k - 1) \in 1 .. Len(s) - k /\ k + (i - (k - 1)) = i + 1
      BY <2>2
    <3>. QED BY <3>1, <3>2, <1>2, <2>2
  <2>. QED BY <2>1, <2>2
<1>. QED BY <1>3, <1>4, <1>5, <1>6

-----------------------------------------------------------------------------
(* The index stays one that names every profile once                       *)

LEMMA PosOfIsPlace ==
  ASSUME NEW index, NEW u \in UidsOf(index)
  PROVE  /\ PosOf(index, u) \in DOMAIN index.items
         /\ index.items[PosOf(index, u)].uid = u
BY DEF PosOf, UidsOf

LEMMA AppendedIndex ==
  ASSUME NEW index, Indexes(index), NEW item \in Items,
         item.uid \notin UidsOf(index), item.url \notin UrlsOf(index)
  PROVE  LET new == [index EXCEPT !.items = Append(@, item)]
         IN Indexes(new) /\ UidsOf(new) = UidsOf(index) \cup {item.uid}
<1> DEFINE new == [index EXCEPT !.items = Append(@, item)]
<1>0. index \in Index /\ index.items \in Seq(Items)
  BY DEF Indexes, Index
<1>1. /\ Append(index.items, item) \in Seq(Items)
      /\ Len(Append(index.items, item)) = Len(index.items) + 1
      /\ \A i \in 1 .. Len(index.items) :
           Append(index.items, item)[i] = index.items[i]
      /\ Append(index.items, item)[Len(index.items) + 1] = item
  BY <1>0, AppendProperties
<1>2. /\ new \in Index /\ new.current = index.current
      /\ new.items = Append(index.items, item)
  BY <1>0, <1>1 DEF Index
<1>3. DOMAIN new.items = 1 .. Len(index.items) + 1
      /\ DOMAIN index.items = 1 .. Len(index.items)
      /\ Len(index.items) \in Nat
  BY <1>0, <1>1, <1>2
<1>4. UidsOf(new) = UidsOf(index) \cup {item.uid}
  BY <1>1, <1>2, <1>3 DEF UidsOf
<1>5. ASSUME NEW j \in DOMAIN new.items, NEW k \in DOMAIN new.items, j # k
      PROVE  /\ new.items[j].uid # new.items[k].uid
             /\ new.items[j].url # new.items[k].url
  <2>1. \A i \in DOMAIN index.items : /\ new.items[i] = index.items[i]
                                       /\ index.items[i].uid # item.uid
                                       /\ index.items[i].url # item.url
    BY <1>1, <1>2, <1>3 DEF UidsOf, UrlsOf
  <2>2. \A i \in DOMAIN new.items :
           \/ i \in DOMAIN index.items
           \/ i = Len(index.items) + 1 /\ new.items[i] = item
    <3> HIDE DEF new
    <3>. QED BY <1>1, <1>2, <1>3
  <2> HIDE DEF new
  <2>3. CASE j \in DOMAIN index.items /\ k \in DOMAIN index.items
    BY <2>1, <2>3, <1>5 DEF Indexes
  <2>. QED BY <2>1, <2>2, <2>3, <1>5
<1>. QED BY <1>2, <1>4, <1>5 DEF Indexes

(* An index whose items keep uid and url place by place.                   *)
LEMMA SameNames ==
  ASSUME NEW index, Indexes(index), NEW new \in Index,
         new.current \in UidsOf(index) \cup {NoUid},
         DOMAIN new.items = DOMAIN index.items,
         \A i \in DOMAIN index.items :
            /\ new.items[i].uid = index.items[i].uid
            /\ new.items[i].url = index.items[i].url
  PROVE  Indexes(new) /\ UidsOf(new) = UidsOf(index)
<1>1. UidsOf(new) = UidsOf(index)
  BY DEF UidsOf
<1>2. \A j, k \in DOMAIN new.items : j # k =>
        /\ new.items[j].uid # new.items[k].uid
        /\ new.items[j].url # new.items[k].url
  BY DEF Indexes
<1>. QED BY <1>1, <1>2 DEF Indexes

LEMMA RenamedIndex ==
  ASSUME NEW index, Indexes(index), NEW u \in UidsOf(index), NEW n \in Names
  PROVE  /\ Indexes(Renamed(index, u, n))
         /\ UidsOf(Renamed(index, u, n)) = UidsOf(index)
<1> DEFINE new == Renamed(index, u, n)
           i == PosOf(index, u)
<1>0. index \in Index /\ index.items \in Seq(Items)
  BY DEF Indexes, Index
<1>1. i \in 1 .. Len(index.items)
  BY <1>0, PosOfIsPlace
<1> HIDE DEF i
<1>2. [index.items[i] EXCEPT !.name = n] \in Items
  <2>1. index.items[i] \in Items
    BY <1>0, <1>1
  <2>. QED BY <2>1 DEF Items
<1>3. /\ new.current = index.current
      /\ new.items = [index.items EXCEPT ![i] = [index.items[i] EXCEPT !.name = n]]
      /\ new = [current |-> new.current, items |-> new.items]
  BY <1>0 DEF Renamed, Index, i
<1>4. new.items \in Seq(Items)
  BY <1>0, <1>1, <1>2, <1>3, ExceptSeq
<1>5. new \in Index
  BY <1>0, <1>3, <1>4 DEF Index
<1>6. \A k \in DOMAIN index.items : /\ new.items[k].uid = index.items[k].uid
                                    /\ new.items[k].url = index.items[k].url
  BY <1>0, <1>1, <1>3 DEF Items
<1>7. DOMAIN new.items = DOMAIN index.items
  BY <1>3
<1>8. new.current \in UidsOf(index) \cup {NoUid}
  BY <1>3 DEF Indexes
<1> HIDE DEF new
<1>9. Indexes(new) /\ UidsOf(new) = UidsOf(index)
  BY <1>5, <1>6, <1>7, <1>8, SameNames
<1>. QED BY <1>9 DEF new

LEMMA MemorizedIndex ==
  ASSUME NEW index, Indexes(index), index.current # NoUid, NEW n \in Nodes
  PROVE  /\ Indexes(Memorized(index, n))
         /\ UidsOf(Memorized(index, n)) = UidsOf(index)
<1> DEFINE new == Memorized(index, n)
           i == PosOf(index, index.current)
<1>0. /\ index \in Index /\ index.items \in Seq(Items)
      /\ index.current \in UidsOf(index)
  BY DEF Indexes, Index
<1>1. i \in 1 .. Len(index.items)
  BY <1>0, PosOfIsPlace
<1> HIDE DEF i
<1>2. [index.items[i] EXCEPT !.node = n] \in Items
  <2>1. index.items[i] \in Items
    BY <1>0, <1>1
  <2>. QED BY <2>1 DEF Items
<1>3. /\ new.current = index.current
      /\ new.items = [index.items EXCEPT ![i] = [index.items[i] EXCEPT !.node = n]]
      /\ new = [current |-> new.current, items |-> new.items]
  BY <1>0 DEF Memorized, Index, i
<1>4. new.items \in Seq(Items)
  BY <1>0, <1>1, <1>2, <1>3, ExceptSeq
<1>5. new \in Index
  BY <1>0, <1>3, <1>4 DEF Index
<1>6. \A k \in DOMAIN index.items : /\ new.items[k].uid = index.items[k].uid
                                    /\ new.items[k].url = index.items[k].url
  BY <1>0, <1>1, <1>3 DEF Items
<1>7. DOMAIN new.items = DOMAIN index.items
  BY <1>3
<1>8. new.current \in UidsOf(index) \cup {NoUid}
  BY <1>0, <1>3
<1> HIDE DEF new
<1>9. Indexes(new) /\ UidsOf(new) = UidsOf(index)
  BY <1>5, <1>6, <1>7, <1>8, SameNames
<1>. QED BY <1>9 DEF new

LEMMA MovedIndex ==
  ASSUME NEW index, Indexes(index), NEW u \in UidsOf(index), NEW up_ \in BOOLEAN
  PROVE  /\ Indexes(Moved(index, u, up_))
         /\ UidsOf(Moved(index, u, up_)) = UidsOf(index)
<1> DEFINE i == PosOf(index, u)
           j == IF up_ THEN i - 1 ELSE i + 1
           its == [index.items EXCEPT ![i] = index.items[j],
                                      ![j] = index.items[i]]
           new == [index EXCEPT !.items = its]
<1>0. index \in Index /\ index.items \in Seq(Items)
  BY DEF Indexes, Index
<1>1. i \in 1 .. Len(index.items)
  BY <1>0, PosOfIsPlace
<1>a. j \in Int /\ i \in Int
  BY <1>1
<1>b. Moved(index, u, up_) = IF j \in DOMAIN index.items THEN new ELSE index
  BY DEF Moved
<1>. CASE j \notin DOMAIN index.items
  BY <1>b
<1>. CASE j \in DOMAIN index.items
  <2>0. j \in 1 .. Len(index.items)
    BY <1>0
  <2> HIDE DEF i, j
  <2> USE DEF its
  <2>1. /\ new.current = index.current /\ new.items = its
        /\ new = [current |-> new.current, items |-> new.items]
    <3> HIDE DEF its
    <3>. QED BY <1>0 DEF Index
  <2>2. /\ DOMAIN new.items = DOMAIN index.items
        /\ new.items[j] = index.items[i]
        /\ new.items[i] = index.items[j]
        /\ \A k \in DOMAIN index.items : k # i /\ k # j =>
             new.items[k] = index.items[k]
    BY <1>0, <1>1, <2>0, <2>1
  <2>3. new.items \in Seq(Items)
    <3>1. [index.items EXCEPT ![i] = index.items[j]] \in Seq(Items)
          /\ Len([index.items EXCEPT ![i] = index.items[j]]) = Len(index.items)
      BY <1>0, <1>1, <2>0, ExceptSeq, ElementOfSeq
    <3>. QED BY <1>0, <1>1, <2>0, <2>1, <3>1, ExceptSeq, ElementOfSeq
  <2>4. new \in Index
    BY <1>0, <2>1, <2>3 DEF Index
  <2> HIDE DEF new
  <2>5. UidsOf(new) = UidsOf(index)
    <3>1. ASSUME NEW k \in DOMAIN new.items PROVE new.items[k].uid \in UidsOf(index)
      <4>1. PICK n \in DOMAIN index.items : new.items[k] = index.items[n]
        BY <1>0, <1>1, <2>0, <2>2
      <4>. QED BY <4>1 DEF UidsOf
    <3>2. ASSUME NEW k \in DOMAIN index.items PROVE index.items[k].uid \in UidsOf(new)
      <4>1. PICK n \in DOMAIN new.items : index.items[k] = new.items[n]
        BY <1>0, <1>1, <2>0, <2>2
      <4>. QED BY <4>1 DEF UidsOf
    <3>. QED BY <3>1, <3>2 DEF UidsOf
  <2>6. ASSUME NEW k \in DOMAIN new.items, NEW m \in DOMAIN new.items, k # m
        PROVE  /\ new.items[k].uid # new.items[m].uid
               /\ new.items[k].url # new.items[m].url
    BY <2>2, <2>6, <1>0, <1>1, <2>0 DEF Indexes
  <2>7. new.current \in UidsOf(new) \cup {NoUid}
    BY <2>1, <2>5 DEF Indexes
  <2>8. Indexes(new)
    BY <2>4, <2>6, <2>7 DEF Indexes
  <2>. QED BY <2>5, <2>8, <1>b DEF new
<1>. QED OBVIOUS

LEMMA RemovedIndex ==
  ASSUME NEW index, Indexes(index), NEW u \in UidsOf(index)
  PROVE  /\ Indexes(Removed(index, u))
         /\ UidsOf(Removed(index, u)) \subseteq UidsOf(index)
<1> DEFINE i == PosOf(index, u)
           items == RemoveAt(index.items, i)
           new == Removed(index, u)
<1>0. index \in Index /\ index.items \in Seq(Items)
  BY DEF Indexes, Index
<1>1. i \in 1 .. Len(index.items) /\ index.items[i].uid = u
  BY <1>0, PosOfIsPlace
<1>2. /\ new.items = items
      /\ new.current = IF index.current = u THEN NoUid ELSE index.current
      /\ new = [current |-> new.current, items |-> new.items]
  BY DEF Removed
<1> HIDE DEF i
<1>3. /\ items \in Seq(Items) /\ Len(items) = Len(index.items) - 1
      /\ \A k \in 1 .. Len(index.items) - 1 :
           items[k] = IF k < i THEN index.items[k] ELSE index.items[k + 1]
  BY <1>0, <1>1, RemoveAtIsShorter
<1>4. /\ DOMAIN items = 1 .. Len(index.items) - 1
      /\ DOMAIN index.items = 1 .. Len(index.items)
      /\ Len(index.items) \in Nat
  BY <1>0, <1>3
<1> HIDE DEF items, new
<1>5. new \in Index
  BY <1>0, <1>2, <1>3 DEF Index
<1>6. ASSUME NEW k \in DOMAIN items, NEW m \in DOMAIN items, k # m
      PROVE  items[k].uid # items[m].uid /\ items[k].url # items[m].url
  <2>1. \A n \in DOMAIN items : items[n] = index.items[IF n < i THEN n ELSE n + 1]
    BY <1>3, <1>4
  <2>2. (IF k < i THEN k ELSE k + 1) # (IF m < i THEN m ELSE m + 1)
    BY <1>1, <1>4, <1>6
  <2>3. /\ (IF k < i THEN k ELSE k + 1) \in DOMAIN index.items
        /\ (IF m < i THEN m ELSE m + 1) \in DOMAIN index.items
    BY <1>1, <1>4
  <2>. QED BY <2>1, <2>2, <2>3 DEF Indexes
<1>7. ASSUME NEW n \in DOMAIN index.items, index.items[n].uid # u
      PROVE  index.items[n].uid \in UidsOf(new)
  <2>1. n # i
    BY <1>1, <1>7
  <2>2. CASE n < i
    <3>1. n \in DOMAIN items /\ items[n] = index.items[n]
      BY <1>1, <1>3, <1>4, <2>2
    <3>. QED BY <3>1, <1>2 DEF UidsOf
  <2>3. CASE n > i
    <3>1. n - 1 \in DOMAIN items /\ items[n - 1] = index.items[n]
      BY <1>1, <1>3, <1>4, <2>3
    <3>. QED BY <3>1, <1>2 DEF UidsOf
  <2>. QED BY <1>1, <1>4, <2>1, <2>2, <2>3
<1>8. new.current \in UidsOf(new) \cup {NoUid}
  BY <1>2, <1>7 DEF Indexes, UidsOf
<1>9. UidsOf(new) \subseteq UidsOf(index)
  <2>1. ASSUME NEW k \in DOMAIN items PROVE items[k].uid \in UidsOf(index)
    <3>1. PICK n \in DOMAIN index.items : items[k] = index.items[n]
      <4>1. CASE k < i
        BY <1>1, <1>3, <1>4, <4>1
      <4>2. CASE ~(k < i)
        <5>1. k + 1 \in DOMAIN index.items /\ items[k] = index.items[k + 1]
          BY <1>1, <1>3, <1>4, <4>2
        <5>. QED BY <5>1
      <4>. QED BY <4>1, <4>2
    <3>. QED BY <3>1 DEF UidsOf
  <2>. QED BY <2>1, <1>2 DEF UidsOf
<1>10. Indexes(new)
  BY <1>2, <1>5, <1>6, <1>8 DEF Indexes
<1>. QED BY <1>9, <1>10 DEF new
-----------------------------------------------------------------------------
(* What each request asks for, effect by effect                            *)

Asked(kind, u, new, s, undo, onerr) ==
  /\ kind \in Kinds \ {"none"} /\ u \in Uids \cup {NoUid}
  /\ new \in Stored \cup Labels
  /\ s \in Seq(Effects) /\ s # <<>>
  /\ undo \in Seq(Effects) /\ onerr \in Seq(Effects)
  /\ Ask(kind, u, new, s, undo, onerr)
  /\ UNCHANGED <<mem, disk, file, bak, arch, up, faults>>

SaveDos(index) == <<Do("index", NoUid, index), Do("save", NoUid, index)>>

CreateAsked ==
  \E u \in Uids, text \in Texts, index \in Index :
     /\ Indexes(index) /\ UidsOf(index) = UidsOf(mem.index) \cup {u}
     /\ Asked("create", u, text,
              <<Do("write", u, text), Do("index", NoUid, index),
                Do("save", NoUid, index)>>, <<>>, <<>>)

(* The rotation, if there is one, takes the first n effects.               *)
Overwrites(n, u, text, s) ==
  /\ n = 0 \/ /\ n = MAX_BACKUPS + 1
              /\ s[1] = Do("drop", u, MAX_BACKUPS)
              /\ \A k \in 1 .. MAX_BACKUPS - 1 :
                   s[k + 1] = Do("shift", u, MAX_BACKUPS - k)
              /\ s[MAX_BACKUPS + 1] = Do("keep", u, 1)
  /\ s[n + 1] = Do("write", u, text)
  /\ s[n + 2] = Do("index", NoUid, mem.index)
  /\ s[n + 3] = Do("save", NoUid, mem.index)
  /\ \/ Len(s) = n + 3
     \/ Len(s) = n + 4 /\ s[n + 4] = Do("judge", NoUid, Missing)

OverwriteAsked ==
  \E kind \in {"import", "update", "restore"}, u \in Uids,
     text \in Stored \ {Missing}, s \in Seq(Effects), undo \in Seq(Effects) :
     /\ Overwrites(IF kind = "update" THEN 0 ELSE MAX_BACKUPS + 1, u, text, s)
     /\ \/ undo = SaveDos(mem.index)
        \/ /\ file[u] # Missing
           /\ undo = <<Do("write", u, file[u]), Do("index", NoUid, mem.index),
                       Do("save", NoUid, mem.index)>>
     /\ Asked(kind, u, text, s, undo, <<>>)

RemoveAsked ==
  \E u \in Uids, index \in Index :
     /\ Indexes(index)
     /\ Asked("remove", u, Missing,
              <<Do("index", NoUid, index), Do("unlink", u, Missing),
                Do("save", NoUid, index)>>, <<>>, <<>>)

SwitchAsked ==
  \E index \in Index, undo \in {<<>>, SaveDos(mem.index)} :
     /\ Indexes(index) /\ UidsOf(index) = UidsOf(mem.index)
     /\ Asked("switch", NoUid, Missing,
              <<Do("index", NoUid, index), Do("save", NoUid, index),
                Do("judge", NoUid, Missing)>>, undo, <<>>)

EditAsked ==
  \E index \in Index :
     /\ Indexes(index) /\ UidsOf(index) = UidsOf(mem.index)
     /\ Asked("edit", NoUid, Missing, SaveDos(index), <<>>, <<>>)

SettingsAsked ==
  \E set \in Settings :
     /\ set.mode # "bad"
     /\ \/ /\ set = [mem.set EXCEPT !.theme = set.theme]
           /\ Asked("settings", NoUid, Missing, <<Do("set", NoUid, set)>>,
                    <<>>, <<>>)
        \/ Asked("settings", NoUid, Missing,
                 <<Do("set", NoUid, set), Do("judge", NoUid, Missing),
                   Do("save_set", NoUid, Missing)>>,
                 <<Do("set", NoUid, mem.set)>>, <<Do("set", NoUid, mem.set)>>)
        \/ Asked("settings", NoUid, Missing,
                 <<Do("set", NoUid, set), Do("save_set", NoUid, Missing)>>,
                 <<>>, <<>>)

BackupAsked ==
  \E l \in Labels :
     Asked("backup", NoUid, l,
           <<Do("open_tar", NoUid, l), Do("close_tar", NoUid, l)>>, <<>>, <<>>)

(* Everything in the archive a, and then both stores.                      *)
Restores(a, s) ==
  /\ Len(s) >= 3
  /\ s[Len(s) - 1].op = "reload_index" /\ s[Len(s)].op = "reload_set"
  /\ \A i \in 1 .. Len(s) - 2 :
       /\ s[i].op \in {"unpack", "copy_index", "copy_set", "write"}
       /\ s[i].op = "copy_index" => s[i].arg = a.index
       /\ s[i].op = "copy_set" => s[i].arg = a.set
       /\ s[i].op = "write" => s[i].arg = a.file[s[i].uid]
  /\ a.index # Missing => \E i \in 1 .. Len(s) : s[i].op = "copy_index"
  /\ a.set # Missing => \E i \in 1 .. Len(s) : s[i].op = "copy_set"
  /\ \A u \in Uids : a.file[u] # Missing =>
       \E i \in 1 .. Len(s) : Is(s[i], "write", u, a.file[u])

RecoverAsked ==
  \E l \in Labels, s \in Seq(Effects) :
     /\ Accepted(arch[l]) /\ Restores(arch[l], s)
     /\ Asked("recover", NoUid, l, s, <<>>, <<>>)

LEMMA AskedFacts ==
  ASSUME Types, NEW kind, NEW u, NEW new, NEW s, NEW undo, NEW onerr,
         Asked(kind, u, new, s, undo, onerr)
  PROVE  /\ Types'
         /\ up /\ req = Idle /\ todo = <<>> /\ todo' = s
         /\ req'.kind = kind /\ req'.uid = u /\ req'.new = new
         /\ req'.undo = undo /\ req'.onerr = onerr /\ req'.failed = FALSE
         /\ u \in Uids => req'.old = file[u] /\ req'.hist = bak[u]
<1>1. TypeOK'
  BY DEF Asked, Ask, Types, TypeOK
<1>2. /\ req'.kind = kind /\ req'.uid = u /\ req'.new = new
      /\ req'.undo = undo /\ req'.onerr = onerr /\ req'.failed = FALSE
      /\ req'.old = (IF u = NoUid THEN Missing ELSE file[u])
      /\ req'.hist = (IF u = NoUid THEN <<>> ELSE bak[u])
      /\ req' = [kind |-> kind, uid |-> u, old |-> req'.old, new |-> new,
                 hist |-> req'.hist, undo |-> undo, onerr |-> onerr,
                 failed |-> FALSE]
  BY DEF Asked, Ask, Idle
<1>3. req'.old \in Stored /\ req'.hist \in [1 .. MAX_BACKUPS -> Stored] \cup {<<>>}
  <2>1. CASE u = NoUid
    BY <1>2, <2>1 DEF Stored
  <2>2. CASE u # NoUid
    <3>1. u \in Uids
      BY <2>2 DEF Asked
    <3>. QED BY <1>2, <2>2, <3>1 DEF Types, TypeOK
  <2>. QED BY <2>1, <2>2
<1>4. req' \in Requests
  BY <1>2, <1>3 DEF Requests, Asked
<1>5. todo' = s /\ s # <<>> /\ s \in Seq(Effects) /\ up /\ req = Idle /\ up'
  BY DEF Asked, Ask
<1>6. req' # Idle
  BY <1>2 DEF Asked, Idle
<1>7. todo = <<>>
  BY <1>5 DEF Types
<1>8. Types'
  BY <1>1, <1>4, <1>5, <1>6 DEF Types
<1>. QED BY <1>2, <1>5, <1>7, <1>8

LEMMA ImportNewAsks ==
  ASSUME Types, NEW url \in Urls, ImportNew(url) PROVE CreateAsked
<1>1. PICK u \in Fresh :
        Ask("create", u, NewText,
            <<Do("write", u, NewText)>> \o
               Save([mem.index EXCEPT !.items =
                       Append(@, [uid |-> u, url |-> url, name |-> GivenName,
                                  node |-> NoNode])]),
            <<>>, <<>>)
  BY DEF ImportNew
<1> DEFINE item == [uid |-> u, url |-> url, name |-> GivenName, node |-> NoNode]
           index == [mem.index EXCEPT !.items = Append(@, item)]
           w == Do("write", u, NewText)
           i == Do("index", NoUid, index)
           s == Do("save", NoUid, index)
<1>2. /\ u \in Uids /\ u \notin UidsOf(mem.index) /\ url \notin UrlsOf(mem.index)
      /\ Indexes(mem.index)
  BY DEF Fresh, ImportNew, Types, TypeOK
<1>3. item \in Items /\ item.uid = u /\ item.url = url
  BY <1>2 DEF Items
<1> HIDE DEF item
<1>4. Indexes(index) /\ UidsOf(index) = UidsOf(mem.index) \cup {u}
  BY <1>2, <1>3, AppendedIndex
<1>5. index \in Index /\ index \in Args
  BY <1>4 DEF Indexes, Args
<1>6. NewText \in Texts /\ NewText \in Stored \ {Missing} /\ NewText \in Args
  <2>1. ops \in 0 .. MAX_OPS /\ ops < MAX_OPS
    BY <1>1 DEF Ask, Types, TypeOK
  <2>2. ops + 5 \in 1 .. MAX_OPS + 4
    BY <2>1
  <2>. QED BY <2>2, StoresAssumption DEF NewText, Texts, Stored, Args
<1> HIDE DEF index
<1>7. w \in Effects
  BY <1>2, <1>6, DoIsEffect DEF Legal, Do, Ops, OnDisk
<1>8. i \in Effects /\ s \in Effects
  BY <1>4, <1>5, DoIsEffect DEF Legal, Do, Ops, OnDisk
<1>9. <<w>> \o Save(index) = <<w, i, s>>
  <2>1. Save(index) = <<i, s>>
    BY DEF Save
  <2> HIDE DEF w, i, s
  <2>2. <<w>> \o <<i, s>> = <<w, i, s>>
    BY <1>7, <1>8, TwoAfterOne
  <2>. QED BY <2>1, <2>2
<1>10. <<w, i, s>> \in Seq(Effects) /\ <<w, i, s>> # <<>>
  BY <1>7, <1>8
<1>11. Ask("create", u, NewText, <<w, i, s>>, <<>>, <<>>)
  BY <1>1, <1>9 DEF index, item
<1>12. Asked("create", u, NewText, <<w, i, s>>, <<>>, <<>>)
  BY <1>2, <1>6, <1>10, <1>11 DEF Asked, Kinds, ImportNew
<1>. QED BY <1>2, <1>4, <1>5, <1>6, <1>12 DEF CreateAsked

LEMMA MemoryIsLegal ==
  ASSUME Types
  PROVE  /\ Indexes(mem.index) /\ mem.index \in Index /\ mem.index \in Args
         /\ Do("index", NoUid, mem.index) \in Effects
         /\ Do("save", NoUid, mem.index) \in Effects
         /\ SaveDos(mem.index) \in Seq(Effects)
         /\ Save(mem.index) = SaveDos(mem.index)
         /\ mem.set \in Settings /\ mem.set.mode # "bad"
<1>1. Indexes(mem.index) /\ mem.index \in Index /\ mem.index \in Args
  BY DEF Types, TypeOK, Indexes, Args
<1>2. /\ Do("index", NoUid, mem.index) \in Effects
      /\ Do("save", NoUid, mem.index) \in Effects
  BY <1>1, DoIsEffect DEF Legal, Do, Ops, OnDisk
<1>3. mem.set \in Settings /\ mem.set.mode # "bad"
  BY DEF Types, TypeOK
<1>. QED BY <1>1, <1>2, <1>3 DEF SaveDos, Save

LEMMA JudgeIsEffect == Do("judge", NoUid, Missing) \in Effects
BY DoIsEffect DEF Legal, Do, Ops, OnDisk, Args, Stored

LEMMA WriteIsEffect ==
  ASSUME NEW u \in Uids, NEW text \in Stored \ {Missing}
  PROVE  Do("write", u, text) \in Effects
BY DoIsEffect DEF Legal, Do, Ops, OnDisk, Args

(* The list of an overwrite.                                               *)
OverwriteOf(before, u, text, last) ==
  before \o <<Do("write", u, text)>> \o Save(mem.index) \o last

Continues(s, before, u, text, last) ==
  /\ s \in Seq(Effects) /\ Len(s) = Len(before) + 3 + Len(last)
  /\ \A k \in 1 .. Len(before) : s[k] = before[k]
  /\ s[Len(before) + 1] = Do("write", u, text)
  /\ s[Len(before) + 2] = Do("index", NoUid, mem.index)
  /\ s[Len(before) + 3] = Do("save", NoUid, mem.index)
  /\ last = Judge => s[Len(before) + 4] = Do("judge", NoUid, Missing)

LEMMA OverwriteList ==
  ASSUME Types, NEW u \in Uids, NEW text \in Stored \ {Missing},
         NEW before \in Seq(Effects), NEW last \in {<<>>, Judge},
         NEW s, s = OverwriteOf(before, u, text, last)
  PROVE  Continues(s, before, u, text, last)
<1> DEFINE w == <<Do("write", u, text)>>
           m == Save(mem.index)
           a == before \o w
           b == a \o m
           c == b \o last
           n == Len(before)
<1>0. n \in Nat
  OBVIOUS
<1>1. w \in Seq(Effects) /\ Len(w) = 1 /\ w[1] = Do("write", u, text)
  BY WriteIsEffect
<1>2. /\ m \in Seq(Effects) /\ Len(m) = 2
      /\ m[1] = Do("index", NoUid, mem.index)
      /\ m[2] = Do("save", NoUid, mem.index)
  BY MemoryIsLegal, SaveIsLegal
<1>3. last \in Seq(Effects) /\ Len(last) \in Nat
  <2>1. <<>> \in Seq(Effects) /\ Judge \in Seq(Effects)
    BY JudgeIsEffect DEF Judge
  <2>2. last \in Seq(Effects)
    BY <2>1
  <2>. QED BY <2>2, LenProperties
<1>3a. last = Judge => Len(last) = 1 /\ last[1] = Do("judge", NoUid, Missing)
  BY DEF Judge
<1> HIDE DEF w, m, n
<1>4. /\ a \in Seq(Effects) /\ Len(a) = n + 1
      /\ \A k \in 1 .. n + 1 : a[k] = IF k <= n THEN before[k] ELSE w[k - n]
  BY <1>0, <1>1, ConcatProperties DEF n
<1> HIDE DEF a
<1>5. /\ b \in Seq(Effects) /\ Len(b) = Len(a) + Len(m)
      /\ \A k \in 1 .. Len(a) + Len(m) :
           b[k] = IF k <= Len(a) THEN a[k] ELSE m[k - Len(a)]
  BY <1>2, <1>4, ConcatProperties
<1> HIDE DEF b
<1>6. /\ c \in Seq(Effects) /\ Len(c) = Len(b) + Len(last)
      /\ \A k \in 1 .. Len(b) + Len(last) :
           c[k] = IF k <= Len(b) THEN b[k] ELSE last[k - Len(b)]
  <2>1. b \in Seq(Effects)
    BY <1>5
  <2>. QED BY <1>3, <2>1, ConcatProperties
<1> HIDE DEF c
<1>7. Len(a) = n + 1 /\ Len(b) = n + 3 /\ Len(c) = n + 3 + Len(last)
  <2>1. Len(a) = n + 1
    BY <1>4
  <2>2. Len(b) = n + 3
    BY <2>1, <1>0, <1>2, <1>5
  <2>3. Len(c) = n + 3 + Len(last)
    BY <2>2, <1>0, <1>6
  <2>. QED BY <2>1, <2>2, <2>3
<1>8. \A k \in 1 .. n + 3 : c[k] = IF k <= n + 1 THEN a[k] ELSE m[k - (n + 1)]
  BY <1>0, <1>2, <1>3, <1>5, <1>6, <1>7
<1>9. /\ \A k \in 1 .. n : c[k] = before[k]
      /\ c[n + 1] = w[1] /\ c[n + 2] = m[1] /\ c[n + 3] = m[2]
  <2>1. ASSUME NEW k \in 1 .. n PROVE c[k] = before[k]
    <3>1. k \in 1 .. n + 3 /\ k \in 1 .. n + 1 /\ k <= n + 1 /\ k <= n
      BY <1>0
    <3>2. c[k] = a[k]
      BY <1>8, <3>1
    <3>3. a[k] = before[k]
      BY <1>4, <3>1
    <3>. QED BY <3>2, <3>3
  <2>2. c[n + 1] = w[1]
    <3>1. /\ n + 1 \in 1 .. n + 3 /\ n + 1 \in 1 .. n + 1 /\ n + 1 <= n + 1
          /\ ~(n + 1 <= n) /\ (n + 1) - n = 1
      BY <1>0
    <3>2. c[n + 1] = a[n + 1]
      BY <1>8, <3>1
    <3>3. a[n + 1] = w[(n + 1) - n]
      BY <1>4, <3>1
    <3>. QED BY <3>1, <3>2, <3>3
  <2>3. c[n + 2] = m[1]
    <3>1. /\ n + 2 \in 1 .. n + 3 /\ ~(n + 2 <= n + 1)
          /\ (n + 2) - (n + 1) = 1
      BY <1>0
    <3>2. c[n + 2] = m[(n + 2) - (n + 1)]
      BY <1>8, <3>1
    <3>. QED BY <3>1, <3>2
  <2>4. c[n + 3] = m[2]
    <3>1. /\ n + 3 \in 1 .. n + 3 /\ ~(n + 3 <= n + 1)
          /\ (n + 3) - (n + 1) = 2
      BY <1>0
    <3>2. c[n + 3] = m[(n + 3) - (n + 1)]
      BY <1>8, <3>1
    <3>. QED BY <3>1, <3>2
  <2>. QED BY <2>1, <2>2, <2>3, <2>4
<1>10. last = Judge => c[n + 4] = last[1]
  <2> SUFFICES ASSUME last = Judge PROVE c[n + 4] = last[1]
    OBVIOUS
  <2>1. Len(last) = 1 /\ n + 4 \in 1 .. Len(b) + Len(last)
    <3>1. Len(last) = 1
      BY <1>3a
    <3>. QED BY <3>1, <1>0, <1>7
  <2>2. c[n + 4] = last[n + 4 - Len(b)]
    BY <2>1, <1>0, <1>6, <1>7
  <2>. QED BY <2>2, <1>0, <1>7
<1>. QED BY <1>1, <1>2, <1>3, <1>3a, <1>6, <1>7, <1>9, <1>10
   DEF a, b, c, w, m, n, OverwriteOf, Continues

LEMMA UndoTextList ==
  ASSUME Types, NEW u \in Uids
  PROVE  /\ UndoText(u) \in Seq(Effects)
         /\ \/ UndoText(u) = SaveDos(mem.index)
            \/ /\ file[u] # Missing
               /\ UndoText(u) = <<Do("write", u, file[u]),
                                  Do("index", NoUid, mem.index),
                                  Do("save", NoUid, mem.index)>>
<1>1. CASE file[u] = Missing
  <2>1. <<>> \o SaveDos(mem.index) = SaveDos(mem.index)
    BY MemoryIsLegal, ConcatEmptySeq
  <2>. QED BY <1>1, <2>1, MemoryIsLegal DEF UndoText
<1>2. CASE file[u] # Missing
  <2> DEFINE w == Do("write", u, file[u])
             i == Do("index", NoUid, mem.index)
             s == Do("save", NoUid, mem.index)
  <2>1. w \in Effects /\ i \in Effects /\ s \in Effects
    <3>1. file[u] \in Stored \ {Missing}
      BY <1>2 DEF Types, TypeOK
    <3>. QED BY <3>1, WriteIsEffect, MemoryIsLegal
  <2>2. UndoText(u) = <<w>> \o <<i, s>>
    BY <1>2 DEF UndoText, Save
  <2> HIDE DEF w, i, s
  <2>3. UndoText(u) = <<w, i, s>> /\ <<w, i, s>> \in Seq(Effects)
    BY <2>1, <2>2, TwoAfterOne
  <2>. QED BY <1>2, <2>3 DEF w, i, s
<1>. QED BY <1>1, <1>2

LEMMA OverwriteAsks ==
  ASSUME Types, NEW kind \in {"import", "update", "restore"}, NEW u \in Uids,
         NEW text \in Stored \ {Missing}, NEW judged \in BOOLEAN,
         NEW before \in Seq(Effects),
         before = IF kind = "update" THEN <<>> ELSE Rotate(u),
         Overwrite(kind, u, text, before, judged),
         UNCHANGED <<mem, disk, file, bak, arch, up, faults>>
  PROVE  OverwriteAsked
<1> DEFINE last == IF judged THEN Judge ELSE <<>>
           s == before \o <<Do("write", u, text)>> \o Save(mem.index) \o last
           n == Len(before)
<1>1. last \in {<<>>, Judge} /\ (last = <<>> \/ last = Judge)
  OBVIOUS
<1> HIDE DEF last
<1>3. Ask(kind, u, text, s, UndoText(u), <<>>)
  BY DEF Overwrite, last
<1>2. /\ s \in Seq(Effects) /\ Len(s) = n + 3 + Len(last)
      /\ \A k \in 1 .. n : s[k] = before[k]
      /\ s[n + 1] = Do("write", u, text)
      /\ s[n + 2] = Do("index", NoUid, mem.index)
      /\ s[n + 3] = Do("save", NoUid, mem.index)
      /\ last = Judge => s[n + 4] = Do("judge", NoUid, Missing)
  <2>1. s = before \o <<Do("write", u, text)>> \o Save(mem.index) \o last
    OBVIOUS
  <2> HIDE DEF s
  <2>2. last \in {<<>>, Judge} /\ s = OverwriteOf(before, u, text, last)
    BY <1>1, <2>1 DEF OverwriteOf
  <2>3. Continues(s, before, u, text, last)
    BY <2>2, OverwriteList
  <2>. QED BY <2>3 DEF Continues
<1> HIDE DEF s, n
<1>4. n = (IF kind = "update" THEN 0 ELSE MAX_BACKUPS + 1)
  <2>1. CASE kind = "update"
    BY <2>1 DEF n
  <2>2. CASE kind # "update"
    BY <2>2, RotateIsLegal DEF n
  <2>. QED BY <2>1, <2>2
<1>5. n \in Nat
  BY <1>4
<1>6. Len(s) = n + 3 \/ (Len(s) = n + 4 /\ s[n + 4] = Do("judge", NoUid, Missing))
  <2>1. CASE last = <<>>
    BY <1>2, <1>5, <2>1
  <2>2. CASE last = Judge
    <3>1. Len(last) = 1
      BY <2>2 DEF Judge
    <3>. QED BY <1>2, <1>5, <2>2, <3>1
  <2>. QED BY <1>1, <2>1, <2>2
<1>7. Overwrites(n, u, text, s)
  <2>1. CASE kind = "update"
    BY <1>2, <1>4, <1>6, <2>1 DEF Overwrites
  <2>2. CASE kind # "update"
    <3>1. before = Rotate(u) /\ n = MAX_BACKUPS + 1
      BY <1>4, <2>2
    <3>2. /\ Rotate(u)[1] = Do("drop", u, MAX_BACKUPS)
          /\ \A k \in 1 .. MAX_BACKUPS - 1 :
               Rotate(u)[k + 1] = Do("shift", u, MAX_BACKUPS - k)
          /\ Rotate(u)[MAX_BACKUPS + 1] = Do("keep", u, 1)
      BY RotateIsLegal
    <3>3. /\ s[1] = Do("drop", u, MAX_BACKUPS)
          /\ \A k \in 1 .. MAX_BACKUPS - 1 :
               s[k + 1] = Do("shift", u, MAX_BACKUPS - k)
          /\ s[MAX_BACKUPS + 1] = Do("keep", u, 1)
      BY <1>2, <3>1, <3>2
    <3>. QED BY <1>2, <1>6, <3>1, <3>3 DEF Overwrites
  <2>. QED BY <2>1, <2>2
<1>8. s # <<>>
  BY <1>2, <1>5, <1>6
<1>9. UndoText(u) \in Seq(Effects) /\ <<>> \in Seq(Effects)
  BY UndoTextList
<1>10. Asked(kind, u, text, s, UndoText(u), <<>>)
  BY <1>2, <1>3, <1>8, <1>9 DEF Asked, Kinds
<1>. QED BY <1>2, <1>4, <1>7, <1>9, <1>10, UndoTextList DEF OverwriteAsked

LEMMA NewTextIsText ==
  ASSUME Types, ops < MAX_OPS PROVE NewText \in Stored \ {Missing}
<1>1. ops \in 0 .. MAX_OPS
  BY DEF Types, TypeOK
<1>2. ops + 5 \in 1 .. MAX_OPS + 4
  BY <1>1
<1>. QED BY <1>2, StoresAssumption DEF NewText, Texts, Stored

LEMMA ImportUpdateAsks ==
  ASSUME Types, NEW u \in Uids, ImportUpdate(u) PROVE OverwriteAsked
<1>1. NewText \in Stored \ {Missing}
  BY NewTextIsText DEF ImportUpdate, Overwrite, Ask
<1>2. Rotate(u) \in Seq(Effects)
  BY RotateIsLegal
<1>. QED BY <1>1, <1>2, OverwriteAsks DEF ImportUpdate

LEMMA AutoUpdateAsks ==
  ASSUME Types, NEW u \in Uids, AutoUpdate(u) PROVE OverwriteAsked
<1>1. NewText \in Stored \ {Missing}
  BY NewTextIsText DEF AutoUpdate, Overwrite, Ask
<1>2. <<>> \in Seq(Effects)
  OBVIOUS
<1>. QED BY <1>1, <1>2, OverwriteAsks DEF AutoUpdate

LEMMA RestoreVersionAsks ==
  ASSUME Types, NEW u \in Uids, NEW n \in 1 .. MAX_BACKUPS, RestoreVersion(u, n)
  PROVE  OverwriteAsked
<1>1. bak[u][n] \in Stored \ {Missing}
  BY DEF RestoreVersion, Types, TypeOK
<1>2. Rotate(u) \in Seq(Effects)
  BY RotateIsLegal
<1>. QED BY <1>1, <1>2, OverwriteAsks DEF RestoreVersion

(* The two effects of Save.                                                *)
LEMMA SaveDosAreEffects ==
  ASSUME NEW index, Indexes(index)
  PROVE  /\ index \in Index /\ Save(index) = SaveDos(index)
         /\ Do("index", NoUid, index) \in Effects
         /\ Do("save", NoUid, index) \in Effects
         /\ SaveDos(index) \in Seq(Effects) /\ SaveDos(index) # <<>>
<1>1. index \in Index /\ index \in Args
  BY DEF Indexes, Args
<1>2. Do("index", NoUid, index) \in Effects /\ Do("save", NoUid, index) \in Effects
  BY <1>1, DoIsEffect DEF Legal, Do, Ops, OnDisk
<1>. QED BY <1>1, <1>2 DEF SaveDos, Save

LEMMA ProfileRemoveAsks ==
  ASSUME Types, NEW u \in Uids, ProfileRemove(u) PROVE RemoveAsked
<1> DEFINE index == Removed(mem.index, u)
<1>1. Indexes(index)
  BY MemoryIsLegal, RemovedIndex DEF ProfileRemove
<1>2. Ask("remove", u, Missing,
          <<Do("index", NoUid, index), Do("unlink", u, Missing),
            Do("save", NoUid, index)>>, <<>>, <<>>)
  BY DEF ProfileRemove
<1> HIDE DEF index
<1>3. Do("unlink", u, Missing) \in Effects
  BY DoIsEffect DEF Legal, Do, Ops, OnDisk, Args, Stored
<1> DEFINE i == Do("index", NoUid, index)
           x == Do("unlink", u, Missing)
           s == Do("save", NoUid, index)
<1>4. i \in Effects /\ x \in Effects /\ s \in Effects /\ index \in Index
  BY <1>1, <1>3, SaveDosAreEffects
<1> HIDE DEF i, x, s
<1>5. <<i, x, s>> \in Seq(Effects) /\ <<i, x, s>> # <<>> /\ <<>> \in Seq(Effects)
  BY <1>4
<1>6. Ask("remove", u, Missing, <<i, x, s>>, <<>>, <<>>)
  BY <1>2 DEF i, x, s
<1>7. Asked("remove", u, Missing, <<i, x, s>>, <<>>, <<>>)
  BY <1>5, <1>6 DEF Asked, Kinds, Stored, ProfileRemove
<1>. QED BY <1>1, <1>4, <1>7 DEF RemoveAsked, i, x, s

LEMMA SetCurrentAsks ==
  ASSUME Types, NEW u \in Uids, SetCurrent(u) PROVE SwitchAsked
<1> DEFINE index == [mem.index EXCEPT !.current = u]
           undo == IF mem.index.current = NoUid THEN <<>> ELSE Save(mem.index)
<1>0. Indexes(mem.index) /\ mem.index \in Index /\ u \in UidsOf(mem.index)
  BY MemoryIsLegal DEF SetCurrent
<1>1. /\ index \in Index /\ index.items = mem.index.items /\ index.current = u
  BY <1>0 DEF Index
<1>2. Ask("switch", NoUid, Missing, Save(index) \o Judge, undo, <<>>)
  BY DEF SetCurrent
<1> HIDE DEF index
<1>3. Indexes(index) /\ UidsOf(index) = UidsOf(mem.index)
  BY <1>0, <1>1 DEF Indexes, UidsOf
<1>4. undo \in {<<>>, SaveDos(mem.index)} /\ undo \in Seq(Effects)
  BY MemoryIsLegal
<1> HIDE DEF undo
<1> DEFINE i == Do("index", NoUid, index)
           s == Do("save", NoUid, index)
           j == Do("judge", NoUid, Missing)
<1>5. i \in Effects /\ s \in Effects /\ j \in Effects
  BY <1>3, SaveDosAreEffects, JudgeIsEffect
<1>6. Save(index) \o Judge = <<i, s>> \o <<j>>
  BY DEF Save, Judge
<1> HIDE DEF i, s, j
<1>7. Save(index) \o Judge = <<i, s, j>>
  BY <1>5, <1>6, OneAfterTwo
<1>8. <<i, s, j>> \in Seq(Effects) /\ <<i, s, j>> # <<>> /\ <<>> \in Seq(Effects)
  BY <1>5
<1>9. Ask("switch", NoUid, Missing, <<i, s, j>>, undo, <<>>)
  BY <1>2, <1>7
<1>10. Asked("switch", NoUid, Missing, <<i, s, j>>, undo, <<>>)
  BY <1>4, <1>8, <1>9 DEF Asked, Kinds, Stored, SetCurrent
<1>. QED BY <1>1, <1>3, <1>4, <1>10 DEF SwitchAsked, i, s, j

LEMMA EditIndexAsks ==
  ASSUME Types, NEW index, Indexes(index), UidsOf(index) = UidsOf(mem.index),
         EditIndex("edit", index)
  PROVE  EditAsked
<1>1. /\ index \in Index /\ Save(index) = SaveDos(index)
      /\ SaveDos(index) \in Seq(Effects) /\ SaveDos(index) # <<>>
  BY SaveDosAreEffects
<1>2. Asked("edit", NoUid, Missing, SaveDos(index), <<>>, <<>>)
  BY <1>1 DEF EditIndex, Asked, Kinds, Stored
<1>. QED BY <1>1, <1>2 DEF EditAsked

LEMMA EditsAsk ==
  ASSUME Types,
         \/ \E u \in Uids, n \in Names : Rename(u, n)
         \/ \E u \in Uids, up_ \in BOOLEAN : Move(u, up_)
         \/ \E n \in Nodes : Memorize(n)
  PROVE  EditAsked
<1>1. ASSUME NEW u \in Uids, NEW n \in Names, Rename(u, n) PROVE EditAsked
  BY <1>1, MemoryIsLegal, RenamedIndex, EditIndexAsks DEF Rename
<1>2. ASSUME NEW u \in Uids, NEW up_ \in BOOLEAN, Move(u, up_) PROVE EditAsked
  BY <1>2, MemoryIsLegal, MovedIndex, EditIndexAsks DEF Move
<1>3. ASSUME NEW n \in Nodes, Memorize(n) PROVE EditAsked
  BY <1>3, MemoryIsLegal, MemorizedIndex, EditIndexAsks DEF Memorize
<1>. QED BY <1>1, <1>2, <1>3

LEMMA BackupCreateAsks ==
  ASSUME Types, NEW l \in Labels, BackupCreate(l) PROVE BackupAsked
<1>1. Do("open_tar", NoUid, l) \in Effects /\ Do("close_tar", NoUid, l) \in Effects
  BY DoIsEffect DEF Legal, Do, Ops, OnDisk, Args
<1>. QED BY <1>1 DEF BackupCreate, BackupAsked, Asked, Kinds, Stored

LEMMA PatchedIsSetting ==
  ASSUME NEW set \in Settings, set.mode # "bad", NEW p \in Patches
  PROVE  /\ Patched(set, p) \in Settings /\ Patched(set, p).mode # "bad"
         /\ p.port = 0 =>
              Patched(set, p) = [set EXCEPT !.theme = Patched(set, p).theme]
<1> DEFINE early == [set EXCEPT !.theme = IF p.theme = Keep THEN @ ELSE p.theme]
           late == [early EXCEPT
                     !.port = IF p.port = -1 THEN @ ELSE p.port,
                     !.mode = IF p.mode = Keep THEN @ ELSE p.mode]
<1>1. /\ set = [theme |-> set.theme, port |-> set.port, mode |-> set.mode]
      /\ set.theme \in {"dark", "light"} /\ set.port \in {1, 2}
      /\ set.mode \in {"rule", "global"}
  BY DEF Settings
<1>2. /\ p.theme \in {Keep, "light"} /\ p.port \in {-1, 0, 2}
      /\ p.mode \in {Keep, "global", "bad"}
  BY DEF Patches
<1>3. /\ early = [theme |-> early.theme, port |-> set.port, mode |-> set.mode]
      /\ early.theme \in {"dark", "light"}
      /\ early = [set EXCEPT !.theme = early.theme]
  BY <1>1, <1>2
<1>4. CASE p.port = 0
  <2>1. Patched(set, p) = early
    BY <1>4 DEF Patched
  <2> HIDE DEF early
  <2>. QED BY <1>1, <1>3, <2>1 DEF Settings
<1>5. CASE p.port # 0
  <2>1. Patched(set, p) = Normal(late)
    BY <1>5 DEF Patched
  <2> DEFINE port == IF p.port = -1 THEN early.port ELSE p.port
             mode == IF p.mode = Keep THEN early.mode ELSE p.mode
  <2>2. late = [early EXCEPT !.port = port, !.mode = mode]
    OBVIOUS
  <2>3. port \in {1, 2} /\ mode \in {"rule", "global", "bad"}
    <3>1. early.port = set.port /\ early.mode = set.mode
      BY <1>1
    <3> HIDE DEF early
    <3>. QED BY <1>1, <1>2, <1>5, <3>1
  <2>4. early \in Settings
    <3> HIDE DEF early
    <3>. QED BY <1>1, <1>3 DEF Settings
  <2> HIDE DEF early, port, mode
  <2>5. late \in Settings
    <3>1. [early EXCEPT !.port = port] \in Settings
      BY <2>3, <2>4 DEF Settings
    <3>2. [[early EXCEPT !.port = port] EXCEPT !.mode = mode] \in Settings
      BY <2>3, <3>1 DEF Settings
    <3>. QED BY <2>2, <2>3, <2>4, <3>2 DEF Settings
  <2> HIDE DEF late
  <2>6. Normal(late) \in Settings /\ Normal(late).mode # "bad"
    BY <2>5 DEF Normal, Settings
  <2>. QED BY <1>5, <2>1, <2>6
<1>. QED BY <1>4, <1>5

LEMMA SetIsEffect ==
  ASSUME NEW set \in Settings, set.mode # "bad"
  PROVE  Do("set", NoUid, set) \in Effects
BY DoIsEffect DEF Legal, Do, Ops, OnDisk, Args

LEMMA SettingsSetAsks ==
  ASSUME Types, NEW p \in Patches, SettingsSet(p) PROVE SettingsAsked
<1> DEFINE set == Patched(mem.set, p)
           o == Do("set", NoUid, mem.set)
           n == Do("set", NoUid, set)
           j == Do("judge", NoUid, Missing)
           s == Do("save_set", NoUid, Missing)
<1>1. /\ set \in Settings /\ set.mode # "bad"
      /\ p.port = 0 => set = [mem.set EXCEPT !.theme = set.theme]
  BY MemoryIsLegal, PatchedIsSetting
<1>2. \/ p.port = 0 /\ Ask("settings", NoUid, Missing, <<n>>, <<>>, <<>>)
      \/ Ask("settings", NoUid, Missing, <<n>> \o <<j>> \o <<s>>, <<o>>, <<o>>)
      \/ Ask("settings", NoUid, Missing, <<n>> \o <<s>>, <<>>, <<>>)
  BY DEF SettingsSet, Judge
<1>a. UNCHANGED <<mem, disk, file, bak, arch, up, faults>>
  BY DEF SettingsSet
<1> HIDE DEF set
<1>3. n \in Effects /\ o \in Effects
  BY <1>1, MemoryIsLegal, SetIsEffect
<1>4. j \in Effects /\ s \in Effects
  BY JudgeIsEffect, DoIsEffect DEF Legal, Do, Ops, OnDisk, Args, Stored
<1> HIDE DEF o, n, j, s
<1>5. <<n>> \o <<j>> \o <<s>> = <<n, j, s>> /\ <<n>> \o <<s>> = <<n, s>>
  <2>1. <<n>> \o <<j>> = <<n, j>> /\ <<n>> \o <<s>> = <<n, s>>
    BY <1>3, <1>4, OneAfterOne
  <2>2. <<n, j>> \o <<s>> = <<n, j, s>>
    BY <1>3, <1>4, OneAfterTwo
  <2>. QED BY <2>1, <2>2
<1>6. /\ <<n, j, s>> \in Seq(Effects) /\ <<n, j, s>> # <<>>
      /\ <<n, s>> \in Seq(Effects) /\ <<n, s>> # <<>>
      /\ <<n>> \in Seq(Effects) /\ <<n>> # <<>>
      /\ <<o>> \in Seq(Effects) /\ <<>> \in Seq(Effects)
  BY <1>3, <1>4
<1>7. CASE p.port = 0 /\ Ask("settings", NoUid, Missing, <<n>>, <<>>, <<>>)
  <2>1. Asked("settings", NoUid, Missing, <<n>>, <<>>, <<>>)
    BY <1>6, <1>7, <1>a DEF Asked, Kinds, Stored
  <2>. QED BY <1>1, <1>7, <2>1 DEF SettingsAsked, n
<1>8. CASE Ask("settings", NoUid, Missing, <<n, j, s>>, <<o>>, <<o>>)
  <2>1. Asked("settings", NoUid, Missing, <<n, j, s>>, <<o>>, <<o>>)
    BY <1>6, <1>8, <1>a DEF Asked, Kinds, Stored
  <2>. QED BY <1>1, <2>1 DEF SettingsAsked, n, o, j, s
<1>9. CASE Ask("settings", NoUid, Missing, <<n, s>>, <<>>, <<>>)
  <2>1. Asked("settings", NoUid, Missing, <<n, s>>, <<>>, <<>>)
    BY <1>6, <1>9, <1>a DEF Asked, Kinds, Stored
  <2>. QED BY <1>1, <2>1 DEF SettingsAsked, n, s
<1>. QED BY <1>2, <1>5, <1>7, <1>8, <1>9

(* The effects of two lists one after the other.                           *)
LEMMA ConcatToSet ==
  ASSUME NEW S, NEW s \in Seq(S), NEW t \in Seq(S)
  PROVE  s \o t \in Seq(S) /\ ToSet(s \o t) = ToSet(s) \cup ToSet(t)
<1>1. /\ s \o t \in Seq(S) /\ Len(s \o t) = Len(s) + Len(t)
      /\ \A i \in 1 .. Len(s) + Len(t) :
           (s \o t)[i] = IF i <= Len(s) THEN s[i] ELSE t[i - Len(s)]
  BY ConcatProperties
<1> DEFINE c == s \o t
<1>2. /\ DOMAIN s = 1 .. Len(s) /\ DOMAIN t = 1 .. Len(t)
      /\ DOMAIN c = 1 .. Len(s) + Len(t) /\ Len(s) \in Nat /\ Len(t) \in Nat
  BY <1>1
<1> HIDE DEF c
<1>3. ASSUME NEW i \in DOMAIN c PROVE c[i] \in ToSet(s) \cup ToSet(t)
  <2>1. CASE i <= Len(s)
    BY <1>1, <1>2, <2>1 DEF ToSet, c
  <2>2. CASE ~(i <= Len(s))
    <3>1. i - Len(s) \in DOMAIN t /\ c[i] = t[i - Len(s)]
      BY <1>1, <1>2, <2>2 DEF c
    <3>. QED BY <3>1 DEF ToSet
  <2>. QED BY <2>1, <2>2
<1>4. ASSUME NEW i \in DOMAIN s PROVE s[i] \in ToSet(c)
  <2>1. i \in DOMAIN c /\ c[i] = s[i]
    BY <1>1, <1>2 DEF c
  <2>. QED BY <2>1 DEF ToSet
<1>5. ASSUME NEW i \in DOMAIN t PROVE t[i] \in ToSet(c)
  <2>1. i + Len(s) \in DOMAIN c /\ c[i + Len(s)] = t[i]
    BY <1>1, <1>2 DEF c
  <2>. QED BY <2>1 DEF ToSet
<1>6. ToSet(c) = ToSet(s) \cup ToSet(t)
  BY <1>3, <1>4, <1>5 DEF ToSet
<1>. QED BY <1>1, <1>6 DEF c

LEMMA ToSetOfOne == ASSUME NEW e PROVE ToSet(<<e>>) = {e}
BY DEF ToSet

LEMMA ToSetOfNone == ToSet(<<>>) = {}
BY DEF ToSet

(* An order in which the texts are unpacked names every one of them.       *)
LEMMA OrderNamesAll ==
  ASSUME NEW S, IsFiniteSet(S), NEW order \in SetToSeqs(S)
  PROVE  /\ order \in Seq(S) /\ DOMAIN order = 1 .. Len(order)
         /\ \A u \in S : \E i \in DOMAIN order : order[i] = u
<1> DEFINE D == 1 .. Cardinality(S)
<1>1. Cardinality(S) \in Nat
  BY FS_CardinalityType
<1>2. /\ order \in [D -> S]
      /\ \A i, j \in D : i # j => order[i] # order[j]
  BY DEF SetToSeqs
<1>3. order \in Injection(D, S)
  BY <1>2 DEF Injection, IsInjective
<1>4. IsFiniteSet(D) /\ Cardinality(D) = Cardinality(S)
  BY <1>1, FS_Interval
<1> HIDE DEF D
<1>5. order \in Surjection(D, S)
  BY <1>3, <1>4, FS_Injection
<1>6. \A u \in S : \E i \in D : order[i] = u
  BY <1>5 DEF Surjection
<1>7. order \in Seq(S)
  BY <1>1, <1>2, SeqDef DEF D
<1>. QED BY <1>2, <1>6, <1>7

LEMMA AcceptedIsArchive ==
  ASSUME Types, NEW l \in Labels, Accepted(arch[l])
  PROVE  /\ arch[l] \in Archives
         /\ arch[l].index # Missing =>
              Do("copy_index", NoUid, arch[l].index) \in Effects
         /\ arch[l].set # Missing =>
              Do("copy_set", NoUid, arch[l].set) \in Effects
         /\ \A u \in Uids : arch[l].file[u] # Missing =>
              Do("write", u, arch[l].file[u]) \in Effects
<1> DEFINE a == arch[l]
<1>1. a \in Archives
  BY DEF Types, TypeOK, Accepted
<1>2. /\ a.index \in {Missing, Torn} \/ Indexes(a.index)
      /\ a.index \in Index \cup {Missing, Torn}
      /\ a.set \in Settings \cup {Missing, Torn}
      /\ a.file \in [Uids -> Stored]
  BY <1>1 DEF Types, TypeOK, Archives, Accepted
<1> HIDE DEF a
<1>3. a.index # Missing => Do("copy_index", NoUid, a.index) \in Effects
  BY <1>2, DoIsEffect DEF Legal, Do, Ops, OnDisk, Args, Stored
<1>4. a.set # Missing => Do("copy_set", NoUid, a.set) \in Effects
  BY <1>2, DoIsEffect DEF Legal, Do, Ops, OnDisk, Args, Stored
<1>5. \A u \in Uids : a.file[u] # Missing => Do("write", u, a.file[u]) \in Effects
  BY <1>2, WriteIsEffect
<1>. QED BY <1>1, <1>3, <1>4, <1>5 DEF a

LEMMA CopyOutList ==
  ASSUME Types, NEW l \in Labels, Accepted(arch[l])
  PROVE  /\ CopyOut(arch[l]) \in Seq(Effects)
         /\ \A e \in ToSet(CopyOut(arch[l])) :
              \/ e = Do("copy_index", NoUid, arch[l].index)
              \/ e = Do("copy_set", NoUid, arch[l].set)
         /\ arch[l].index # Missing =>
              Do("copy_index", NoUid, arch[l].index) \in ToSet(CopyOut(arch[l]))
         /\ arch[l].set # Missing =>
              Do("copy_set", NoUid, arch[l].set) \in ToSet(CopyOut(arch[l]))
<1> DEFINE a == arch[l]
           i == Do("copy_index", NoUid, a.index)
           t == Do("copy_set", NoUid, a.set)
           x == IF a.index = Missing THEN <<>> ELSE <<i>>
           y == IF a.set = Missing THEN <<>> ELSE <<t>>
<1>1. CopyOut(a) = x \o y
  BY DEF CopyOut
<1>2. /\ a.index # Missing => i \in Effects
      /\ a.set # Missing => t \in Effects
  BY AcceptedIsArchive
<1> HIDE DEF a, i, t
<1>3. /\ x \in Seq(Effects)
      /\ ToSet(x) = IF a.index = Missing THEN {} ELSE {i}
  <2>1. CASE a.index = Missing
    BY <2>1, ToSetOfNone
  <2>2. CASE a.index # Missing
    <3>1. <<i>> \in Seq(Effects)
      BY <1>2, <2>2
    <3>. QED BY <2>2, <3>1, ToSetOfOne
  <2>. QED BY <2>1, <2>2
<1>4. /\ y \in Seq(Effects)
      /\ ToSet(y) = IF a.set = Missing THEN {} ELSE {t}
  <2>1. CASE a.set = Missing
    BY <2>1, ToSetOfNone
  <2>2. CASE a.set # Missing
    <3>1. <<t>> \in Seq(Effects)
      BY <1>2, <2>2
    <3>. QED BY <2>2, <3>1, ToSetOfOne
  <2>. QED BY <2>1, <2>2
<1> HIDE DEF x, y
<1>5. CopyOut(a) \in Seq(Effects) /\ ToSet(CopyOut(a)) = ToSet(x) \cup ToSet(y)
  BY <1>1, <1>3, <1>4, ConcatToSet
<1>. QED BY <1>3, <1>4, <1>5 DEF a, i, t

LEMMA BackupRestoreAsks ==
  ASSUME Types, NEW l \in Labels, BackupRestore(l) PROVE RecoverAsked
<1> DEFINE a == arch[l]
           S == {u \in Uids : a.file[u] # Missing}
<1>1. Accepted(a)
  BY DEF BackupRestore
<1>2. PICK order \in SetToSeqs(S) :
        Ask("recover", NoUid, l,
            <<Do("unpack", NoUid, l)>> \o CopyOut(a)
              \o [i \in DOMAIN order |-> Do("write", order[i], a.file[order[i]])]
              \o Reload, <<>>, <<>>)
  BY DEF BackupRestore
<1> DEFINE p == <<Do("unpack", NoUid, l)>>
           q == CopyOut(a)
           r == [i \in DOMAIN order |-> Do("write", order[i], a.file[order[i]])]
           pq == p \o q
           body == pq \o r
           s == body \o Reload
<1>3. Ask("recover", NoUid, l, s, <<>>, <<>>)
  BY <1>2
<1>4. p \in Seq(Effects) /\ ToSet(p) = {Do("unpack", NoUid, l)} /\ Len(p) = 1
  <2>1. Do("unpack", NoUid, l) \in Effects
    BY DoIsEffect DEF Legal, Do, Ops, OnDisk, Args
  <2>. QED BY <2>1, ToSetOfOne
<1>5. /\ q \in Seq(Effects)
      /\ \A e \in ToSet(q) : \/ e = Do("copy_index", NoUid, a.index)
                             \/ e = Do("copy_set", NoUid, a.set)
      /\ a.index # Missing => Do("copy_index", NoUid, a.index) \in ToSet(q)
      /\ a.set # Missing => Do("copy_set", NoUid, a.set) \in ToSet(q)
  BY <1>1, CopyOutList
<1>6. /\ r \in Seq(Effects)
      /\ \A e \in ToSet(r) : \E u \in Uids : e = Do("write", u, a.file[u])
      /\ \A u \in S : Do("write", u, a.file[u]) \in ToSet(r)
  <2>1. IsFiniteSet(S)
    BY StoresAssumption, FS_Subset
  <2>2. /\ order \in Seq(S) /\ DOMAIN order = 1 .. Len(order)
        /\ \A u \in S : \E i \in DOMAIN order : order[i] = u
    BY <1>2, <2>1, OrderNamesAll
  <2>3. \A u \in S : u \in Uids /\ Do("write", u, a.file[u]) \in Effects
    BY <1>1, AcceptedIsArchive
  <2>4. \A i \in DOMAIN order : order[i] \in S
    BY <2>2
  <2> HIDE DEF S
  <2>5. r \in [1 .. Len(order) -> Effects]
    BY <2>2, <2>3, <2>4
  <2>6. r \in Seq(Effects)
    BY <2>2, <2>5, SeqDef
  <2>7. \A e \in ToSet(r) : \E u \in Uids : e = Do("write", u, a.file[u])
    BY <2>3, <2>4 DEF ToSet
  <2>8. ASSUME NEW u \in S PROVE Do("write", u, a.file[u]) \in ToSet(r)
    <3>1. PICK i \in DOMAIN order : order[i] = u
      BY <2>2
    <3>2. i \in DOMAIN r /\ r[i] = Do("write", u, a.file[u])
      BY <3>1
    <3>. QED BY <3>2 DEF ToSet
  <2>. QED BY <2>6, <2>7, <2>8
<1> DEFINE ri == Do("reload_index", NoUid, Missing)
           rs == Do("reload_set", NoUid, Missing)
<1>7. Reload = <<ri, rs>> /\ Reload \in Seq(Effects)
  <2>1. ri \in Effects /\ rs \in Effects
    BY DoIsEffect DEF Legal, Do, Ops, OnDisk, Args, Stored
  <2>. QED BY <2>1 DEF Reload
<1> HIDE DEF p, q, r
<1>8. pq \in Seq(Effects) /\ ToSet(pq) = ToSet(p) \cup ToSet(q)
  BY <1>4, <1>5, ConcatToSet
<1>9. Len(pq) >= 1
  <2>1. Len(pq) = Len(p) + Len(q) /\ Len(q) \in Nat
    BY <1>4, <1>5, ConcatProperties, LenProperties
  <2>. QED BY <2>1, <1>4
<1> HIDE DEF pq
<1>10. body \in Seq(Effects) /\ ToSet(body) = ToSet(pq) \cup ToSet(r)
  BY <1>6, <1>8, ConcatToSet
<1>11. Len(body) \in Nat /\ Len(body) >= 1
  <2>1. Len(body) = Len(pq) + Len(r) /\ Len(r) \in Nat /\ Len(pq) \in Nat
    BY <1>6, <1>8, ConcatProperties, LenProperties
  <2>. QED BY <2>1, <1>9
<1> HIDE DEF body, ri, rs
<1>12. s \in Seq(Effects) /\ ToSet(s) = ToSet(body) \cup ToSet(Reload)
  <2>1. Reload \in Seq(Effects) /\ body \in Seq(Effects)
    BY <1>7, <1>10
  <2>. QED BY <2>1, ConcatToSet, Zenon
<1>13. /\ Len(s) = Len(body) + 2
       /\ \A i \in 1 .. Len(body) : s[i] = body[i]
       /\ s[Len(body) + 1] = ri /\ s[Len(body) + 2] = rs
  <2>1. /\ Len(s) = Len(body) + Len(Reload)
        /\ \A i \in 1 .. Len(body) + Len(Reload) : s[i] =
             IF i <= Len(body) THEN body[i] ELSE Reload[i - Len(body)]
    BY <1>7, <1>10, ConcatProperties
  <2>2. Len(Reload) = 2 /\ Reload[1] = ri /\ Reload[2] = rs
    BY <1>7
  <2> HIDE DEF s
  <2>3. Len(s) = Len(body) + 2 /\ \A i \in 1 .. Len(body) : s[i] = body[i]
    BY <1>11, <2>1, <2>2
  <2>4. s[Len(body) + 1] = Reload[1] /\ s[Len(body) + 2] = Reload[2]
    BY <1>11, <2>1, <2>2
  <2>. QED BY <2>2, <2>3, <2>4
<1> HIDE DEF s
<1>14. \A e \in ToSet(body) :
          /\ e.op \in {"unpack", "copy_index", "copy_set", "write"}
          /\ e.op = "copy_index" => e.arg = a.index
          /\ e.op = "copy_set" => e.arg = a.set
          /\ e.op = "write" => e.arg = a.file[e.uid]
  BY <1>4, <1>5, <1>6, <1>8, <1>10 DEF Do
<1>15. \A i \in 1 .. Len(body) : s[i] \in ToSet(body)
  BY <1>10, <1>13 DEF ToSet
<1>16. \A e \in ToSet(s) : \E i \in 1 .. Len(s) : s[i] = e
  BY <1>12 DEF ToSet
<1>17. Restores(a, s)
  <2>1. a.index # Missing => \E i \in 1 .. Len(s) : s[i].op = "copy_index"
    <3>1. a.index # Missing => Do("copy_index", NoUid, a.index) \in ToSet(s)
      BY <1>5, <1>8, <1>10, <1>12
    <3>. QED BY <3>1, <1>16 DEF Do
  <2>2. a.set # Missing => \E i \in 1 .. Len(s) : s[i].op = "copy_set"
    <3>1. a.set # Missing => Do("copy_set", NoUid, a.set) \in ToSet(s)
      BY <1>5, <1>8, <1>10, <1>12
    <3>. QED BY <3>1, <1>16 DEF Do
  <2>3. ASSUME NEW u \in Uids, a.file[u] # Missing
        PROVE  \E i \in 1 .. Len(s) : Is(s[i], "write", u, a.file[u])
    <3>1. Do("write", u, a.file[u]) \in ToSet(s)
      BY <1>6, <1>10, <1>12, <2>3
    <3>. QED BY <3>1, <1>16 DEF Do, Is
  <2>4. /\ Len(s) >= 3 /\ Len(s) - 2 = Len(body)
        /\ s[Len(s) - 1].op = "reload_index" /\ s[Len(s)].op = "reload_set"
    <3>1. /\ Len(s) >= 3 /\ Len(s) - 2 = Len(body)
          /\ s[Len(s) - 1] = ri /\ s[Len(s)] = rs
      BY <1>11, <1>13
    <3>. QED BY <3>1 DEF ri, rs, Do
  <2>. QED BY <1>14, <1>15, <2>1, <2>2, <2>3, <2>4 DEF Restores
<1>18. s # <<>> /\ <<>> \in Seq(Effects)
  BY <1>11, <1>13
<1>19. Asked("recover", NoUid, l, s, <<>>, <<>>)
  BY <1>3, <1>12, <1>18 DEF Asked, Kinds, BackupRestore
<1>. QED BY <1>1, <1>12, <1>17, <1>19 DEF RecoverAsked

(* Every request asks for one of these lists; only the deletion of an      *)
(* archive is done at once.                                                *)
LEMMA RequestCases ==
  ASSUME Types, Request
  PROVE  \/ CreateAsked \/ OverwriteAsked \/ RemoveAsked \/ SwitchAsked
         \/ EditAsked \/ SettingsAsked \/ BackupAsked \/ RecoverAsked
         \/ \E l \in Labels : BackupDelete(l)
<1>1. ASSUME NEW url \in Urls, ImportNew(url) PROVE CreateAsked
  BY <1>1, ImportNewAsks
<1>2. ASSUME NEW u \in Uids, ImportUpdate(u) \/ AutoUpdate(u) PROVE OverwriteAsked
  BY <1>2, ImportUpdateAsks, AutoUpdateAsks
<1>3. ASSUME NEW u \in Uids, NEW n \in 1 .. MAX_BACKUPS, RestoreVersion(u, n)
      PROVE  OverwriteAsked
  BY <1>3, RestoreVersionAsks
<1>4. ASSUME NEW u \in Uids, ProfileRemove(u) PROVE RemoveAsked
  BY <1>4, ProfileRemoveAsks
<1>5. ASSUME NEW u \in Uids, SetCurrent(u) PROVE SwitchAsked
  BY <1>5, SetCurrentAsks
<1>6. ASSUME NEW p \in Patches, SettingsSet(p) PROVE SettingsAsked
  BY <1>6, SettingsSetAsks
<1>7. ASSUME NEW l \in Labels, BackupCreate(l) PROVE BackupAsked
  BY <1>7, BackupCreateAsks
<1>8. ASSUME NEW l \in Labels, BackupRestore(l) PROVE RecoverAsked
  BY <1>8, BackupRestoreAsks
<1>. QED BY <1>1, <1>2, <1>3, <1>4, <1>5, <1>6, <1>7, <1>8, EditsAsk DEF Request

-----------------------------------------------------------------------------
(* Types are inductive                                                     *)

LEMMA NextEffect ==
  ASSUME Types, todo # <<>>
  PROVE  /\ up /\ req # Idle /\ E = todo[1] /\ E \in Effects /\ Legal(E)
         /\ Len(todo) \in Nat /\ Len(todo) >= 1
         /\ Tail(todo) \in Seq(Effects) /\ Len(Tail(todo)) = Len(todo) - 1
         /\ \A i \in 1 .. Len(todo) - 1 : Tail(todo)[i] = todo[i + 1]
         /\ \A i \in 1 .. Len(todo) : todo[i] \in Effects
         /\ Tail(todo) = <<>> <=> Len(todo) = 1
<1>1. todo \in Seq(Effects) /\ req # Idle /\ up
  BY DEF Types, TypeOK
<1>2. /\ Head(todo) \in Effects /\ Tail(todo) \in Seq(Effects)
      /\ Len(Tail(todo)) = Len(todo) - 1
      /\ \A i \in 1 .. Len(Tail(todo)) : Tail(todo)[i] = todo[i + 1]
  BY <1>1, HeadTailProperties
<1>3. /\ Len(todo) \in Nat /\ Len(todo) >= 1 /\ Head(todo) = todo[1]
      /\ \A i \in 1 .. Len(todo) : todo[i] \in Effects
  BY <1>1
<1>4. Tail(todo) = <<>> <=> Len(todo) = 1
  <2>1. Tail(todo) = <<>> <=> Len(Tail(todo)) = 0
    BY <1>2, EmptySeq
  <2>. QED BY <2>1, <1>2, <1>3
<1>. QED BY <1>1, <1>2, <1>3, <1>4 DEF E, Effects

LEMMA IdleIsRequest == Idle \in Requests
BY DEF Idle, Requests, Kinds, Stored

LEMMA GoOnTypes ==
  ASSUME Types, todo # <<>>, NEW rest \in Seq(Effects), GoOn(rest)
  PROVE  /\ req' \in Requests /\ todo' \in Seq(Effects)
         /\ todo' = <<>> <=> req' = Idle
<1>1. req \in Requests /\ req # Idle
  BY NextEffect DEF Types
<1>. QED BY <1>1, IdleIsRequest DEF GoOn

LEMMA RefuseTypes ==
  ASSUME Types, todo # <<>>, NEW rest \in Seq(Effects), Refuse(rest)
  PROVE  /\ req' \in Requests /\ todo' \in Seq(Effects)
         /\ todo' = <<>> <=> req' = Idle
         /\ req' # Idle => /\ req'.failed = TRUE /\ req'.kind = req.kind
                           /\ req'.uid = req.uid /\ req'.old = req.old
                           /\ req'.new = req.new /\ req'.hist = req.hist
                           /\ req'.undo = req.undo /\ req'.onerr = req.onerr
<1>1. req \in Requests /\ req # Idle
  BY NextEffect DEF Types
<1> DEFINE r == [req EXCEPT !.failed = TRUE]
<1>2. /\ r \in Requests /\ r.failed = TRUE /\ r.kind = req.kind
      /\ r.uid = req.uid /\ r.old = req.old /\ r.new = req.new
      /\ r.hist = req.hist /\ r.undo = req.undo /\ r.onerr = req.onerr
  BY <1>1 DEF Requests
<1>3. r # Idle
  BY <1>2 DEF Idle
<1>4. todo' = rest /\ req' = IF rest = <<>> THEN Idle ELSE r
  BY DEF Refuse
<1> HIDE DEF r
<1>. QED BY <1>2, <1>3, <1>4, IdleIsRequest

LEMMA NoIndexIsIndex == Indexes(NoIndex) /\ UidsOf(NoIndex) = {}
BY DEF Indexes, Index, NoIndex, UidsOf

LEMMA OpenedIndex ==
  ASSUME Types, disk.index # Torn
  PROVE  Indexes(OpenIndex(disk.index))
BY NoIndexIsIndex DEF Types, TypeOK, OpenIndex

LEMMA OpenedSettings ==
  ASSUME NEW s \in Settings \cup {Missing}
  PROVE  OpenSettings(s) \in Settings /\ OpenSettings(s).mode # "bad"
<1>1. Default \in Settings /\ Default.mode # "bad"
  BY DEF Default, Settings
<1>2. ASSUME s \in Settings PROVE Normal(s) \in Settings /\ Normal(s).mode # "bad"
  BY <1>2 DEF Normal, Settings
<1>. QED BY <1>1, <1>2 DEF OpenSettings

LEMMA FilesTypes ==
  ASSUME Types, todo # <<>>, OnFiles
  PROVE  file' \in [Uids -> Stored] /\ bak' \in [Uids -> [1 .. MAX_BACKUPS -> Stored]]
<1>1. /\ file \in [Uids -> Stored]
      /\ bak \in [Uids -> [1 .. MAX_BACKUPS -> Stored]]
  BY DEF Types, TypeOK
<1>2. E \in Effects /\ Legal(E)
  BY NextEffect
<1>3. Missing \in Stored /\ 1 \in 1 .. MAX_BACKUPS
  BY DEF Stored
<1>4. ASSUME E.op = "drop", BakSet(E.uid, E.arg, Missing)
      PROVE  file' = file /\ bak' \in [Uids -> [1 .. MAX_BACKUPS -> Stored]]
  <2>1. E.uid \in Uids /\ E.arg \in 1 .. MAX_BACKUPS
    BY <1>2, <1>4 DEF Legal
  <2>. QED BY <1>1, <1>3, <1>4, <2>1 DEF BakSet
<1>5. ASSUME E.op = "shift", BakMoved(E.uid, E.arg)
      PROVE  file' = file /\ bak' \in [Uids -> [1 .. MAX_BACKUPS -> Stored]]
  <2>1. /\ E.uid \in Uids /\ E.arg \in 1 .. MAX_BACKUPS
        /\ E.arg + 1 \in 1 .. MAX_BACKUPS
    BY <1>2, <1>5 DEF Legal
  <2> DEFINE u == E.uid
             n == E.arg
             m == E.arg + 1
             b == [bak EXCEPT ![u][n] = Missing, ![u][m] = bak[u][n]]
  <2> HIDE DEF u, n, m
  <2>2. u \in Uids /\ n \in 1 .. MAX_BACKUPS /\ m \in 1 .. MAX_BACKUPS
    BY <2>1 DEF u, n, m
  <2>3. b \in [Uids -> [1 .. MAX_BACKUPS -> Stored]]
    <3>1. [bak EXCEPT ![u][n] = Missing] \in [Uids -> [1 .. MAX_BACKUPS -> Stored]]
      BY <1>1, <1>3, <2>2
    <3>2. bak[u][n] \in Stored
      BY <1>1, <2>2
    <3>. QED BY <3>1, <3>2, <2>2
  <2>. QED BY <1>1, <1>5, <2>3 DEF BakMoved, u, n, m
<1>6. ASSUME E.op = "keep",
             IF file[E.uid] = Missing THEN UNCHANGED <<file, bak>>
                                      ELSE BakSet(E.uid, 1, file[E.uid])
      PROVE  file' = file /\ bak' \in [Uids -> [1 .. MAX_BACKUPS -> Stored]]
  <2>1. E.uid \in Uids
    BY <1>2, <1>6 DEF Legal
  <2>2. CASE file[E.uid] = Missing
    BY <1>1, <1>6, <2>2
  <2>3. CASE file[E.uid] # Missing
    <3>1. file' = file /\ bak' = [bak EXCEPT ![E.uid][1] = file[E.uid]]
      BY <1>6, <2>3 DEF BakSet
    <3>2. file[E.uid] \in Stored
      BY <1>1, <2>1
    <3>. QED BY <1>1, <1>3, <2>1, <3>1, <3>2
  <2>. QED BY <2>2, <2>3
<1>7. ASSUME E.op = "write", Written(E.uid, E.arg)
      PROVE  bak' = bak /\ file' \in [Uids -> Stored]
  <2>1. E.uid \in Uids /\ E.arg \in Stored
    BY <1>2, <1>7 DEF Legal
  <2>. QED BY <1>1, <1>7, <2>1 DEF Written
<1>8. ASSUME E.op = "unlink", Written(E.uid, Missing)
      PROVE  bak' = bak /\ file' \in [Uids -> Stored]
  <2>1. E.uid \in Uids
    BY <1>2, <1>8 DEF Legal
  <2>. QED BY <1>1, <1>3, <1>8, <2>1 DEF Written
<1>. QED BY <1>1, <1>4, <1>5, <1>6, <1>7, <1>8 DEF OnFiles

(* A write or a copy that is cut short.                                    *)
LEMMA TornTypes ==
  ASSUME Types, todo # <<>>, LeavesTorn
  PROVE  /\ file' \in [Uids -> Stored]
         /\ bak' \in [Uids -> [1 .. MAX_BACKUPS -> Stored]]
         /\ disk' \in [index : Index \cup {Missing, Torn},
                       set : Settings \cup {Missing, Torn}]
         /\ disk'.index \in {disk.index, Torn} /\ disk'.set \in {disk.set, Torn}
         /\ E.op \in {"write", "keep", "copy_index", "copy_set"}
         /\ E.op \in {"write", "keep"} => disk' = disk
         /\ E.op \in {"copy_index", "copy_set"} => file' = file /\ bak' = bak
<1>1. /\ file \in [Uids -> Stored]
      /\ bak \in [Uids -> [1 .. MAX_BACKUPS -> Stored]]
      /\ disk \in [index : Index \cup {Missing, Torn},
                   set : Settings \cup {Missing, Torn}]
  BY DEF Types, TypeOK
<1>2. E \in Effects /\ Legal(E) /\ Torn \in Stored /\ 1 \in 1 .. MAX_BACKUPS
  BY NextEffect DEF Stored
<1>3. ASSUME E.op = "write", Written(E.uid, Torn), disk' = disk
      PROVE  bak' = bak /\ file' \in [Uids -> Stored]
  <2>1. E.uid \in Uids
    BY <1>2, <1>3 DEF Legal
  <2>. QED BY <1>1, <1>2, <1>3, <2>1 DEF Written
<1>4. ASSUME E.op = "keep", BakSet(E.uid, 1, Torn)
      PROVE  file' = file /\ bak' \in [Uids -> [1 .. MAX_BACKUPS -> Stored]]
  <2>1. E.uid \in Uids
    BY <1>2, <1>4 DEF Legal
  <2>. QED BY <1>1, <1>2, <1>4, <2>1 DEF BakSet
<1>5. ASSUME disk' = [disk EXCEPT !.index = Torn]
      PROVE  /\ disk' \in [index : Index \cup {Missing, Torn},
                           set : Settings \cup {Missing, Torn}]
             /\ disk'.index = Torn /\ disk'.set = disk.set
  BY <1>1, <1>5
<1>6. ASSUME disk' = [disk EXCEPT !.set = Torn]
      PROVE  /\ disk' \in [index : Index \cup {Missing, Torn},
                           set : Settings \cup {Missing, Torn}]
             /\ disk'.index = disk.index /\ disk'.set = Torn
  BY <1>1, <1>6
<1>. QED BY <1>1, <1>3, <1>4, <1>5, <1>6 DEF LeavesTorn

(* Memory and disk are typed, and each holds an index that names every     *)
(* profile once.                                                           *)
MemoryTypes == /\ mem \in [index : Index, set : Settings]
               /\ Indexes(mem.index) /\ mem.set.mode # "bad"
DiskTypes ==
  /\ disk \in [index : Index \cup {Missing, Torn},
              set : Settings \cup {Missing, Torn}]
  /\ disk.index \in {Missing, Torn} \/ Indexes(disk.index)

LEMMA OnMemoryTypes ==
  ASSUME Types, todo # <<>>, OnMemory
  PROVE  MemoryTypes'
<1>1. /\ MemoryTypes /\ DiskTypes
  BY DEF Types, TypeOK, MemoryTypes, DiskTypes
<1>2. E \in Effects /\ Legal(E)
  BY NextEffect
<1>a. mem.index \in Index /\ mem.set \in Settings
  BY <1>1 DEF MemoryTypes
<1>3. ASSUME NEW i, Indexes(i), mem' = [mem EXCEPT !.index = i]
      PROVE  MemoryTypes'
  BY <1>1, <1>3 DEF MemoryTypes, Indexes
<1>4. ASSUME NEW s \in Settings, s.mode # "bad", mem' = [mem EXCEPT !.set = s]
      PROVE  MemoryTypes'
  BY <1>1, <1>4 DEF MemoryTypes
<1>5. CASE E.op = "index" /\ mem' = [mem EXCEPT !.index = E.arg]
  BY <1>2, <1>3, <1>5 DEF Legal
<1>6. CASE E.op = "set" /\ mem' = [mem EXCEPT !.set = E.arg]
  BY <1>2, <1>4, <1>6 DEF Legal
<1>7. CASE mem' = [mem EXCEPT !.index = IF disk.index = Torn THEN @
                                        ELSE OpenIndex(disk.index)]
  <2>1. CASE disk.index = Torn
    BY <1>1, <1>3, <1>7, <2>1 DEF MemoryTypes
  <2>2. CASE disk.index # Torn
    <3>1. Indexes(OpenIndex(disk.index))
      BY <2>2, OpenedIndex
    <3>. QED BY <1>3, <1>7, <2>2, <3>1
  <2>. QED BY <2>1, <2>2
<1>8. CASE mem' = [mem EXCEPT !.set = IF disk.set = Torn THEN @
                                      ELSE OpenSettings(disk.set)]
  <2>1. CASE disk.set = Torn
    BY <1>1, <1>4, <1>8, <2>1 DEF MemoryTypes
  <2>2. CASE disk.set # Torn
    <3>1. disk.set \in Settings \cup {Missing}
      BY <1>1, <2>2 DEF DiskTypes
    <3>2. OpenSettings(disk.set) \in Settings /\ OpenSettings(disk.set).mode # "bad"
      BY <3>1, OpenedSettings
    <3>. QED BY <1>4, <1>8, <2>2, <3>2
  <2>. QED BY <2>1, <2>2
<1>. QED BY <1>5, <1>6, <1>7, <1>8 DEF OnMemory

LEMMA OnSavedTypes ==
  ASSUME Types, todo # <<>>, OnSaved
  PROVE  DiskTypes'
<1>1. /\ MemoryTypes /\ DiskTypes
  BY DEF Types, TypeOK, MemoryTypes, DiskTypes
<1>2. E \in Effects /\ Legal(E)
  BY NextEffect
<1>3. ASSUME NEW i, i = Torn \/ Indexes(i), disk' = [disk EXCEPT !.index = i]
      PROVE  DiskTypes'
  <2>1. i \in Index \cup {Missing, Torn}
    BY <1>3 DEF Indexes
  <2>2. /\ disk' \in [index : Index \cup {Missing, Torn},
                      set : Settings \cup {Missing, Torn}]
        /\ disk'.index = i
    BY <1>1, <1>3, <2>1 DEF DiskTypes
  <2>. QED BY <1>3, <2>2 DEF DiskTypes
<1>4. ASSUME NEW s \in Settings \cup {Torn}, disk' = [disk EXCEPT !.set = s]
      PROVE  DiskTypes'
  BY <1>1, <1>4 DEF DiskTypes
<1>5. CASE E.op = "save" /\ disk' = [disk EXCEPT !.index = mem.index]
  BY <1>1, <1>3, <1>5 DEF MemoryTypes
<1>6. CASE E.op = "save_set" /\ disk' = [disk EXCEPT !.set = mem.set]
  BY <1>1, <1>4, <1>6 DEF MemoryTypes
<1>7. CASE E.op = "copy_index" /\ disk' = [disk EXCEPT !.index = E.arg]
  BY <1>2, <1>3, <1>7 DEF Legal
<1>8. CASE E.op = "copy_set" /\ disk' = [disk EXCEPT !.set = E.arg]
  BY <1>2, <1>4, <1>8 DEF Legal
<1>. QED BY <1>5, <1>6, <1>7, <1>8 DEF OnSaved

ArchiveTypes ==
  /\ arch \in [Labels -> Archives \cup {Missing, Torn}]
  /\ \A l \in Labels : \/ arch[l] \in {Missing, Torn}
                       \/ arch[l].index \in {Missing, Torn}
                       \/ Indexes(arch[l].index)

LEMMA OnArchivesTypes ==
  ASSUME Types, todo # <<>>, OnArchives
  PROVE  ArchiveTypes'
<1>1. ArchiveTypes /\ DiskTypes /\ file \in [Uids -> Stored]
  BY DEF Types, TypeOK, ArchiveTypes, DiskTypes
<1>2. E \in Effects /\ Legal(E)
  BY NextEffect
<1>3. Packed \in Archives /\ Packed.index = disk.index
  BY <1>1 DEF DiskTypes, Packed, Archives
<1>4. ASSUME NEW l \in Labels, NEW a \in Archives \cup {Missing, Torn},
             \/ a \in {Missing, Torn}
             \/ a.index \in {Missing, Torn} \/ Indexes(a.index),
             arch' = [arch EXCEPT ![l] = a]
      PROVE  ArchiveTypes'
  BY <1>1, <1>4 DEF ArchiveTypes
<1>5. CASE E.op = "open_tar" /\ arch' = [arch EXCEPT ![E.arg] = Torn]
  BY <1>2, <1>4, <1>5 DEF Legal
<1>6. CASE E.op = "close_tar" /\ arch' = [arch EXCEPT ![E.arg] = Packed]
  BY <1>1, <1>2, <1>3, <1>4, <1>6 DEF Legal, DiskTypes
<1>7. CASE arch' = arch
  BY <1>1, <1>7 DEF ArchiveTypes
<1>. QED BY <1>5, <1>6, <1>7 DEF OnArchives

FileTypes == /\ file \in [Uids -> Stored]
             /\ bak \in [Uids -> [1 .. MAX_BACKUPS -> Stored]]
CounterTypes == up \in BOOLEAN /\ ops \in 0 .. MAX_OPS /\ faults \in 0 .. MAX_FAULTS
WorkTypes == /\ req \in Requests /\ todo \in Seq(Effects)
             /\ todo = <<>> <=> req = Idle
             /\ ~up => todo = <<>>

LEMMA TypesInParts ==
  Types <=> /\ MemoryTypes /\ DiskTypes /\ ArchiveTypes /\ FileTypes
            /\ CounterTypes /\ WorkTypes
BY DEF Types, TypeOK, MemoryTypes, DiskTypes, ArchiveTypes, FileTypes,
       CounterTypes, WorkTypes

LEMMA InitTypes == ASSUME Init PROVE Types
<1> USE DEF Init
<1>1. CounterTypes /\ WorkTypes
  <2>1. <<>> \in Seq(Effects)
    OBVIOUS
  <2>2. up = TRUE /\ req = Idle /\ todo = <<>> /\ ops = 0 /\ faults = 0
    OBVIOUS
  <2> HIDE DEF Init
  <2>3. CounterTypes
    BY <2>2 DEF CounterTypes
  <2>4. WorkTypes
    BY <2>1, <2>2, IdleIsRequest DEF WorkTypes
  <2>. QED BY <2>3, <2>4
<1>2. ArchiveTypes
  BY DEF ArchiveTypes
<1>3. MemoryTypes /\ DiskTypes /\ FileTypes
  <2>1. CASE /\ mem = [index |-> NoIndex, set |-> Default]
             /\ disk = [index |-> Missing, set |-> Missing]
             /\ file = [u \in Uids |-> Missing]
             /\ bak = [u \in Uids |-> [n \in 1 .. MAX_BACKUPS |-> Missing]]
    <3>1. Default \in Settings /\ Default.mode # "bad"
      BY DEF Default, Settings
    <3>2. NoIndex \in Index
      BY NoIndexIsIndex DEF Indexes
    <3>. QED BY <2>1, <3>1, <3>2, NoIndexIsIndex
         DEF MemoryTypes, DiskTypes, FileTypes, Stored
  <2>2. ASSUME NEW versions \in {0, 2}, NEW mode \in {"rule", "bad"},
               LET two == CHOOSE x \in Uids \X Uids : x[1] # x[2]
                   sub == CHOOSE x \in Urls \X Urls : x[1] # x[2]
                   set == [Default EXCEPT !.mode = mode]
                   u == two[1]  v == two[2]  s == sub[1]  t == sub[2]
               IN
                 /\ disk = [index |-> [current |-> u, items |->
                              <<[uid |-> u, url |-> s, name |-> GivenName,
                                 node |-> NoNode],
                                [uid |-> v, url |-> t, name |-> GivenName,
                                 node |-> NoNode]>>], set |-> set]
                 /\ mem = [index |-> disk.index, set |-> Normal(set)]
                 /\ file = [w \in Uids |-> IF w = u THEN 3 ELSE
                                           IF w = v THEN 4 ELSE Missing]
                 /\ bak = [w \in Uids |-> [n \in 1 .. MAX_BACKUPS |->
                             IF w = u /\ n <= versions THEN 3 - n
                               ELSE Missing]]
        PROVE  MemoryTypes /\ DiskTypes /\ FileTypes
    <3> DEFINE two == CHOOSE x \in Uids \X Uids : x[1] # x[2]
               sub == CHOOSE x \in Urls \X Urls : x[1] # x[2]
               set == [Default EXCEPT !.mode = mode]
               u == two[1]
               v == two[2]
               s == sub[1]
               t == sub[2]
               a == [uid |-> u, url |-> s, name |-> GivenName, node |-> NoNode]
               b == [uid |-> v, url |-> t, name |-> GivenName, node |-> NoNode]
               index == [current |-> u, items |-> <<a, b>>]
    <3>1. /\ disk = [index |-> index, set |-> set]
          /\ mem = [index |-> disk.index, set |-> Normal(set)]
          /\ file = [w \in Uids |-> IF w = u THEN 3 ELSE
                                    IF w = v THEN 4 ELSE Missing]
          /\ bak = [w \in Uids |-> [n \in 1 .. MAX_BACKUPS |->
                      IF w = u /\ n <= versions THEN 3 - n ELSE Missing]]
      BY <2>2
    <3>2. u \in Uids /\ v \in Uids /\ u # v
      <4>1. \E x \in Uids \X Uids : x[1] # x[2]
        <5>1. PICK y, z \in Uids : y # z
          BY StoresAssumption
        <5>2. <<y, z>> \in Uids \X Uids /\ <<y, z>>[1] # <<y, z>>[2]
          BY <5>1
        <5>. QED BY <5>2
      <4>2. two \in Uids \X Uids /\ two[1] # two[2]
        BY <4>1
      <4> HIDE DEF two
      <4>. QED BY <4>2
    <3>3. s \in Urls /\ t \in Urls /\ s # t
      <4>1. \E x \in Urls \X Urls : x[1] # x[2]
        <5>1. PICK y, z \in Urls : y # z
          BY StoresAssumption
        <5>2. <<y, z>> \in Urls \X Urls /\ <<y, z>>[1] # <<y, z>>[2]
          BY <5>1
        <5>. QED BY <5>2
      <4>2. sub \in Urls \X Urls /\ sub[1] # sub[2]
        BY <4>1
      <4> HIDE DEF sub
      <4>. QED BY <4>2
    <3> HIDE DEF u, v, s, t, two, sub
    <3>4. /\ a \in Items /\ b \in Items /\ a.uid = u /\ b.uid = v
          /\ a.url = s /\ b.url = t
      BY <3>2, <3>3 DEF Items
    <3> HIDE DEF a, b
    <3>5. Indexes(index)
      <4>1. index \in Index /\ index.items = <<a, b>> /\ index.current = u
        BY <3>2, <3>4 DEF Index
      <4>2. DOMAIN index.items = {1, 2} /\ index.items[1] = a /\ index.items[2] = b
        BY <4>1
      <4> HIDE DEF index
      <4>3. index.current \in UidsOf(index)
        BY <3>4, <4>1, <4>2 DEF UidsOf
      <4>. QED BY <3>2, <3>3, <3>4, <4>1, <4>2, <4>3 DEF Indexes
    <3>6. set \in Settings
      BY DEF Default, Settings
    <3>7. Normal(set) \in Settings /\ Normal(set).mode # "bad"
      <4>1. /\ Missing # set /\ OpenSettings(set) = Normal(set)
        BY <3>6, NoFileAssumption DEF OpenSettings
      <4>. QED BY <3>6, <4>1, OpenedSettings
    <3> HIDE DEF index, set
    <3>8. MemoryTypes /\ DiskTypes
      <4>1. /\ mem = [index |-> index, set |-> Normal(set)]
            /\ disk = [index |-> index, set |-> set]
        BY <3>1
      <4>2. index \in Index
        BY <3>5 DEF Indexes
      <4> HIDE DEF Init
      <4>3. MemoryTypes
        BY <3>5, <3>7, <4>1, <4>2 DEF MemoryTypes
      <4>4. DiskTypes
        BY <3>5, <3>6, <4>1, <4>2 DEF DiskTypes
      <4>. QED BY <4>3, <4>4
    <3>9. FileTypes
      <4>1. 3 \in Stored /\ 4 \in Stored /\ Missing \in Stored
        BY DEF Stored, Texts
      <4>2. \A n \in 1 .. MAX_BACKUPS : n <= versions => 3 - n \in Stored
        BY DEF Stored, Texts
      <4>3. file \in [Uids -> Stored]
        BY <3>1, <4>1
      <4>4. bak \in [Uids -> [1 .. MAX_BACKUPS -> Stored]]
        BY <3>1, <4>1, <4>2
      <4>. QED BY <4>3, <4>4 DEF FileTypes
    <3>. QED BY <3>8, <3>9
  <2>. QED BY <2>1, <2>2
<1>. QED BY <1>1, <1>2, <1>3, TypesInParts

LEMMA AskedTypes ==
  ASSUME Types,
         \/ CreateAsked \/ OverwriteAsked \/ RemoveAsked \/ SwitchAsked
         \/ EditAsked \/ SettingsAsked \/ BackupAsked \/ RecoverAsked
  PROVE  Types'
<1>1. CASE CreateAsked
  BY <1>1, AskedFacts DEF CreateAsked
<1>2. CASE OverwriteAsked
  BY <1>2, AskedFacts DEF OverwriteAsked
<1>3. CASE RemoveAsked
  BY <1>3, AskedFacts DEF RemoveAsked
<1>4. CASE SwitchAsked
  BY <1>4, AskedFacts DEF SwitchAsked
<1>5. CASE EditAsked
  BY <1>5, AskedFacts DEF EditAsked
<1>6. CASE SettingsAsked
  BY <1>6, AskedFacts DEF SettingsAsked
<1>7. CASE BackupAsked
  BY <1>7, AskedFacts DEF BackupAsked
<1>8. CASE RecoverAsked
  BY <1>8, AskedFacts DEF RecoverAsked
<1>. QED BY <1>1, <1>2, <1>3, <1>4, <1>5, <1>6, <1>7, <1>8

LEMMA BackupDeleteTypes ==
  ASSUME Types, NEW l \in Labels, BackupDelete(l) PROVE Types'
<1>1. /\ MemoryTypes /\ DiskTypes /\ ArchiveTypes /\ FileTypes /\ CounterTypes
      /\ WorkTypes
  BY TypesInParts
<1>2. /\ MemoryTypes' /\ DiskTypes' /\ FileTypes' /\ WorkTypes'
  BY <1>1 DEF BackupDelete, MemoryTypes, DiskTypes, FileTypes, WorkTypes
<1>3. CounterTypes'
  BY <1>1 DEF BackupDelete, CounterTypes
<1>4. ArchiveTypes'
  BY <1>1 DEF BackupDelete, ArchiveTypes
<1>. QED BY <1>2, <1>3, <1>4, TypesInParts, PTL

LEMMA PerformTypes == ASSUME Types, Perform PROVE Types'
<1>1. /\ MemoryTypes /\ DiskTypes /\ ArchiveTypes /\ FileTypes /\ CounterTypes
      /\ WorkTypes
  BY TypesInParts
<1>2. todo # <<>> /\ Tail(todo) \in Seq(Effects) /\ up
  BY NextEffect DEF Perform
<1>3. WorkTypes'
  BY <1>2, GoOnTypes DEF Perform, WorkTypes
<1>4. CounterTypes'
  BY <1>1 DEF Perform, CounterTypes
<1>5. MemoryTypes' /\ DiskTypes' /\ ArchiveTypes' /\ FileTypes'
  <2>. CASE OnFiles
    BY <1>1, <1>2, FilesTypes
       DEF OnFiles, MemoryTypes, DiskTypes, ArchiveTypes, FileTypes
  <2>. CASE OnMemory
    BY <1>1, <1>2, OnMemoryTypes
       DEF OnMemory, DiskTypes, ArchiveTypes, FileTypes
  <2>. CASE OnSaved
    BY <1>1, <1>2, OnSavedTypes
       DEF OnSaved, MemoryTypes, ArchiveTypes, FileTypes
  <2>. CASE OnArchives
    BY <1>1, <1>2, OnArchivesTypes
       DEF OnArchives, MemoryTypes, DiskTypes, FileTypes
  <2>. QED BY DEF Perform
<1>. QED BY <1>3, <1>4, <1>5, TypesInParts, PTL

LEMMA JudgeTypes == ASSUME Types, JudgeAccepts \/ JudgeRefuses PROVE Types'
<1>1. /\ MemoryTypes /\ DiskTypes /\ ArchiveTypes /\ FileTypes /\ CounterTypes
      /\ WorkTypes
  BY TypesInParts
<1>2. /\ todo # <<>> /\ Tail(todo) \in Seq(Effects) /\ up
      /\ req.undo \in Seq(Effects)
  BY NextEffect DEF Types, Requests, JudgeAccepts, JudgeRefuses, Step
<1>3. WorkTypes'
  BY <1>2, GoOnTypes, RefuseTypes DEF JudgeAccepts, JudgeRefuses, WorkTypes
<1>4. UNCHANGED <<mem, disk, file, bak, arch, up, ops, faults>>
  BY DEF JudgeAccepts, JudgeRefuses
<1>5. MemoryTypes' /\ DiskTypes' /\ ArchiveTypes' /\ FileTypes' /\ CounterTypes'
  BY <1>1, <1>4
     DEF MemoryTypes, DiskTypes, ArchiveTypes, FileTypes, CounterTypes
<1>. QED BY <1>3, <1>5, TypesInParts, PTL

LEMMA FailTypes == ASSUME Types, Fail PROVE Types'
<1>1. /\ MemoryTypes /\ DiskTypes /\ ArchiveTypes /\ FileTypes /\ CounterTypes
      /\ WorkTypes
  BY TypesInParts
<1>2. /\ todo # <<>> /\ Tail(todo) \in Seq(Effects) /\ up
      /\ req.onerr \in Seq(Effects)
  BY NextEffect DEF Types, Requests, Fail
<1>3. WorkTypes'
  BY <1>2, GoOnTypes, RefuseTypes DEF Fail, WorkTypes
<1>4. CounterTypes'
  BY <1>1 DEF Fail, CounterTypes
<1>5. MemoryTypes' /\ ArchiveTypes'
  BY <1>1 DEF Fail, MemoryTypes, ArchiveTypes
<1>6. CASE LeavesTorn
  <2>1. DiskTypes' /\ FileTypes'
    BY <1>1, <1>2, <1>6, TornTypes DEF DiskTypes, FileTypes
  <2>. QED BY <1>3, <1>4, <1>5, <2>1, TypesInParts, PTL
<1>7. CASE UNCHANGED <<file, bak, disk>>
  <2>1. DiskTypes' /\ FileTypes'
    BY <1>1, <1>7 DEF DiskTypes, FileTypes
  <2>. QED BY <1>3, <1>4, <1>5, <2>1, TypesInParts, PTL
<1>. QED BY <1>6, <1>7 DEF Fail

LEMMA KilledTypes == ASSUME Types, Killed PROVE Types'
<1>1. /\ MemoryTypes /\ DiskTypes /\ ArchiveTypes /\ FileTypes /\ CounterTypes
      /\ WorkTypes
  BY TypesInParts
<1>2. WorkTypes'
  <2>1. <<>> \in Seq(Effects)
    OBVIOUS
  <2>. QED BY <2>1, IdleIsRequest DEF Killed, WorkTypes
<1>3. CounterTypes'
  BY <1>1 DEF Killed, CounterTypes
<1>4. MemoryTypes' /\ ArchiveTypes'
  BY <1>1 DEF Killed, MemoryTypes, ArchiveTypes
<1>5. CASE todo # <<>> /\ LeavesTorn
  <2>1. DiskTypes' /\ FileTypes'
    BY <1>1, <1>5, TornTypes DEF DiskTypes, FileTypes
  <2>. QED BY <1>2, <1>3, <1>4, <2>1, TypesInParts, PTL
<1>6. CASE UNCHANGED <<file, bak, disk>>
  <2>1. DiskTypes' /\ FileTypes'
    BY <1>1, <1>6 DEF DiskTypes, FileTypes
  <2>. QED BY <1>2, <1>3, <1>4, <2>1, TypesInParts, PTL
<1>. QED BY <1>5, <1>6 DEF Killed

LEMMA RestartsTypes == ASSUME Types, Restarts PROVE Types'
<1>1. /\ MemoryTypes /\ DiskTypes /\ ArchiveTypes /\ FileTypes /\ CounterTypes
      /\ WorkTypes
  BY TypesInParts
<1>2. WorkTypes' /\ CounterTypes' /\ DiskTypes' /\ FileTypes' /\ ArchiveTypes'
  BY <1>1 DEF Restarts, WorkTypes, CounterTypes, DiskTypes, FileTypes, ArchiveTypes
<1>3. MemoryTypes'
  <2>1. Indexes(OpenIndex(disk.index))
    BY OpenedIndex DEF Restarts
  <2>2. disk.set \in Settings \cup {Missing}
    BY <1>1 DEF Restarts, DiskTypes
  <2>3. OpenSettings(disk.set) \in Settings /\ OpenSettings(disk.set).mode # "bad"
    BY <2>2, OpenedSettings
  <2>4. OpenIndex(disk.index) \in Index
    BY <2>1 DEF Indexes
  <2>. QED BY <2>1, <2>3, <2>4 DEF Restarts, MemoryTypes
<1>. QED BY <1>2, <1>3, TypesInParts, PTL

LEMMA NextTypes == ASSUME Types, [Next]_vars PROVE Types'
<1>1. CASE Request
  BY <1>1, RequestCases, AskedTypes, BackupDeleteTypes
<1>2. CASE UNCHANGED vars
  BY <1>2 DEF vars, Types, TypeOK
<1>. QED BY <1>1, <1>2, PerformTypes, JudgeTypes, FailTypes, KilledTypes,
            RestartsTypes DEF Next

(* Every variable has its type; an index, in memory, on disk or in an      *)
(* archive, names every uid and every URL once and has its current         *)
(* profile.                                                                *)
THEOREM TypeInvariant == Spec => []Types
<1>1. Init => Types
  BY InitTypes
<1>2. Types /\ [Next]_vars => Types'
  BY NextTypes
<1>. QED BY <1>1, <1>2, PTL DEF Spec

THEOREM TypeOKAlways == Spec => []TypeOK
<1>1. Types => TypeOK
  BY DEF Types
<1>. QED BY <1>1, TypeInvariant, PTL

-----------------------------------------------------------------------------
(* Memory and disk agree                                                   *)

(* What holds of a list holds of the rest of it.                           *)
LEMMA RestFollows ==
  ASSUME Types, todo # <<>>
  PROVE  /\ IndexFollows(todo) => IndexFollows(Tail(todo))
         /\ \A d : SetFollows(todo, d) => SetFollows(Tail(todo), d)
         /\ \A ops_ : Has(Tail(todo), ops_) => Has(todo, ops_)
         /\ \A ops_ : Has(todo, ops_) => E.op \in ops_ \/ Has(Tail(todo), ops_)
<1> DEFINE t == Tail(todo)
           n == Len(todo)
<1>1. /\ n \in Nat /\ n >= 1 /\ Len(t) = n - 1
      /\ \A i \in 1 .. n - 1 : t[i] = todo[i + 1]
      /\ E = todo[1]
  BY NextEffect
<1> HIDE DEF t, n
<1>2. \A i \in 1 .. Len(t) : i + 1 \in 1 .. n /\ t[i] = todo[i + 1]
  BY <1>1
<1>3. ASSUME NEW i \in 1 .. Len(t), NEW j \in (i + 1) + 1 .. n
      PROVE  j - 1 \in i + 1 .. Len(t) /\ t[j - 1] = todo[j]
  BY <1>1
<1>a. ASSUME NEW i \in 1 .. Len(t), NEW j \in i + 1 .. Len(t)
      PROVE  j + 1 \in (i + 1) + 1 .. n /\ t[j] = todo[j + 1]
  BY <1>1
<1>4. ASSUME IndexFollows(todo) PROVE IndexFollows(t)
  <2>1. ASSUME NEW i \in 1 .. Len(t), t[i].op \in {"index", "copy_index"}
        PROVE  \E j \in i + 1 .. Len(t) : t[j].op \in {"save", "reload_index"}
    <3>1. PICK j \in (i + 1) + 1 .. n : todo[j].op \in {"save", "reload_index"}
      BY <1>2, <1>4, <2>1 DEF IndexFollows, n
    <3>. QED BY <1>3, <3>1
  <2>. QED BY <2>1 DEF IndexFollows
<1>5. ASSUME NEW d, SetFollows(todo, d) PROVE SetFollows(t, d)
  <2>1. ASSUME NEW i \in 1 .. Len(t), t[i].op = "set"
        PROVE  \/ SetAgrees(t[i].arg, d)
               \/ \E j \in i + 1 .. Len(t) : t[j].op = "save_set"
    <3>1. \/ SetAgrees(todo[i + 1].arg, d)
          \/ \E j \in (i + 1) + 1 .. n : todo[j].op = "save_set"
      BY <1>2, <1>5, <2>1 DEF SetFollows, n
    <3>. QED BY <1>2, <1>3, <3>1
  <2>2. ASSUME NEW i \in 1 .. Len(t), t[i].op = "copy_set"
        PROVE  \E j \in i + 1 .. Len(t) : t[j].op = "reload_set"
    <3>1. \E j \in (i + 1) + 1 .. n : todo[j].op = "reload_set"
      BY <1>2, <1>5, <2>2 DEF SetFollows, n
    <3>. QED BY <1>3, <3>1
  <2>3. ASSUME NEW i \in 1 .. Len(t), t[i].op \in {"copy_set", "save_set"},
               NEW j \in i + 1 .. Len(t)
        PROVE  t[j].op # "set"
    <3>1. \A k \in (i + 1) + 1 .. n : todo[k].op # "set"
      BY <1>2, <1>5, <2>3 DEF SetFollows, n
    <3>. QED BY <1>a, <3>1
  <2>. QED BY <2>1, <2>2, <2>3 DEF SetFollows
<1>6. ASSUME NEW ops_, Has(t, ops_) PROVE Has(todo, ops_)
  BY <1>2, <1>6 DEF Has, n
<1>7. ASSUME NEW ops_, Has(todo, ops_), E.op \notin ops_ PROVE Has(t, ops_)
  <2>1. PICK i \in 1 .. n : todo[i].op \in ops_
    BY <1>7 DEF Has, n
  <2>2. i # 1
    BY <1>1, <1>7, <2>1
  <2>3. i - 1 \in 1 .. Len(t) /\ t[i - 1] = todo[i]
    BY <1>1, <2>2
  <2>. QED BY <2>1, <2>3 DEF Has
<1>. QED BY <1>4, <1>5, <1>6, <1>7 DEF t

(* The same of the verdict, as long as the settings on disk and the        *)
(* rollback stay as they are.                                              *)
LEMMA RestIsLate ==
  ASSUME Types, todo # <<>>, NEW undo, NEW m, NEW d,
         JudgeIsLate(todo, undo, m, d),
         NEW k \in 1 .. Len(Tail(todo)), Tail(todo)[k].op = "judge"
  PROVE  /\ E.op \in {"drop", "shift", "keep", "write", "index", "save", "set"}
         /\ \A j \in k + 1 .. Len(Tail(todo)) : Tail(todo)[j].op = "save_set"
         /\ \A j \in 1 .. k - 1 : Tail(todo)[j].op \in
              {"drop", "shift", "keep", "write", "index", "save", "set"}
         /\ IndexFollows(undo)
         /\ \A i \in 1 .. Len(undo) :
              /\ undo[i].op \in {"write", "index", "save", "set"}
              /\ undo[i].op = "set" => SetAgrees(undo[i].arg, d.set)
         /\ Has(todo, {"set"}) \/ ~SetAgrees(m.set, d.set) => Has(undo, {"set"})
<1> DEFINE t == Tail(todo)
           n == Len(todo)
<1>1. /\ n \in Nat /\ n >= 1 /\ Len(t) = n - 1
      /\ \A i \in 1 .. n - 1 : t[i] = todo[i + 1]
      /\ E = todo[1]
  BY NextEffect
<1> HIDE DEF t, n
<1>2. k + 1 \in 1 .. n /\ todo[k + 1].op = "judge" /\ 1 \in 1 .. (k + 1) - 1
  BY <1>1 DEF t
<1>3. /\ \A j \in (k + 1) + 1 .. n : todo[j].op = "save_set"
      /\ \A j \in 1 .. (k + 1) - 1 : todo[j].op \in
           {"drop", "shift", "keep", "write", "index", "save", "set"}
      /\ IndexFollows(undo)
      /\ \A i \in 1 .. Len(undo) :
           /\ undo[i].op \in {"write", "index", "save", "set"}
           /\ undo[i].op = "set" => SetAgrees(undo[i].arg, d.set)
      /\ Has(todo, {"set"}) \/ ~SetAgrees(m.set, d.set) => Has(undo, {"set"})
  BY <1>2 DEF JudgeIsLate, n
<1>4. \A j \in k + 1 .. Len(t) : j + 1 \in (k + 1) + 1 .. n /\ t[j] = todo[j + 1]
  BY <1>1 DEF t
<1>5. \A j \in 1 .. k - 1 : j + 1 \in 1 .. (k + 1) - 1 /\ t[j] = todo[j + 1]
  BY <1>1 DEF t
<1>6. /\ \A j \in k + 1 .. Len(t) : t[j].op = "save_set"
      /\ \A j \in 1 .. k - 1 : t[j].op \in
           {"drop", "shift", "keep", "write", "index", "save", "set"}
  BY <1>3, <1>4, <1>5
<1>. QED BY <1>1, <1>2, <1>3, <1>6 DEF t

(* What each effect changes, and that it changes nothing else.             *)
LEMMA PerformEffects ==
  ASSUME Types, Perform
  PROVE  /\ todo # <<>> /\ todo' = Tail(todo) /\ faults' = faults
         /\ up /\ up' = up
         /\ \/ Tail(todo) = <<>> /\ req' = Idle
            \/ Tail(todo) # <<>> /\ req' = req
         /\ mem'.index = IF E.op = "index" THEN E.arg
                         ELSE IF E.op = "reload_index" /\ disk.index # Torn
                              THEN OpenIndex(disk.index) ELSE mem.index
         /\ mem'.set = IF E.op = "set" THEN E.arg
                       ELSE IF E.op = "reload_set" /\ disk.set # Torn
                            THEN OpenSettings(disk.set) ELSE mem.set
         /\ disk'.index = IF E.op = "save" THEN mem.index
                          ELSE IF E.op = "copy_index" THEN E.arg ELSE disk.index
         /\ disk'.set = IF E.op = "save_set" THEN mem.set
                        ELSE IF E.op = "copy_set" THEN E.arg ELSE disk.set
         /\ file' = IF E.op = "write" THEN [file EXCEPT ![E.uid] = E.arg]
                    ELSE IF E.op = "unlink" THEN [file EXCEPT ![E.uid] = Missing]
                         ELSE file
         /\ E.op \notin {"drop", "shift", "keep"} => bak' = bak
         /\ E.op \notin {"open_tar", "close_tar"} => arch' = arch
         /\ E.op # "judge"
<1>1. /\ todo # <<>> /\ todo' = Tail(todo) /\ faults' = faults /\ up /\ up' = up
      /\ \/ Tail(todo) = <<>> /\ req' = Idle
         \/ Tail(todo) # <<>> /\ req' = req
  BY DEF Perform, GoOn
<1>2. /\ mem \in [index : Index, set : Settings]
      /\ disk \in [index : Index \cup {Missing, Torn},
                   set : Settings \cup {Missing, Torn}]
  BY DEF Types, TypeOK
<1>3. CASE OnFiles
  BY <1>1, <1>3 DEF OnFiles, Written, BakSet, BakMoved
<1>4. CASE OnMemory
  BY <1>1, <1>2, <1>4 DEF OnMemory
<1>5. CASE OnSaved
  BY <1>1, <1>2, <1>5 DEF OnSaved
<1>6. CASE OnArchives
  BY <1>1, <1>6 DEF OnArchives
<1>. QED BY <1>3, <1>4, <1>5, <1>6 DEF Perform

LEMMA SelfAgrees ==
  ASSUME NEW s \in Settings PROVE [s EXCEPT !.theme = s.theme] = s
BY DEF Settings

LEMMA NormalIsSame ==
  ASSUME NEW s \in Settings, s.mode # "bad"
  PROVE  OpenSettings(s) = s
<1>1. s # Missing
  BY NoFileAssumption
<1>2. Normal(s) = s
  BY DEF Normal, Settings
<1>. QED BY <1>1, <1>2 DEF OpenSettings

LEMMA PerformAgrees ==
  ASSUME Types, Types', Agreement, Perform
  PROVE  Agreement'
<1> SUFFICES ASSUME faults = 0
             PROVE  NothingTorn' /\ Settles(todo', mem', disk')
                    /\ JudgeIsLate(todo', req'.undo, mem', disk')
  BY PerformEffects DEF Agreement
<1> DEFINE t == Tail(todo)
<1>1. /\ todo # <<>> /\ todo' = t /\ up /\ up' = up
      /\ \/ t = <<>> /\ req' = Idle
         \/ t # <<>> /\ req' = req
  BY PerformEffects
<1>2. /\ NothingTorn /\ Settles(todo, mem, disk)
      /\ JudgeIsLate(todo, req.undo, mem, disk)
  BY <1>1 DEF Agreement
<1>3. /\ disk.index # Torn /\ disk.set # Torn
      /\ E.op \in {"copy_index", "copy_set"} => E.arg # Torn
  BY <1>1, <1>2, NextEffect DEF NothingTorn
<1>4. /\ E \in Effects /\ Legal(E) /\ Len(t) = Len(todo) - 1
      /\ \A i \in 1 .. Len(todo) - 1 : t[i] = todo[i + 1]
      /\ Len(todo) \in Nat /\ Len(todo) >= 1 /\ E = todo[1]
      /\ t = <<>> <=> Len(todo) = 1
  BY <1>1, NextEffect
<1>5. /\ IndexFollows(t) /\ SetFollows(t, disk.set)
      /\ \A ops_ : Has(t, ops_) => Has(todo, ops_)
      /\ \A ops_ : Has(todo, ops_) => E.op \in ops_ \/ Has(t, ops_)
  BY <1>1, <1>2, RestFollows DEF Settles
<1>6. /\ mem.set \in Settings /\ mem.set.mode # "bad" /\ mem.index \in Index
      /\ disk.set \in Settings \cup {Missing}
  BY <1>3 DEF Types, TypeOK
<1>7. NothingTorn'
  <2>1. disk'.index # Torn /\ disk'.set # Torn
    <3>1. mem.index # Torn /\ mem.set # Torn
      BY <1>6, NoFileAssumption
    <3>. QED BY <1>3, <3>1, PerformEffects
  <2>2. \A i \in 1 .. Len(t) :
           t[i].op \in {"copy_index", "copy_set"} => t[i].arg # Torn
    BY <1>2, <1>4 DEF NothingTorn
  <2>3. \A l \in Labels : \/ arch'[l] \in {Missing, Torn}
                          \/ arch'[l].index # Torn /\ arch'[l].set # Torn
    <3>0. /\ arch \in [Labels -> Archives \cup {Missing, Torn}]
          /\ \A l \in Labels : \/ arch[l] \in {Missing, Torn}
                               \/ arch[l].index # Torn /\ arch[l].set # Torn
      BY <1>2 DEF NothingTorn, Types, TypeOK
    <3>1. CASE arch' = arch
      BY <3>0, <3>1
    <3>2. CASE E.op = "open_tar" /\ arch' = [arch EXCEPT ![E.arg] = Torn]
      BY <3>0, <3>2
    <3>3. CASE E.op = "close_tar" /\ arch' = [arch EXCEPT ![E.arg] = Packed]
      <4>1. Packed.index = disk.index /\ Packed.set = disk.set
        BY DEF Packed
      <4>. QED BY <1>3, <3>0, <3>3, <4>1
    <3>. QED BY <3>1, <3>2, <3>3
         DEF Perform, OnFiles, OnMemory, OnSaved, OnArchives
  <2>. QED BY <1>1, <2>1, <2>2, <2>3 DEF NothingTorn
<1>8. Settles(t, mem', disk')
  <2>1. IndexFollows(t)
    BY <1>5
  <2>2. SetFollows(t, disk'.set)
    <3>1. CASE E.op \notin {"save_set", "copy_set"}
      <4>1. disk'.set = disk.set
        BY <3>1, PerformEffects
      <4>. QED BY <1>5, <4>1
    <3>2. CASE E.op \in {"save_set", "copy_set"}
      <4>1. \A j \in 1 + 1 .. Len(todo) : todo[j].op # "set"
        BY <1>2, <1>4, <3>2 DEF Settles, SetFollows
      <4>2. \A j \in 1 .. Len(t) : t[j].op # "set"
        BY <1>4, <4>1
      <4>. QED BY <1>5, <4>2 DEF SetFollows
    <3>. QED BY <3>1, <3>2
  <2>3. mem'.index = OpenIndex(disk'.index) \/ Has(t, {"save", "reload_index"})
    <3>1. mem.index = OpenIndex(disk.index) \/ Has(todo, {"save", "reload_index"})
      BY <1>2 DEF Settles
    <3>2. CASE E.op \in {"index", "copy_index"}
      <4>1. \E j \in 1 + 1 .. Len(todo) : todo[j].op \in {"save", "reload_index"}
        BY <1>2, <1>4, <3>2 DEF Settles, IndexFollows
      <4>2. PICK j \in 2 .. Len(todo) : todo[j].op \in {"save", "reload_index"}
        BY <4>1
      <4>3. j - 1 \in 1 .. Len(t) /\ t[j - 1] = todo[j]
        BY <1>4
      <4>. QED BY <4>2, <4>3 DEF Has
    <3>3. CASE E.op = "save"
      <4>1. mem'.index = mem.index /\ disk'.index = mem.index
        BY <3>3, PerformEffects
      <4>2. OpenIndex(mem.index) = mem.index
        BY <1>6, NoFileAssumption DEF OpenIndex
      <4>. QED BY <4>1, <4>2
    <3>4. CASE E.op = "reload_index"
      BY <1>3, <3>4, PerformEffects
    <3>5. CASE E.op \notin {"index", "copy_index", "save", "reload_index"}
      <4>1. mem'.index = mem.index /\ disk'.index = disk.index
        BY <3>5, PerformEffects
      <4>. QED BY <1>5, <3>1, <3>5, <4>1
    <3>. QED BY <3>2, <3>3, <3>4, <3>5
  <2>4. SetAgrees(mem'.set, disk'.set) \/ Has(t, {"set", "save_set", "reload_set"})
    <3>1. SetAgrees(mem.set, disk.set) \/ Has(todo, {"set", "save_set", "reload_set"})
      BY <1>2 DEF Settles
    <3>2. CASE E.op = "set"
      <4>1. \/ SetAgrees(E.arg, disk.set)
            \/ \E j \in 1 + 1 .. Len(todo) : todo[j].op = "save_set"
        BY <1>2, <1>4, <3>2 DEF Settles, SetFollows
      <4>2. CASE SetAgrees(E.arg, disk.set)
        <5>1. mem'.set = E.arg /\ disk'.set = disk.set
          BY <3>2, PerformEffects
        <5>. QED BY <4>2, <5>1 DEF SetAgrees
      <4>3. ASSUME NEW j \in 2 .. Len(todo), todo[j].op = "save_set"
            PROVE  Has(t, {"set", "save_set", "reload_set"})
        <5>1. j - 1 \in 1 .. Len(t) /\ t[j - 1] = todo[j]
          BY <1>4
        <5>. QED BY <4>3, <5>1 DEF Has
      <4>. QED BY <4>1, <4>2, <4>3
    <3>3. CASE E.op = "save_set"
      <4>1. mem'.set = mem.set /\ disk'.set = mem.set
        BY <3>3, PerformEffects
      <4>2. OpenSettings(mem.set) = mem.set
        BY <1>6, NormalIsSame
      <4>3. [mem.set EXCEPT !.theme = mem.set.theme] = mem.set
        BY <1>6, SelfAgrees
      <4>. QED BY <4>1, <4>2, <4>3 DEF SetAgrees
    <3>4. CASE E.op = "copy_set"
      <4>1. PICK j \in 1 + 1 .. Len(todo) : todo[j].op = "reload_set"
        BY <1>2, <1>4, <3>4 DEF Settles, SetFollows
      <4>2. j - 1 \in 1 .. Len(t) /\ t[j - 1] = todo[j]
        BY <1>4
      <4>. QED BY <4>1, <4>2 DEF Has
    <3>5. CASE E.op = "reload_set"
      <4>1. mem'.set = OpenSettings(disk.set) /\ disk'.set = disk.set
        BY <1>3, <3>5, PerformEffects
      <4>2. OpenSettings(disk.set) \in Settings
        BY <1>6, OpenedSettings
      <4>3. [OpenSettings(disk.set) EXCEPT !.theme = OpenSettings(disk.set).theme]
              = OpenSettings(disk.set)
        BY <4>2, SelfAgrees
      <4>. QED BY <4>1, <4>3 DEF SetAgrees
    <3>6. CASE E.op \notin {"set", "save_set", "copy_set", "reload_set"}
      <4>1. mem'.set = mem.set /\ disk'.set = disk.set
        BY <3>6, PerformEffects
      <4>2. CASE SetAgrees(mem.set, disk.set)
        BY <4>1, <4>2 DEF SetAgrees
      <4>3. CASE Has(todo, {"set", "save_set", "reload_set"})
        BY <1>5, <3>6, <4>3
      <4>. QED BY <3>1, <4>2, <4>3
    <3>. QED BY <3>2, <3>3, <3>4, <3>5, <3>6
  <2>. QED BY <2>1, <2>2, <2>3, <2>4 DEF Settles
<1>9. JudgeIsLate(t, req'.undo, mem', disk')
  <2> SUFFICES ASSUME NEW k \in 1 .. Len(t), t[k].op = "judge"
      PROVE  /\ \A j \in k + 1 .. Len(t) : t[j].op = "save_set"
             /\ \A j \in 1 .. k - 1 : t[j].op \in {"drop", "shift", "keep",
                                            "write", "index", "save", "set"}
             /\ IndexFollows(req'.undo)
             /\ \A i \in 1 .. Len(req'.undo) :
                  /\ req'.undo[i].op \in {"write", "index", "save", "set"}
                  /\ req'.undo[i].op = "set" => SetAgrees(req'.undo[i].arg, disk'.set)
             /\ Has(t, {"set"}) \/ ~SetAgrees(mem'.set, disk'.set) => Has(req'.undo, {"set"})
    BY DEF JudgeIsLate
  <2>1. /\ E.op \in {"drop", "shift", "keep", "write", "index", "save", "set"}
        /\ \A j \in k + 1 .. Len(t) : t[j].op = "save_set"
        /\ \A j \in 1 .. k - 1 : t[j].op \in
             {"drop", "shift", "keep", "write", "index", "save", "set"}
        /\ IndexFollows(req.undo)
        /\ \A i \in 1 .. Len(req.undo) :
             /\ req.undo[i].op \in {"write", "index", "save", "set"}
             /\ req.undo[i].op = "set" => SetAgrees(req.undo[i].arg, disk.set)
        /\ Has(todo, {"set"}) \/ ~SetAgrees(mem.set, disk.set) => Has(req.undo, {"set"})
    BY <1>1, <1>2, RestIsLate
  <2>2. req' = req
    BY <1>1, <1>4
  <2>3. disk'.set = disk.set
    BY <2>1, PerformEffects
  <2>5. Has(t, {"set"}) \/ ~SetAgrees(mem'.set, disk'.set) => Has(req.undo, {"set"})
    <3>1. CASE Has(t, {"set"})
      BY <1>5, <2>1, <3>1
    <3>2. CASE E.op = "set"
      <4>1. Has(todo, {"set"})
        BY <1>4, <3>2 DEF Has
      <4>. QED BY <2>1, <4>1
    <3>3. CASE E.op # "set"
      <4>1. mem'.set = mem.set
        BY <2>1, <3>3, PerformEffects
      <4>2. SetAgrees(mem'.set, disk'.set) <=> SetAgrees(mem.set, disk.set)
        BY <2>3, <4>1 DEF SetAgrees
      <4>. QED BY <2>1, <3>1, <4>2
    <3>. QED BY <3>2, <3>3
  <2>. QED BY <2>1, <2>2, <2>3, <2>5
<1>. QED BY <1>1, <1>7, <1>8, <1>9

(* When a request arrives, memory and disk agree; so only its list counts. *)
LEMMA IdleAgrees ==
  ASSUME Types, Agreement, faults = 0, up, todo = <<>>
  PROVE  /\ NothingTorn /\ mem.index = OpenIndex(disk.index)
         /\ SetAgrees(mem.set, disk.set)
<1>1. \A ops_ : ~Has(<<>>, ops_)
  BY DEF Has
<1>. QED BY <1>1 DEF Agreement, Settles

LEMMA AskedAgrees ==
  ASSUME Types, Agreement, NEW kind, NEW u, NEW new, NEW s, NEW undo, NEW onerr,
         Asked(kind, u, new, s, undo, onerr),
         faults = 0 =>
           /\ IndexFollows(s) /\ SetFollows(s, disk.set)
           /\ JudgeIsLate(s, undo, mem, disk)
           /\ \A i \in 1 .. Len(s) :
                s[i].op \in {"copy_index", "copy_set"} => s[i].arg # Torn
  PROVE  Agreement'
<1>1. /\ up /\ todo = <<>> /\ todo' = s /\ req'.undo = undo
  BY AskedFacts
<1>2. UNCHANGED <<mem, disk, file, bak, arch, up, faults>>
  BY DEF Asked
<1>3. ASSUME faults = 0
      PROVE  /\ NothingTorn' /\ Settles(s, mem, disk)
             /\ JudgeIsLate(s, undo, mem, disk)
  <2>1. /\ NothingTorn /\ mem.index = OpenIndex(disk.index)
        /\ SetAgrees(mem.set, disk.set)
    BY <1>1, <1>3, IdleAgrees
  <2>2. NothingTorn'
    BY <1>1, <1>2, <1>3, <2>1 DEF NothingTorn
  <2>. QED BY <1>3, <2>1, <2>2 DEF Settles
<1>. QED BY <1>1, <1>2, <1>3 DEF Agreement

(* A list with an index and its save, without settings and verdict.        *)
LEMMA WithoutSettings ==
  ASSUME NEW s, IndexFollows(s),
         \A i \in 1 .. Len(s) :
            s[i].op \notin {"set", "copy_set", "save_set", "judge"}
  PROVE  \A undo, m, d : SetFollows(s, d.set) /\ JudgeIsLate(s, undo, m, d)
BY DEF SetFollows, JudgeIsLate

LEMMA SaveDosFollow ==
  ASSUME NEW index
  PROVE  /\ IndexFollows(SaveDos(index)) /\ Len(SaveDos(index)) = 2
         /\ \A i \in 1 .. 2 : SaveDos(index)[i].op \in {"index", "save"}
<1>1. /\ Len(SaveDos(index)) = 2 /\ SaveDos(index)[1].op = "index"
      /\ SaveDos(index)[2].op = "save"
  BY DEF SaveDos, Do
<1> HIDE DEF SaveDos
<1>. QED BY <1>1 DEF IndexFollows

LEMMA CreateAgrees == ASSUME Types, Agreement, CreateAsked PROVE Agreement'
<1>1. PICK u \in Uids, text \in Texts, index \in Index :
        Asked("create", u, text,
              <<Do("write", u, text), Do("index", NoUid, index),
                Do("save", NoUid, index)>>, <<>>, <<>>)
  BY DEF CreateAsked
<1> DEFINE s == <<Do("write", u, text), Do("index", NoUid, index),
                  Do("save", NoUid, index)>>
<1>2. /\ Len(s) = 3 /\ s[1].op = "write" /\ s[2].op = "index" /\ s[3].op = "save"
  BY DEF Do
<1>3. Asked("create", u, text, s, <<>>, <<>>)
  BY <1>1
<1> HIDE DEF s
<1>4. \A i \in 1 .. 3 : s[i].op \in {"write", "index", "save"}
  BY <1>2
<1>5. IndexFollows(s)
  BY <1>2 DEF IndexFollows
<1>6. \A i \in 1 .. Len(s) : s[i].op \notin {"set", "copy_set", "save_set",
                                             "judge", "copy_index"}
  BY <1>2, <1>4
<1>. QED BY <1>3, <1>5, <1>6, AskedAgrees, WithoutSettings

LEMMA RemoveAgrees == ASSUME Types, Agreement, RemoveAsked PROVE Agreement'
<1>1. PICK u \in Uids, index \in Index :
        Asked("remove", u, Missing,
              <<Do("index", NoUid, index), Do("unlink", u, Missing),
                Do("save", NoUid, index)>>, <<>>, <<>>)
  BY DEF RemoveAsked
<1> DEFINE s == <<Do("index", NoUid, index), Do("unlink", u, Missing),
                  Do("save", NoUid, index)>>
<1>2. /\ Len(s) = 3 /\ s[1].op = "index" /\ s[2].op = "unlink" /\ s[3].op = "save"
  BY DEF Do
<1>3. Asked("remove", u, Missing, s, <<>>, <<>>)
  BY <1>1
<1> HIDE DEF s
<1>4. \A i \in 1 .. 3 : s[i].op \in {"index", "unlink", "save"}
  BY <1>2
<1>5. IndexFollows(s)
  BY <1>2, <1>4 DEF IndexFollows
<1>6. \A i \in 1 .. Len(s) : s[i].op \notin {"set", "copy_set", "save_set",
                                             "judge", "copy_index"}
  BY <1>2, <1>4
<1>. QED BY <1>3, <1>5, <1>6, AskedAgrees, WithoutSettings

LEMMA EditAgrees == ASSUME Types, Agreement, EditAsked PROVE Agreement'
<1>1. PICK index \in Index :
        Asked("edit", NoUid, Missing, SaveDos(index), <<>>, <<>>)
  BY DEF EditAsked
<1>2. /\ IndexFollows(SaveDos(index))
      /\ \A i \in 1 .. Len(SaveDos(index)) : SaveDos(index)[i].op \notin
           {"set", "copy_set", "save_set", "judge", "copy_index"}
  BY SaveDosFollow
<1>. QED BY <1>1, <1>2, AskedAgrees, WithoutSettings

LEMMA BackupAgrees == ASSUME Types, Agreement, BackupAsked PROVE Agreement'
<1>1. PICK l \in Labels :
        Asked("backup", NoUid, l,
              <<Do("open_tar", NoUid, l), Do("close_tar", NoUid, l)>>, <<>>, <<>>)
  BY DEF BackupAsked
<1> DEFINE s == <<Do("open_tar", NoUid, l), Do("close_tar", NoUid, l)>>
<1>2. /\ Len(s) = 2 /\ s[1].op = "open_tar" /\ s[2].op = "close_tar"
  BY DEF Do
<1>3. Asked("backup", NoUid, l, s, <<>>, <<>>)
  BY <1>1
<1> HIDE DEF s
<1>4. \A i \in 1 .. Len(s) : s[i].op \in {"open_tar", "close_tar"}
  BY <1>2
<1>5. IndexFollows(s)
  BY <1>4 DEF IndexFollows
<1>6. \A i \in 1 .. Len(s) : s[i].op \notin {"set", "copy_set", "save_set",
                                             "judge", "copy_index"}
  BY <1>4
<1>. QED BY <1>3, <1>5, <1>6, AskedAgrees, WithoutSettings

(* A list that ends with the verdict and sets no settings.                 *)
LEMMA JudgeLast ==
  ASSUME NEW s \in Seq(Effects), NEW undo, NEW m, NEW d, IndexFollows(undo),
         \A i \in 1 .. Len(undo) : undo[i].op \in {"write", "index", "save"},
         \A i \in 1 .. Len(s) : s[i].op \in
           {"drop", "shift", "keep", "write", "index", "save", "judge"},
         \A i \in 1 .. Len(s) : s[i].op = "judge" => i = Len(s),
         SetAgrees(m.set, d.set)
  PROVE  SetFollows(s, d.set) /\ JudgeIsLate(s, undo, m, d)
<1>1. Len(s) \in Nat
  OBVIOUS
<1>2. SetFollows(s, d.set)
  BY DEF SetFollows
<1>3. ~Has(s, {"set"})
  BY DEF Has
<1>4. ASSUME NEW k \in 1 .. Len(s), s[k].op = "judge"
      PROVE  /\ \A j \in k + 1 .. Len(s) : s[j].op = "save_set"
             /\ \A j \in 1 .. k - 1 : s[j].op \in {"drop", "shift", "keep",
                                            "write", "index", "save", "set"}
  <2>1. k = Len(s)
    BY <1>4
  <2>2. \A j \in 1 .. k - 1 : j \in 1 .. Len(s) /\ j # Len(s)
    BY <1>1, <2>1
  <2>. QED BY <1>1, <2>1, <2>2
<1>. QED BY <1>2, <1>3, <1>4 DEF JudgeIsLate

LEMMA UndoFollows ==
  ASSUME NEW w, w.op = "write", NEW index, NEW undo,
         \/ undo = <<>> \/ undo = SaveDos(index)
         \/ undo = <<w, Do("index", NoUid, index), Do("save", NoUid, index)>>
  PROVE  /\ IndexFollows(undo)
         /\ \A i \in 1 .. Len(undo) : undo[i].op \in {"write", "index", "save"}
<1>1. CASE undo = <<>>
  BY <1>1 DEF IndexFollows
<1>2. CASE undo = SaveDos(index)
  BY <1>2, SaveDosFollow
<1>3. CASE undo = <<w, Do("index", NoUid, index), Do("save", NoUid, index)>>
  <2>1. /\ Len(undo) = 3 /\ undo[1].op = "write" /\ undo[2].op = "index"
        /\ undo[3].op = "save"
    BY <1>3 DEF Do
  <2>2. \A i \in 1 .. 3 : undo[i].op \in {"write", "index", "save"}
    BY <2>1
  <2>. QED BY <2>1, <2>2 DEF IndexFollows
<1>. QED BY <1>1, <1>2, <1>3

LEMMA SwitchAgrees == ASSUME Types, Agreement, SwitchAsked PROVE Agreement'
<1>1. PICK index \in Index, undo \in {<<>>, SaveDos(mem.index)} :
        Asked("switch", NoUid, Missing,
              <<Do("index", NoUid, index), Do("save", NoUid, index),
                Do("judge", NoUid, Missing)>>, undo, <<>>)
  BY DEF SwitchAsked
<1> DEFINE s == <<Do("index", NoUid, index), Do("save", NoUid, index),
                  Do("judge", NoUid, Missing)>>
<1>2. /\ Len(s) = 3 /\ s[1].op = "index" /\ s[2].op = "save" /\ s[3].op = "judge"
  BY DEF Do
<1>3. Asked("switch", NoUid, Missing, s, undo, <<>>)
  BY <1>1
<1> HIDE DEF s
<1>4. s \in Seq(Effects) /\ up /\ todo = <<>>
  BY <1>3, AskedFacts DEF Asked
<1>5. \A i \in 1 .. 3 : /\ s[i].op \in {"index", "save", "judge"}
                        /\ s[i].op = "judge" => i = 3
  BY <1>2
<1>6. IndexFollows(s)
  BY <1>2, <1>5 DEF IndexFollows
<1>7. Do("write", NoUid, Missing).op = "write"
  BY DEF Do
<1>8. /\ IndexFollows(undo)
      /\ \A i \in 1 .. Len(undo) : undo[i].op \in {"write", "index", "save"}
  BY <1>1, <1>7, UndoFollows
<1>9. ASSUME faults = 0
      PROVE  SetFollows(s, disk.set) /\ JudgeIsLate(s, undo, mem, disk)
  <2>1. SetAgrees(mem.set, disk.set)
    BY <1>4, <1>9, IdleAgrees
  <2>2. \A i \in 1 .. Len(s) : s[i].op \in
          {"drop", "shift", "keep", "write", "index", "save", "judge"}
    BY <1>2, <1>5
  <2>3. \A i \in 1 .. Len(s) : s[i].op = "judge" => i = Len(s)
    BY <1>2, <1>5
  <2>. QED BY <1>4, <1>8, <2>1, <2>2, <2>3, JudgeLast
<1>. QED BY <1>2, <1>3, <1>5, <1>6, <1>9, AskedAgrees

(* The places of an overwrite.                                             *)
LEMMA OverwritePlaces ==
  ASSUME NEW n \in {0, MAX_BACKUPS + 1}, NEW u, NEW text, NEW s \in Seq(Effects),
         Overwrites(n, u, text, s)
  PROVE  /\ \A i \in 1 .. n : s[i].op \in {"drop", "shift", "keep"}
         /\ s[n + 1].op = "write" /\ s[n + 2].op = "index" /\ s[n + 3].op = "save"
         /\ \/ Len(s) = n + 3
            \/ Len(s) = n + 4 /\ s[n + 4].op = "judge"
         /\ \A i \in 1 .. Len(s) : i <= n \/ i = n + 1 \/ i = n + 2 \/ i = n + 3
                                     \/ (i = n + 4 /\ Len(s) = n + 4)
<1>0. \A op, v, arg : Do(op, v, arg).op = op
  BY DEF Do
<1>1. /\ n = 0 \/ /\ n = MAX_BACKUPS + 1
                  /\ s[1].op = "drop"
                  /\ \A k \in 1 .. MAX_BACKUPS - 1 : s[k + 1].op = "shift"
                  /\ s[MAX_BACKUPS + 1].op = "keep"
      /\ s[n + 1].op = "write" /\ s[n + 2].op = "index" /\ s[n + 3].op = "save"
      /\ \/ Len(s) = n + 3
         \/ Len(s) = n + 4 /\ s[n + 4].op = "judge"
  <2>1. ASSUME n # 0
        PROVE  /\ n = MAX_BACKUPS + 1 /\ s[1].op = "drop"
               /\ \A k \in 1 .. MAX_BACKUPS - 1 : s[k + 1].op = "shift"
               /\ s[MAX_BACKUPS + 1].op = "keep"
    <3>1. /\ s[1] = Do("drop", u, MAX_BACKUPS)
          /\ \A k \in 1 .. MAX_BACKUPS - 1 :
               s[k + 1] = Do("shift", u, MAX_BACKUPS - k)
          /\ s[MAX_BACKUPS + 1] = Do("keep", u, 1)
      BY <2>1 DEF Overwrites
    <3>. QED BY <1>0, <2>1, <3>1
  <2>2. s[n + 1].op = "write" /\ s[n + 2].op = "index" /\ s[n + 3].op = "save"
    <3>1. /\ s[n + 1] = Do("write", u, text)
          /\ s[n + 2] = Do("index", NoUid, mem.index)
          /\ s[n + 3] = Do("save", NoUid, mem.index)
      BY DEF Overwrites
    <3>. QED BY <1>0, <3>1
  <2>3. \/ Len(s) = n + 3
        \/ Len(s) = n + 4 /\ s[n + 4].op = "judge"
    <3>1. \/ Len(s) = n + 3
          \/ Len(s) = n + 4 /\ s[n + 4] = Do("judge", NoUid, Missing)
      BY DEF Overwrites
    <3>. QED BY <1>0, <3>1
  <2>. QED BY <2>1, <2>2, <2>3
<1>2. ASSUME NEW i \in 1 .. n PROVE s[i].op \in {"drop", "shift", "keep"}
  <2>1. n = MAX_BACKUPS + 1
    OBVIOUS
  <2>2. CASE i = 1
    BY <1>1, <2>1, <2>2
  <2>3. CASE i = MAX_BACKUPS + 1
    BY <1>1, <2>1, <2>3
  <2>4. CASE i # 1 /\ i # MAX_BACKUPS + 1
    <3>1. i - 1 \in 1 .. MAX_BACKUPS - 1 /\ (i - 1) + 1 = i
      BY <2>1, <2>4
    <3>2. s[(i - 1) + 1].op = "shift"
      BY <1>1, <2>1, <3>1
    <3>. QED BY <3>1, <3>2
  <2>. QED BY <2>2, <2>3, <2>4
<1>3. n \in Nat
  OBVIOUS
<1>4. \A i \in 1 .. Len(s) : i <= n \/ i = n + 1 \/ i = n + 2 \/ i = n + 3
                                 \/ (i = n + 4 /\ Len(s) = n + 4)
  <2>1. Len(s) = n + 3 \/ Len(s) = n + 4
    BY <1>1
  <2>2. CASE Len(s) = n + 3
    BY <1>3, <2>2
  <2>3. CASE Len(s) = n + 4
    BY <1>3, <2>3
  <2>. QED BY <2>1, <2>2, <2>3
<1>. QED BY <1>1, <1>2, <1>4

LEMMA OverwriteOps ==
  ASSUME NEW n \in {0, MAX_BACKUPS + 1}, NEW u, NEW text, NEW s \in Seq(Effects),
         Overwrites(n, u, text, s)
  PROVE  \A i \in 1 .. Len(s) :
           /\ s[i].op \in {"drop", "shift", "keep", "write", "index", "save",
                           "judge"}
           /\ s[i].op = "judge" => i = Len(s)
           /\ s[i].op = "index" => i = n + 2
<1>1. n \in Nat
  OBVIOUS
<1>2. /\ \A i \in 1 .. n : s[i].op \in {"drop", "shift", "keep"}
      /\ s[n + 1].op = "write" /\ s[n + 2].op = "index" /\ s[n + 3].op = "save"
      /\ \/ Len(s) = n + 3
         \/ Len(s) = n + 4 /\ s[n + 4].op = "judge"
      /\ \A i \in 1 .. Len(s) : i <= n \/ i = n + 1 \/ i = n + 2 \/ i = n + 3
                                  \/ (i = n + 4 /\ Len(s) = n + 4)
  <2> HIDE DEF Overwrites
  <2>. QED BY OverwritePlaces
<1> SUFFICES ASSUME NEW i \in 1 .. Len(s)
    PROVE  /\ s[i].op \in {"drop", "shift", "keep", "write", "index", "save",
                           "judge"}
           /\ s[i].op = "judge" => i = Len(s)
           /\ s[i].op = "index" => i = n + 2
  OBVIOUS
<1>3. CASE i <= n
  <2>1. i \in 1 .. n
    BY <1>1, <1>3
  <2>. QED BY <1>2, <2>1
<1>4. CASE i = n + 1 \/ i = n + 2 \/ i = n + 3
  BY <1>2, <1>4
<1>5. CASE i = n + 4 /\ Len(s) = n + 4
  <2>1. s[n + 4].op = "judge"
    BY <1>1, <1>2, <1>5
  <2>. QED BY <1>5, <2>1
<1>. QED BY <1>2, <1>3, <1>4, <1>5

LEMMA OverwriteAgrees == ASSUME Types, Agreement, OverwriteAsked PROVE Agreement'
<1>1. PICK kind \in {"import", "update", "restore"}, u \in Uids,
           text \in Stored \ {Missing}, s \in Seq(Effects), undo \in Seq(Effects) :
        /\ Overwrites(IF kind = "update" THEN 0 ELSE MAX_BACKUPS + 1, u, text, s)
        /\ \/ undo = SaveDos(mem.index)
           \/ undo = <<Do("write", u, file[u]), Do("index", NoUid, mem.index),
                       Do("save", NoUid, mem.index)>>
        /\ Asked(kind, u, text, s, undo, <<>>)
  BY DEF OverwriteAsked
<1> DEFINE n == IF kind = "update" THEN 0 ELSE MAX_BACKUPS + 1
<1>2. n \in {0, MAX_BACKUPS + 1} /\ n \in Nat /\ Overwrites(n, u, text, s)
  BY <1>1
<1> HIDE DEF n
<1>3. /\ \A i \in 1 .. n : s[i].op \in {"drop", "shift", "keep"}
      /\ s[n + 1].op = "write" /\ s[n + 2].op = "index" /\ s[n + 3].op = "save"
      /\ \/ Len(s) = n + 3
         \/ Len(s) = n + 4 /\ s[n + 4].op = "judge"
      /\ \A i \in 1 .. Len(s) : i <= n \/ i = n + 1 \/ i = n + 2 \/ i = n + 3
                                  \/ (i = n + 4 /\ Len(s) = n + 4)
  BY <1>2, OverwritePlaces
<1>4. \A i \in 1 .. Len(s) :
        /\ s[i].op \in {"drop", "shift", "keep", "write", "index", "save", "judge"}
        /\ s[i].op = "judge" => i = Len(s)
        /\ s[i].op = "index" => i = n + 2
  BY <1>2, OverwriteOps
<1>5. IndexFollows(s)
  <2>1. n + 3 \in (n + 2) + 1 .. Len(s)
    BY <1>2, <1>3
  <2>. QED BY <1>3, <1>4, <2>1 DEF IndexFollows
<1>6. up /\ todo = <<>>
  BY <1>1, AskedFacts
<1>7. Do("write", u, file[u]).op = "write"
  BY DEF Do
<1>8. /\ IndexFollows(undo)
      /\ \A i \in 1 .. Len(undo) : undo[i].op \in {"write", "index", "save"}
  BY <1>1, <1>7, UndoFollows
<1>9. ASSUME faults = 0
      PROVE  SetFollows(s, disk.set) /\ JudgeIsLate(s, undo, mem, disk)
  <2>1. SetAgrees(mem.set, disk.set)
    BY <1>6, <1>9, IdleAgrees
  <2>. QED BY <1>4, <1>8, <2>1, JudgeLast
<1>10. \A i \in 1 .. Len(s) : s[i].op \notin {"copy_index", "copy_set"}
  BY <1>4
<1>. QED BY <1>1, <1>5, <1>9, <1>10, AskedAgrees

LEMMA SettingsAgrees == ASSUME Types, Agreement, SettingsAsked PROVE Agreement'
<1>1. PICK set \in Settings :
     \/ /\ set = [mem.set EXCEPT !.theme = set.theme]
        /\ Asked("settings", NoUid, Missing, <<Do("set", NoUid, set)>>,
                 <<>>, <<>>)
     \/ Asked("settings", NoUid, Missing,
              <<Do("set", NoUid, set), Do("judge", NoUid, Missing),
                Do("save_set", NoUid, Missing)>>,
              <<Do("set", NoUid, mem.set)>>, <<Do("set", NoUid, mem.set)>>)
     \/ Asked("settings", NoUid, Missing,
              <<Do("set", NoUid, set), Do("save_set", NoUid, Missing)>>,
              <<>>, <<>>)
  BY DEF SettingsAsked
<1>2. up /\ todo = <<>>
  BY <1>1, AskedFacts
<1>3. faults = 0 => SetAgrees(mem.set, disk.set)
  BY <1>2, IdleAgrees
<1> DEFINE x == Do("set", NoUid, set)
           j == Do("judge", NoUid, Missing)
           v == Do("save_set", NoUid, Missing)
           o == Do("set", NoUid, mem.set)
<1>4. /\ x.op = "set" /\ x.arg = set /\ j.op = "judge" /\ v.op = "save_set"
      /\ o.op = "set" /\ o.arg = mem.set
  BY DEF Do
<1>5. \/ /\ set = [mem.set EXCEPT !.theme = set.theme]
         /\ Asked("settings", NoUid, Missing, <<x>>, <<>>, <<>>)
      \/ Asked("settings", NoUid, Missing, <<x, j, v>>, <<o>>, <<o>>)
      \/ Asked("settings", NoUid, Missing, <<x, v>>, <<>>, <<>>)
  BY <1>1
<1> HIDE DEF x, j, v, o
<1>6. CASE /\ set = [mem.set EXCEPT !.theme = set.theme]
           /\ Asked("settings", NoUid, Missing, <<x>>, <<>>, <<>>)
  <2> DEFINE s == <<x>>
  <2>1. Len(s) = 1 /\ s[1] = x
    OBVIOUS
  <2> HIDE DEF s
  <2>2. \A t : [set EXCEPT !.theme = t] = [mem.set EXCEPT !.theme = t]
    <3>1. mem.set \in Settings
      BY MemoryIsLegal
    <3>. QED BY <1>6, <3>1 DEF Settings
  <2>3. faults = 0 => SetAgrees(set, disk.set)
    BY <1>3, <2>2 DEF SetAgrees
  <2>4. /\ IndexFollows(s) /\ JudgeIsLate(s, <<>>, mem, disk)
        /\ faults = 0 => SetFollows(s, disk.set)
    BY <1>4, <2>1, <2>3 DEF IndexFollows, JudgeIsLate, SetFollows
  <2>5. \A i \in 1 .. Len(s) : s[i].op \notin {"copy_index", "copy_set"}
    BY <1>4, <2>1
  <2>6. Asked("settings", NoUid, Missing, s, <<>>, <<>>)
    BY <1>6 DEF s
  <2>. QED BY <2>4, <2>5, <2>6, AskedAgrees
<1>7. CASE Asked("settings", NoUid, Missing, <<x, j, v>>, <<o>>, <<o>>)
  <2> DEFINE s == <<x, j, v>>
             undo == <<o>>
  <2>1. /\ Len(s) = 3 /\ s[1] = x /\ s[2] = j /\ s[3] = v
        /\ Len(undo) = 1 /\ undo[1] = o
    OBVIOUS
  <2> HIDE DEF s, undo
  <2>2. IndexFollows(s) /\ IndexFollows(undo) /\ Has(undo, {"set"})
    BY <1>4, <2>1 DEF IndexFollows, Has
  <2>3. SetFollows(s, disk.set)
    <3>1. 3 \in 1 + 1 .. Len(s) /\ s[3].op = "save_set"
      BY <1>4, <2>1
    <3>2. \A i \in 1 .. Len(s) : \/ i = 1 /\ s[i].op = "set"
                                 \/ i = 2 /\ s[i].op = "judge"
                                 \/ i = 3 /\ s[i].op = "save_set"
      BY <1>4, <2>1
    <3>3. \A i \in 3 + 1 .. Len(s) : FALSE
      BY <2>1
    <3>. QED BY <3>1, <3>2, <3>3 DEF SetFollows
  <2>4. faults = 0 => JudgeIsLate(s, undo, mem, disk)
    <3>1. \A k \in 1 .. Len(s) : s[k].op = "judge" => k = 2
      BY <1>4, <2>1
    <3>2. \A i \in 2 + 1 .. Len(s) : s[i].op = "save_set"
      BY <1>4, <2>1
    <3>3. \A i \in 1 .. 2 - 1 : s[i].op = "set"
      BY <1>4, <2>1
    <3>4. faults = 0 => \A i \in 1 .. Len(undo) :
             undo[i].op = "set" /\ SetAgrees(undo[i].arg, disk.set)
      BY <1>3, <1>4, <2>1
    <3>. QED BY <2>2, <3>1, <3>2, <3>3, <3>4 DEF JudgeIsLate
  <2>5. \A i \in 1 .. Len(s) : s[i].op \notin {"copy_index", "copy_set"}
    BY <1>4, <2>1
  <2>6. Asked("settings", NoUid, Missing, s, undo, <<o>>)
    BY <1>7 DEF s, undo
  <2>. QED BY <2>2, <2>3, <2>4, <2>5, <2>6, AskedAgrees
<1>8. CASE Asked("settings", NoUid, Missing, <<x, v>>, <<>>, <<>>)
  <2> DEFINE s == <<x, v>>
  <2>1. Len(s) = 2 /\ s[1] = x /\ s[2] = v
    OBVIOUS
  <2> HIDE DEF s
  <2>2. IndexFollows(s) /\ JudgeIsLate(s, <<>>, mem, disk)
    BY <1>4, <2>1 DEF IndexFollows, JudgeIsLate
  <2>3. SetFollows(s, disk.set)
    <3>1. 2 \in 1 + 1 .. Len(s) /\ s[2].op = "save_set"
      BY <1>4, <2>1
    <3>2. \A i \in 1 .. Len(s) : \/ i = 1 /\ s[i].op = "set"
                                 \/ i = 2 /\ s[i].op = "save_set"
      BY <1>4, <2>1
    <3>3. \A i \in 2 + 1 .. Len(s) : FALSE
      BY <2>1
    <3>. QED BY <3>1, <3>2, <3>3 DEF SetFollows
  <2>5. \A i \in 1 .. Len(s) : s[i].op \notin {"copy_index", "copy_set"}
    BY <1>4, <2>1
  <2>6. Asked("settings", NoUid, Missing, s, <<>>, <<>>)
    BY <1>8 DEF s
  <2>. QED BY <2>2, <2>3, <2>5, <2>6, AskedAgrees
<1>. QED BY <1>5, <1>6, <1>7, <1>8

LEMMA RecoverAgrees == ASSUME Types, Agreement, RecoverAsked PROVE Agreement'
<1>1. PICK l \in Labels, s \in Seq(Effects) :
        /\ Accepted(arch[l]) /\ Restores(arch[l], s)
        /\ Asked("recover", NoUid, l, s, <<>>, <<>>)
  BY DEF RecoverAsked
<1> DEFINE n == Len(s)
<1>2. n \in Nat /\ n >= 3
  BY <1>1 DEF Restores
<1>3. /\ s[n - 1].op = "reload_index" /\ s[n].op = "reload_set"
      /\ \A i \in 1 .. n - 2 :
           /\ s[i].op \in {"unpack", "copy_index", "copy_set", "write"}
           /\ s[i].op = "copy_index" => s[i].arg = arch[l].index
           /\ s[i].op = "copy_set" => s[i].arg = arch[l].set
  BY <1>1 DEF Restores
<1>4. \A i \in 1 .. n : i \in 1 .. n - 2 \/ i = n - 1 \/ i = n
  BY <1>2
<1>5. \A i \in 1 .. n :
        /\ s[i].op \in {"unpack", "copy_index", "copy_set", "write",
                        "reload_index", "reload_set"}
        /\ s[i].op \in {"copy_index", "copy_set"} => i \in 1 .. n - 2
  BY <1>3, <1>4
<1>6. IndexFollows(s)
  <2>1. ASSUME NEW i \in 1 .. n - 2 PROVE n - 1 \in i + 1 .. n
    BY <1>2
  <2>. QED BY <1>3, <1>5, <2>1 DEF IndexFollows
<1>7. SetFollows(s, disk.set)
  <2>1. ASSUME NEW i \in 1 .. n - 2 PROVE n \in i + 1 .. n
    BY <1>2
  <2>2. \A i \in 1 .. n : \A j \in i + 1 .. n : j \in 1 .. n
    BY <1>2
  <2>. QED BY <1>3, <1>5, <2>1, <2>2 DEF SetFollows
<1>8. JudgeIsLate(s, <<>>, mem, disk)
  BY <1>5 DEF JudgeIsLate
<1>9. ASSUME faults = 0, NEW i \in 1 .. n, s[i].op \in {"copy_index", "copy_set"}
      PROVE  s[i].arg # Torn
  <2>1. up /\ todo = <<>>
    BY <1>1, AskedFacts
  <2>2. arch[l].index # Torn /\ arch[l].set # Torn
    BY <1>1, <1>9, <2>1, IdleAgrees DEF NothingTorn, Accepted
  <2>. QED BY <1>3, <1>5, <1>9, <2>2
<1>. QED BY <1>1, <1>6, <1>7, <1>8, <1>9, AskedAgrees

LEMMA JudgeAgrees ==
  ASSUME Types, Agreement, JudgeAccepts \/ JudgeRefuses
  PROVE  Agreement'
<1> DEFINE t == Tail(todo)
<1>1. /\ UNCHANGED <<mem, disk, file, bak, arch, up, ops, faults>>
      /\ todo # <<>> /\ E.op = "judge" /\ up
  BY DEF JudgeAccepts, JudgeRefuses, Step, E
<1> SUFFICES ASSUME faults = 0
             PROVE  NothingTorn' /\ Settles(todo', mem, disk)
                    /\ JudgeIsLate(todo', req'.undo, mem, disk)
  BY <1>1 DEF Agreement
<1>2. /\ NothingTorn /\ Settles(todo, mem, disk)
      /\ JudgeIsLate(todo, req.undo, mem, disk)
  BY <1>1 DEF Agreement
<1>3. /\ Len(t) = Len(todo) - 1
      /\ \A i \in 1 .. Len(todo) - 1 : t[i] = todo[i + 1]
      /\ Len(todo) \in Nat /\ Len(todo) >= 1 /\ E = todo[1]
      /\ t = <<>> <=> Len(todo) = 1
  BY <1>1, NextEffect
<1>4. /\ \A j \in 1 + 1 .. Len(todo) : todo[j].op = "save_set"
      /\ IndexFollows(req.undo)
      /\ \A i \in 1 .. Len(req.undo) :
           /\ req.undo[i].op \in {"write", "index", "save", "set"}
           /\ req.undo[i].op = "set" => SetAgrees(req.undo[i].arg, disk.set)
      /\ Has(todo, {"set"}) \/ ~SetAgrees(mem.set, disk.set)
           => Has(req.undo, {"set"})
  BY <1>1, <1>2, <1>3 DEF JudgeIsLate
<1>5. mem.index = OpenIndex(disk.index)
  <2>1. ~Has(todo, {"save", "reload_index"})
    <3>1. \A i \in 1 .. Len(todo) : i = 1 \/ i \in 1 + 1 .. Len(todo)
      BY <1>3
    <3>. QED BY <1>1, <1>3, <1>4, <3>1 DEF Has
  <2>. QED BY <1>2, <2>1 DEF Settles
<1>6. CASE JudgeAccepts
  <2>1. /\ todo' = t
        /\ \/ t = <<>> /\ req' = Idle
           \/ t # <<>> /\ req' = req
    BY <1>6 DEF JudgeAccepts, GoOn
  <2>2. /\ IndexFollows(t) /\ SetFollows(t, disk.set)
        /\ \A ops_ : Has(todo, ops_) => E.op \in ops_ \/ Has(t, ops_)
    BY <1>1, <1>2, RestFollows DEF Settles
  <2>3. SetAgrees(mem.set, disk.set) \/ Has(t, {"set", "save_set", "reload_set"})
    BY <1>1, <1>2, <2>2 DEF Settles
  <2>4. \A i \in 1 .. Len(t) : t[i].op = "save_set"
    <3>1. \A i \in 1 .. Len(t) : i + 1 \in 1 + 1 .. Len(todo) /\ t[i] = todo[i + 1]
      BY <1>3
    <3>. QED BY <1>4, <3>1
  <2>5. Settles(t, mem, disk)
    BY <1>5, <2>2, <2>3 DEF Settles
  <2>6. JudgeIsLate(t, req'.undo, mem, disk)
    BY <2>4 DEF JudgeIsLate
  <2>7. NothingTorn'
    BY <1>1, <1>2, <2>1, <2>4 DEF NothingTorn
  <2>. QED BY <2>1, <2>5, <2>6, <2>7
<1>7. CASE JudgeRefuses
  <2> DEFINE w == req.undo
  <2>1. todo' = w
    BY <1>7 DEF JudgeRefuses, Refuse
  <2>2. SetFollows(w, disk.set)
    BY <1>4 DEF SetFollows
  <2>3. SetAgrees(mem.set, disk.set) \/ Has(w, {"set", "save_set", "reload_set"})
    BY <1>4 DEF Has
  <2>4. Settles(w, mem, disk)
    BY <1>4, <1>5, <2>2, <2>3 DEF Settles
  <2>5. JudgeIsLate(w, req'.undo, mem, disk)
    BY <1>4 DEF JudgeIsLate
  <2>6. NothingTorn'
    BY <1>1, <1>2, <1>4, <2>1 DEF NothingTorn
  <2>. QED BY <2>1, <2>4, <2>5, <2>6
<1>. QED BY <1>6, <1>7

LEMMA NothingLeft ==
  ASSUME NEW m, NEW d, m.index = OpenIndex(d.index), SetAgrees(m.set, d.set)
  PROVE  \A undo : Settles(<<>>, m, d) /\ JudgeIsLate(<<>>, undo, m, d)
BY DEF Settles, JudgeIsLate, IndexFollows, SetFollows

LEMMA RestartsAgrees ==
  ASSUME Types, Agreement, Restarts PROVE Agreement'
<1>1. /\ ~up /\ todo = <<>> /\ todo' = <<>> /\ faults' = faults /\ arch' = arch
      /\ disk.index # Torn /\ disk.set # Torn /\ disk' = disk
      /\ mem'.index = OpenIndex(disk.index) /\ mem'.set = OpenSettings(disk.set)
  BY DEF Restarts, Types
<1>2. disk.set \in Settings \cup {Missing}
  BY <1>1 DEF Types, TypeOK
<1>3. SetAgrees(mem'.set, disk'.set)
  <2>1. OpenSettings(disk.set) \in Settings
    BY <1>2, OpenedSettings
  <2>. QED BY <1>1, <2>1, SelfAgrees DEF SetAgrees
<1>4. Settles(todo', mem', disk') /\ JudgeIsLate(todo', req'.undo, mem', disk')
  <2>1. mem'.index = OpenIndex(disk'.index)
    BY <1>1
  <2> DEFINE m == mem'
             d == disk'
  <2>2. m.index = OpenIndex(d.index) /\ SetAgrees(m.set, d.set)
    BY <1>3, <2>1
  <2> HIDE DEF m, d
  <2>3. Settles(<<>>, m, d) /\ \A undo : JudgeIsLate(<<>>, undo, m, d)
    BY <2>2, NothingLeft
  <2>. QED BY <1>1, <2>3 DEF m, d
<1>5. faults = 0 => NothingTorn'
  BY <1>1 DEF Agreement, NothingTorn
<1>. QED BY <1>1, <1>4, <1>5 DEF Agreement

LEMMA KilledAgrees ==
  ASSUME Types, Agreement, Killed PROVE Agreement'
<1>1. up' = FALSE /\ todo' = <<>> /\ faults' = faults /\ arch' = arch
  BY DEF Killed
<1>2. faults = 0 => NothingTorn'
  BY <1>1 DEF Agreement, NothingTorn
<1>. QED BY <1>1, <1>2 DEF Agreement

LEMMA FailAgrees == ASSUME Types, Fail PROVE Agreement'
<1>1. faults \in Nat /\ faults' = faults + 1
  BY DEF Types, TypeOK, Fail
<1>2. faults' # 0
  BY <1>1
<1>. QED BY <1>2 DEF Agreement

LEMMA BackupDeleteAgrees ==
  ASSUME Types, Agreement, NEW l \in Labels, BackupDelete(l) PROVE Agreement'
<1>1. /\ UNCHANGED <<mem, disk, file, bak, up, req, todo, faults>>
      /\ arch' = [arch EXCEPT ![l] = Missing]
  BY DEF BackupDelete
<1>2. arch \in [Labels -> Archives \cup {Missing, Torn}]
  BY DEF Types, TypeOK
<1>3. ASSUME NothingTorn PROVE NothingTorn'
  <2>1. \A k \in Labels : arch'[k] = Missing \/ arch'[k] = arch[k]
    BY <1>1, <1>2
  <2>. QED BY <1>1, <1>3, <2>1 DEF NothingTorn
<1>. QED BY <1>1, <1>3 DEF Agreement

LEMMA InitAgrees == ASSUME Init PROVE Agreement
<1>1. Types
  BY InitTypes
<1>2. todo = <<>> /\ arch = [l \in Labels |-> Missing]
  BY DEF Init
<1>3. mem.index = OpenIndex(disk.index) /\ mem.set = OpenSettings(disk.set)
      /\ disk.set \in Settings \cup {Missing} /\ disk.index # Torn
  <2>1. CASE /\ mem = [index |-> NoIndex, set |-> Default]
             /\ disk = [index |-> Missing, set |-> Missing]
    BY <2>1, StoresAssumption DEF OpenIndex, OpenSettings
  <2>2. ASSUME NEW i, NEW set \in Settings, disk = [index |-> i, set |-> set],
               mem = [index |-> disk.index, set |-> Normal(set)]
        PROVE  /\ mem.index = OpenIndex(disk.index)
               /\ mem.set = OpenSettings(disk.set)
               /\ disk.set \in Settings \cup {Missing} /\ disk.index # Torn
    <3>1. mem.index = i /\ disk.index = i /\ i \in Index
      BY <1>1, <2>2 DEF Types, TypeOK
    <3>2. i # Missing /\ i # Torn /\ set # Missing
      BY <3>1, NoFileAssumption
    <3>. QED BY <2>2, <3>1, <3>2 DEF OpenIndex, OpenSettings
  <2>3. \A mode \in {"rule", "bad"} : [Default EXCEPT !.mode = mode] \in Settings
    BY DEF Default, Settings
  <2>. QED BY <2>1, <2>2, <2>3 DEF Init
<1>4. SetAgrees(mem.set, disk.set)
  <2>1. OpenSettings(disk.set) \in Settings
    BY <1>3, OpenedSettings
  <2>. QED BY <1>3, <2>1, SelfAgrees DEF SetAgrees
<1>5. NothingTorn
  BY <1>2, <1>3, StoresAssumption, NoFileAssumption DEF NothingTorn
<1>. QED BY <1>2, <1>3, <1>4, <1>5, NothingLeft DEF Agreement

LEMMA NextAgrees ==
  ASSUME Types, Types', Agreement, [Next]_vars PROVE Agreement'
<1>1. CASE Request
  BY <1>1, RequestCases, CreateAgrees, OverwriteAgrees, RemoveAgrees,
     SwitchAgrees, EditAgrees, SettingsAgrees, BackupAgrees, RecoverAgrees,
     BackupDeleteAgrees
<1>2. CASE UNCHANGED vars
  BY <1>2 DEF vars, Agreement, NothingTorn
<1>. QED BY <1>1, <1>2, PerformAgrees, JudgeAgrees, FailAgrees, KilledAgrees,
            RestartsAgrees DEF Next

(* Nothing failed and no request is in progress: memory is what a restart  *)
(* would read, whatever was imported, switched, patched, refused or        *)
(* recovered before; except for the theme a patch with port 0 left.        *)
THEOREM MemoryIsDiskAlways == Spec => []MemoryIsDisk
<1>1. Init => Agreement
  BY InitAgrees
<1>2. Types /\ Types' /\ Agreement /\ [Next]_vars => Agreement'
  BY NextAgrees
<1>3. Types /\ Agreement => MemoryIsDisk
  <2> SUFFICES ASSUME Types, Agreement, up, req = Idle, faults = 0
               PROVE  /\ mem.index = OpenIndex(disk.index)
                      /\ SetAgrees(mem.set, disk.set)
    BY DEF MemoryIsDisk, SetAgrees
  <2>1. todo = <<>>
    BY DEF Types
  <2>. QED BY <2>1, IdleAgrees
<1>. QED BY <1>1, <1>2, <1>3, TypeInvariant, PTL DEF Spec

-----------------------------------------------------------------------------
(* Profiles and texts                                                      *)

LEMMA UidsAreUids ==
  ASSUME NEW index, Indexes(index) PROVE UidsOf(index) \subseteq Uids
<1>1. index.items \in Seq(Items)
  BY DEF Indexes, Index
<1>2. \A i \in DOMAIN index.items : index.items[i] \in Items
  BY <1>1
<1>. QED BY <1>2 DEF UidsOf, Items

LEMMA NoEffectNames ==
  ASSUME todo' = <<>>, req' = Idle PROVE Naming'
<1>1. KeepsTexts(<<>>)
  BY DEF KeepsTexts
<1>2. \A m, f : IndexNames(<<>>, FALSE, m, f)
  BY DEF IndexNames
<1>3. \A m : JudgeNames(<<>>, <<>>, m)
  BY DEF JudgeNames, Has
<1>4. req'.undo = <<>> /\ req'.onerr = <<>> /\ req'.failed = FALSE
  BY DEF Idle
<1>5. \A i \in 1 .. Len(req'.onerr) : req'.onerr[i].op = "set"
  BY <1>4
<1>6. /\ KeepsTexts(todo') /\ KeepsTexts(req'.undo)
      /\ IndexNames(todo', req'.failed, mem'.index, file')
      /\ JudgeNames(todo', req'.undo, mem'.index)
  BY <1>1, <1>2, <1>3, <1>4
<1>. QED BY <1>5, <1>6 DEF Naming

LEMMA PerformNames ==
  ASSUME Types, Naming, Perform
  PROVE  Naming' /\ (req.kind \in Lasting => Dangling' \subseteq Dangling)
<1> DEFINE t == Tail(todo)
<1>1. /\ todo # <<>> /\ todo' = t
      /\ \/ t = <<>> /\ req' = Idle
         \/ t # <<>> /\ req' = req
  BY PerformEffects
<1>2. /\ Len(t) = Len(todo) - 1
      /\ \A i \in 1 .. Len(todo) - 1 : t[i] = todo[i + 1]
      /\ Len(todo) \in Nat /\ Len(todo) >= 1 /\ E = todo[1]
      /\ E \in Effects /\ Legal(E)
  BY <1>1, NextEffect
<1>3. CASE req.kind \notin Lasting
  <2>1. CASE t = <<>>
    BY <1>1, <1>3, <2>1, NoEffectNames
  <2>2. CASE t # <<>>
    BY <1>1, <1>3, <2>2 DEF Naming
  <2>. QED BY <1>3, <2>1, <2>2
<1>4. CASE req.kind \in Lasting
  <2>1. /\ KeepsTexts(todo) /\ KeepsTexts(req.undo)
        /\ \A i \in 1 .. Len(req.onerr) : req.onerr[i].op = "set"
        /\ IndexNames(todo, req.failed, mem.index, file)
        /\ JudgeNames(todo, req.undo, mem.index)
    BY <1>4 DEF Naming
  <2>2. E.op \notin {"unlink", "copy_index", "copy_set", "reload_index",
                     "reload_set"}
    BY <1>2, <2>1 DEF KeepsTexts
  <2>3. /\ file \in [Uids -> Stored]
        /\ E.op = "write" => E.uid \in Uids /\ E.arg # Missing
    BY <1>2 DEF Types, TypeOK, Legal
  <2>4. \A v \in Uids : file[v] # Missing => file'[v] # Missing
    BY <2>2, <2>3, PerformEffects
  <2>5. E.op = "write" => file'[E.uid] # Missing
    BY <2>2, <2>3, PerformEffects
  <2>6. E.op = "index" =>
          /\ mem'.index = E.arg
          /\ \A v \in UidsOf(E.arg) : v \in UidsOf(mem.index) \/ file[v] # Missing
          /\ \A j \in 2 .. Len(todo) : todo[j].op # "index"
    BY <1>2, <2>1, PerformEffects DEF IndexNames
  <2>7. E.op # "index" => mem'.index = mem.index
    BY <2>2, PerformEffects
  <2>8. Dangling' \subseteq Dangling
    <3>1. disk'.index = disk.index \/ disk'.index = mem.index
      BY <2>2, PerformEffects
    <3>2. SavedUids(disk'.index) \subseteq SavedUids(disk.index) \cup UidsOf(mem.index)
      BY <3>1 DEF SavedUids
    <3>3. \A v \in UidsOf(mem'.index) : v \in UidsOf(mem.index) \/ file[v] # Missing
      BY <2>6, <2>7
    <3>. QED BY <2>4, <3>2, <3>3 DEF Dangling
  <2>9. KeepsTexts(t)
    BY <1>2, <2>1 DEF KeepsTexts
  <2>10. (\E i \in 1 .. Len(t) : t[i].op = "index") => E.op # "index"
    BY <1>2, <2>6
  <2>11. IndexNames(t, req.failed, mem'.index, file')
    <3> SUFFICES ASSUME NEW i \in 1 .. Len(t), t[i].op = "index"
        PROVE  /\ \A v \in UidsOf(t[i].arg) :
                    \/ v \in UidsOf(mem'.index)
                    \/ /\ ~req.failed
                       /\ \/ file'[v] # Missing
                          \/ \E j \in 1 .. i - 1 :
                               t[j].op = "write" /\ t[j].uid = v
               /\ \A j \in i + 1 .. Len(t) : t[j].op # "index"
      BY DEF IndexNames
    <3>1. i + 1 \in 1 .. Len(todo) /\ t[i] = todo[i + 1]
      BY <1>2
    <3>2. mem'.index = mem.index
      BY <2>7, <2>10
    <3>3. /\ \A v \in UidsOf(t[i].arg) :
               \/ v \in UidsOf(mem.index)
               \/ /\ ~req.failed
                  /\ \/ file[v] # Missing
                     \/ \E j \in 1 .. i : todo[j].op = "write" /\ todo[j].uid = v
          /\ \A j \in i + 2 .. Len(todo) : todo[j].op # "index"
      <4>1. (i + 1) - 1 = i /\ (i + 1) + 1 = i + 2
        OBVIOUS
      <4>. QED BY <2>1, <3>1, <4>1 DEF IndexNames
    <3>4. ASSUME NEW j \in i + 1 .. Len(t) PROVE t[j].op # "index"
      <4>1. j + 1 \in i + 2 .. Len(todo) /\ t[j] = todo[j + 1]
        BY <1>2
      <4>. QED BY <3>3, <4>1
    <3>5. ASSUME NEW v, NEW j \in 1 .. i,
                 todo[j].op = "write", todo[j].uid = v
          PROVE  \/ file'[v] # Missing
                 \/ \E k \in 1 .. i - 1 : t[k].op = "write" /\ t[k].uid = v
      <4>1. CASE j = 1
        BY <1>2, <2>5, <3>5, <4>1
      <4>2. CASE j # 1
        <5>1. j - 1 \in 1 .. i - 1 /\ t[j - 1] = todo[j]
          BY <1>2, <4>2
        <5>. QED BY <3>5, <5>1
      <4>. QED BY <4>1, <4>2
    <3>6. ASSUME NEW v \in UidsOf(t[i].arg) PROVE v \in Uids
      <4>1. t[i] \in Effects /\ Legal(t[i])
        BY <1>1, <3>1, NextEffect DEF Effects
      <4>2. Indexes(t[i].arg)
        BY <4>1 DEF Legal
      <4>. QED BY <4>2, UidsAreUids
    <3>. QED BY <2>4, <3>2, <3>3, <3>4, <3>5, <3>6
  <2>12. JudgeNames(t, req.undo, mem'.index)
    <3> SUFFICES ASSUME Has(t, {"judge"})
        PROVE  /\ ~Has(req.undo, {"judge"})
               /\ \A i \in 1 .. Len(t) : t[i].op = "index" =>
                    UidsOf(mem'.index) \subseteq UidsOf(t[i].arg)
               /\ \A i \in 1 .. Len(req.undo) : req.undo[i].op = "index" =>
                    /\ UidsOf(req.undo[i].arg) \subseteq UidsOf(mem'.index)
                    /\ \A j \in i + 1 .. Len(req.undo) : req.undo[j].op # "index"
      BY DEF JudgeNames
    <3>1. Has(todo, {"judge"})
      BY <1>1, RestFollows
    <3>2. /\ ~Has(req.undo, {"judge"})
          /\ \A i \in 1 .. Len(todo) : todo[i].op = "index" =>
               UidsOf(mem.index) \subseteq UidsOf(todo[i].arg)
          /\ \A i \in 1 .. Len(req.undo) : req.undo[i].op = "index" =>
               /\ UidsOf(req.undo[i].arg) \subseteq UidsOf(mem.index)
               /\ \A j \in i + 1 .. Len(req.undo) : req.undo[j].op # "index"
      BY <2>1, <3>1 DEF JudgeNames
    <3>3. UidsOf(mem.index) \subseteq UidsOf(mem'.index)
      BY <1>2, <2>6, <2>7, <3>2
    <3>4. ASSUME NEW i \in 1 .. Len(t), t[i].op = "index"
          PROVE  UidsOf(mem'.index) \subseteq UidsOf(t[i].arg)
      <4>1. i + 1 \in 1 .. Len(todo) /\ t[i] = todo[i + 1]
        BY <1>2
      <4>. QED BY <2>7, <2>10, <3>2, <3>4, <4>1
    <3>. QED BY <3>2, <3>3, <3>4
  <2>13. CASE t = <<>>
    BY <1>1, <2>8, <2>13, NoEffectNames
  <2>14. CASE t # <<>>
    BY <1>1, <2>1, <2>8, <2>9, <2>11, <2>12, <2>14 DEF Naming
  <2>. QED BY <2>13, <2>14
<1>. QED BY <1>3, <1>4

(* After a verdict nothing is named, and a rollback names what is there.   *)
LEMMA JudgeNamesHold ==
  ASSUME Types, Naming, JudgeAccepts \/ JudgeRefuses
  PROVE  Naming'
<1> DEFINE t == Tail(todo)
<1>1. /\ UNCHANGED <<mem, disk, file, bak, arch, up, ops, faults>>
      /\ todo # <<>> /\ E.op = "judge"
  BY DEF JudgeAccepts, JudgeRefuses, Step, E
<1>2. /\ Len(t) = Len(todo) - 1
      /\ \A i \in 1 .. Len(todo) - 1 : t[i] = todo[i + 1]
      /\ Len(todo) \in Nat /\ Len(todo) >= 1 /\ E = todo[1]
  BY <1>1, NextEffect
<1>3. CASE JudgeAccepts
  <2>1. /\ todo' = t
        /\ \/ t = <<>> /\ req' = Idle
           \/ t # <<>> /\ req' = req
    BY <1>3 DEF JudgeAccepts, GoOn
  <2>2. CASE t = <<>>
    BY <2>1, <2>2, NoEffectNames
  <2>3. CASE t # <<>> /\ req.kind \in Lasting
    <3>1. /\ KeepsTexts(todo) /\ KeepsTexts(req.undo)
          /\ \A i \in 1 .. Len(req.onerr) : req.onerr[i].op = "set"
          /\ IndexNames(todo, req.failed, mem.index, file)
          /\ JudgeNames(todo, req.undo, mem.index)
      BY <2>3 DEF Naming
    <3>2. \A i \in 1 .. Len(t) : i + 1 \in 1 .. Len(todo) /\ t[i] = todo[i + 1]
      BY <1>2
    <3>3. KeepsTexts(t)
      BY <3>1, <3>2 DEF KeepsTexts
    <3>4. IndexNames(t, req.failed, mem.index, file)
      <4> SUFFICES ASSUME NEW i \in 1 .. Len(t), t[i].op = "index"
          PROVE  /\ \A v \in UidsOf(t[i].arg) :
                      \/ v \in UidsOf(mem.index)
                      \/ /\ ~req.failed
                         /\ \/ file[v] # Missing
                            \/ \E j \in 1 .. i - 1 :
                                 t[j].op = "write" /\ t[j].uid = v
                 /\ \A j \in i + 1 .. Len(t) : t[j].op # "index"
        BY DEF IndexNames
      <4>1. i + 1 \in 1 .. Len(todo) /\ t[i] = todo[i + 1]
        BY <3>2
      <4>2. /\ \A v \in UidsOf(t[i].arg) :
                 \/ v \in UidsOf(mem.index)
                 \/ /\ ~req.failed
                    /\ \/ file[v] # Missing
                       \/ \E j \in 1 .. i : todo[j].op = "write" /\ todo[j].uid = v
            /\ \A j \in i + 2 .. Len(todo) : todo[j].op # "index"
        <5>1. (i + 1) - 1 = i /\ (i + 1) + 1 = i + 2
          OBVIOUS
        <5>. QED BY <3>1, <4>1, <5>1 DEF IndexNames
      <4>3. ASSUME NEW j \in i + 1 .. Len(t) PROVE t[j].op # "index"
        <5>1. j + 1 \in i + 2 .. Len(todo) /\ t[j] = todo[j + 1]
          BY <1>2
        <5>. QED BY <4>2, <5>1
      <4>4. ASSUME NEW j \in 1 .. i, todo[j].op = "write"
            PROVE  j - 1 \in 1 .. i - 1 /\ t[j - 1] = todo[j]
        BY <1>1, <1>2, <4>4
      <4>. QED BY <4>2, <4>3, <4>4
    <3>5. JudgeNames(t, req.undo, mem.index)
      <4>1. Has(t, {"judge"}) => Has(todo, {"judge"})
        BY <1>1, RestFollows
      <4>. QED BY <3>1, <3>2, <4>1 DEF JudgeNames
    <3>. QED BY <1>1, <2>1, <2>3, <3>1, <3>3, <3>4, <3>5 DEF Naming
  <2>. QED BY <2>1, <2>2, <2>3 DEF Naming
<1>4. CASE JudgeRefuses
  <2> DEFINE w == req.undo
  <2>1. todo' = w /\ w \in Seq(Effects) /\ Refuse(w)
    BY <1>4 DEF JudgeRefuses, Refuse, Types, Requests
  <2>2. CASE w = <<>>
    BY <2>1, <2>2, NoEffectNames DEF Refuse
  <2>3. CASE w # <<>>
    <3>1. /\ req' # Idle /\ req'.failed = TRUE /\ req'.kind = req.kind
          /\ req'.undo = req.undo /\ req'.onerr = req.onerr
      BY <1>1, <2>1, <2>3, RefuseTypes
    <3>2. CASE req.kind \in Lasting
      <4>1. /\ KeepsTexts(req.undo)
            /\ \A i \in 1 .. Len(req.onerr) : req.onerr[i].op = "set"
            /\ JudgeNames(todo, req.undo, mem.index)
        BY <3>2 DEF Naming
      <4>2. Has(todo, {"judge"})
        BY <1>1, <1>2 DEF Has
      <4>3. /\ ~Has(w, {"judge"})
            /\ \A i \in 1 .. Len(w) : w[i].op = "index" =>
                 /\ UidsOf(w[i].arg) \subseteq UidsOf(mem.index)
                 /\ \A j \in i + 1 .. Len(w) : w[j].op # "index"
        BY <4>1, <4>2 DEF JudgeNames
      <4>4. IndexNames(w, TRUE, mem.index, file)
        BY <4>3 DEF IndexNames
      <4>5. JudgeNames(w, w, mem.index)
        BY <4>3 DEF JudgeNames
      <4>. QED BY <1>1, <2>1, <3>1, <4>1, <4>4, <4>5 DEF Naming
    <3>. QED BY <3>1, <3>2 DEF Naming
  <2>. QED BY <2>2, <2>3
<1>. QED BY <1>3, <1>4

(* What an operation that fails leaves is torn, never missing.             *)
LEMMA TornIsThere ==
  ASSUME Types, todo # <<>>, Naming, req.kind \in Lasting,
         LeavesTorn \/ UNCHANGED <<file, bak, disk>>
  PROVE  /\ disk' = disk /\ \A v \in Uids : file[v] # Missing => file'[v] # Missing
         /\ E.op = "drop" => file' = file
<1>1. KeepsTexts(todo) /\ E = todo[1] /\ 1 \in 1 .. Len(todo)
  BY NextEffect DEF Naming
<1>2. E.op \notin {"copy_index", "copy_set"}
  BY <1>1 DEF KeepsTexts
<1>3. file \in [Uids -> Stored] /\ Torn # Missing
  BY DEF Types, TypeOK
<1>4. CASE E.op = "write" /\ Written(E.uid, Torn) /\ disk' = disk
  BY <1>3, <1>4 DEF Written
<1>5. CASE E.op = "keep" /\ BakSet(E.uid, 1, Torn) /\ disk' = disk
  BY <1>5 DEF BakSet
<1>6. CASE UNCHANGED <<file, bak, disk>>
  BY <1>6
<1>. QED BY <1>2, <1>4, <1>5, <1>6 DEF LeavesTorn

LEMMA FailNames ==
  ASSUME Types, Naming, Fail
  PROVE  Naming' /\ (req.kind \in Lasting => Dangling' \subseteq Dangling)
<1> DEFINE t == Tail(todo)
<1>1. todo # <<>> /\ mem' = mem
  BY DEF Fail
<1>2. /\ Len(t) = Len(todo) - 1
      /\ \A i \in 1 .. Len(todo) - 1 : t[i] = todo[i + 1]
      /\ Len(todo) \in Nat /\ Len(todo) >= 1 /\ E = todo[1]
  BY <1>1, NextEffect
<1>3. /\ LeavesTorn \/ UNCHANGED <<file, bak, disk>>
      /\ \/ (E.op \in Ignored \/ req.failed) /\ GoOn(t)
         \/ Refuse(req.onerr)
  BY DEF Fail
<1>4. CASE req.kind \notin Lasting
  <2>1. (req' = Idle /\ todo' = <<>>) \/ req'.kind = req.kind
    <3>1. CASE GoOn(t)
      BY <3>1 DEF GoOn
    <3>2. CASE Refuse(req.onerr)
      <4>1. req.onerr \in Seq(Effects)
        BY DEF Types, Requests
      <4>2. req' # Idle => req'.kind = req.kind
        BY <1>1, <3>2, <4>1, RefuseTypes
      <4>3. CASE req.onerr = <<>>
        BY <3>2, <4>3 DEF Refuse
      <4>4. CASE req.onerr # <<>>
        <5>1. todo' # <<>>
          BY <3>2, <4>4 DEF Refuse
        <5>2. todo' = <<>> <=> req' = Idle
          BY <1>1, <3>2, <4>1, RefuseTypes
        <5>. QED BY <4>2, <5>1, <5>2
      <4>. QED BY <4>3, <4>4
    <3>. QED BY <1>3, <3>1, <3>2
  <2>2. CASE req' = Idle /\ todo' = <<>>
    BY <1>4, <2>2, NoEffectNames
  <2>3. CASE req'.kind = req.kind
    BY <1>4, <2>3 DEF Naming
  <2>. QED BY <1>4, <2>1, <2>2, <2>3
<1>5. CASE req.kind \in Lasting
  <2>1. /\ KeepsTexts(todo) /\ KeepsTexts(req.undo)
        /\ \A i \in 1 .. Len(req.onerr) : req.onerr[i].op = "set"
        /\ IndexNames(todo, req.failed, mem.index, file)
        /\ JudgeNames(todo, req.undo, mem.index)
    BY <1>5 DEF Naming
  <2>2. /\ disk' = disk /\ \A v \in Uids : file[v] # Missing => file'[v] # Missing
        /\ E.op = "drop" => file' = file
    BY <1>1, <1>3, <1>5, TornIsThere
  <2>3. Dangling' \subseteq Dangling
    BY <1>1, <2>2 DEF Dangling
  <2>4. \A i \in 1 .. Len(t) : i + 1 \in 1 .. Len(todo) /\ t[i] = todo[i + 1]
    BY <1>2
  <2>5. CASE (E.op \in Ignored \/ req.failed) /\ GoOn(t)
    <3>1. /\ todo' = t
          /\ \/ t = <<>> /\ req' = Idle
             \/ t # <<>> /\ req' = req
      BY <2>5 DEF GoOn
    <3>2. E.op = "drop" \/ req.failed
      <4>1. E.op # "unlink"
        BY <1>2, <2>1 DEF KeepsTexts
      <4>. QED BY <2>5, <4>1 DEF Ignored
    <3>3. KeepsTexts(t)
      BY <2>1, <2>4 DEF KeepsTexts
    <3>4. IndexNames(t, req.failed, mem.index, file')
      <4> SUFFICES ASSUME NEW i \in 1 .. Len(t), t[i].op = "index"
          PROVE  /\ \A v \in UidsOf(t[i].arg) :
                      \/ v \in UidsOf(mem.index)
                      \/ /\ ~req.failed
                         /\ \/ file'[v] # Missing
                            \/ \E j \in 1 .. i - 1 :
                                 t[j].op = "write" /\ t[j].uid = v
                 /\ \A j \in i + 1 .. Len(t) : t[j].op # "index"
        BY DEF IndexNames
      <4>1. i + 1 \in 1 .. Len(todo) /\ t[i] = todo[i + 1]
        BY <2>4
      <4>2. /\ \A v \in UidsOf(t[i].arg) :
                 \/ v \in UidsOf(mem.index)
                 \/ /\ ~req.failed
                    /\ \/ file[v] # Missing
                       \/ \E j \in 1 .. i : todo[j].op = "write" /\ todo[j].uid = v
            /\ \A j \in i + 2 .. Len(todo) : todo[j].op # "index"
        <5>1. (i + 1) - 1 = i /\ (i + 1) + 1 = i + 2
          OBVIOUS
        <5>. QED BY <2>1, <4>1, <5>1 DEF IndexNames
      <4>3. ASSUME NEW j \in i + 1 .. Len(t) PROVE t[j].op # "index"
        <5>1. j + 1 \in i + 2 .. Len(todo) /\ t[j] = todo[j + 1]
          BY <1>2
        <5>. QED BY <4>2, <5>1
      <4>4. ASSUME NEW j \in 1 .. i, todo[j].op = "write", ~req.failed
            PROVE  j - 1 \in 1 .. i - 1 /\ t[j - 1] = todo[j]
        <5>1. j # 1
          BY <1>2, <3>2, <4>4
        <5>. QED BY <1>2, <5>1
      <4>5. ~req.failed => file' = file
        BY <2>2, <3>2
      <4>. QED BY <4>2, <4>3, <4>4, <4>5
    <3>5. JudgeNames(t, req.undo, mem.index)
      <4>1. Has(t, {"judge"}) => Has(todo, {"judge"})
        BY <1>1, RestFollows
      <4>. QED BY <2>1, <2>4, <4>1 DEF JudgeNames
    <3>6. CASE t = <<>>
      BY <2>3, <3>1, <3>6, NoEffectNames
    <3>7. CASE t # <<>>
      BY <1>1, <2>1, <2>3, <3>1, <3>3, <3>4, <3>5, <3>7 DEF Naming
    <3>. QED BY <3>6, <3>7
  <2>6. CASE Refuse(req.onerr)
    <3> DEFINE w == req.onerr
    <3>1. todo' = w /\ w \in Seq(Effects)
      BY <2>6 DEF Refuse, Types, Requests
    <3>2. CASE w = <<>>
      BY <2>3, <2>6, <3>2, NoEffectNames DEF Refuse
    <3>3. CASE w # <<>>
      <4>1. /\ req' # Idle /\ req'.undo = req.undo /\ req'.onerr = w
        BY <1>1, <2>6, <3>1, <3>3, RefuseTypes
      <4>2. KeepsTexts(w) /\ \A f, m, u : IndexNames(w, f, m, u)
        BY <2>1 DEF KeepsTexts, IndexNames
      <4>3. \A u, m : JudgeNames(w, u, m)
        BY <2>1 DEF JudgeNames, Has
      <4>. QED BY <2>1, <2>3, <3>1, <4>1, <4>2, <4>3 DEF Naming
    <3>. QED BY <3>2, <3>3
  <2>. QED BY <1>3, <2>5, <2>6
<1>. QED BY <1>4, <1>5

(* The requests.                                                           *)
LEMMA AskedNames ==
  ASSUME Types, Naming, NEW kind, NEW u, NEW new, NEW s, NEW undo, NEW onerr,
         Asked(kind, u, new, s, undo, onerr),
         kind \in Lasting =>
           /\ KeepsTexts(s) /\ KeepsTexts(undo)
           /\ \A i \in 1 .. Len(onerr) : onerr[i].op = "set"
           /\ IndexNames(s, FALSE, mem.index, file)
           /\ JudgeNames(s, undo, mem.index)
  PROVE  Naming'
<1>1. /\ todo' = s /\ req'.undo = undo /\ req'.onerr = onerr
      /\ req'.kind = kind /\ req'.failed = FALSE
  BY AskedFacts
<1>2. UNCHANGED <<mem, disk, file, bak, arch, up, faults>>
  BY DEF Asked
<1>. QED BY <1>1, <1>2 DEF Naming

LEMMA CreateNames == ASSUME Types, Naming, CreateAsked PROVE Naming'
<1>1. PICK u \in Uids, text \in Texts, index \in Index :
        /\ UidsOf(index) = UidsOf(mem.index) \cup {u}
        /\ Asked("create", u, text,
                 <<Do("write", u, text), Do("index", NoUid, index),
                   Do("save", NoUid, index)>>, <<>>, <<>>)
  BY DEF CreateAsked
<1> DEFINE s == <<Do("write", u, text), Do("index", NoUid, index),
                  Do("save", NoUid, index)>>
<1>2. /\ Len(s) = 3 /\ s[1].op = "write" /\ s[1].uid = u
      /\ s[2].op = "index" /\ s[2].arg = index /\ s[3].op = "save"
  BY DEF Do
<1>3. Asked("create", u, text, s, <<>>, <<>>)
  BY <1>1
<1> HIDE DEF s
<1>4. \A i \in 1 .. Len(s) : i = 1 \/ i = 2 \/ i = 3
  BY <1>2
<1>5. KeepsTexts(s) /\ KeepsTexts(<<>>)
  BY <1>2, <1>4 DEF KeepsTexts
<1>6. IndexNames(s, FALSE, mem.index, file)
  <2>1. 1 \in 1 .. 2 - 1 /\ \A j \in 2 + 1 .. Len(s) : j = 3
    BY <1>2
  <2>2. \A i \in 1 .. Len(s) : s[i].op = "index" => i = 2
    BY <1>2, <1>4
  <2>3. \A v \in UidsOf(s[2].arg) :
           \/ v \in UidsOf(mem.index)
           \/ s[1].op = "write" /\ s[1].uid = v
    BY <1>1, <1>2
  <2>. QED BY <1>2, <2>1, <2>2, <2>3 DEF IndexNames
<1>7. JudgeNames(s, <<>>, mem.index)
  BY <1>2, <1>4 DEF JudgeNames, Has
<1>8. \A i \in 1 .. Len(<<>>) : <<>>[i].op = "set"
  OBVIOUS
<1>. QED BY <1>3, <1>5, <1>6, <1>7, <1>8, AskedNames

(* Lists that name what memory names, and index once at most.              *)
LEMMA SameNamed ==
  ASSUME NEW s \in Seq(Effects), NEW f,
         \A i \in 1 .. Len(s) : s[i].op = "index" =>
            /\ UidsOf(s[i].arg) = UidsOf(mem.index)
            /\ \A j \in 1 .. Len(s) : s[j].op = "index" => j = i
  PROVE  /\ \A failed : IndexNames(s, failed, mem.index, f)
         /\ \A i \in 1 .. Len(s) : s[i].op = "index" =>
              /\ UidsOf(s[i].arg) \subseteq UidsOf(mem.index)
              /\ UidsOf(mem.index) \subseteq UidsOf(s[i].arg)
              /\ \A j \in i + 1 .. Len(s) : s[j].op # "index"
<1>1. Len(s) \in Nat
  OBVIOUS
<1>2. ASSUME NEW i \in 1 .. Len(s), s[i].op = "index", NEW j \in i + 1 .. Len(s)
      PROVE  s[j].op # "index"
  <2>1. j \in 1 .. Len(s) /\ j # i
    BY <1>1
  <2>. QED BY <1>2, <2>1
<1>. QED BY <1>2 DEF IndexNames

LEMMA SaveDosNamed ==
  ASSUME NEW index
  PROVE  /\ Len(SaveDos(index)) = 2
         /\ SaveDos(index)[1].op = "index" /\ SaveDos(index)[1].arg = index
         /\ SaveDos(index)[2].op = "save"
BY DEF SaveDos, Do

LEMMA EditNames == ASSUME Types, Naming, EditAsked PROVE Naming'
<1>1. PICK index \in Index :
        /\ UidsOf(index) = UidsOf(mem.index)
        /\ Asked("edit", NoUid, Missing, SaveDos(index), <<>>, <<>>)
  BY DEF EditAsked
<1> DEFINE s == SaveDos(index)
<1>2. /\ Len(s) = 2 /\ s[1].op = "index" /\ s[1].arg = index /\ s[2].op = "save"
  BY SaveDosNamed
<1>3. s \in Seq(Effects)
  BY <1>1 DEF Asked
<1>4. Asked("edit", NoUid, Missing, s, <<>>, <<>>)
  BY <1>1
<1> HIDE DEF s
<1>5. \A i \in 1 .. Len(s) : i = 1 \/ i = 2
  BY <1>2
<1>6. KeepsTexts(s) /\ KeepsTexts(<<>>)
  BY <1>2, <1>5 DEF KeepsTexts
<1>7. IndexNames(s, FALSE, mem.index, file)
  BY <1>1, <1>2, <1>3, <1>5, SameNamed
<1>8. JudgeNames(s, <<>>, mem.index)
  BY <1>2, <1>5 DEF JudgeNames, Has
<1>9. \A i \in 1 .. Len(<<>>) : <<>>[i].op = "set"
  OBVIOUS
<1>. QED BY <1>4, <1>6, <1>7, <1>8, <1>9, AskedNames

LEMMA BackupNames == ASSUME Types, Naming, BackupAsked PROVE Naming'
<1>1. PICK l \in Labels :
        Asked("backup", NoUid, l,
              <<Do("open_tar", NoUid, l), Do("close_tar", NoUid, l)>>, <<>>, <<>>)
  BY DEF BackupAsked
<1> DEFINE s == <<Do("open_tar", NoUid, l), Do("close_tar", NoUid, l)>>
<1>2. /\ Len(s) = 2 /\ s[1].op = "open_tar" /\ s[2].op = "close_tar"
  BY DEF Do
<1>3. Asked("backup", NoUid, l, s, <<>>, <<>>)
  BY <1>1
<1> HIDE DEF s
<1>4. \A i \in 1 .. Len(s) : s[i].op \in {"open_tar", "close_tar"}
  BY <1>2
<1>5. KeepsTexts(s) /\ KeepsTexts(<<>>)
  BY <1>4 DEF KeepsTexts
<1>6. IndexNames(s, FALSE, mem.index, file) /\ JudgeNames(s, <<>>, mem.index)
  BY <1>4 DEF IndexNames, JudgeNames, Has
<1>7. \A i \in 1 .. Len(<<>>) : <<>>[i].op = "set"
  OBVIOUS
<1>. QED BY <1>3, <1>5, <1>6, <1>7, AskedNames

LEMMA SettingsNames == ASSUME Types, Naming, SettingsAsked PROVE Naming'
<1>1. PICK set \in Settings :
     \/ Asked("settings", NoUid, Missing, <<Do("set", NoUid, set)>>, <<>>, <<>>)
     \/ Asked("settings", NoUid, Missing,
              <<Do("set", NoUid, set), Do("judge", NoUid, Missing),
                Do("save_set", NoUid, Missing)>>,
              <<Do("set", NoUid, mem.set)>>, <<Do("set", NoUid, mem.set)>>)
     \/ Asked("settings", NoUid, Missing,
              <<Do("set", NoUid, set), Do("save_set", NoUid, Missing)>>,
              <<>>, <<>>)
  BY DEF SettingsAsked
<1>2. PICK s, undo :
        /\ Asked("settings", NoUid, Missing, s, undo, undo)
        /\ \A i \in 1 .. Len(s) : s[i].op \in {"set", "judge", "save_set"}
        /\ \A i \in 1 .. Len(undo) : undo[i].op = "set"
  <2> DEFINE x == Do("set", NoUid, set)
             j == Do("judge", NoUid, Missing)
             v == Do("save_set", NoUid, Missing)
             o == Do("set", NoUid, mem.set)
  <2>1. x.op = "set" /\ j.op = "judge" /\ v.op = "save_set" /\ o.op = "set"
    BY DEF Do
  <2>2. \/ Asked("settings", NoUid, Missing, <<x>>, <<>>, <<>>)
        \/ Asked("settings", NoUid, Missing, <<x, j, v>>, <<o>>, <<o>>)
        \/ Asked("settings", NoUid, Missing, <<x, v>>, <<>>, <<>>)
    BY <1>1
  <2> HIDE DEF x, j, v, o
  <2>3. /\ \A i \in 1 .. Len(<<x>>) : <<x>>[i].op \in {"set", "judge", "save_set"}
        /\ \A i \in 1 .. Len(<<x, j, v>>) :
             <<x, j, v>>[i].op \in {"set", "judge", "save_set"}
        /\ \A i \in 1 .. Len(<<x, v>>) :
             <<x, v>>[i].op \in {"set", "judge", "save_set"}
        /\ \A i \in 1 .. Len(<<o>>) : <<o>>[i].op = "set"
        /\ \A i \in 1 .. Len(<<>>) : <<>>[i].op = "set"
    BY <2>1
  <2>4. CASE Asked("settings", NoUid, Missing, <<x>>, <<>>, <<>>)
    BY <2>3, <2>4
  <2>5. CASE Asked("settings", NoUid, Missing, <<x, j, v>>, <<o>>, <<o>>)
    BY <2>3, <2>5
  <2>6. CASE Asked("settings", NoUid, Missing, <<x, v>>, <<>>, <<>>)
    BY <2>3, <2>6
  <2>. QED BY <2>2, <2>4, <2>5, <2>6
<1>3. KeepsTexts(s) /\ KeepsTexts(undo)
  BY <1>2 DEF KeepsTexts
<1>4. IndexNames(s, FALSE, mem.index, file) /\ JudgeNames(s, undo, mem.index)
  BY <1>2 DEF IndexNames, JudgeNames, Has
<1>. QED BY <1>2, <1>3, <1>4, AskedNames

(* The rollbacks of a switch and of an overwrite.                          *)
Undoes(u, text, undo) ==
  \/ undo = <<>> \/ undo = SaveDos(mem.index)
  \/ undo = <<Do("write", u, text), Do("index", NoUid, mem.index),
              Do("save", NoUid, mem.index)>>

LEMMA UndoNames ==
  ASSUME NEW u, NEW text, NEW undo \in Seq(Effects), Undoes(u, text, undo)
  PROVE  /\ KeepsTexts(undo) /\ ~Has(undo, {"judge"})
         /\ \A i \in 1 .. Len(undo) : undo[i].op = "index" =>
              /\ UidsOf(undo[i].arg) \subseteq UidsOf(mem.index)
              /\ \A j \in i + 1 .. Len(undo) : undo[j].op # "index"
<1>1. /\ \A i \in 1 .. Len(undo) : undo[i].op \in {"write", "index", "save"}
      /\ \A i \in 1 .. Len(undo) : undo[i].op = "index" =>
           /\ undo[i].arg = mem.index
           /\ \A j \in 1 .. Len(undo) : undo[j].op = "index" => j = i
  <2>1. CASE undo = <<>>
    BY <2>1
  <2>2. CASE undo = SaveDos(mem.index)
    <3>1. /\ Len(undo) = 2 /\ undo[1].op = "index" /\ undo[1].arg = mem.index
          /\ undo[2].op = "save"
      BY <2>2, SaveDosNamed
    <3>2. \A i \in 1 .. Len(undo) : i = 1 \/ i = 2
      BY <3>1
    <3>. QED BY <3>1, <3>2
  <2>3. CASE undo = <<Do("write", u, text), Do("index", NoUid, mem.index),
                      Do("save", NoUid, mem.index)>>
    <3>1. /\ Len(undo) = 3 /\ undo[1].op = "write" /\ undo[2].op = "index"
          /\ undo[2].arg = mem.index /\ undo[3].op = "save"
      BY <2>3 DEF Do
    <3>2. \A i \in 1 .. Len(undo) : i = 1 \/ i = 2 \/ i = 3
      BY <3>1
    <3>. QED BY <3>1, <3>2
  <2>. QED BY <2>1, <2>2, <2>3 DEF Undoes
<1>2. KeepsTexts(undo) /\ ~Has(undo, {"judge"})
  BY <1>1 DEF KeepsTexts, Has
<1>. QED BY <1>1, <1>2, SameNamed

LEMMA SwitchNames == ASSUME Types, Naming, SwitchAsked PROVE Naming'
<1>1. PICK index \in Index, undo \in {<<>>, SaveDos(mem.index)} :
        /\ UidsOf(index) = UidsOf(mem.index)
        /\ Asked("switch", NoUid, Missing,
                 <<Do("index", NoUid, index), Do("save", NoUid, index),
                   Do("judge", NoUid, Missing)>>, undo, <<>>)
  BY DEF SwitchAsked
<1> DEFINE s == <<Do("index", NoUid, index), Do("save", NoUid, index),
                  Do("judge", NoUid, Missing)>>
<1>2. /\ Len(s) = 3 /\ s[1].op = "index" /\ s[1].arg = index
      /\ s[2].op = "save" /\ s[3].op = "judge"
  BY DEF Do
<1>3. Asked("switch", NoUid, Missing, s, undo, <<>>)
  BY <1>1
<1>4. s \in Seq(Effects) /\ undo \in Seq(Effects)
  BY <1>3 DEF Asked
<1> HIDE DEF s
<1>5. \A i \in 1 .. Len(s) : i = 1 \/ i = 2 \/ i = 3
  BY <1>2
<1>6. /\ KeepsTexts(undo) /\ ~Has(undo, {"judge"})
      /\ \A i \in 1 .. Len(undo) : undo[i].op = "index" =>
           /\ UidsOf(undo[i].arg) \subseteq UidsOf(mem.index)
           /\ \A j \in i + 1 .. Len(undo) : undo[j].op # "index"
  <2>1. Undoes(NoUid, Missing, undo)
    BY <1>1 DEF Undoes
  <2>. QED BY <1>4, <2>1, UndoNames
<1>7. KeepsTexts(s)
  BY <1>2, <1>5 DEF KeepsTexts
<1>8. /\ IndexNames(s, FALSE, mem.index, file)
      /\ \A i \in 1 .. Len(s) : s[i].op = "index" =>
           UidsOf(mem.index) \subseteq UidsOf(s[i].arg)
  BY <1>1, <1>2, <1>4, <1>5, SameNamed
<1>9. JudgeNames(s, undo, mem.index)
  BY <1>6, <1>8 DEF JudgeNames
<1>10. \A i \in 1 .. Len(<<>>) : <<>>[i].op = "set"
  OBVIOUS
<1>. QED BY <1>3, <1>6, <1>7, <1>8, <1>9, <1>10, AskedNames

LEMMA OverwriteNames == ASSUME Types, Naming, OverwriteAsked PROVE Naming'
<1>1. PICK kind \in {"import", "update", "restore"}, u \in Uids,
           text \in Stored \ {Missing}, s \in Seq(Effects), undo \in Seq(Effects) :
        /\ Overwrites(IF kind = "update" THEN 0 ELSE MAX_BACKUPS + 1, u, text, s)
        /\ \/ undo = SaveDos(mem.index)
           \/ undo = <<Do("write", u, file[u]), Do("index", NoUid, mem.index),
                       Do("save", NoUid, mem.index)>>
        /\ Asked(kind, u, text, s, undo, <<>>)
  BY DEF OverwriteAsked
<1> DEFINE n == IF kind = "update" THEN 0 ELSE MAX_BACKUPS + 1
<1>2. n \in {0, MAX_BACKUPS + 1} /\ n \in Nat /\ Overwrites(n, u, text, s)
  BY <1>1
<1> HIDE DEF n
<1>3. /\ \A i \in 1 .. Len(s) :
           /\ s[i].op \in {"drop", "shift", "keep", "write", "index", "save",
                           "judge"}
           /\ s[i].op = "index" => i = n + 2
  BY <1>2, OverwriteOps
<1>4. s[n + 2].arg = mem.index
  BY <1>2 DEF Overwrites, Do
<1>5. /\ KeepsTexts(undo) /\ ~Has(undo, {"judge"})
      /\ \A i \in 1 .. Len(undo) : undo[i].op = "index" =>
           /\ UidsOf(undo[i].arg) \subseteq UidsOf(mem.index)
           /\ \A j \in i + 1 .. Len(undo) : undo[j].op # "index"
  <2>1. Undoes(u, file[u], undo)
    BY <1>1 DEF Undoes
  <2>. QED BY <2>1, UndoNames
<1>6. KeepsTexts(s)
  BY <1>3 DEF KeepsTexts
<1>7. /\ IndexNames(s, FALSE, mem.index, file)
      /\ \A i \in 1 .. Len(s) : s[i].op = "index" =>
           UidsOf(mem.index) \subseteq UidsOf(s[i].arg)
  BY <1>3, <1>4, SameNamed
<1>8. JudgeNames(s, undo, mem.index)
  BY <1>5, <1>7 DEF JudgeNames
<1>9. \A i \in 1 .. Len(<<>>) : <<>>[i].op = "set"
  OBVIOUS
<1>. QED BY <1>1, <1>5, <1>6, <1>7, <1>8, <1>9, AskedNames

LEMMA OtherNames == ASSUME Types, Naming, RemoveAsked \/ RecoverAsked PROVE Naming'
<1>1. req'.kind \in {"remove", "recover"}
  <2>1. CASE RemoveAsked
    <3>1. PICK u, s : Asked("remove", u, Missing, s, <<>>, <<>>)
      BY <2>1 DEF RemoveAsked
    <3>. QED BY <3>1, AskedFacts
  <2>2. CASE RecoverAsked
    <3>1. PICK l, s : Asked("recover", NoUid, l, s, <<>>, <<>>)
      BY <2>2 DEF RecoverAsked
    <3>. QED BY <3>1, AskedFacts
  <2>. QED BY <2>1, <2>2
<1>. QED BY <1>1 DEF Naming, Lasting

(* A request only asks: no profile and no text changes with it.            *)
LEMMA RequestNames ==
  ASSUME Types, Naming, Request PROVE Naming' /\ Dangling' = Dangling
<1>1. CASE \E l \in Labels : BackupDelete(l)
  <2>1. UNCHANGED <<mem, disk, file, req, todo>>
    BY <1>1 DEF BackupDelete
  <2>. QED BY <2>1 DEF Naming, Dangling
<1>2. CASE \/ CreateAsked \/ OverwriteAsked \/ RemoveAsked \/ SwitchAsked
           \/ EditAsked \/ SettingsAsked \/ BackupAsked \/ RecoverAsked
  <2>1. UNCHANGED <<mem, disk, file>>
    <3>0. \A kind, u, new, s, undo, onerr :
            Asked(kind, u, new, s, undo, onerr) => UNCHANGED <<mem, disk, file>>
      BY DEF Asked
    <3>1. CASE CreateAsked
      BY <3>0, <3>1 DEF CreateAsked
    <3>2. CASE OverwriteAsked
      BY <3>0, <3>2 DEF OverwriteAsked
    <3>3. CASE RemoveAsked
      BY <3>0, <3>3 DEF RemoveAsked
    <3>4. CASE SwitchAsked
      BY <3>0, <3>4 DEF SwitchAsked
    <3>5. CASE EditAsked
      BY <3>0, <3>5 DEF EditAsked
    <3>6. CASE SettingsAsked
      BY <3>0, <3>6 DEF SettingsAsked
    <3>7. CASE BackupAsked
      BY <3>0, <3>7 DEF BackupAsked
    <3>8. CASE RecoverAsked
      BY <3>0, <3>8 DEF RecoverAsked
    <3>. QED BY <1>2, <3>1, <3>2, <3>3, <3>4, <3>5, <3>6, <3>7, <3>8
  <2>2. Naming'
    BY <1>2, CreateNames, OverwriteNames, OtherNames, SwitchNames, EditNames,
       SettingsNames, BackupNames
  <2>. QED BY <2>1, <2>2 DEF Dangling
<1>. QED BY <1>1, <1>2, RequestCases

LEMMA KilledNames ==
  ASSUME Types, Naming, Killed
  PROVE  Naming' /\ (req.kind \in Lasting => Dangling' \subseteq Dangling)
<1>1. Naming'
  BY NoEffectNames DEF Killed
<1>2. ASSUME req.kind \in Lasting PROVE Dangling' \subseteq Dangling
  <2>1. mem' = mem
    BY DEF Killed
  <2>2. CASE todo # <<>> /\ LeavesTorn
    BY <1>2, <2>1, <2>2, TornIsThere DEF Dangling
  <2>3. CASE UNCHANGED <<file, bak, disk>>
    BY <2>1, <2>3 DEF Dangling
  <2>. QED BY <2>2, <2>3 DEF Killed
<1>. QED BY <1>1, <1>2

(* A new instance names what the file names.                               *)
LEMMA RestartsNames ==
  ASSUME Types, Naming, Restarts PROVE Naming' /\ Dangling' \subseteq Dangling
<1>1. todo' = <<>> /\ req' = Idle /\ disk' = disk /\ file' = file
  BY DEF Restarts, Types
<1>2. UidsOf(mem'.index) \subseteq SavedUids(disk.index)
  <2>1. mem'.index = OpenIndex(disk.index) /\ disk.index # Torn
    BY DEF Restarts
  <2>2. CASE disk.index = Missing
    BY <2>1, <2>2 DEF OpenIndex, NoIndex, UidsOf
  <2>3. CASE disk.index # Missing
    BY <2>1, <2>3 DEF OpenIndex, SavedUids
  <2>. QED BY <2>2, <2>3
<1>3. Dangling' \subseteq Dangling
  BY <1>1, <1>2 DEF Dangling
<1>. QED BY <1>1, <1>3, NoEffectNames

LEMMA InitNames == ASSUME Init PROVE Naming
<1>1. todo = <<>> /\ req = Idle
  BY DEF Init
<1>2. KeepsTexts(<<>>)
  BY DEF KeepsTexts
<1>3. \A m, f : IndexNames(<<>>, FALSE, m, f)
  BY DEF IndexNames
<1>4. \A m : JudgeNames(<<>>, <<>>, m)
  BY DEF JudgeNames, Has
<1>5. req.undo = <<>> /\ req.onerr = <<>> /\ req.failed = FALSE
  BY <1>1 DEF Idle
<1>6. \A i \in 1 .. Len(req.onerr) : req.onerr[i].op = "set"
  BY <1>5
<1>7. /\ KeepsTexts(todo) /\ KeepsTexts(req.undo)
      /\ IndexNames(todo, req.failed, mem.index, file)
      /\ JudgeNames(todo, req.undo, mem.index)
  BY <1>1, <1>2, <1>3, <1>4, <1>5
<1>. QED BY <1>6, <1>7 DEF Naming

LEMMA NextNames ==
  ASSUME Types, Naming, [Next]_vars
  PROVE  Naming' /\ (req.kind \in Lasting => Dangling' \subseteq Dangling)
<1>1. CASE JudgeAccepts \/ JudgeRefuses
  <2>1. UNCHANGED <<mem, disk, file>>
    BY <1>1 DEF JudgeAccepts, JudgeRefuses
  <2>. QED BY <1>1, <2>1, JudgeNamesHold DEF Dangling
<1>2. CASE UNCHANGED vars
  BY <1>2 DEF vars, Naming, Dangling
<1>. QED BY <1>1, <1>2, RequestNames, PerformNames, FailNames, KilledNames,
            RestartsNames DEF Next

(* A profile that the index in memory or on disk names comes to be without *)
(* a text only by a remove or a recovery: no import, switch, edit or       *)
(* rollback, no failed write and no kill brings it about.                  *)
THEOREM NamedTextsExistAlways == Spec => NamedTextsExist
<1>1. Init => Naming
  BY InitNames
<1>2. Types /\ Naming /\ [Next]_vars => Naming'
  BY NextNames
<1>3. Types /\ Naming /\ [Next]_vars =>
        [Dangling' \subseteq Dangling \/ req.kind \in {"remove", "recover"}]_vars
  <2>1. ASSUME Types PROVE req.kind \in Lasting \/ req.kind \in {"remove", "recover"}
    BY <2>1 DEF Types, Requests, Kinds, Lasting
  <2>. QED BY <2>1, NextNames
<1>. QED BY <1>1, <1>2, <1>3, TypeInvariant, PTL DEF Spec, NamedTextsExist

-----------------------------------------------------------------------------
(* What has been copied of an archive                                      *)

LEMMA RecoverRecovers == ASSUME Types, RecoverAsked PROVE Recovery'
<1>1. PICK l \in Labels, s \in Seq(Effects) :
        /\ Accepted(arch[l]) /\ Restores(arch[l], s)
        /\ Asked("recover", NoUid, l, s, <<>>, <<>>)
  BY DEF RecoverAsked
<1> DEFINE a == arch[l]
<1>2. /\ todo' = s /\ req'.new = l /\ req'.onerr = <<>> /\ req'.failed = FALSE
  BY <1>1, AskedFacts
<1>3. UNCHANGED <<mem, disk, file, bak, arch, up, faults>>
  BY <1>1 DEF Asked
<1>4. a \in Archives
  BY <1>1 DEF Accepted, Types, TypeOK
<1>5. Restores(a, s) /\ Len(s) \in Nat
  BY <1>1
<1> HIDE DEF a
<1>6. Recovering(s, a)
  <2>1. ASSUME NEW i \in 1 .. Len(s)
        PROVE  /\ s[i].op \in {"unpack", "copy_index", "copy_set", "write",
                               "reload_index", "reload_set"}
               /\ s[i].op = "copy_index" => s[i].arg = a.index
               /\ s[i].op = "copy_set" => s[i].arg = a.set
               /\ s[i].op = "write" => s[i].arg = a.file[s[i].uid]
               /\ s[i].op = "reload_set" => i = Len(s)
               /\ s[i].op = "reload_index" => i = Len(s) - 1
    <3>1. i \in 1 .. Len(s) - 2 \/ i = Len(s) - 1 \/ i = Len(s)
      BY <1>5
    <3>. QED BY <1>5, <3>1 DEF Restores
  <2>. QED BY <1>5, <2>1 DEF Restores, Recovering
<1>7. Recovered(s, a, mem, disk, file)
  <2>1. Len(s) # 1
    BY <1>5 DEF Restores
  <2>. QED BY <1>5, <2>1 DEF Restores, Recovered, Has
<1>. QED BY <1>1, <1>2, <1>3, <1>4, <1>6, <1>7 DEF Recovery, a

(* One effect of a recovery.                                               *)
LEMMA PerformRecovers ==
  ASSUME Types, Recovery, Perform, req.kind = "recover"
  PROVE  /\ Tail(todo) # <<>> => Recovery'
         /\ Tail(todo) = <<>> =>
              LET a == arch[req.new]
              IN /\ \A u \in Uids : a.file[u] # Missing => file'[u] = a.file[u]
                 /\ a.index \notin {Missing, Torn} =>
                      mem'.index = a.index /\ disk'.index = a.index
                 /\ a.set \notin {Missing, Torn} =>
                      mem'.set = OpenSettings(a.set) /\ disk'.set = a.set
<1> DEFINE t == Tail(todo)
           a == arch[req.new]
<1>1. /\ todo # <<>> /\ todo' = t
      /\ t # <<>> => req' = req
  BY PerformEffects
<1>2. /\ Len(t) = Len(todo) - 1 /\ t \in Seq(Effects)
      /\ \A i \in 1 .. Len(todo) - 1 : t[i] = todo[i + 1]
      /\ Len(todo) \in Nat /\ Len(todo) >= 1 /\ E = todo[1]
      /\ E \in Effects /\ Legal(E)
  BY <1>1, NextEffect
<1>3. /\ req.new \in Labels /\ a \in Archives
      /\ req.onerr = <<>> /\ ~req.failed
      /\ Recovering(todo, a) /\ Recovered(todo, a, mem, disk, file)
  BY DEF Recovery
<1>4. /\ E.op \in {"unpack", "copy_index", "copy_set", "write",
                   "reload_index", "reload_set"}
      /\ E.op = "copy_index" => E.arg = a.index
      /\ E.op = "copy_set" => E.arg = a.set
      /\ E.op = "write" => E.arg = a.file[E.uid] /\ E.uid \in Uids
      /\ E.op = "reload_set" => Len(todo) = 1
      /\ E.op = "reload_index" => Len(todo) = 2
  <2>1. 1 \in 1 .. Len(todo)
    BY <1>2
  <2>2. /\ E.op \in {"unpack", "copy_index", "copy_set", "write",
                     "reload_index", "reload_set"}
        /\ E.op = "copy_index" => E.arg = a.index
        /\ E.op = "copy_set" => E.arg = a.set
        /\ E.op = "write" => E.arg = a.file[E.uid]
        /\ E.op = "reload_set" => 1 = Len(todo)
        /\ E.op = "reload_index" => 1 = Len(todo) - 1
    BY <1>2, <1>3, <2>1 DEF Recovering
  <2>3. E.op = "write" => E.uid \in Uids
    BY <1>2 DEF Legal
  <2>. QED BY <1>2, <2>2, <2>3
<1>5. arch' = arch
  BY <1>4, PerformEffects
<1>6. /\ disk'.index = IF E.op = "copy_index" THEN a.index ELSE disk.index
      /\ disk'.set = IF E.op = "copy_set" THEN a.set ELSE disk.set
      /\ E.op = "write" => file' = [file EXCEPT ![E.uid] = a.file[E.uid]]
      /\ E.op # "write" => file' = file
      /\ mem'.index = IF E.op = "reload_index" /\ disk.index # Torn
                      THEN OpenIndex(disk.index) ELSE mem.index
      /\ mem'.set = IF E.op = "reload_set" /\ disk.set # Torn
                    THEN OpenSettings(disk.set) ELSE mem.set
      /\ file \in [Uids -> Stored]
  BY <1>4, PerformEffects DEF Types, TypeOK
<1>a. Len(t) \in Nat /\ Len(todo) = Len(t) + 1
  BY <1>2
<1> HIDE DEF t, a
<1>7. \A i \in 1 .. Len(t) : i + 1 \in 1 .. Len(todo) /\ t[i] = todo[i + 1]
  BY <1>2
<1>8. /\ a.index # Missing => disk'.index = a.index \/ Has(t, {"copy_index"})
      /\ a.set # Missing => disk'.set = a.set \/ Has(t, {"copy_set"})
  <2>1. /\ Has(todo, {"copy_index"}) => E.op = "copy_index" \/ Has(t, {"copy_index"})
        /\ Has(todo, {"copy_set"}) => E.op = "copy_set" \/ Has(t, {"copy_set"})
    BY <1>1, RestFollows DEF t
  <2>. QED BY <1>3, <1>6, <2>1 DEF Recovered
<1>9. \A u \in Uids : a.file[u] # Missing =>
        \/ file'[u] = a.file[u]
        \/ \E i \in 1 .. Len(t) : Is(t[i], "write", u, a.file[u])
  <2> SUFFICES ASSUME NEW u \in Uids, a.file[u] # Missing
      PROVE  \/ file'[u] = a.file[u]
             \/ \E i \in 1 .. Len(t) : Is(t[i], "write", u, a.file[u])
    OBVIOUS
  <2>1. CASE file[u] = a.file[u]
    BY <1>6, <2>1
  <2>2. ASSUME NEW i \in 1 .. Len(todo), Is(todo[i], "write", u, a.file[u])
        PROVE  \/ file'[u] = a.file[u]
               \/ Is(t[i - 1], "write", u, a.file[u]) /\ i - 1 \in 1 .. Len(t)
    <3>1. CASE i = 1
      BY <1>2, <1>6, <2>2, <3>1 DEF Is
    <3>2. CASE i # 1
      <4>1. i - 1 \in 1 .. Len(t) /\ t[i - 1] = todo[i]
        BY <1>2, <3>2
      <4>. QED BY <2>2, <4>1
    <3>. QED BY <3>1, <3>2
  <2>. QED BY <1>3, <2>1, <2>2 DEF Recovered
<1>10. ASSUME Len(todo) = 2, a.index \notin {Missing, Torn}
       PROVE  mem'.index = a.index
  <2>1. E.op = "reload_index" /\ \A i \in 1 .. Len(todo) : i = 1 \/ i = 2
    BY <1>2, <1>3, <1>10 DEF Recovering
  <2>2. ~Has(todo, {"copy_index"})
    <3>1. todo[2].op = "reload_set"
      BY <1>3, <1>10 DEF Recovering
    <3>. QED BY <1>2, <2>1, <3>1 DEF Has
  <2>3. disk.index = a.index
    BY <1>3, <1>10, <2>2 DEF Recovered
  <2>. QED BY <1>6, <1>10, <2>1, <2>3 DEF OpenIndex
<1>11. ASSUME t # <<>> PROVE Recovery'
  <2>1. Len(t) >= 1 /\ Len(todo) >= 2 /\ Len(t) \in Nat
    BY <1>2, <1>11
  <2>2. Recovering(t, a)
    <3>1. ASSUME NEW i \in 1 .. Len(t)
          PROVE  /\ t[i].op \in {"unpack", "copy_index", "copy_set", "write",
                                 "reload_index", "reload_set"}
                 /\ t[i].op = "copy_index" => t[i].arg = a.index
                 /\ t[i].op = "copy_set" => t[i].arg = a.set
                 /\ t[i].op = "write" => t[i].arg = a.file[t[i].uid]
                 /\ t[i].op = "reload_set" => i + 1 = Len(todo)
                 /\ t[i].op = "reload_index" => i + 1 = Len(todo) - 1
      BY <1>3, <1>7 DEF Recovering
    <3>2. t[Len(t)] = todo[Len(todo)] /\ t[Len(t)].op = "reload_set"
      BY <1>2, <1>3, <2>1 DEF Recovering
    <3>3. Len(t) > 1 => t[Len(t) - 1] = todo[Len(todo) - 1]
      BY <1>2, <2>1
    <3>4. Len(t) > 1 => t[Len(t) - 1].op = "reload_index"
      BY <1>2, <1>3, <2>1, <3>3 DEF Recovering
    <3>5. \A i \in 1 .. Len(t) :
            /\ t[i].op = "reload_set" => i = Len(t)
            /\ t[i].op = "reload_index" => i = Len(t) - 1
      BY <1>a, <3>1
    <3>. QED BY <3>1, <3>2, <3>4, <3>5 DEF Recovering
  <2>3. Recovered(t, a, mem', disk', file')
    <3>1. Len(t) = 1 => Len(todo) = 2
      BY <1>a
    <3>. QED BY <1>8, <1>9, <1>10, <3>1 DEF Recovered
  <2>. QED BY <1>1, <1>3, <1>5, <1>11, <2>2, <2>3 DEF Recovery, a
<1>12. ASSUME t = <<>>
       PROVE  /\ \A u \in Uids : a.file[u] # Missing => file'[u] = a.file[u]
              /\ a.index \notin {Missing, Torn} =>
                   mem'.index = a.index /\ disk'.index = a.index
              /\ a.set \notin {Missing, Torn} =>
                   mem'.set = OpenSettings(a.set) /\ disk'.set = a.set
  <2>1. Len(todo) = 1 /\ Len(t) = 0
    BY <1>2, <1>12
  <2>2. E.op = "reload_set"
    BY <1>2, <1>3, <2>1 DEF Recovering
  <2>3. ~Has(t, {"copy_index"}) /\ ~Has(t, {"copy_set"})
        /\ ~\E i \in 1 .. Len(t) : TRUE
    BY <2>1 DEF Has
  <2>4. \A u \in Uids : a.file[u] # Missing => file'[u] = a.file[u]
    BY <1>9, <2>3
  <2>5. a.index \notin {Missing, Torn} =>
          mem'.index = a.index /\ disk'.index = a.index
    <3>1. a.index \notin {Missing, Torn} => mem.index = a.index
      BY <1>3, <2>1 DEF Recovered
    <3>. QED BY <1>6, <1>8, <2>2, <2>3, <3>1
  <2>6. a.set \notin {Missing, Torn} =>
          mem'.set = OpenSettings(a.set) /\ disk'.set = a.set
    BY <1>6, <1>8, <2>2, <2>3
  <2>. QED BY <2>4, <2>5, <2>6
<1>. QED BY <1>11, <1>12 DEF t, a

LEMMA IdleRecovers == ASSUME req' = Idle PROVE Recovery'
BY DEF Recovery, Idle

LEMMA AskedKinds ==
  ASSUME Types,
         \/ CreateAsked \/ OverwriteAsked \/ RemoveAsked \/ SwitchAsked
         \/ EditAsked \/ SettingsAsked \/ BackupAsked
  PROVE  /\ req = Idle /\ req'.kind # "recover"
         /\ ~OverwriteAsked => req'.kind \notin Rotating
<1>1. CASE CreateAsked
  BY <1>1, AskedFacts DEF CreateAsked, Rotating
<1>2. CASE OverwriteAsked
  BY <1>2, AskedFacts DEF OverwriteAsked
<1>3. CASE RemoveAsked
  <2>1. PICK u, s : Asked("remove", u, Missing, s, <<>>, <<>>)
    BY <1>3 DEF RemoveAsked
  <2>. QED BY <1>3, <2>1, AskedFacts DEF Rotating
<1>4. CASE SwitchAsked
  <2>1. PICK s, undo : Asked("switch", NoUid, Missing, s, undo, <<>>)
    BY <1>4 DEF SwitchAsked
  <2>. QED BY <1>4, <2>1, AskedFacts DEF Rotating
<1>5. CASE EditAsked
  BY <1>5, AskedFacts DEF EditAsked, Rotating
<1>6. CASE SettingsAsked
  <2>1. PICK s, undo, onerr :
               Asked("settings", NoUid, Missing, s, undo, onerr)
    BY <1>6 DEF SettingsAsked
  <2>. QED BY <1>6, <2>1, AskedFacts DEF Rotating
<1>7. CASE BackupAsked
  BY <1>7, AskedFacts DEF BackupAsked, Rotating
<1>. QED BY <1>1, <1>2, <1>3, <1>4, <1>5, <1>6, <1>7

(* A refusal or a failure that finds nothing to roll back ends the request. *)
LEMMA RefuseEnds ==
  ASSUME Types, todo # <<>>, NEW rest \in Seq(Effects), Refuse(rest)
  PROVE  /\ req' = Idle \/ (req'.kind = req.kind /\ rest # <<>>)
         /\ rest = <<>> <=> req' = Idle
<1>1. /\ req' # Idle => req'.kind = req.kind
      /\ todo' = <<>> <=> req' = Idle
      /\ todo' = rest
  BY RefuseTypes DEF Refuse
<1>. QED BY <1>1

LEMMA NextRecovers == ASSUME Types, Recovery, [Next]_vars PROVE Recovery'
<1>1. CASE Request
  <2>1. CASE \E l \in Labels : BackupDelete(l)
    <3>1. req' = Idle
      BY <2>1 DEF BackupDelete
    <3>. QED BY <3>1, IdleRecovers
  <2>2. CASE \/ CreateAsked \/ OverwriteAsked \/ RemoveAsked \/ SwitchAsked
             \/ EditAsked \/ SettingsAsked \/ BackupAsked
    BY <2>2, AskedKinds DEF Recovery
  <2>. QED BY <1>1, <2>1, <2>2, RequestCases, RecoverRecovers
<1>2. CASE Perform
  <2>1. \/ Tail(todo) = <<>> /\ req' = Idle
        \/ Tail(todo) # <<>> /\ req' = req
    BY <1>2, PerformEffects
  <2>2. CASE req.kind = "recover"
    BY <1>2, <2>1, <2>2, PerformRecovers, IdleRecovers
  <2>3. CASE req.kind # "recover"
    BY <2>1, <2>3, IdleRecovers DEF Recovery
  <2>. QED BY <2>2, <2>3
<1>3. CASE JudgeAccepts \/ JudgeRefuses
  <2>1. todo # <<>> /\ E.op = "judge"
    BY <1>3 DEF JudgeAccepts, JudgeRefuses, Step, E
  <2>2. req.kind # "recover"
    <3>1. E = todo[1] /\ 1 \in 1 .. Len(todo)
      BY <2>1, NextEffect
    <3>. QED BY <2>1, <3>1 DEF Recovery, Recovering
  <2>3. req.undo \in Seq(Effects)
    BY DEF Types, Requests
  <2>4. req' = Idle \/ req'.kind = req.kind
    BY <1>3, <2>1, <2>3, RefuseEnds DEF JudgeAccepts, JudgeRefuses, GoOn
  <2>. QED BY <2>2, <2>4, IdleRecovers DEF Recovery
<1>4. CASE Fail
  <2>1. todo # <<>>
    BY <1>4 DEF Fail
  <2>2. CASE req.kind = "recover"
    <3>1. E.op \notin Ignored /\ ~req.failed /\ req.onerr = <<>>
      <4>1. E = todo[1] /\ 1 \in 1 .. Len(todo)
        BY <2>1, NextEffect
      <4>. QED BY <2>2, <4>1 DEF Recovery, Recovering, Ignored
    <3>2. req' = Idle
      BY <1>4, <3>1 DEF Fail, Refuse
    <3>. QED BY <3>2, IdleRecovers
  <2>3. CASE req.kind # "recover"
    <3>1. req.onerr \in Seq(Effects)
      BY DEF Types, Requests
    <3>2. req' = Idle \/ req'.kind = req.kind
      BY <1>4, <2>1, <3>1, RefuseEnds DEF Fail, GoOn
    <3>. QED BY <2>3, <3>2, IdleRecovers DEF Recovery
  <2>. QED BY <2>2, <2>3
<1>5. CASE Killed
  BY <1>5, IdleRecovers DEF Killed
<1>6. CASE Restarts
  <2>1. req' = Idle
    BY <1>6 DEF Restarts, Types
  <2>. QED BY <2>1, IdleRecovers
<1>7. CASE UNCHANGED vars
  BY <1>7 DEF vars, Recovery
<1>. QED BY <1>1, <1>2, <1>3, <1>4, <1>5, <1>6, <1>7 DEF Next

(* Only an effect or a verdict ends a request well.                        *)
LEMMA EndsWell ==
  ASSUME Types, [Next]_vars, NEW kinds, Ends(kinds), "none" \notin kinds
  PROVE  /\ todo # <<>>
         /\ Perform \/ JudgeAccepts \/ JudgeRefuses
<1>1. req # Idle /\ req' = Idle /\ up' /\ faults' = faults /\ todo # <<>> /\ up
  BY DEF Ends, Idle, Types
<1>2. ~Request
  <2>1. CASE \E l \in Labels : BackupDelete(l)
    BY <1>1, <2>1 DEF BackupDelete
  <2>2. CASE RecoverAsked
    <3>1. PICK l, s : Asked("recover", NoUid, l, s, <<>>, <<>>)
      BY <2>2 DEF RecoverAsked
    <3>. QED BY <1>1, <3>1, AskedFacts
  <2>. QED BY <1>1, <2>1, <2>2, AskedKinds, RequestCases
<1>3. ~Fail
  <2>1. faults \in Nat
    BY DEF Types, TypeOK
  <2>. QED BY <1>1, <2>1 DEF Fail
<1>4. ~Killed /\ ~Restarts /\ ~UNCHANGED vars
  BY <1>1 DEF Killed, Restarts, vars
<1>. QED BY <1>1, <1>2, <1>3, <1>4 DEF Next

(* A recovery that ends well brings back every text that was packed, and   *)
(* the index and the settings, on disk and in memory, if they were not     *)
(* torn when they were packed.                                             *)
THEOREM RecoveryCompleteAlways == Spec => RecoveryComplete
<1> DEFINE Complete ==
      Ends({"recover"}) =>
        LET a == arch[req.new]
        IN /\ \A u \in Uids : a.file[u] # Missing => file'[u] = a.file[u]
           /\ a.index \notin {Missing, Torn} =>
                mem'.index = a.index /\ disk'.index = a.index
           /\ a.set \notin {Missing, Torn} =>
                mem'.set = OpenSettings(a.set) /\ disk'.set = a.set
<1>1. Init => Recovery
  <2>1. Init => req.kind = "none"
    BY DEF Init, Idle
  <2>. QED BY <2>1 DEF Recovery
<1>2. Types /\ Recovery /\ [Next]_vars => Recovery'
  BY NextRecovers
<1>3. ASSUME Types, Recovery, [Next]_vars, Ends({"recover"}) PROVE Complete
  <2>1. todo # <<>> /\ (Perform \/ JudgeAccepts \/ JudgeRefuses)
    BY <1>3, EndsWell
  <2>2. req.kind = "recover" /\ req' = Idle /\ req # Idle
    BY <1>3 DEF Ends, Idle
  <2>3. E = todo[1] /\ 1 \in 1 .. Len(todo)
    BY <1>3, <2>1, NextEffect
  <2>4. E.op # "judge"
    BY <1>3, <2>2, <2>3 DEF Recovery, Recovering
  <2>5. Perform
    BY <2>1, <2>4 DEF JudgeAccepts, JudgeRefuses, Step, E
  <2>6. Tail(todo) = <<>>
    BY <1>3, <2>2, <2>5, PerformEffects
  <2>. QED BY <1>3, <2>2, <2>5, <2>6, PerformRecovers
<1>4. Types /\ Recovery /\ [Next]_vars => [Complete]_vars
  BY <1>3
<1>. QED BY <1>1, <1>2, <1>4, TypeInvariant, PTL DEF Spec, RecoveryComplete

-----------------------------------------------------------------------------
(* A text and its history                                                  *)

LEMMA ClosingRest ==
  ASSUME NEW s \in Seq(Effects), NEW t, Len(t) = Len(s) - 1,
         \A i \in 1 .. Len(s) - 1 : t[i] = s[i + 1],
         NEW k \in Nat, k >= 2, NEW r, Closing(s, k, r)
  PROVE  Closing(t, k - 1, r) /\ Len(t) >= k + 1
<1>1. Len(s) \in Nat /\ Len(s) >= k + 2
  BY DEF Closing
<1>2. /\ t[k - 1] = s[k] /\ t[(k - 1) + 1] = s[k + 1] /\ t[(k - 1) + 2] = s[k + 2]
      /\ Len(s) = k + 3 => t[(k - 1) + 3] = s[k + 3]
  <2>1. t[k - 1] = s[k]
    <3>1. k - 1 \in 1 .. Len(s) - 1 /\ (k - 1) + 1 = k
      BY <1>1
    <3>. QED BY <3>1
  <2>2. t[(k - 1) + 1] = s[k + 1]
    <3>1. (k - 1) + 1 \in 1 .. Len(s) - 1 /\ ((k - 1) + 1) + 1 = k + 1
      BY <1>1
    <3>. QED BY <3>1
  <2>3. t[(k - 1) + 2] = s[k + 2]
    <3>1. (k - 1) + 2 \in 1 .. Len(s) - 1 /\ ((k - 1) + 2) + 1 = k + 2
      BY <1>1
    <3>. QED BY <3>1
  <2>4. Len(s) = k + 3 => t[(k - 1) + 3] = s[k + 3]
    <3>1. Len(s) = k + 3 =>
            (k - 1) + 3 \in 1 .. Len(s) - 1 /\ ((k - 1) + 3) + 1 = k + 3
      BY <1>1
    <3>. QED BY <3>1
  <2>. QED BY <2>1, <2>2, <2>3, <2>4
<1>3. /\ Len(s) = k + 2 => Len(t) = (k - 1) + 2
      /\ Len(s) = k + 3 => Len(t) = (k - 1) + 3
      /\ Len(t) >= k + 1
  BY <1>1
<1>. QED BY <1>2, <1>3 DEF Closing

LEMMA ClosingInPlace ==
  ASSUME NEW s \in Seq(Effects), NEW r, Closing(s, 1, r)
  PROVE  /\ InPlace(s) /\ s[1].op = "write"
         /\ \A i \in 1 .. Len(s) : s[i].op = "write" => Is(s[i], "write", r.uid, r.new)
<1>1. /\ Is(s[1], "write", r.uid, r.new)
      /\ s[2].op = "index" /\ s[3].op = "save"
      /\ Len(s) = 3 \/ (Len(s) = 4 /\ s[4].op = "judge")
  BY DEF Closing
<1>2. CASE Len(s) = 3
  <2>1. \A i \in 1 .. Len(s) : i = 1 \/ i = 2 \/ i = 3
    BY <1>2
  <2>. QED BY <1>1, <2>1 DEF InPlace, Is
<1>3. CASE Len(s) = 4 /\ s[4].op = "judge"
  <2>1. \A i \in 1 .. Len(s) : i = 1 \/ i = 2 \/ i = 3 \/ i = 4
    BY <1>3
  <2>. QED BY <1>1, <1>3, <2>1 DEF InPlace, Is
<1>. QED BY <1>1, <1>2, <1>3

(* What a rotation does to the history, shift by shift.                    *)
LEMMA DropShifts ==
  ASSUME NEW hist \in [1 .. MAX_BACKUPS -> Stored]
  PROVE  [hist EXCEPT ![MAX_BACKUPS] = Missing] = Shifted(hist, MAX_BACKUPS - 1)
<1> DEFINE f == [hist EXCEPT ![MAX_BACKUPS] = Missing]
           g == Shifted(hist, MAX_BACKUPS - 1)
<1>1. f = [n \in 1 .. MAX_BACKUPS |-> f[n]] /\ g = [n \in 1 .. MAX_BACKUPS |-> g[n]]
  BY DEF Shifted
<1>2. \A n \in 1 .. MAX_BACKUPS : f[n] = g[n]
  BY DEF Shifted
<1> HIDE DEF f, g
<1>3. f = g
  BY <1>1, <1>2
<1>. QED BY <1>3 DEF f, g

LEMMA ShiftShifts ==
  ASSUME NEW hist \in [1 .. MAX_BACKUPS -> Stored], NEW j \in 1 .. MAX_BACKUPS - 1
  PROVE  /\ hist[j] = Missing => Shifted(hist, j) = Shifted(hist, j - 1)
         /\ [Shifted(hist, j) EXCEPT ![j] = Missing, ![j + 1] = hist[j]]
              = Shifted(hist, j - 1)
         /\ Shifted(hist, j)[j] = hist[j]
<1> DEFINE f == Shifted(hist, j)
           g == Shifted(hist, j - 1)
           h == [f EXCEPT ![j] = Missing, ![j + 1] = hist[j]]
<1>1. /\ f = [n \in 1 .. MAX_BACKUPS |-> f[n]] /\ g = [n \in 1 .. MAX_BACKUPS |-> g[n]]
      /\ h = [n \in 1 .. MAX_BACKUPS |-> h[n]]
  BY DEF Shifted
<1>2. ASSUME NEW n \in 1 .. MAX_BACKUPS
      PROVE  /\ f[n] = IF n > j + 1 THEN hist[n - 1]
                       ELSE IF n = j + 1 THEN Missing ELSE hist[n]
             /\ g[n] = IF n > j THEN hist[n - 1]
                       ELSE IF n = j THEN Missing ELSE hist[n]
             /\ h[n] = IF n = j + 1 THEN hist[j]
                       ELSE IF n = j THEN Missing ELSE f[n]
  <2>1. (j - 1) + 1 = j /\ j # j + 1
    OBVIOUS
  <2>2. h[n] = IF n = j + 1 THEN hist[j] ELSE IF n = j THEN Missing ELSE f[n]
    <3>1. f = [k \in 1 .. MAX_BACKUPS |-> f[k]]
      BY <1>1
    <3> HIDE DEF f
    <3>. QED BY <2>1, <3>1
  <2>. QED BY <2>1, <2>2 DEF Shifted
<1> HIDE DEF f, g, h
<1>3. ASSUME NEW n \in 1 .. MAX_BACKUPS PROVE h[n] = g[n]
  <2>1. CASE n = j + 1
    <3>1. n - 1 = j /\ n > j
      BY <2>1
    <3>. QED BY <1>2, <2>1, <3>1
  <2>2. CASE n > j + 1
    <3>1. n # j + 1 /\ n # j /\ n > j
      BY <2>2
    <3>. QED BY <1>2, <2>2, <3>1
  <2>3. CASE ~(n > j)
    <3>1. n # j + 1 /\ ~(n > j + 1)
      BY <2>3
    <3>. QED BY <1>2, <2>3, <3>1
  <2>4. n = j + 1 \/ n > j + 1 \/ ~(n > j)
    OBVIOUS
  <2>. QED BY <2>1, <2>2, <2>3, <2>4
<1>4. ASSUME hist[j] = Missing, NEW n \in 1 .. MAX_BACKUPS PROVE f[n] = g[n]
  <2>1. CASE n = j + 1
    <3>1. n - 1 = j /\ n > j /\ ~(n > j + 1)
      BY <2>1
    <3>. QED BY <1>2, <1>4, <2>1, <3>1
  <2>2. CASE n > j + 1
    <3>1. n > j
      BY <2>2
    <3>. QED BY <1>2, <2>2, <3>1
  <2>3. CASE ~(n > j)
    <3>1. n # j + 1 /\ ~(n > j + 1)
      BY <2>3
    <3>. QED BY <1>2, <1>4, <2>3, <3>1
  <2>4. n = j + 1 \/ n > j + 1 \/ ~(n > j)
    OBVIOUS
  <2>. QED BY <2>1, <2>2, <2>3, <2>4
<1>5. f[j] = hist[j]
  <2>1. j \in 1 .. MAX_BACKUPS /\ ~(j > j + 1) /\ j # j + 1
    OBVIOUS
  <2>. QED BY <1>2, <2>1
<1>6. h = g /\ (hist[j] = Missing => f = g)
  BY <1>1, <1>3, <1>4
<1>. QED BY <1>5, <1>6 DEF f, g, h

LEMMA KeepShifts ==
  ASSUME NEW hist \in [1 .. MAX_BACKUPS -> Stored], NEW old
  PROVE  /\ [Shifted(hist, 0) EXCEPT ![1] = old] = Final(old, hist)
         /\ old = Missing => Shifted(hist, 0) = Final(old, hist)
<1> DEFINE f == Shifted(hist, 0)
           g == Final(old, hist)
           h == [f EXCEPT ![1] = old]
<1>1. /\ f = [n \in 1 .. MAX_BACKUPS |-> f[n]] /\ g = [n \in 1 .. MAX_BACKUPS |-> g[n]]
      /\ h = [n \in 1 .. MAX_BACKUPS |-> h[n]]
  BY DEF Shifted, Final
<1>2. ASSUME NEW n \in 1 .. MAX_BACKUPS
      PROVE  /\ f[n] = IF n = 1 THEN Missing ELSE hist[n - 1]
             /\ g[n] = IF n = 1 THEN old ELSE hist[n - 1]
             /\ h[n] = IF n = 1 THEN old ELSE f[n]
  BY DEF Shifted, Final
<1> HIDE DEF f, g, h
<1>3. h = g /\ (old = Missing => f = g)
  BY <1>1, <1>2
<1>. QED BY <1>3 DEF f, g, h

LEMMA FinalIsShifted ==
  ASSUME NEW hist \in [1 .. MAX_BACKUPS -> Stored], NEW old \in Stored
  PROVE  Final(old, hist) = <<old>> \o SubSeq(hist, 1, MAX_BACKUPS - 1)
<1> DEFINE m == MAX_BACKUPS - 1
           h == SubSeq(hist, 1, m)
           f == <<old>> \o h
<1>1. hist \in Seq(Stored) /\ Len(hist) = MAX_BACKUPS
  BY SeqDef
<1>2. h \in Seq(Stored) /\ Len(h) = m /\ \A i \in 1 .. m : h[i] = hist[i]
  <2>1. 1 \in 1 .. Len(hist) + 1 /\ m \in 0 .. Len(hist)
    BY <1>1
  <2>2. /\ SubSeq(hist, 1, m) \in Seq(Stored)
        /\ Len(SubSeq(hist, 1, m)) = (IF 1 <= m THEN m - 1 + 1 ELSE 0)
        /\ \A i \in 1 .. m - 1 + 1 : SubSeq(hist, 1, m)[i] = hist[1 + i - 1]
    BY <1>1, <2>1, SubSeqProperties
  <2>. QED BY <2>2
<1> HIDE DEF h
<1>3. <<old>> \in Seq(Stored) /\ Len(<<old>>) = 1 /\ <<old>>[1] = old
  OBVIOUS
<1>4. /\ f \in Seq(Stored) /\ Len(f) = 1 + m
      /\ \A i \in 1 .. 1 + m : f[i] = IF i <= 1 THEN <<old>>[i] ELSE h[i - 1]
  <2>1. /\ f \in Seq(Stored) /\ Len(f) = Len(<<old>>) + Len(h)
        /\ \A i \in 1 .. Len(<<old>>) + Len(h) :
             f[i] = IF i <= Len(<<old>>) THEN <<old>>[i] ELSE h[i - Len(<<old>>)]
    BY <1>2, <1>3, ConcatProperties
  <2>. QED BY <1>2, <1>3, <2>1
<1> HIDE DEF f
<1>5. Len(f) = MAX_BACKUPS /\ DOMAIN f = 1 .. MAX_BACKUPS
  BY <1>4
<1>6. ASSUME NEW n \in 1 .. MAX_BACKUPS
      PROVE  f[n] = IF n = 1 THEN old ELSE hist[n - 1]
  <2>1. CASE n = 1
    BY <1>3, <1>4, <2>1
  <2>2. CASE n # 1
    <3>1. n \in 1 .. 1 + m /\ ~(n <= 1) /\ n - 1 \in 1 .. m
      BY <2>2
    <3>. QED BY <1>2, <1>4, <2>2, <3>1
  <2>. QED BY <2>1, <2>2
<1>7. f = [n \in 1 .. MAX_BACKUPS |-> f[n]]
  BY <1>4, <1>5
<1>8. f = Final(old, hist)
  BY <1>6, <1>7 DEF Final
<1>. QED BY <1>8 DEF f, h

(* The steps of a rotation.                                                *)
Overwriting ==
  /\ req.kind \in Rotating /\ req.uid \in Uids
  /\ req.hist \in [1 .. MAX_BACKUPS -> Stored]

LEMMA RestOfTodo ==
  ASSUME Types, todo # <<>>
  PROVE  /\ Len(Tail(todo)) = Len(todo) - 1 /\ Tail(todo) \in Seq(Effects)
         /\ \A i \in 1 .. Len(todo) - 1 : Tail(todo)[i] = todo[i + 1]
         /\ Len(todo) \in Nat /\ Len(todo) >= 1 /\ E = todo[1]
         /\ 1 \in 1 .. Len(todo)
BY NextEffect

LEMMA DropRotates ==
  ASSUME Types, Overwriting, Perform \/ Fail,
         Dropping(todo, req, file[req.uid], bak[req.uid])
  PROVE  /\ todo' = Tail(todo) /\ todo' # <<>> /\ req' = req
         /\ Shifting(MAX_BACKUPS - 1, todo', req, file'[req.uid],
                     bak'[req.uid], faults' = 0)
<1> DEFINE t == Tail(todo)
           u == req.uid
<1>1. todo # <<>> /\ u \in Uids
  BY DEF Perform, Fail, Overwriting
<1>2. /\ Len(t) = Len(todo) - 1 /\ \A i \in 1 .. Len(todo) - 1 : t[i] = todo[i + 1]
      /\ Len(todo) \in Nat /\ E = todo[1] /\ todo \in Seq(Effects)
  BY <1>1, RestOfTodo DEF Types
<1>3. /\ E.op = "drop" /\ E.uid = u /\ E.arg = MAX_BACKUPS
      /\ \A i \in 1 .. MAX_BACKUPS - 1 :
           Is(todo[i + 1], "shift", u, MAX_BACKUPS - i)
      /\ Is(todo[MAX_BACKUPS + 1], "keep", u, 1)
      /\ Closing(todo, MAX_BACKUPS + 2, req)
      /\ ~req.failed /\ file[u] = req.old /\ bak[u] = req.hist
  BY <1>2 DEF Dropping, Is
<1> HIDE DEF t, u
<1>4. Closing(t, MAX_BACKUPS + 1, req) /\ Len(t) >= MAX_BACKUPS + 3
  <2>1. MAX_BACKUPS + 2 \in Nat /\ MAX_BACKUPS + 2 >= 2
        /\ (MAX_BACKUPS + 2) - 1 = MAX_BACKUPS + 1
        /\ (MAX_BACKUPS + 2) + 1 = MAX_BACKUPS + 3
    OBVIOUS
  <2>2. Closing(t, (MAX_BACKUPS + 2) - 1, req) /\ Len(t) >= (MAX_BACKUPS + 2) + 1
    BY <1>2, <1>3, <2>1, ClosingRest
  <2>. QED BY <2>1, <2>2
<1>5. /\ \A i \in 1 .. MAX_BACKUPS - 1 : Is(t[i], "shift", u, MAX_BACKUPS - i)
      /\ Is(t[MAX_BACKUPS], "keep", u, 1)
  <2>1. Len(todo) >= MAX_BACKUPS + 4
    BY <1>2, <1>4
  <2>2. ASSUME NEW i \in 1 .. MAX_BACKUPS PROVE t[i] = todo[i + 1]
    <3>1. i \in 1 .. Len(todo) - 1
      BY <1>2, <2>1
    <3>. QED BY <1>2, <3>1
  <2>3. MAX_BACKUPS \in 1 .. MAX_BACKUPS
    OBVIOUS
  <2>4. \A i \in 1 .. MAX_BACKUPS - 1 : i \in 1 .. MAX_BACKUPS
    OBVIOUS
  <2>. QED BY <1>3, <2>2, <2>3, <2>4
<1>6. file' = file /\ (faults' = 0 => bak'[u] = [bak[u] EXCEPT ![MAX_BACKUPS] = Missing])
  <2>1. bak \in [Uids -> [1 .. MAX_BACKUPS -> Stored]] /\ faults \in Nat
    BY DEF Types, TypeOK
  <2>2. CASE Perform
    <3>1. BakSet(u, MAX_BACKUPS, Missing)
      BY <1>3, <2>2 DEF Perform, OnFiles, OnMemory, OnSaved, OnArchives
    <3>. QED BY <1>1, <2>1, <3>1 DEF BakSet
  <2>3. CASE Fail
    <3>1. faults' # 0
      BY <2>1, <2>3 DEF Fail
    <3>. QED BY <1>3, <2>3, <3>1 DEF Fail, LeavesTorn
  <2>. QED BY <2>2, <2>3
<1>7. todo' = t /\ t # <<>> /\ req' = req
  <2>1. t # <<>>
    BY <1>4
  <2>2. GoOn(t)
    BY <1>3 DEF Perform, Fail, Ignored, t
  <2>. QED BY <2>1, <2>2 DEF GoOn
<1>8. faults' = 0 => bak'[u] = Shifted(req.hist, MAX_BACKUPS - 1)
  BY <1>3, <1>6, DropShifts DEF Overwriting
<1>9. /\ (MAX_BACKUPS - 1) + 1 = MAX_BACKUPS /\ (MAX_BACKUPS - 1) + 2 = MAX_BACKUPS + 1
      /\ MAX_BACKUPS - 1 # 0
  OBVIOUS
<1>10. Shifting(MAX_BACKUPS - 1, t, req, file'[u], bak'[u], faults' = 0)
  BY <1>3, <1>4, <1>5, <1>6, <1>8, <1>9 DEF Shifting, u
<1>. QED BY <1>7, <1>10 DEF t, u

LEMMA ShiftRotates ==
  ASSUME Types, Overwriting, Perform, NEW j \in 1 .. MAX_BACKUPS - 1,
         Shifting(j, todo, req, file[req.uid], bak[req.uid], faults = 0)
  PROVE  /\ todo' = Tail(todo) /\ todo' # <<>> /\ req' = req
         /\ Shifting(j - 1, todo', req, file'[req.uid], bak'[req.uid], faults' = 0)
<1> DEFINE t == Tail(todo)
           u == req.uid
<1>1. todo # <<>> /\ u \in Uids
  BY DEF Perform, Overwriting
<1>2. /\ Len(t) = Len(todo) - 1 /\ \A i \in 1 .. Len(todo) - 1 : t[i] = todo[i + 1]
      /\ Len(todo) \in Nat /\ E = todo[1] /\ todo \in Seq(Effects)
  BY <1>1, RestOfTodo DEF Types
<1>3. /\ \A i \in 1 .. j : Is(todo[i], "shift", u, j + 1 - i)
      /\ Is(todo[j + 1], "keep", u, 1) /\ Closing(todo, j + 2, req)
      /\ ~req.failed /\ file[u] = req.old
      /\ faults = 0 => bak[u] = Shifted(req.hist, j)
  BY DEF Shifting
<1>4. E.op = "shift" /\ E.uid = u /\ E.arg = j
  <2>1. 1 \in 1 .. j /\ j + 1 - 1 = j
    OBVIOUS
  <2>. QED BY <1>2, <1>3, <2>1 DEF Is
<1> HIDE DEF t, u
<1>5. Closing(t, j + 1, req) /\ Len(t) >= j + 3
  <2>1. j + 2 \in Nat /\ j + 2 >= 2 /\ (j + 2) - 1 = j + 1 /\ (j + 2) + 1 = j + 3
    OBVIOUS
  <2>2. Closing(t, (j + 2) - 1, req) /\ Len(t) >= (j + 2) + 1
    BY <1>2, <1>3, <2>1, ClosingRest
  <2>. QED BY <2>1, <2>2
<1>6. /\ \A i \in 1 .. j - 1 : Is(t[i], "shift", u, (j - 1) + 1 - i)
      /\ Is(t[j], "keep", u, 1)
  <2>1. Len(todo) >= j + 4
    BY <1>2, <1>5
  <2>2. ASSUME NEW i \in 1 .. j PROVE t[i] = todo[i + 1]
    <3>1. i \in 1 .. Len(todo) - 1
      BY <1>2, <2>1
    <3>. QED BY <1>2, <3>1
  <2>3. j \in 1 .. j
    OBVIOUS
  <2>4. ASSUME NEW i \in 1 .. j - 1 PROVE Is(t[i], "shift", u, (j - 1) + 1 - i)
    <3>1. i \in 1 .. j /\ i + 1 \in 1 .. j /\ j + 1 - (i + 1) = (j - 1) + 1 - i
      OBVIOUS
    <3>2. t[i] = todo[i + 1] /\ Is(todo[i + 1], "shift", u, j + 1 - (i + 1))
      BY <1>3, <2>2, <3>1
    <3>. QED BY <3>1, <3>2
  <2>. QED BY <1>3, <2>2, <2>3, <2>4
<1>7. /\ file' = file /\ faults' = faults
      /\ bak'[u] = IF bak[u][j] = Missing THEN bak[u]
                   ELSE [bak[u] EXCEPT ![j] = Missing, ![j + 1] = bak[u][j]]
  <2>1. bak \in [Uids -> [1 .. MAX_BACKUPS -> Stored]]
    BY DEF Types, TypeOK
  <2>2. BakMoved(u, j) /\ faults' = faults
    BY <1>4 DEF Perform, OnFiles, OnMemory, OnSaved, OnArchives
  <2>. QED BY <1>1, <2>1, <2>2 DEF BakMoved
<1>8. todo' = t /\ t # <<>> /\ req' = req
  <2>1. t # <<>>
    BY <1>5
  <2>2. GoOn(t)
    BY DEF Perform, t
  <2>. QED BY <2>1, <2>2 DEF GoOn
<1>9. faults' = 0 => bak'[u] = Shifted(req.hist, j - 1)
  <2>1. req.hist \in [1 .. MAX_BACKUPS -> Stored]
    BY DEF Overwriting
  <2> DEFINE h == req.hist
             f == Shifted(h, j)
             g == Shifted(h, j - 1)
  <2> HIDE DEF h
  <2>2. /\ h[j] = Missing => f = g
        /\ [f EXCEPT ![j] = Missing, ![j + 1] = h[j]] = g
        /\ f[j] = h[j]
    BY <2>1, ShiftShifts DEF h
  <2>3. faults' = 0 => bak[u] = f
    BY <1>3, <1>7 DEF h
  <2> HIDE DEF f, g
  <2>4. faults' = 0 => bak'[u] = g
    BY <1>7, <2>2, <2>3
  <2>. QED BY <2>4 DEF g, h
<1>10. j - 1 = 0 => bak'[u][1] = Missing
  <2>1. bak[u] \in [1 .. MAX_BACKUPS -> Stored]
    BY <1>1 DEF Types, TypeOK
  <2> DEFINE b == bak[u]
  <2>2. [b EXCEPT ![j] = Missing, ![j + 1] = b[j]][j] = Missing
    BY <2>1
  <2>. QED BY <1>7, <2>2
<1>11. (j - 1) + 1 = j /\ (j - 1) + 2 = j + 1
  OBVIOUS
<1>12. Shifting(j - 1, t, req, file'[u], bak'[u], faults' = 0)
  BY <1>3, <1>5, <1>6, <1>7, <1>9, <1>10, <1>11 DEF Shifting, u
<1>. QED BY <1>8, <1>12 DEF t, u

LEMMA KeepRotates ==
  ASSUME Types, Overwriting, Perform,
         Shifting(0, todo, req, file[req.uid], bak[req.uid], faults = 0)
  PROVE  /\ todo' = Tail(todo) /\ todo' # <<>> /\ req' = req
         /\ Kept(todo', req, file'[req.uid], bak'[req.uid], faults' = 0)
<1> DEFINE t == Tail(todo)
           u == req.uid
<1>1. todo # <<>> /\ u \in Uids
  BY DEF Perform, Overwriting
<1>2. /\ Len(t) = Len(todo) - 1 /\ \A i \in 1 .. Len(todo) - 1 : t[i] = todo[i + 1]
      /\ Len(todo) \in Nat /\ E = todo[1] /\ todo \in Seq(Effects)
      /\ t \in Seq(Effects)
  BY <1>1, RestOfTodo DEF Types
<1>3. /\ Is(todo[1], "keep", u, 1) /\ Closing(todo, 2, req)
      /\ ~req.failed /\ file[u] = req.old
      /\ faults = 0 => bak[u] = Shifted(req.hist, 0)
      /\ bak[u][1] = Missing
  <2>1. 0 + 1 = 1 /\ 0 + 2 = 2
    OBVIOUS
  <2>. QED BY <2>1 DEF Shifting
<1>4. E.op = "keep" /\ E.uid = u
  BY <1>2, <1>3 DEF Is
<1> HIDE DEF t, u
<1>5. Closing(t, 1, req) /\ Len(t) >= 3
  <2>1. Closing(t, 2 - 1, req) /\ Len(t) >= 2 + 1
    BY <1>2, <1>3, ClosingRest
  <2>2. 2 - 1 = 1 /\ 2 + 1 = 3
    OBVIOUS
  <2>. QED BY <2>1, <2>2
<1>6. /\ InPlace(t) /\ t[1].op = "write"
      /\ \A i \in 1 .. Len(t) :
           t[i].op = "write" => Is(t[i], "write", req.uid, req.new)
  BY <1>2, <1>5, ClosingInPlace
<1>7. /\ faults' = faults
      /\ bak'[u] = IF file[u] = Missing THEN bak[u]
                   ELSE [bak[u] EXCEPT ![1] = file[u]]
  <2>1. bak \in [Uids -> [1 .. MAX_BACKUPS -> Stored]]
    BY DEF Types, TypeOK
  <2>2. /\ faults' = faults
        /\ IF file[u] = Missing THEN UNCHANGED <<file, bak>> ELSE BakSet(u, 1, file[u])
    BY <1>4 DEF Perform, OnFiles, OnMemory, OnSaved, OnArchives
  <2>. QED BY <1>1, <2>1, <2>2 DEF BakSet
<1>8. todo' = t /\ t # <<>> /\ req' = req
  <2>1. t # <<>>
    BY <1>5
  <2>2. GoOn(t)
    BY DEF Perform, t
  <2>. QED BY <2>1, <2>2 DEF GoOn
<1>9. faults' = 0 => bak'[u] = Final(req.old, req.hist)
  <2>1. req.hist \in [1 .. MAX_BACKUPS -> Stored]
    BY DEF Overwriting
  <2>. QED BY <1>3, <1>7, <2>1, KeepShifts
<1>10. bak'[u][1] = req.old
  <2>1. bak[u] \in [1 .. MAX_BACKUPS -> Stored]
    BY <1>1 DEF Types, TypeOK
  <2>. QED BY <1>3, <1>7, <2>1
<1>11. Kept(t, req, file'[u], bak'[u], faults' = 0)
  BY <1>6, <1>9, <1>10 DEF Kept
<1>. QED BY <1>8, <1>11 DEF t, u

LEMMA KeptRotates ==
  ASSUME Types, Overwriting, Perform,
         Kept(todo, req, file[req.uid], bak[req.uid], faults = 0)
  PROVE  /\ bak' = bak /\ faults' = faults /\ todo' = Tail(todo)
         /\ \/ todo' = <<>> /\ req' = Idle
            \/ /\ todo' # <<>> /\ req' = req
               /\ Kept(todo', req, file'[req.uid], bak'[req.uid], faults' = 0)
         /\ todo' = <<>> /\ ~req.failed => file'[req.uid] = req.new
<1> DEFINE t == Tail(todo)
           u == req.uid
<1>1. todo # <<>> /\ u \in Uids
  BY DEF Perform, Overwriting
<1>2. /\ Len(t) = Len(todo) - 1 /\ \A i \in 1 .. Len(todo) - 1 : t[i] = todo[i + 1]
      /\ Len(todo) \in Nat /\ E = todo[1] /\ 1 \in 1 .. Len(todo)
  BY <1>1, RestOfTodo
<1>3. /\ \A i \in 1 .. Len(todo) : todo[i].op \in {"write", "index", "save", "judge"}
      /\ bak[u][1] = req.old
      /\ ~req.failed =>
           /\ faults = 0 => bak[u] = Final(req.old, req.hist)
           /\ \A i \in 1 .. Len(todo) :
                todo[i].op = "write" => Is(todo[i], "write", u, req.new)
           /\ file[u] = req.new \/ todo[1].op = "write"
  BY DEF Kept, InPlace
<1>4. E.op \in {"write", "index", "save", "judge"}
  BY <1>2, <1>3
<1>5. /\ bak' = bak /\ faults' = faults /\ todo' = t
      /\ \/ t = <<>> /\ req' = Idle
         \/ t # <<>> /\ req' = req
      /\ E.op = "write" => file' = [file EXCEPT ![E.uid] = E.arg]
      /\ E.op # "write" => file' = file
      /\ file \in [Uids -> Stored]
  BY <1>4, PerformEffects DEF Types, TypeOK
<1> HIDE DEF t, u
<1>6. ~req.failed => file'[u] = req.new
  <2>1. CASE E.op = "write"
    BY <1>1, <1>2, <1>3, <1>5, <2>1 DEF Is
  <2>2. CASE E.op # "write"
    BY <1>2, <1>3, <1>5, <2>2
  <2>. QED BY <2>1, <2>2
<1>7. \A i \in 1 .. Len(t) : i + 1 \in 1 .. Len(todo) /\ t[i] = todo[i + 1]
  BY <1>2
<1>8. /\ InPlace(t)
      /\ ~req.failed => \A i \in 1 .. Len(t) :
           t[i].op = "write" => Is(t[i], "write", u, req.new)
  BY <1>3, <1>7 DEF InPlace
<1>9. Kept(t, req, file'[u], bak'[u], faults' = 0)
  BY <1>3, <1>5, <1>6, <1>8 DEF Kept, u
<1>. QED BY <1>5, <1>6, <1>9 DEF t, u

(* The effect that comes next, and where the old text is.                  *)
LEMMA RotatingEffect ==
  ASSUME Types, Rotation, req.kind \in Rotating
  PROVE  /\ Overwriting /\ todo # <<>> /\ E = todo[1] /\ 1 \in 1 .. Len(todo)
         /\ req.onerr = <<>> /\ req.undo # <<>> /\ InPlace(req.undo)
         /\ \/ /\ E.op \in {"drop", "shift", "keep"} /\ ~req.failed
               /\ file[req.uid] = req.old
               /\ \/ /\ E.op = "drop"
                     /\ Dropping(todo, req, file[req.uid], bak[req.uid])
                  \/ /\ E.op \in {"shift", "keep"}
                     /\ \E j \in 0 .. MAX_BACKUPS - 1 :
                          Shifting(j, todo, req, file[req.uid], bak[req.uid],
                                   faults = 0)
            \/ /\ E.op \in {"write", "index", "save", "judge"}
               /\ bak[req.uid][1] = req.old
               /\ Kept(todo, req, file[req.uid], bak[req.uid], faults = 0)
<1>1. todo # <<>>
  BY DEF Types, Idle, Rotating
<1>2. E = todo[1] /\ 1 \in 1 .. Len(todo)
  BY <1>1, RestOfTodo
<1>3. /\ Overwriting /\ req.onerr = <<>> /\ req.undo # <<>> /\ InPlace(req.undo)
      /\ Rotates(todo, req, file[req.uid], bak[req.uid], faults = 0)
  BY DEF Rotation, Overwriting
<1>4. CASE Dropping(todo, req, file[req.uid], bak[req.uid])
  <2>1. E.op = "drop" /\ ~req.failed /\ file[req.uid] = req.old
    BY <1>2, <1>4 DEF Dropping, Is
  <2>. QED BY <1>1, <1>2, <1>3, <1>4, <2>1
<1>5. ASSUME NEW j \in 0 .. MAX_BACKUPS - 1,
             Shifting(j, todo, req, file[req.uid], bak[req.uid], faults = 0)
      PROVE  /\ E.op \in {"shift", "keep"} /\ ~req.failed
             /\ file[req.uid] = req.old
  <2>1. ~req.failed /\ file[req.uid] = req.old
    BY <1>5 DEF Shifting
  <2>2. CASE j = 0
    <3>1. Is(todo[0 + 1], "keep", req.uid, 1)
      BY <1>5, <2>2 DEF Shifting
    <3>. QED BY <1>2, <2>1, <3>1 DEF Is
  <2>3. CASE j # 0
    <3>1. 1 \in 1 .. j
      BY <2>3
    <3>2. Is(todo[1], "shift", req.uid, j + 1 - 1)
      BY <1>5, <3>1 DEF Shifting
    <3>. QED BY <1>2, <2>1, <3>2 DEF Is
  <2>. QED BY <2>2, <2>3
<1>6. CASE Kept(todo, req, file[req.uid], bak[req.uid], faults = 0)
  <2>1. /\ E.op \in {"write", "index", "save", "judge"}
        /\ bak[req.uid][1] = req.old
    BY <1>2, <1>6 DEF Kept, InPlace
  <2>. QED BY <1>1, <1>2, <1>3, <1>6, <2>1
<1>. QED BY <1>1, <1>2, <1>3, <1>4, <1>5, <1>6 DEF Rotates

LEMMA OverwriteRotates == ASSUME Types, OverwriteAsked PROVE Rotation'
<1>1. PICK kind \in {"import", "update", "restore"}, u \in Uids,
           text \in Stored \ {Missing}, s \in Seq(Effects), undo \in Seq(Effects) :
        /\ Overwrites(IF kind = "update" THEN 0 ELSE MAX_BACKUPS + 1, u, text, s)
        /\ \/ undo = SaveDos(mem.index)
           \/ undo = <<Do("write", u, file[u]), Do("index", NoUid, mem.index),
                       Do("save", NoUid, mem.index)>>
        /\ Asked(kind, u, text, s, undo, <<>>)
  BY DEF OverwriteAsked
<1>2. /\ todo' = s /\ req'.kind = kind /\ req'.uid = u /\ req'.new = text
      /\ req'.undo = undo /\ req'.onerr = <<>> /\ req'.failed = FALSE
      /\ req'.old = file[u] /\ req'.hist = bak[u]
  <2>1. Asked(kind, u, text, s, undo, <<>>) /\ u \in Uids
    BY <1>1
  <2> HIDE <1>1
  <2>2. /\ todo' = s /\ req'.kind = kind /\ req'.uid = u /\ req'.new = text
        /\ req'.undo = undo /\ req'.onerr = <<>> /\ req'.failed = FALSE
    BY <2>1, AskedFacts
  <2>3. u \in Uids => req'.old = file[u] /\ req'.hist = bak[u]
    BY <2>1, AskedFacts
  <2>. QED BY <2>1, <2>2, <2>3
<1>3. UNCHANGED <<mem, disk, file, bak, arch, up, faults>>
  BY <1>1 DEF Asked
<1>4. bak[u] \in [1 .. MAX_BACKUPS -> Stored]
  BY DEF Types, TypeOK
<1>5. undo # <<>> /\ InPlace(undo)
  <2>1. CASE undo = SaveDos(mem.index)
    <3>1. Len(undo) = 2 /\ undo[1].op = "index" /\ undo[2].op = "save"
      BY <2>1, SaveDosNamed
    <3>2. \A i \in 1 .. Len(undo) : i = 1 \/ i = 2
      BY <3>1
    <3>3. undo # <<>>
      <4>1. Len(undo) # 0
        BY <3>1
      <4>. QED BY <4>1
    <3>. QED BY <3>1, <3>2, <3>3 DEF InPlace
  <2>2. CASE undo = <<Do("write", u, file[u]), Do("index", NoUid, mem.index),
                      Do("save", NoUid, mem.index)>>
    <3>1. /\ Len(undo) = 3 /\ undo[1].op = "write" /\ undo[2].op = "index"
          /\ undo[3].op = "save"
      BY <2>2 DEF Do
    <3>2. \A i \in 1 .. Len(undo) : i = 1 \/ i = 2 \/ i = 3
      BY <3>1
    <3>3. undo # <<>>
      <4>1. Len(undo) # 0
        BY <3>1
      <4>. QED BY <4>1
    <3>. QED BY <3>1, <3>2, <3>3 DEF InPlace
  <2>. QED BY <1>1, <2>1, <2>2
<1>6. CASE kind # "update"
  <2> DEFINE n == MAX_BACKUPS + 1
  <2>1. Overwrites(n, u, text, s) /\ n # 0
    BY <1>1, <1>6
  <2>2. \A op, v, arg : Is(Do(op, v, arg), op, v, arg)
    BY DEF Is, Do
  <2>3. /\ Is(s[1], "drop", u, MAX_BACKUPS)
        /\ \A i \in 1 .. MAX_BACKUPS - 1 : Is(s[i + 1], "shift", u, MAX_BACKUPS - i)
        /\ Is(s[MAX_BACKUPS + 1], "keep", u, 1)
    BY <2>1, <2>2 DEF Overwrites
  <2>4. /\ Is(s[n + 1], "write", u, text) /\ s[n + 2].op = "index"
        /\ s[n + 3].op = "save"
        /\ Len(s) = n + 3 \/ (Len(s) = n + 4 /\ s[n + 4].op = "judge")
    BY <2>1, <2>2 DEF Overwrites, Is
  <2>5. /\ n + 1 = MAX_BACKUPS + 2 /\ n + 2 = (MAX_BACKUPS + 2) + 1
        /\ n + 3 = (MAX_BACKUPS + 2) + 2 /\ n + 4 = (MAX_BACKUPS + 2) + 3
    OBVIOUS
  <2>6. Closing(s, MAX_BACKUPS + 2, req')
    BY <1>2, <2>4, <2>5 DEF Closing
  <2>7. Dropping(s, req', file[u], bak[u])
    BY <1>2, <2>3, <2>6 DEF Dropping
  <2>. QED BY <1>2, <1>3, <1>4, <1>5, <2>7 DEF Rotation, Rotates
<1>7. CASE kind = "update"
  BY <1>2, <1>7 DEF Rotation, Rotating
<1>. QED BY <1>6, <1>7

LEMMA IdleRotates == ASSUME req' = Idle PROVE Rotation'
BY DEF Rotation, Rotating, Idle

LEMMA OtherRotates ==
  ASSUME req.kind \notin Rotating, req'.kind = req.kind PROVE Rotation'
BY DEF Rotation

LEMMA PerformRotates == ASSUME Types, Rotation, Perform PROVE Rotation'
<1>1. req' = Idle \/ req' = req
  BY PerformEffects
<1>2. CASE req.kind \notin Rotating
  BY <1>1, <1>2, IdleRotates, OtherRotates
<1>3. CASE req.kind \in Rotating
  <2>1. /\ Overwriting /\ req.onerr = <<>> /\ req.undo # <<>> /\ InPlace(req.undo)
        /\ \/ Dropping(todo, req, file[req.uid], bak[req.uid])
           \/ \E j \in 0 .. MAX_BACKUPS - 1 :
                Shifting(j, todo, req, file[req.uid], bak[req.uid], faults = 0)
           \/ Kept(todo, req, file[req.uid], bak[req.uid], faults = 0)
    BY <1>3, RotatingEffect
  <2>2. ASSUME req' = req,
               Rotates(todo', req, file'[req.uid], bak'[req.uid], faults' = 0)
        PROVE  Rotation'
    BY <2>1, <2>2 DEF Rotation, Overwriting
  <2>3. CASE Dropping(todo, req, file[req.uid], bak[req.uid])
    <3>1. MAX_BACKUPS - 1 \in 0 .. MAX_BACKUPS - 1
      OBVIOUS
    <3>. QED BY <2>1, <2>2, <2>3, <3>1, DropRotates DEF Rotates
  <2>4. ASSUME NEW j \in 0 .. MAX_BACKUPS - 1,
               Shifting(j, todo, req, file[req.uid], bak[req.uid], faults = 0)
        PROVE  Rotation'
    <3>1. CASE j = 0
      BY <2>1, <2>2, <2>4, <3>1, KeepRotates DEF Rotates
    <3>2. CASE j # 0
      <4>1. j \in 1 .. MAX_BACKUPS - 1 /\ j - 1 \in 0 .. MAX_BACKUPS - 1
        BY <3>2
      <4>. QED BY <2>1, <2>2, <2>4, <4>1, ShiftRotates DEF Rotates
    <3>. QED BY <3>1, <3>2
  <2>5. CASE Kept(todo, req, file[req.uid], bak[req.uid], faults = 0)
    BY <2>1, <2>2, <2>5, KeptRotates, IdleRotates DEF Rotates
  <2>. QED BY <2>1, <2>3, <2>4, <2>5
<1>. QED BY <1>2, <1>3

LEMMA JudgeRotates ==
  ASSUME Types, Rotation, JudgeAccepts \/ JudgeRefuses
  PROVE  /\ Rotation'
         /\ req.kind \in Rotating /\ ~req.failed /\ req' = Idle =>
              /\ JudgeAccepts /\ file[req.uid] = req.new
              /\ Kept(todo, req, file[req.uid], bak[req.uid], faults = 0)
<1>1. /\ UNCHANGED <<mem, disk, file, bak, arch, up, ops, faults>>
      /\ todo # <<>> /\ E.op = "judge"
  BY DEF JudgeAccepts, JudgeRefuses, Step, E
<1>2. req.undo \in Seq(Effects)
  BY DEF Types, Requests
<1>3. CASE req.kind \notin Rotating
  <2>1. req' = Idle \/ req'.kind = req.kind
    BY <1>1, <1>2, RefuseEnds DEF JudgeAccepts, JudgeRefuses, GoOn
  <2>. QED BY <1>3, <2>1, IdleRotates, OtherRotates
<1>4. CASE req.kind \in Rotating
  <2> DEFINE t == Tail(todo)
             u == req.uid
  <2>1. /\ Overwriting /\ E = todo[1] /\ 1 \in 1 .. Len(todo)
        /\ req.onerr = <<>> /\ req.undo # <<>> /\ InPlace(req.undo)
        /\ Kept(todo, req, file[u], bak[u], faults = 0)
    BY <1>1, <1>4, RotatingEffect
  <2>2. /\ InPlace(todo) /\ bak[u][1] = req.old
        /\ ~req.failed =>
             /\ faults = 0 => bak[u] = Final(req.old, req.hist)
             /\ \A i \in 1 .. Len(todo) :
                  todo[i].op = "write" => Is(todo[i], "write", u, req.new)
             /\ file[u] = req.new
    BY <1>1, <2>1 DEF Kept
  <2>3. CASE JudgeAccepts
    <3>1. /\ todo' = t
          /\ \/ t = <<>> /\ req' = Idle
             \/ t # <<>> /\ req' = req
      BY <2>3 DEF JudgeAccepts, GoOn
    <3>2. \A i \in 1 .. Len(t) : i + 1 \in 1 .. Len(todo) /\ t[i] = todo[i + 1]
      BY <1>1, RestOfTodo
    <3>3. /\ InPlace(t)
          /\ ~req.failed => \A i \in 1 .. Len(t) :
               t[i].op = "write" => Is(t[i], "write", u, req.new)
      BY <2>2, <3>2 DEF InPlace
    <3>4. Kept(t, req, file[u], bak[u], faults = 0)
      BY <2>2, <3>3 DEF Kept
    <3>5. CASE t # <<>>
      <4>1. req' = req /\ Rotates(todo', req', file'[req'.uid], bak'[req'.uid], faults' = 0)
        BY <1>1, <3>1, <3>4, <3>5 DEF Rotates
      <4>2. req' # Idle
        BY <1>4, <4>1 DEF Idle, Rotating
      <4>. QED BY <2>1, <4>1, <4>2 DEF Rotation, Overwriting
    <3>6. CASE t = <<>>
      BY <2>1, <2>2, <2>3, <3>1, <3>6, IdleRotates
    <3>. QED BY <3>5, <3>6
  <2>4. CASE JudgeRefuses
    <3>1. todo' = req.undo /\ Refuse(req.undo)
      BY <2>4 DEF JudgeRefuses, Refuse
    <3>2. /\ req' # Idle /\ req'.failed = TRUE /\ req'.kind = req.kind
          /\ req'.undo = req.undo /\ req'.onerr = req.onerr
      BY <1>1, <1>2, <2>1, <3>1, RefuseTypes
    <3>3. req'.uid = u /\ req'.hist = req.hist /\ req'.old = req.old
      BY <2>1, <3>1 DEF Refuse, Types, Requests
    <3>4. Kept(todo', req', file'[u], bak'[u], faults' = 0)
      BY <1>1, <2>1, <2>2, <3>1, <3>2, <3>3 DEF Kept
    <3>. QED BY <2>1, <3>2, <3>3, <3>4 DEF Rotation, Rotates, Overwriting
  <2>. QED BY <2>3, <2>4
<1>. QED BY <1>3, <1>4

LEMMA FailRotates == ASSUME Types, Rotation, Fail PROVE Rotation'
<1>1. todo # <<>> /\ req.onerr \in Seq(Effects)
  BY DEF Fail, Types, Requests
<1>2. CASE req.kind \notin Rotating
  <2>1. req' = Idle \/ req'.kind = req.kind
    BY <1>1, RefuseEnds DEF Fail, GoOn
  <2>. QED BY <1>2, <2>1, IdleRotates, OtherRotates
<1>3. CASE req.kind \in Rotating
  <2> DEFINE t == Tail(todo)
             u == req.uid
  <2>1. /\ Overwriting /\ E = todo[1] /\ 1 \in 1 .. Len(todo)
        /\ req.onerr = <<>> /\ req.undo # <<>> /\ InPlace(req.undo)
    BY <1>3, RotatingEffect
  <2>2. CASE E.op = "drop" /\ Dropping(todo, req, file[u], bak[u])
    <3>1. /\ req' = req
          /\ Shifting(MAX_BACKUPS - 1, todo', req, file'[u], bak'[u], faults' = 0)
      BY <2>1, <2>2, DropRotates
    <3>2. MAX_BACKUPS - 1 \in 0 .. MAX_BACKUPS - 1
      OBVIOUS
    <3>. QED BY <2>1, <3>1, <3>2 DEF Rotation, Rotates, Overwriting
  <2>3. CASE E.op \in {"shift", "keep", "write", "index", "save", "judge"} /\ ~req.failed
    <3>1. Refuse(<<>>)
      BY <2>1, <2>3 DEF Fail, Ignored
    <3>. QED BY <3>1, IdleRotates DEF Refuse
  <2>4. CASE /\ E.op \in {"write", "index", "save", "judge"} /\ req.failed
             /\ Kept(todo, req, file[u], bak[u], faults = 0)
    <3>1. GoOn(t) /\ bak' = bak
      BY <2>4 DEF Fail, LeavesTorn, Written
    <3>2. /\ todo' = t
          /\ \/ t = <<>> /\ req' = Idle
             \/ t # <<>> /\ req' = req
      BY <3>1 DEF GoOn
    <3>3. \A i \in 1 .. Len(t) : i + 1 \in 1 .. Len(todo) /\ t[i] = todo[i + 1]
      BY <1>1, RestOfTodo
    <3>4. InPlace(t)
      BY <2>4, <3>3 DEF InPlace, Kept
    <3>5. Kept(t, req, file'[u], bak'[u], faults' = 0)
      BY <2>4, <3>1, <3>4 DEF Kept
    <3>6. CASE t = <<>>
      BY <3>2, <3>6, IdleRotates
    <3>7. CASE t # <<>>
      BY <2>1, <3>2, <3>5, <3>7 DEF Rotation, Rotates, Overwriting
    <3>. QED BY <3>6, <3>7
  <2>. QED BY <1>3, <2>2, <2>3, <2>4, RotatingEffect
<1>. QED BY <1>2, <1>3

LEMMA NextRotates == ASSUME Types, Rotation, [Next]_vars PROVE Rotation'
<1>1. CASE Request
  <2>1. CASE \E l \in Labels : BackupDelete(l)
    <3>1. req' = Idle
      BY <2>1 DEF BackupDelete
    <3>. QED BY <3>1, IdleRotates
  <2>2. CASE RecoverAsked
    <3>1. PICK l, s : Asked("recover", NoUid, l, s, <<>>, <<>>)
      BY <2>2 DEF RecoverAsked
    <3>2. req'.kind = "recover"
      BY <3>1, AskedFacts
    <3>. QED BY <3>2 DEF Rotation, Rotating
  <2>3. CASE /\ \/ CreateAsked \/ OverwriteAsked \/ RemoveAsked \/ SwitchAsked
                \/ EditAsked \/ SettingsAsked \/ BackupAsked
             /\ ~OverwriteAsked
    BY <2>3, AskedKinds DEF Rotation
  <2>. QED BY <1>1, <2>1, <2>2, <2>3, RequestCases, OverwriteRotates
<1>2. CASE Killed
  BY <1>2, IdleRotates DEF Killed
<1>3. CASE Restarts
  <2>1. req' = Idle
    BY <1>3 DEF Restarts, Types
  <2>. QED BY <2>1, IdleRotates
<1>4. CASE UNCHANGED vars
  BY <1>4 DEF vars, Rotation
<1>. QED BY <1>1, <1>2, <1>3, <1>4, PerformRotates, JudgeRotates, FailRotates
     DEF Next

LEMMA InitRotates == ASSUME Init PROVE Rotation
BY DEF Init, Idle, Rotation, Rotating

(* Where the old text is it stays: as the text until it is version 1, and  *)
(* as version 1 from then on.                                              *)
LEMMA OldTextStays ==
  ASSUME Types, Rotation, [Next]_vars, req.kind \in Rotating
  PROVE  req.old \in {file'[req.uid], bak'[req.uid][1]}
<1>1. /\ todo # <<>>
      /\ \/ E.op \in {"drop", "shift", "keep"} /\ file[req.uid] = req.old
         \/ /\ E.op \in {"write", "index", "save", "judge"}
            /\ bak[req.uid][1] = req.old
  BY RotatingEffect
<1>2. req # Idle /\ up
  BY <1>1, NextEffect
<1>3. CASE Perform
  <2>1. E.op \in {"drop", "shift", "keep"} => file' = file
    BY <1>3, PerformEffects
  <2>2. E.op \in {"write", "index", "save", "judge"} => bak' = bak
    BY <1>3, PerformEffects
  <2>. QED BY <1>1, <2>1, <2>2
<1>4. CASE LeavesTorn \/ UNCHANGED <<file, bak, disk>>
  <2>1. E.op \in {"drop", "shift", "keep"} => file' = file
    BY <1>4 DEF LeavesTorn, BakSet
  <2>2. E.op \in {"write", "index", "save", "judge"} => bak' = bak
    BY <1>4 DEF LeavesTorn, Written
  <2>. QED BY <1>1, <2>1, <2>2
<1>5. CASE Request
  <2>1. CASE \E l \in Labels : BackupDelete(l)
    BY <1>2, <2>1 DEF BackupDelete
  <2>2. CASE RecoverAsked
    <3>1. PICK l, s : Asked("recover", NoUid, l, s, <<>>, <<>>)
      BY <2>2 DEF RecoverAsked
    <3>. QED BY <1>2, <3>1, AskedFacts
  <2>. QED BY <1>2, <1>5, <2>1, <2>2, AskedKinds, RequestCases
<1>6. CASE Restarts
  BY <1>2, <1>6 DEF Restarts
<1>7. Fail \/ Killed => LeavesTorn \/ UNCHANGED <<file, bak, disk>>
  BY DEF Fail, Killed
<1>8. JudgeAccepts \/ JudgeRefuses \/ UNCHANGED vars => UNCHANGED <<file, bak, disk>>
  BY DEF JudgeAccepts, JudgeRefuses, vars
<1>. QED BY <1>3, <1>4, <1>5, <1>6, <1>7, <1>8 DEF Next

(* The text that a profile had when an import or a restore of a version    *)
(* began is on disk at every moment of it, as the text or as version 1,    *)
(* whatever fails, is refused or is cut short by a kill.                   *)
THEOREM OldTextKeptAlways == Spec => OldTextKept
<1>1. Init => Rotation
  BY InitRotates
<1>2. Types /\ Rotation /\ [Next]_vars => Rotation'
  BY NextRotates
<1>3. Types /\ Rotation /\ [Next]_vars =>
        [req.kind \in {"import", "restore"} =>
           req.old \in {file'[req.uid], bak'[req.uid][1]}]_vars
  BY OldTextStays DEF Rotating
<1>. QED BY <1>1, <1>2, <1>3, TypeInvariant, PTL DEF Spec, OldTextKept

(* An import or a restore that ends well, nothing having failed, leaves    *)
(* the text it brings and a history that begins with the old text and has  *)
(* lost the oldest version only.                                           *)
THEOREM HistoryShiftsAlways == Spec => HistoryShifts
<1> DEFINE Moves ==
      Ends({"import", "restore"}) /\ faults' = 0 =>
        /\ file'[req.uid] = req.new
        /\ bak'[req.uid] =
             <<req.old>> \o SubSeq(req.hist, 1, MAX_BACKUPS - 1)
<1>1. Init => Rotation
  BY InitRotates
<1>2. Types /\ Rotation /\ [Next]_vars => Rotation'
  BY NextRotates
<1>3. ASSUME Types, Rotation, [Next]_vars, Ends({"import", "restore"}), faults' = 0
      PROVE  /\ file'[req.uid] = req.new
             /\ bak'[req.uid] =
                  <<req.old>> \o SubSeq(req.hist, 1, MAX_BACKUPS - 1)
  <2>1. todo # <<>> /\ (Perform \/ JudgeAccepts \/ JudgeRefuses)
    BY <1>3, EndsWell
  <2>2. req.kind \in Rotating /\ req' = Idle /\ req # Idle /\ ~req.failed
        /\ faults = 0
    BY <1>3 DEF Ends, Idle, Rotating
  <2>3. Overwriting
    BY <1>3, <2>2, RotatingEffect
  <2>4. /\ file'[req.uid] = req.new /\ bak' = bak
        /\ Kept(todo, req, file[req.uid], bak[req.uid], faults = 0)
    <3>1. CASE JudgeAccepts \/ JudgeRefuses
      <4>1. UNCHANGED <<file, bak>>
        BY <3>1 DEF JudgeAccepts, JudgeRefuses
      <4>. QED BY <1>3, <2>2, <3>1, <4>1, JudgeRotates
    <3>2. CASE Perform
      <4>1. Kept(todo, req, file[req.uid], bak[req.uid], faults = 0)
        <5>1. ~Dropping(todo, req, file[req.uid], bak[req.uid])
          BY <1>3, <2>2, <2>3, <3>2, DropRotates
        <5>2. ASSUME NEW j \in 0 .. MAX_BACKUPS - 1,
                     Shifting(j, todo, req, file[req.uid], bak[req.uid], faults = 0)
              PROVE  FALSE
          <6>1. CASE j = 0
            BY <1>3, <2>2, <2>3, <3>2, <5>2, <6>1, KeepRotates
          <6>2. CASE j # 0
            <7>1. j \in 1 .. MAX_BACKUPS - 1
              BY <6>2
            <7>. QED BY <1>3, <2>2, <2>3, <3>2, <5>2, <7>1, ShiftRotates
          <6>. QED BY <6>1, <6>2
        <5>. QED BY <1>3, <2>2, <5>1, <5>2, RotatingEffect
      <4>2. /\ bak' = bak
            /\ \/ todo' = <<>> /\ req' = Idle
               \/ todo' # <<>> /\ req' = req
            /\ todo' = <<>> /\ ~req.failed => file'[req.uid] = req.new
        BY <1>3, <2>3, <3>2, <4>1, KeptRotates
      <4>. QED BY <2>2, <4>1, <4>2
    <3>. QED BY <2>1, <3>1, <3>2
  <2>5. bak[req.uid] = Final(req.old, req.hist)
    BY <2>2, <2>4 DEF Kept
  <2>6. req.hist \in [1 .. MAX_BACKUPS -> Stored] /\ req.old \in Stored
    BY <1>3, <2>3 DEF Overwriting, Types, Requests
  <2>. QED BY <2>4, <2>5, <2>6, FinalIsShifted
<1>4. Types /\ Rotation /\ [Next]_vars => [Moves]_vars
  BY <1>3
<1>. QED BY <1>1, <1>2, <1>4, TypeInvariant, PTL DEF Spec, HistoryShifts
=============================================================================
