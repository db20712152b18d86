---------------------------- MODULE Client_proofs ----------------------------
(***************************************************************************)
(* Proofs about Client, for every set of profiles and operations and any   *)
(* number of flows and faults.                                             *)
(*                                                                         *)
(* The rules of the flows are a table; what the proofs need of it is said  *)
(* once, in RuleFacts: where a flow of a kind may be (Path), which changes *)
(* it has behind it there (Behind), and when it tells of a success.        *)
(***************************************************************************)
EXTENDS Client, TLAPS

Kinds == DOMAIN PLAIN \union {"Switch", "Remove", "RemoveCurrent", "Update",
                              "Import", "Select"}

(* The calls of a flow of this kind.                                       *)
Path(k) ==
    CASE k \in DOMAIN PLAIN -> {k, PLAIN[k]}
                               \union (IF k \in TUN THEN {"Status"} ELSE {})
                               \union (IF k = "BackupRestore"
                                       THEN {"Backups"} ELSE {})
      [] k = "Switch"        -> {"SetCurrent", "Status", "StartCore", "Get",
                                 "Put", "List"}
      [] k = "Remove"        -> {"Remove", "List"}
      [] k = "RemoveCurrent" -> {"Remove", "First", "SetFirst", "List"}
      [] k = "Update"        -> {"Get", "Download", "Import", "List"}
      [] k = "Import"        -> {"Download", "Import", "List"}
      [] k = "Select"        -> {"Put", "Memorize", "Groups"}

(* The changes a flow of this kind may have asked for before call c.       *)
Behind(k, c) ==
    CASE k \in DOMAIN PLAIN -> IF c = k THEN {} ELSE {k}
      [] k = "Switch"        -> CASE c = "SetCurrent" -> {}
                                  [] c \in {"Status", "StartCore"} ->
                                       {"SetCurrent"}
                                  [] OTHER -> {"SetCurrent", "StartCore"}
      [] k = "Remove"        -> IF c = "Remove" THEN {} ELSE {"Remove"}
      [] k = "RemoveCurrent" -> CASE c = "Remove" -> {}
                                  [] c \in {"First", "SetFirst"} ->
                                       {"Remove"}
                                  [] OTHER -> {"Remove", "SetFirst"}
      [] k \in {"Update", "Import"} -> IF c = "List" THEN {"Import"} ELSE {}
      [] k = "Select"        -> IF c = "Groups" THEN {"Memorize"} ELSE {}

(* Past its first call, a flow of these kinds has done what it promises.   *)
Fulfilled(k, c) ==
    \/ k = "Switch" /\ c \in {"Status", "StartCore", "Get", "Put"}
    \/ k = "RemoveCurrent" /\ c \in {"First", "SetFirst"}

(* What the proofs need of a rule r of a flow that is on its path.         *)
GoodRule(r) ==
    /\ r[4] # "done" =>
         /\ r[4] \in Path(r[1])
         /\ Behind(r[1], r[2]) \union ({r[2]} \intersect CHANGES)
              \subseteq Behind(r[1], r[4])
    /\ r[5] = "ok" \/ Fulfilled(r[1], r[4]) =>
         \/ r[3] = "ok" /\ r[2] = Promise(r[1]) /\ r[2] \in CHANGES
         \/ Fulfilled(r[1], r[2])
    /\ r[4] \notin {"-", "idle"}

-----------------------------------------------------------------------------
(* The table of the rules.                                                 *)

LEMMA PlainKinds ==
    DOMAIN PLAIN = {"Rename", "Move", "StartCore", "StopCore", "RestartCore",
                    "CleanupTun", "Setting", "TunOn", "TunOff", "TunForce",
                    "BackupCreate", "BackupDelete", "BackupRestore"}
BY DEF PLAIN

LEMMA PlainEnds ==
    \A k \in DOMAIN PLAIN :
       PLAIN[k] = IF k \in {"Rename", "Move", "BackupRestore"} THEN "List"
                  ELSE IF k \in {"StartCore", "StopCore", "RestartCore",
                                 "CleanupTun"} THEN "Status"
                  ELSE IF k \in {"BackupCreate", "BackupDelete"}
                       THEN "Backups"
                  ELSE "Settings"
BY DEF PLAIN

LEMMA PlainRulesGood == \A r \in PlainRules : GoodRule(r)
<1>1. ASSUME NEW k \in DOMAIN PLAIN, NEW a, NEW said,
             NEW r, r = <<k, k, a, PLAIN[k], said>>,
             said = "ok" => a = "ok"
      PROVE  GoodRule(r)
  <2>1. r[1] = k /\ r[2] = k /\ r[3] = a /\ r[4] = PLAIN[k] /\ r[5] = said
    BY <1>1
  <2>2. PLAIN[k] # k /\ PLAIN[k] \notin {"-", "idle"}
    BY PlainKinds, PlainEnds
  <2>3. PLAIN[k] \in Path(k) /\ Behind(k, k) = {} /\ Behind(k, PLAIN[k]) = {k}
    <3>1. PLAIN[k] \in Path(k)
      BY PlainKinds DEF Path
    <3>2. Behind(k, k) = {}
      BY PlainKinds DEF Behind
    <3>3. Behind(k, PLAIN[k]) = {k}
      BY <2>2, PlainKinds DEF Behind
    <3>. QED  BY <3>1, <3>2, <3>3
  <2>4. ~Fulfilled(k, PLAIN[k]) /\ Promise(k) = k /\ k \in CHANGES
    BY PlainKinds DEF Fulfilled, Promise, CHANGES
  <2>. QED  BY <1>1, <2>1, <2>2, <2>3, <2>4 DEF GoodRule
<1>2. "TunOn" \in DOMAIN PLAIN /\ PLAIN["TunOn"] = "Settings"
  BY DEF PLAIN
<1>3. ASSUME NEW r \in PlainRules
      PROVE  \E k \in DOMAIN PLAIN : \E a, said :
                /\ r = <<k, k, a, PLAIN[k], said>>
                /\ said = "ok" => a = "ok"
  BY <1>2 DEF PlainRules
<1>. QED
  BY <1>1, <1>3

LEMMA SwitchRulesGood == \A r \in SwitchRules : GoodRule(r)
<1>1. "Switch" \notin DOMAIN PLAIN
  BY PlainKinds
<1>2. CHANGES \intersect {"Status", "Get", "Put", "List"} = {}
      /\ "SetCurrent" \in CHANGES
  BY PlainKinds DEF CHANGES
<1>3. Path("Switch") = {"SetCurrent", "Status", "StartCore", "Get", "Put",
                        "List"}
  BY <1>1 DEF Path
<1>4. /\ Behind("Switch", "SetCurrent") = {}
      /\ \A c \in {"Status", "StartCore"} :
            Behind("Switch", c) = {"SetCurrent"}
      /\ \A c \in {"Get", "Put", "List"} :
            Behind("Switch", c) = {"SetCurrent", "StartCore"}
  BY <1>1 DEF Behind
<1>5. Promise("Switch") = "SetCurrent"
  BY DEF Promise
<1>. QED
  BY <1>2, <1>3, <1>4, <1>5 DEF SwitchRules, GoodRule, Fulfilled

LEMMA RemoveRulesGood == \A r \in RemoveRules : GoodRule(r)
<1>1. "Remove" \notin DOMAIN PLAIN /\ "RemoveCurrent" \notin DOMAIN PLAIN
  BY PlainKinds
<1>2. CHANGES \intersect {"First", "List"} = {} /\ "Remove" \in CHANGES
  BY PlainKinds DEF CHANGES
<1>3. /\ Path("Remove") = {"Remove", "List"}
      /\ Path("RemoveCurrent") = {"Remove", "First", "SetFirst", "List"}
  BY <1>1 DEF Path
<1>4. /\ \A k \in {"Remove", "RemoveCurrent"} : Behind(k, "Remove") = {}
      /\ Behind("Remove", "List") = {"Remove"}
      /\ \A c \in {"First", "SetFirst"} :
            Behind("RemoveCurrent", c) = {"Remove"}
      /\ Behind("RemoveCurrent", "List") = {"Remove", "SetFirst"}
  BY <1>1 DEF Behind
<1>5. Promise("Remove") = "Remove" /\ Promise("RemoveCurrent") = "Remove"
  BY DEF Promise
<1>. QED
  BY <1>2, <1>3, <1>4, <1>5 DEF RemoveRules, GoodRule, Fulfilled

LEMMA UpdateRulesGood == \A r \in UpdateRules : GoodRule(r)
<1>1. "Update" \notin DOMAIN PLAIN /\ "Import" \notin DOMAIN PLAIN
  BY PlainKinds
<1>2. CHANGES \intersect {"Get", "Download", "List"} = {}
      /\ "Import" \in CHANGES
  BY PlainKinds DEF CHANGES
<1>3. /\ Path("Update") = {"Get", "Download", "Import", "List"}
      /\ Path("Import") = {"Download", "Import", "List"}
  BY <1>1 DEF Path
<1>4. \A k \in {"Update", "Import"} :
        /\ \A c \in {"Get", "Download", "Import"} : Behind(k, c) = {}
        /\ Behind(k, "List") = {"Import"}
  BY <1>1 DEF Behind
<1>5. Promise("Update") = "Import" /\ Promise("Import") = "Import"
  BY DEF Promise
<1>. QED
  BY <1>2, <1>3, <1>4, <1>5 DEF UpdateRules, DOWNLOADING, GoodRule, Fulfilled

LEMMA SelectRulesGood == \A r \in SelectRules : GoodRule(r)
<1>1. "Select" \notin DOMAIN PLAIN
  BY PlainKinds
<1>2. CHANGES \intersect {"Put", "Groups"} = {}
  BY PlainKinds DEF CHANGES
<1>3. Path("Select") = {"Put", "Memorize", "Groups"}
  BY <1>1 DEF Path
<1>4. /\ \A c \in {"Put", "Memorize"} : Behind("Select", c) = {}
      /\ Behind("Select", "Groups") = {"Memorize"}
  BY <1>1 DEF Behind
<1>. QED
  BY <1>2, <1>3, <1>4 DEF SelectRules, GoodRule, Fulfilled

LEMMA EndRulesGood ==
    \A r \in EndRules : GoodRule(r)
<1> DEFINE Onward(r) ==
             \/ r[1] \in TUN /\ r[2] = "Settings" /\ r[4] = "Status"
             \/ r[1] = "BackupRestore" /\ r[2] = "List" /\ r[4] = "Backups"
           Last(r) == (r[4] = "done" \/ Onward(r)) /\ r[5] # "ok"
<1>1. \A r \in EndRules : Last(r)
  <2>1. ASSUME NEW k \in LISTED, NEW a \in {"some", "none", "err"}
        PROVE  Last(<<k, "List", a,
                      IF k = "BackupRestore" THEN "Backups" ELSE "done",
                      IF a = "err" THEN "error" ELSE "-">>)
    OBVIOUS
  <2>2. ASSUME NEW k \in TUN \union {"Setting"}, NEW a \in {"ok", "err"}
        PROVE  Last(<<k, "Settings", a,
                      IF k \in TUN THEN "Status" ELSE "done", "-">>)
    OBVIOUS
  <2>3. ASSUME NEW k, NEW c, NEW a
        PROVE  Last(<<k, c, a, "done", "-">>)
    OBVIOUS
  <2> HIDE DEF Last
  <2> SUFFICES ASSUME NEW r \in EndRules PROVE Last(r)
    OBVIOUS
  <2>4. CASE \E k \in LISTED, a \in {"some", "none", "err"} :
               r = <<k, "List", a,
                     IF k = "BackupRestore" THEN "Backups" ELSE "done",
                     IF a = "err" THEN "error" ELSE "-">>
    BY <2>1, <2>4
  <2>5. CASE \E k \in TUN \union {"Setting"}, a \in {"ok", "err"} :
               r = <<k, "Settings", a,
                     IF k \in TUN THEN "Status" ELSE "done", "-">>
    BY <2>2, <2>5
  <2>6. CASE \E k, c, a : r = <<k, c, a, "done", "-">>
    BY <2>3, <2>6
  <2>. QED  BY <2>4, <2>5, <2>6 DEF EndRules
<1>2. \A k \in TUN : /\ k \in DOMAIN PLAIN /\ "Status" \in Path(k)
                     /\ ~Fulfilled(k, "Status")
                     /\ k \notin {"Settings", "Status"}
  BY PlainKinds DEF TUN, Path, Fulfilled
<1>3. "Settings" \notin CHANGES /\ "List" \notin CHANGES
  BY PlainKinds DEF CHANGES
<1>4. \A k \in TUN :
        /\ Behind(k, "Settings") = {k} /\ Behind(k, "Status") = {k}
  <2> SUFFICES ASSUME NEW k \in TUN
               PROVE  Behind(k, "Settings") = {k}
                        /\ Behind(k, "Status") = {k}
    OBVIOUS
  <2>. QED  BY <1>2, PlainKinds DEF Behind
<1>5. \A k : ~Fulfilled(k, "done")
  BY DEF Fulfilled
<1>6. /\ "Backups" \in Path("BackupRestore")
      /\ Behind("BackupRestore", "List") = {"BackupRestore"}
      /\ Behind("BackupRestore", "Backups") = {"BackupRestore"}
      /\ ~Fulfilled("BackupRestore", "Backups")
  <2>1. "BackupRestore" \in DOMAIN PLAIN
    BY PlainKinds
  <2>2. "Backups" \in Path("BackupRestore")
    BY <2>1 DEF Path
  <2>3. /\ Behind("BackupRestore", "List") = {"BackupRestore"}
        /\ Behind("BackupRestore", "Backups") = {"BackupRestore"}
    BY <2>1 DEF Behind
  <2>. QED  BY <2>2, <2>3 DEF Fulfilled
<1> HIDE DEF Last, Onward
<1>7. ASSUME NEW r \in EndRules PROVE GoodRule(r)
  <2>1. Last(r)
    BY <1>1
  <2>2. CASE r[4] = "done"
    BY <1>5, <2>1, <2>2 DEF GoodRule, Last
  <2>3. CASE r[1] \in TUN /\ r[2] = "Settings" /\ r[4] = "Status"
    BY <1>2, <1>3, <1>4, <2>1, <2>3 DEF GoodRule, Last
  <2>4. CASE r[1] = "BackupRestore" /\ r[2] = "List" /\ r[4] = "Backups"
    BY <1>3, <1>6, <2>1, <2>4 DEF GoodRule, Last
  <2>. QED  BY <2>1, <2>2, <2>3, <2>4 DEF Last, Onward
<1>. QED
  BY <1>7

LEMMA RulesGood == \A r \in Rules : GoodRule(r)
BY PlainRulesGood, SwitchRulesGood, RemoveRulesGood, UpdateRulesGood,
   SelectRulesGood, EndRulesGood DEF Rules

\* A flow on its path finds its rules.
LEMMA PathHasRules ==
    ASSUME NEW k \in Kinds, NEW c \in Path(k)
    PROVE  \E r \in Rules : r[1] = k /\ r[2] = c
<1> USE DEF Rules
<1>1. CASE k \in DOMAIN PLAIN
  <2>1. \/ c = k \/ c = PLAIN[k] \/ (k \in TUN /\ c = "Status")
        \/ k = "BackupRestore" /\ c = "Backups"
    BY <1>1, PlainKinds DEF Path
  <2>2. CASE c = k
    <3> DEFINE r == <<k, k, "err", PLAIN[k], "error">>
    <3>1. r \in PlainRules /\ r[1] = k /\ r[2] = k
      BY <1>1 DEF PlainRules
    <3>. QED  BY <2>2, <3>1
  <2>3. CASE c = "Status"
    <3> DEFINE r == <<k, "Status", "err", "done", "-">>
    <3>1. r \in EndRules /\ r[1] = k /\ r[2] = "Status"
      BY <1>1 DEF EndRules, LISTED
    <3>. QED  BY <2>3, <3>1
  <2>4. CASE c = PLAIN[k] /\ k \in {"Rename", "Move", "BackupRestore"}
    <3> DEFINE r == <<k, "List", "err",
                      IF k = "BackupRestore" THEN "Backups" ELSE "done",
                      "error">>
    <3>1. r \in EndRules /\ r[1] = k /\ r[2] = "List"
      <4>1. k \in LISTED
        BY <2>4 DEF LISTED
      <4>. QED  BY <4>1 DEF EndRules
    <3>. QED  BY <1>1, <2>4, <3>1, PlainEnds
  <2>5. CASE c = PLAIN[k] /\ k \in TUN \union {"Setting"}
    <3> DEFINE r == <<k, "Settings", "err",
                      IF k \in TUN THEN "Status" ELSE "done", "-">>
    <3>1. r \in EndRules /\ r[1] = k /\ r[2] = "Settings"
      BY <2>5 DEF EndRules
    <3>2. PLAIN[k] = "Settings"
      BY <1>1, <2>5, PlainEnds DEF TUN
    <3>. QED  BY <2>5, <3>1, <3>2
  <2>6. CASE /\ c = "Backups"
             /\ k \in {"BackupCreate", "BackupDelete", "BackupRestore"}
    <3> DEFINE r == <<k, "Backups", "err", "done", "-">>
    <3>1. r \in EndRules /\ r[1] = k /\ r[2] = "Backups"
      BY <2>6 DEF EndRules
    <3>. QED  BY <2>6, <3>1
  <2>8. CASE c = PLAIN[k] /\ k \in {"BackupCreate", "BackupDelete"}
    BY <1>1, <2>6, <2>8, PlainEnds
  <2>7. CASE c = PLAIN[k] /\ k \in {"StartCore", "StopCore", "RestartCore",
                                    "CleanupTun"}
    BY <1>1, <2>3, <2>7, PlainEnds
  <2>. QED
    BY <1>1, <2>1, <2>2, <2>3, <2>4, <2>5, <2>6, <2>7, <2>8, PlainKinds
       DEF TUN
<1>2. CASE k = "Switch"
  <2>1. c \in {"SetCurrent", "Status", "StartCore", "Get", "Put", "List"}
    BY <1>2, PlainKinds DEF Path
  <2>2. \A x \in {"SetCurrent", "Status", "StartCore", "Get", "Put"} :
           \E r \in SwitchRules : r[1] = "Switch" /\ r[2] = x
    BY DEF SwitchRules
  <2>3. \E r \in EndRules : r[1] = "Switch" /\ r[2] = "List"
    <3> DEFINE r == <<"Switch", "List", "err", "done", "error">>
    <3>1. r \in EndRules /\ r[1] = "Switch" /\ r[2] = "List"
      BY DEF EndRules, LISTED
    <3>. QED  BY <3>1
  <2>. QED  BY <1>2, <2>1, <2>2, <2>3
<1>3. ASSUME k \in {"Remove", "RemoveCurrent", "Update", "Import"},
             c = "List"
      PROVE  \E r \in EndRules : r[1] = k /\ r[2] = c
  <2> DEFINE r == <<k, "List", "err", "done", "error">>
  <2>1. r \in EndRules /\ r[1] = k /\ r[2] = "List"
    BY <1>3 DEF EndRules, LISTED, DOWNLOADING
  <2>. QED  BY <1>3, <2>1
<1>4. CASE k \in {"Remove", "RemoveCurrent"}
  <2>1. \/ c = "List" \/ c = "Remove"
        \/ k = "RemoveCurrent" /\ c \in {"First", "SetFirst"}
    BY <1>4, PlainKinds DEF Path
  <2>2. c # "List" => \E r \in RemoveRules : r[1] = k /\ r[2] = c
    BY <1>4, <2>1 DEF RemoveRules
  <2>. QED  BY <1>3, <1>4, <2>2
<1>5. CASE k \in {"Update", "Import"}
  <2>1. \/ c \in {"Download", "Import", "List"}
        \/ k = "Update" /\ c = "Get"
    BY <1>5, PlainKinds DEF Path
  <2>2. ASSUME c # "List" PROVE \E r \in UpdateRules : r[1] = k /\ r[2] = c
    <3>1. CASE c = "Get"
      <4> DEFINE r == <<"Update", "Get", "err", "List", "error">>
      <4>1. r \in UpdateRules /\ r[1] = "Update" /\ r[2] = "Get"
        BY DEF UpdateRules
      <4>. QED  BY <2>1, <3>1, <4>1
    <3>2. CASE c \in {"Download", "Import"}
      <4> DEFINE r == <<k, c, "err", "List", "error">>
      <4>1. r \in UpdateRules /\ r[1] = k /\ r[2] = c
        BY <1>5, <3>2 DEF UpdateRules, DOWNLOADING
      <4>. QED  BY <4>1
    <3>. QED  BY <2>1, <2>2, <3>1, <3>2
  <2>. QED  BY <1>3, <1>5, <2>2
<1>6. CASE k = "Select"
  <2>1. c \in {"Put", "Memorize", "Groups"}
    BY <1>6, PlainKinds DEF Path
  <2>2. \E r \in SelectRules : r[1] = "Select" /\ r[2] = c
    <3>1. <<"Select", "Put", "err", "done", "error">> \in SelectRules
      BY DEF SelectRules
    <3>2. \A x \in {<<"Memorize", "Groups">>, <<"Groups", "done">>} :
             <<"Select", x[1], "err", x[2], "-">> \in SelectRules
      BY DEF SelectRules
    <3>3. /\ <<"Select", "Memorize", "err", "Groups", "-">> \in SelectRules
          /\ <<"Select", "Groups", "err", "done", "-">> \in SelectRules
      BY <3>2
    <3>. QED  BY <2>1, <3>1, <3>3
  <2>. QED  BY <1>6, <2>2
<1>. QED
  BY <1>1, <1>2, <1>4, <1>5, <1>6 DEF Kinds

LEMMA RulesAtPath ==
    ASSUME NEW k \in Kinds, NEW c \in Path(k), NEW r \in RulesAt[k][c]
    PROVE  r \in Rules /\ r[1] = k /\ r[2] = c
<1>1. k \in {x[1] : x \in Rules}
  BY PathHasRules
<1>2. c \in {x[2] : x \in {y \in Rules : y[1] = k}}
  BY PathHasRules
<1>. QED
  BY <1>1, <1>2 DEF RulesAt

-----------------------------------------------------------------------------
(* The invariant.                                                          *)

Active(s) == flows[s].kind \in Kinds /\ flows[s].call \in Path(flows[s].kind)

\* The helper was asked for m by the flow in slot s, or still is.
Marked(s, m) == \/ <<s, m>> \in performed
                \/ \E q \in late : q[1] = s /\ q[2] = m

(* Every slot holds a flow, and a flow that runs is on its path.           *)
Shape ==
    /\ flows = [s \in Slots |-> flows[s]]
    /\ \A s \in Slots :
         flows[s] = [kind |-> flows[s].kind, of |-> flows[s].of,
                     call |-> flows[s].call, reply |-> flows[s].reply,
                     said |-> flows[s].said]

OnPath == \A s \in Slots : flows[s] = Idle \/ flows[s] = Done \/ Active(s)

(* An answer of success means a change, and so does a later call.          *)
Kept ==
    \A s \in Slots :
       /\ /\ flows[s].reply.answer = "ok" /\ flows[s].call \in CHANGES
          => <<s, flows[s].call>> \in performed
       /\ Fulfilled(flows[s].kind, flows[s].call)
            => <<s, Promise(flows[s].kind)>> \in performed

(* What was asked for a running flow is behind it, or its present call.    *)
Once ==
    \A s \in Slots : \A m \in CHANGES : Marked(s, m) =>
       /\ flows[s] # Idle
       /\ flows[s] # Done =>
            \/ m \in Behind(flows[s].kind, flows[s].call)
            \/ Replied(s) /\ m = flows[s].call

IInv == Shape /\ OnPath /\ Kept /\ ToldIsTrue /\ Once

(* A request past its check is one the helper still works on, and another   *)
(* TUN that is up by now has come up since.                                 *)
Working == \A q \in checked :
              /\ q[2] = "TunOn"
              /\ q \in late \/ \E s \in Slots : Waits(s) /\ q = Request(s)
Seen    == checked # {} /\ others => came

LEMMA IdleFields ==
    /\ Idle.kind = "-" /\ Idle.call = "idle" /\ Idle.said = "-"
    /\ Done.kind = "-" /\ Done.call = "done" /\ Done.said = "-"
    /\ Idle.reply = NoReply /\ Done.reply = NoReply
    /\ Idle = [kind |-> "-", of |-> NOBODY, call |-> "idle",
               reply |-> NoReply, said |-> "-"]
    /\ Done = [kind |-> "-", of |-> NOBODY, call |-> "done",
               reply |-> NoReply, said |-> "-"]
BY DEF Idle, Done

LEMMA OkFields ==
    /\ \A a : Ok(a).answer = a
    /\ \A a : a # "-" => Ok(a) # NoReply
    /\ NoReply.answer = "-"
    /\ Listed.answer \in {"none", "some"} /\ Listed # NoReply
<1>1. \A a : Ok(a) = [answer |-> a, list |-> NoReply.list]
  BY DEF Ok, NoReply
<1>2. NoReply.answer = "-"
  BY DEF NoReply
<1>3. Listed.answer \in {"none", "some"}
  BY DEF Listed
<1>. QED
  BY <1>1, <1>2, <1>3

LEMMA ChangesAreCalls == CHANGES \intersect {"-", "idle", "done"} = {}
BY PlainKinds DEF CHANGES

LEMMA PathIsRunning ==
    ASSUME NEW k \in Kinds
    PROVE  k # "-" /\ Path(k) \intersect {"idle", "done"} = {}
<1>1. CASE k \in DOMAIN PLAIN
  <2>1. Path(k) \subseteq {k, PLAIN[k], "Status", "Backups"}
    BY <1>1, PlainKinds DEF Path
  <2>2. /\ PLAIN[k] \notin {"idle", "done"}
        /\ k \notin {"-", "idle", "done"}
    BY <1>1, PlainKinds, PlainEnds
  <2>. QED  BY <2>1, <2>2
<1>2. CASE k \in {"Switch", "Remove", "RemoveCurrent"}
  BY <1>2, PlainKinds DEF Path
<1>3. CASE k \in {"Update", "Import", "Select"}
  BY <1>3, PlainKinds DEF Path
<1>. QED
  BY <1>1, <1>2, <1>3 DEF Kinds

LEMMA InitIInv == Init => IInv
<1> SUFFICES ASSUME Init PROVE IInv
  OBVIOUS
<1>1. \A s \in Slots : flows[s] = Idle
  BY DEF Init
<1>2. Shape
  BY <1>1, IdleFields DEF Init, Shape
<1>3. OnPath /\ ToldIsTrue
  BY <1>1, IdleFields DEF OnPath, ToldIsTrue
<1>4. Kept
  BY <1>1, IdleFields, OkFields DEF Kept, Fulfilled
<1>5. Once
  BY DEF Init, Once, Marked
<1>. QED
  BY <1>2, <1>3, <1>4, <1>5 DEF IInv

-----------------------------------------------------------------------------
(* The steps.                                                              *)

\* A flow that goes on, and one that starts, field by field.
LEMMA FlowGoesOn ==
    ASSUME NEW f, NEW c, NEW r, NEW o, NEW w, NEW g,
           f = [kind |-> f.kind, of |-> f.of, call |-> f.call,
                reply |-> f.reply, said |-> f.said],
           g = [f EXCEPT !.call = c, !.reply = r, !.of = o, !.said = w]
    PROVE  g = [kind |-> f.kind, of |-> o, call |-> c, reply |-> r,
                said |-> w]
<1>1. DOMAIN f = {"kind", "of", "call", "reply", "said"}
  OBVIOUS
<1>2. DOMAIN g = {"kind", "of", "call", "reply", "said"}
  BY <1>1
<1>3. g["kind"] = f["kind"]
  BY <1>1
<1>4. g["call"] = c /\ g["reply"] = r
  BY <1>1
<1>5. g["of"] = o /\ g["said"] = w
  BY <1>1
<1>6. g = [x \in DOMAIN g |-> g[x]]
  OBVIOUS
<1>. QED
  BY ONLY <1>2, <1>3, <1>4, <1>5, <1>6

LEMMA FlowStarts ==
    ASSUME NEW f, NEW k, NEW o, NEW c, NEW g,
           f = [kind |-> f.kind, of |-> f.of, call |-> f.call,
                reply |-> f.reply, said |-> f.said],
           g = [f EXCEPT !.kind = k, !.of = o, !.call = c]
    PROVE  g = [kind |-> k, of |-> o, call |-> c, reply |-> f.reply,
                said |-> f.said]
<1>1. DOMAIN f = {"kind", "of", "call", "reply", "said"}
  OBVIOUS
<1>2. DOMAIN g = {"kind", "of", "call", "reply", "said"}
  BY <1>1
<1>3. g["kind"] = k /\ g["of"] = o
  BY <1>1
<1>4. g["call"] = c /\ g["reply"] = f["reply"] /\ g["said"] = f["said"]
  BY <1>1
<1>5. g = [x \in DOMAIN g |-> g[x]]
  OBVIOUS
<1>. QED
  BY ONLY <1>2, <1>3, <1>4, <1>5

\* A flow in a slot is replaced by another.
LEMMA SlotChanges ==
    ASSUME Shape, NEW s \in Slots, NEW g, flows' = [flows EXCEPT ![s] = g],
           g = [kind |-> g.kind, of |-> g.of, call |-> g.call,
                reply |-> g.reply, said |-> g.said]
    PROVE  Shape' /\ flows'[s] = g /\ \A t \in Slots \ {s} :
                                        flows'[t] = flows[t]
<1>1. flows'[s] = g /\ \A t \in Slots \ {s} : flows'[t] = flows[t]
  BY DEF Shape
<1>2. flows' = [t \in Slots |-> flows'[t]]
  BY DEF Shape
<1>. QED
  BY <1>1, <1>2 DEF Shape

\* A flow gets an answer, whoever sends it.
LEMMA AnswerStep ==
    ASSUME IInv, NEW s \in Slots, NEW r, r # NoReply,
           flows[s].call \notin {"idle", "done"},
           flows' = [flows EXCEPT ![s].reply = r],
           performed \subseteq performed',
           performed' \subseteq performed \union {<<s, flows[s].call>>},
           r.answer = "ok" /\ flows[s].call \in CHANGES
             => <<s, flows[s].call>> \in performed',
           \A q \in late' : q \in late \/ (q[1] = s /\ q[2] = flows[s].call)
    PROVE  IInv'
<1> DEFINE f == flows[s]
           g == [kind |-> f.kind, of |-> f.of, call |-> f.call,
                 reply |-> r, said |-> f.said]
<1>1. flows' = [flows EXCEPT ![s] = g]
  <2>1. f = [kind |-> f.kind, of |-> f.of, call |-> f.call,
             reply |-> f.reply, said |-> f.said]
    BY DEF IInv, Shape
  <2>2. [f EXCEPT !.reply = r] = g
    BY <2>1
  <2>. QED  BY <2>2
<1>2. /\ g.kind = f.kind /\ g.call = f.call /\ g.said = f.said
      /\ g.reply = r
      /\ g = [kind |-> g.kind, of |-> g.of, call |-> g.call,
              reply |-> g.reply, said |-> g.said]
  OBVIOUS
<1> HIDE DEF g
<1>3. Shape' /\ flows'[s] = g /\ \A t \in Slots \ {s} :
                                    flows'[t] = flows[t]
  BY <1>1, <1>2, SlotChanges DEF IInv
<1>4. Active(s) /\ f # Idle /\ f # Done
  BY IdleFields DEF IInv, OnPath
<1>5. g # Idle /\ g # Done
  BY <1>2, IdleFields
<1>6. OnPath'
  BY <1>2, <1>3, <1>4 DEF IInv, OnPath, Active
<1>7. Kept'
  BY <1>2, <1>3 DEF IInv, Kept
<1>8. ToldIsTrue'
  BY <1>2, <1>3 DEF IInv, ToldIsTrue
<1>9. Once'
  <2> SUFFICES ASSUME NEW t \in Slots, NEW m \in CHANGES, Marked(t, m)'
               PROVE  /\ flows'[t] # Idle
                      /\ flows'[t] # Done =>
                           \/ m \in Behind(flows'[t].kind, flows'[t].call)
                           \/ Replied(t)' /\ m = flows'[t].call
    BY DEF Once
  <2>1. Marked(t, m) \/ (t = s /\ m = f.call)
    BY DEF Marked
  <2>2. CASE t # s
    <3>1. flows'[t] = flows[t] /\ Marked(t, m)
      BY <1>3, <2>1, <2>2
    <3>. QED  BY <3>1 DEF IInv, Once, Replied
  <2>3. CASE t = s
    <3>1. Replied(t)'
      BY <1>2, <1>3, <2>3 DEF Replied
    <3>2. m \in Behind(f.kind, f.call) \/ m = f.call
      BY <1>4, <2>1, <2>3 DEF IInv, Once
    <3>. QED  BY <1>2, <1>3, <1>5, <2>3, <3>1, <3>2
  <2>. QED  BY <2>2, <2>3
<1>. QED
  BY <1>3, <1>6, <1>7, <1>8, <1>9 DEF IInv

\* The steps that leave the flows and what was asked for alone.
LEMMA IdleStep ==
    ASSUME IInv, UNCHANGED <<flows, late, performed>> PROVE IInv'
<1>1. Shape' /\ OnPath'
  BY DEF IInv, Shape, OnPath, Active
<1>2. Kept' /\ ToldIsTrue'
  BY DEF IInv, Kept, ToldIsTrue
<1>3. Once'
  BY DEF IInv, Once, Marked, Replied
<1>. QED
  BY <1>1, <1>2, <1>3 DEF IInv

LEMMA ServeStep ==
    ASSUME IInv, NEW s \in Slots, Serve(s) PROVE IInv'
<1>1. PICK r \in {Listed} \union {Ok(a) : a \in {"ok", "err", "up", "down",
                                                "conflict", "partial"}} :
         /\ flows' = [flows EXCEPT ![s].reply = r]
         /\ Marks(s, flows[s].call, r)
  BY DEF Serve
<1>2. r # NoReply
  BY OkFields
<1>3. flows[s].call \notin {"idle", "done"} /\ late' = late
  BY DEF Serve, Waits
<1>4. /\ performed \subseteq performed'
      /\ performed' \subseteq performed \union {<<s, flows[s].call>>}
      /\ r.answer = "ok" /\ flows[s].call \in CHANGES
           => <<s, flows[s].call>> \in performed'
  BY <1>1, <1>3 DEF Marks
<1>. QED
  BY <1>1, <1>2, <1>3, <1>4, AnswerStep

LEMMA RefuseStep ==
    ASSUME IInv, NEW s \in Slots, Refuse(s) PROVE IInv'
BY AnswerStep, OkFields DEF Refuse, Waits

LEMMA GiveUpStep ==
    ASSUME IInv, NEW s \in Slots, GiveUp(s) PROVE IInv'
<1>1. Ok("err") # NoReply /\ Ok("err").answer # "ok"
  BY OkFields
<1>2. \A q \in late' : q \in late \/ (q[1] = s /\ q[2] = flows[s].call)
  BY DEF GiveUp, Request
<1>. QED
  BY <1>1, <1>2, AnswerStep DEF GiveUp

LEMMA OutsideStep ==
    ASSUME IInv, NEW s \in Slots, Download(s) \/ CoreAnswers(s) PROVE IInv'
<1>1. PICK a \in {"ok", "err"} : flows' = [flows EXCEPT ![s].reply = Ok(a)]
  BY DEF Download, CoreAnswers
<1>2. /\ flows[s].call \notin CHANGES \union {"idle", "done"}
      /\ UNCHANGED <<late, performed>>
  BY PlainKinds DEF Download, CoreAnswers, Waits, CHANGES, TO_CORE
<1>. QED
  BY <1>1, <1>2, AnswerStep, OkFields

\* A request that nobody waits for any more is served, or dropped.
LEMMA LateStep ==
    ASSUME IInv, NEW q \in late, late' = late \ {q}, flows' = flows,
           performed \subseteq performed',
           performed' \subseteq performed \union {<<q[1], q[2]>>}
    PROVE  IInv'
<1>1. Shape' /\ OnPath'
  BY DEF IInv, Shape, OnPath, Active
<1>2. Kept' /\ ToldIsTrue'
  BY DEF IInv, Kept, ToldIsTrue
<1>3. ASSUME NEW s \in Slots, NEW m \in CHANGES, Marked(s, m)'
      PROVE  Marked(s, m)
  BY <1>3 DEF Marked
<1>4. Once'
  BY <1>3 DEF IInv, Once, Replied
<1>. QED
  BY <1>1, <1>2, <1>4 DEF IInv

LEMMA ServeLateStep ==
    ASSUME IInv, ServeLate PROVE IInv'
<1>1. PICK q \in late :
         /\ late' = late \ {q} /\ flows' = flows
         /\ performed \subseteq performed'
         /\ performed' \subseteq performed \union {<<q[1], q[2]>>}
  BY DEF ServeLate, Marks
<1>. QED
  BY <1>1, LateStep

\* The two steps of a request to turn TUN on.
LEMMA PrecheckLateStep ==
    ASSUME IInv, NEW q \in late, Precheck(q) PROVE IInv'
<1>1. CASE others
  BY <1>1, LateStep DEF Precheck, Answer
<1>2. CASE ~others
  BY <1>2, IdleStep DEF Precheck
<1>. QED
  BY <1>1, <1>2

LEMMA PrecheckStep ==
    ASSUME IInv, NEW s \in Slots, Waits(s), Precheck(Request(s)) PROVE IInv'
<1>1. CASE Request(s) \in late
  BY <1>1, PrecheckLateStep
<1>2. CASE Request(s) \notin late /\ others
  <2>1. /\ flows' = [flows EXCEPT ![s].reply = Ok("conflict")]
        /\ UNCHANGED <<late, performed>>
    BY <1>2 DEF Precheck, Answer, Request
  <2>2. flows[s].call \notin {"idle", "done"}
    BY DEF Waits
  <2>. QED  BY <2>1, <2>2, AnswerStep, OkFields
<1>3. CASE ~others
  BY <1>3, IdleStep DEF Precheck
<1>. QED
  BY <1>1, <1>2, <1>3

LEMMA TurnOnStep ==
    ASSUME IInv, Working, NEW q \in checked, TurnOn(q) PROVE IInv'
<1>1. CASE q \in late
  <2>1. /\ late' = late \ {q} /\ flows' = flows
        /\ performed \subseteq performed'
        /\ performed' \subseteq performed \union {<<q[1], q[2]>>}
    BY <1>1 DEF TurnOn, Answer, Marks
  <2>. QED  BY <1>1, <2>1, LateStep
<1>2. CASE q \notin late
  <2>1. PICK s \in Slots : Waits(s) /\ q = Request(s)
    BY <1>2 DEF Working
  <2>2. q[1] = s /\ q[2] = flows[s].call
    BY <2>1 DEF Request
  <2>3. flows' = [flows EXCEPT ![s].reply = Ok("ok")] /\ late' = late
    BY <1>2, <2>2 DEF TurnOn, Answer
  <2>4. flows[s].call \notin {"idle", "done"}
    BY <2>1 DEF Waits
  <2>5. Marks(s, flows[s].call, Ok("ok"))
    BY <2>2 DEF TurnOn
  <2>6. /\ performed \subseteq performed'
        /\ performed' \subseteq performed \union {<<s, flows[s].call>>}
        /\ flows[s].call \in CHANGES => <<s, flows[s].call>> \in performed'
    BY <2>4, <2>5, OkFields DEF Marks
  <2>. QED  BY <2>3, <2>4, <2>6, AnswerStep, OkFields
<1>. QED
  BY <1>1, <1>2

\* A new flow starts in a slot that was never used.
LEMMA StartStep ==
    ASSUME IInv, NEW s \in Slots, NEW kind \in KINDS,
           NEW of \in UIDS \union {NOBODY}, Start(s, kind, of)
    PROVE  IInv'
<1> DEFINE k == IF kind = "Remove" /\ shown.current = of
                THEN "RemoveCurrent" ELSE kind
           g == [kind |-> k, of |-> of, call |-> FirstCall(kind),
                 reply |-> NoReply, said |-> "-"]
<1>1. flows' = [flows EXCEPT ![s] = g] /\ flows[s] = Idle
  <2>1. PICK h : h = [Idle EXCEPT !.kind = k, !.of = of,
                                 !.call = FirstCall(kind)]
    OBVIOUS
  <2>2. h = [kind |-> k, of |-> of, call |-> FirstCall(kind),
             reply |-> Idle.reply, said |-> Idle.said]
    BY ONLY <2>1, IdleFields, FlowStarts
  <2>3. h = g
    BY <2>2, IdleFields
  <2>. QED  BY <2>1, <2>3 DEF Start, Free
<1>2. UNCHANGED <<late, performed>>
  BY DEF Start
<1>3. kind \in DOMAIN PLAIN
               \union {"Switch", "Remove", "Update", "Import", "Select"}
  BY ClientAssumption
<1>4. k \in Kinds /\ FirstCall(kind) \in Path(k)
  <2>1. CASE kind \in DOMAIN PLAIN
    <3>1. k = kind /\ FirstCall(kind) = kind
      BY <2>1, PlainKinds DEF FirstCall
    <3>2. kind \in Path(kind)
      BY <2>1, PlainKinds DEF Path
    <3>. QED  BY <2>1, <3>1, <3>2 DEF Kinds
  <2>2. CASE kind = "Remove"
    BY <2>2, PlainKinds DEF FirstCall, Path, Kinds
  <2>3. CASE kind \in {"Switch", "Update", "Import", "Select"}
    BY <2>3, PlainKinds DEF FirstCall, Path, Kinds
  <2>. QED  BY <1>3, <2>1, <2>2, <2>3
<1>5. ~Fulfilled(k, FirstCall(kind))
  BY DEF Fulfilled, FirstCall
<1>6. /\ g.kind = k /\ g.call = FirstCall(kind) /\ g.said = "-"
      /\ g.reply = NoReply
      /\ g = [kind |-> g.kind, of |-> g.of, call |-> g.call,
              reply |-> g.reply, said |-> g.said]
  OBVIOUS
<1> HIDE DEF g, k
<1>7. Shape' /\ flows'[s] = g /\ \A t \in Slots \ {s} :
                                    flows'[t] = flows[t]
  BY <1>1, <1>6, SlotChanges DEF IInv
<1>8. OnPath'
  BY <1>4, <1>6, <1>7 DEF IInv, OnPath, Active
<1>9. Kept'
  BY <1>2, <1>5, <1>6, <1>7, OkFields DEF IInv, Kept
<1>10. ToldIsTrue'
  BY <1>2, <1>6, <1>7 DEF IInv, ToldIsTrue
<1>11. Once'
  <2>1. \A m \in CHANGES : ~Marked(s, m)
    BY <1>1 DEF IInv, Once
  <2>2. \A t \in Slots, m \in CHANGES : Marked(t, m)' => Marked(t, m)
    BY <1>2 DEF Marked
  <2>. QED  BY <1>7, <2>1, <2>2 DEF IInv, Once, Replied
<1>. QED
  BY <1>7, <1>8, <1>9, <1>10, <1>11 DEF IInv

\* A flow goes on by one of its rules.
LEMMA TakeStep ==
    ASSUME IInv, NEW s \in Slots, Take(s) PROVE IInv'
<1> DEFINE f == flows[s]
<1>1. Active(s) /\ Replied(s) /\ f # Idle /\ f # Done
  BY IdleFields DEF Take, Replied, IInv, OnPath
<1>2. PICK r \in RulesAt[f.kind][f.call] :
         /\ r[3] = f.reply.answer
         /\ flows' = [flows EXCEPT ![s] =
                IF r[4] = "done" THEN Done
                ELSE [f EXCEPT
                        !.call  = r[4],
                        !.reply = NoReply,
                        !.of    = IF r[4] = "SetFirst"
                                  THEN Head(f.reply.list.items) ELSE @,
                        !.said  = IF r[5] = "-" THEN @ ELSE r[5]]]
         /\ performed' = IF r[4] = "done"
                         THEN {m \in performed : m[1] # s}
                         ELSE performed
  BY DEF Take
<1>3. late' = late
  BY DEF Take
<1>4. /\ r[1] = f.kind /\ r[2] = f.call /\ GoodRule(r)
  BY <1>1, <1>2, RulesAtPath, RulesGood DEF Active
<1>5. CASE r[4] = "done"
  <2>1. Shape' /\ flows'[s] = Done /\ \A t \in Slots \ {s} :
                                          flows'[t] = flows[t]
    BY <1>2, <1>5, SlotChanges, IdleFields DEF IInv
  <2>2. /\ performed' \subseteq performed
        /\ \A t \in Slots \ {s} : \A m :
              <<t, m>> \in performed => <<t, m>> \in performed'
    BY <1>2, <1>5
  <2>3. OnPath'
    BY <2>1 DEF IInv, OnPath, Active
  <2>4. Kept'
    BY <2>1, <2>2, IdleFields, OkFields DEF IInv, Kept, Fulfilled
  <2>5. ToldIsTrue'
    BY <2>1, <2>2, IdleFields DEF IInv, ToldIsTrue
  <2>6. Once'
    <3>1. \A t \in Slots, m \in CHANGES : Marked(t, m)' => Marked(t, m)
      BY <1>3, <2>2 DEF Marked
    <3>. QED  BY <2>1, <3>1, IdleFields DEF IInv, Once, Replied
  <2>. QED  BY <2>1, <2>3, <2>4, <2>5, <2>6 DEF IInv
<1>6. CASE r[4] # "done"
  <2> DEFINE of   == IF r[4] = "SetFirst" THEN Head(f.reply.list.items)
                     ELSE f.of
             said == IF r[5] = "-" THEN f.said ELSE r[5]
             g == [kind |-> f.kind, of |-> of, call |-> r[4],
                   reply |-> NoReply, said |-> said]
  <2>1. flows' = [flows EXCEPT ![s] = g]
    <3>1. f = [kind |-> f.kind, of |-> f.of, call |-> f.call,
               reply |-> f.reply, said |-> f.said]
      BY DEF IInv, Shape
    <3>2. PICK h : h = [f EXCEPT !.call = r[4], !.reply = NoReply,
                                 !.of = of, !.said = said]
      OBVIOUS
    <3>3. h = g
      BY ONLY <3>1, <3>2, FlowGoesOn
    <3>. QED  BY <1>2, <1>6, <3>2, <3>3
  <2>2. /\ g.kind = f.kind /\ g.call = r[4] /\ g.said = said
        /\ g.reply = NoReply
        /\ g = [kind |-> g.kind, of |-> g.of, call |-> g.call,
                reply |-> g.reply, said |-> g.said]
    OBVIOUS
  <2> HIDE DEF g, of
  <2>3. Shape' /\ flows'[s] = g /\ \A t \in Slots \ {s} :
                                      flows'[t] = flows[t]
    BY <2>1, <2>2, SlotChanges DEF IInv
  <2>4. UNCHANGED performed
    BY <1>2, <1>6
  <2>5. r[4] \in Path(f.kind) /\ f.kind \in Kinds
    BY <1>1, <1>4, <1>6 DEF GoodRule, Active
  <2>6. g # Idle /\ g # Done
    BY <2>2, <2>5, PathIsRunning, IdleFields
  <2>7. r[5] = "ok" \/ Fulfilled(f.kind, r[4])
          => <<s, Promise(f.kind)>> \in performed
    BY <1>2, <1>4 DEF GoodRule, IInv, Kept
  <2>8. OnPath'
    BY <2>2, <2>3, <2>5 DEF IInv, OnPath, Active
  <2>9. Kept'
    BY <2>2, <2>3, <2>4, <2>7, OkFields DEF IInv, Kept
  <2>10. ToldIsTrue'
    BY <2>2, <2>3, <2>4, <2>7 DEF IInv, ToldIsTrue
  <2>11. Once'
    <3> SUFFICES ASSUME NEW t \in Slots, NEW m \in CHANGES, Marked(t, m)
                 PROVE  /\ flows'[t] # Idle
                        /\ flows'[t] # Done =>
                             \/ m \in Behind(flows'[t].kind, flows'[t].call)
                             \/ Replied(t)' /\ m = flows'[t].call
      BY <1>3, <2>4 DEF Once, Marked
    <3>1. CASE t # s
      BY <2>3, <3>1 DEF IInv, Once, Replied
    <3>2. CASE t = s
      <4>1. m \in Behind(f.kind, f.call) \/ m = f.call
        BY <1>1, <3>2 DEF IInv, Once
      <4>2. m \in Behind(f.kind, r[4])
        BY <1>4, <1>6, <4>1 DEF GoodRule
      <4>. QED  BY <2>2, <2>3, <2>6, <3>2, <4>2
    <3>. QED  BY <3>1, <3>2
  <2>. QED  BY <2>3, <2>8, <2>9, <2>10, <2>11 DEF IInv
<1>. QED
  BY <1>5, <1>6

LEMMA StepIInv == IInv /\ Working /\ [Next]_vars => IInv'
<1> SUFFICES ASSUME IInv, Working, [Next]_vars PROVE IInv'
  OBVIOUS
<1>1. CASE OtherTun \/ Decline \/ UNCHANGED vars
  BY <1>1, IdleStep DEF OtherTun, Decline, vars
<1>2. CASE ServeLate
  BY <1>2, ServeLateStep
<1>3. ASSUME NEW s \in Slots,
             \/ Take(s) \/ Serve(s) \/ Refuse(s) \/ GiveUp(s)
             \/ Download(s) \/ CoreAnswers(s)
             \/ Waits(s) /\ Precheck(Request(s))
             \/ \E kind \in KINDS, of \in UIDS \union {NOBODY} :
                   Start(s, kind, of)
      PROVE  IInv'
  BY <1>3, TakeStep, ServeStep, RefuseStep, GiveUpStep, OutsideStep,
     PrecheckStep, StartStep
<1>4. CASE \E q \in late : Precheck(q)
  BY <1>4, PrecheckLateStep
<1>5. CASE \E q \in checked : TurnOn(q)
  BY <1>5, TurnOnStep
<1>. QED
  BY <1>1, <1>2, <1>3, <1>4, <1>5 DEF Next

\* A step of the flow in slot s leaves a request of another one alone.
LEMMA RequestStays ==
    ASSUME Shape, NEW s \in Slots, NEW g, flows' = [flows EXCEPT ![s] = g],
           NEW t \in Slots \ {s}
    PROVE  (Waits(t) => Waits(t)') /\ Request(t)' = Request(t)
<1>1. flows'[t] = flows[t]
  BY DEF Shape
<1>. QED
  BY <1>1 DEF Waits, Request

LEMMA StepWorking == IInv /\ Working /\ [Next]_vars => Working'
<1> SUFFICES ASSUME IInv, Working, [Next]_vars PROVE Working'
  OBVIOUS
<1>1. CASE checked' = {}
  BY <1>1 DEF Working
<1>2. CASE UNCHANGED <<checked, late, flows>>
  BY <1>2 DEF Working, Waits, Request
<1>3. ASSUME NEW s \in Slots, NEW g, flows' = [flows EXCEPT ![s] = g],
             late \subseteq late', UNCHANGED checked,
             Waits(s) /\ flows[s].call = "TunOn" => Request(s) \in late'
      PROVE  Working'
  <2> SUFFICES ASSUME NEW q \in checked
               PROVE  /\ q[2] = "TunOn"
                      /\ \/ q \in late'
                         \/ \E t \in Slots : Waits(t)' /\ q = Request(t)'
    BY <1>3 DEF Working
  <2>1. q[2] = "TunOn"
    BY DEF Working
  <2>2. CASE q \in late
    BY <1>3, <2>1, <2>2
  <2>3. CASE q \notin late
    <3>1. PICK t \in Slots : Waits(t) /\ q = Request(t)
      BY <2>3 DEF Working
    <3>2. flows[t].call = "TunOn"
      BY <2>1, <3>1 DEF Request
    <3>3. CASE t = s
      BY <1>3, <2>1, <3>1, <3>2, <3>3
    <3>4. CASE t # s
      <4>1. Waits(t)' /\ Request(t)' = Request(t)
        BY <1>3, <3>1, <3>4, RequestStays DEF IInv
      <4>. QED  BY <2>1, <3>1, <4>1
    <3>. QED  BY <3>3, <3>4
  <2>. QED  BY <2>2, <2>3
<1>4. ASSUME NEW s \in Slots, Take(s) PROVE Working'
  <2>1. PICK g : flows' = [flows EXCEPT ![s] = g]
    BY <1>4 DEF Take
  <2>2. ~Waits(s) /\ UNCHANGED <<checked, late>>
    BY <1>4 DEF Take, Waits, Replied, work
  <2>. QED  BY <1>3, <2>1, <2>2
<1>5. ASSUME NEW s \in Slots, NEW kind \in KINDS,
             NEW of \in UIDS \union {NOBODY}, Start(s, kind, of)
      PROVE  Working'
  <2>1. PICK g : flows' = [flows EXCEPT ![s] = g]
    BY <1>5 DEF Start
  <2>2. ~Waits(s) /\ UNCHANGED <<checked, late>>
    BY <1>5, IdleFields DEF Start, Free, Waits, work
  <2>. QED  BY <1>3, <2>1, <2>2
<1>6. ASSUME NEW s \in Slots, Serve(s) PROVE Working'
  BY <1>1, <1>6 DEF Serve, Idles, work
<1>7. ASSUME NEW s \in Slots, GiveUp(s) PROVE Working'
  <2>1. PICK g : flows' = [flows EXCEPT ![s] = g]
    BY <1>7 DEF GiveUp
  <2>2. /\ late \subseteq late' /\ UNCHANGED checked
        /\ Waits(s) => Request(s) \in late'
    BY <1>7 DEF GiveUp, Waits, Replied, work
  <2>. QED  BY <1>3, <2>1, <2>2
<1>8. ASSUME NEW s \in Slots, Download(s) \/ CoreAnswers(s) PROVE Working'
  <2>1. PICK g : flows' = [flows EXCEPT ![s] = g]
    BY <1>8 DEF Download, CoreAnswers
  <2>2. flows[s].call # "TunOn" /\ UNCHANGED <<checked, late>>
    BY <1>8 DEF Download, CoreAnswers, TO_CORE, work
  <2>. QED  BY <1>3, <2>1, <2>2
<1>9. ASSUME NEW q, Precheck(q),
             q \in late \/ \E s \in Slots : Waits(s) /\ q = Request(s)
      PROVE  Working'
  <2>1. CASE others
    BY <1>1, <1>9, <2>1 DEF Precheck, Idles, work
  <2>2. CASE ~others
    BY <1>9, <2>2 DEF Precheck, Working, Waits, Request
  <2>. QED  BY <2>1, <2>2
<1>10. CASE \/ ServeLate \/ \E s \in Slots : Refuse(s)
            \/ \E q \in checked : TurnOn(q)
  BY <1>1, <1>10 DEF ServeLate, Refuse, TurnOn, Release
<1>11. CASE OtherTun \/ Decline \/ UNCHANGED vars
  BY <1>2, <1>11 DEF OtherTun, Decline, vars, work
<1>. QED
  BY <1>4, <1>5, <1>6, <1>7, <1>8, <1>9, <1>10, <1>11 DEF Next

LEMMA StepSeen == Seen /\ [Next]_vars => Seen'
<1> SUFFICES ASSUME Seen, [Next]_vars PROVE Seen'
  OBVIOUS
<1> USE DEF Seen, work, helper
<1>1. CASE UNCHANGED <<checked, came, others>>
  BY <1>1
<1>2. CASE checked' = {}
  BY <1>2
<1>3. ASSUME NEW q, Precheck(q) PROVE Seen'
  BY <1>3 DEF Precheck
<1>4. CASE OtherTun
  BY <1>4 DEF OtherTun
<1>5. CASE \E s \in Slots :
             \/ Take(s) \/ Serve(s) \/ GiveUp(s) \/ Download(s)
             \/ CoreAnswers(s)
             \/ \E kind \in KINDS, of \in UIDS \union {NOBODY} :
                   Start(s, kind, of)
  BY <1>1, <1>5
     DEF Take, Serve, GiveUp, Download, CoreAnswers, Start
<1>6. CASE \/ ServeLate \/ \E s \in Slots : Refuse(s)
           \/ \E q \in checked : TurnOn(q)
  BY <1>2, <1>6 DEF ServeLate, Refuse, TurnOn, Release
<1>7. CASE Decline \/ UNCHANGED vars
  BY <1>1, <1>7 DEF Decline, vars
<1>. QED
  BY <1>3, <1>4, <1>5, <1>6, <1>7 DEF Next

-----------------------------------------------------------------------------
(* The theorems.                                                           *)

\* The invariant holds in every state of every behaviour.
THEOREM InductiveInvariant == Spec => [](IInv /\ Working /\ Seen)
<1>1. Init => IInv /\ Working /\ Seen
  BY InitIInv DEF Init, Working, Seen
<1>2. IInv /\ Working /\ Seen /\ [Next]_vars
        => (IInv /\ Working /\ Seen)'
  BY StepIInv, StepWorking, StepSeen
<1>. QED
  BY <1>1, <1>2, PTL DEF Spec

\* The user is told of a success only when the helper has done what the
\* message says, whatever answers are late, refused or lost: for any number
\* of flows and faults.
THEOREM ToldIsTrueAlways == Spec => []ToldIsTrue
<1>1. IInv => ToldIsTrue
  BY DEF IInv
<1>. QED
  BY <1>1, InductiveInvariant, PTL

\* A change a flow has asked for is behind it: it is not there any more where
\* the flow waits for the next one.
LEMMA PresentIsNotBehind ==
    ASSUME NEW k \in Kinds, NEW c \in CHANGES, c \in Path(k)
    PROVE  c \notin Behind(k, c)
<1>1. CASE k \in DOMAIN PLAIN
  <2>1. c = k
    <3>1. CHANGES \intersect {"List", "Status", "Settings", "Backups"} = {}
      BY PlainKinds DEF CHANGES
    <3>2. PLAIN[k] \in {"List", "Status", "Settings", "Backups"}
      BY <1>1, PlainEnds
    <3>3. c \in {k, PLAIN[k], "Status", "Backups"}
      BY <1>1, PlainKinds DEF Path
    <3>. QED  BY <3>1, <3>2, <3>3
  <2>2. Behind(k, k) = {}
    BY <1>1, PlainKinds DEF Behind
  <2>. QED  BY <2>1, <2>2
<1>2. CASE k = "Switch"
  <2>1. c \in {"SetCurrent", "StartCore"}
    <3>1. CHANGES \intersect {"Status", "Get", "Put", "List"} = {}
      BY PlainKinds DEF CHANGES
    <3>. QED  BY <1>2, <3>1, PlainKinds DEF Path
  <2>2. /\ Behind(k, "SetCurrent") = {}
        /\ Behind(k, "StartCore") = {"SetCurrent"}
    BY <1>2, PlainKinds DEF Behind
  <2>. QED  BY <2>1, <2>2
<1>3. CASE k \in {"Remove", "RemoveCurrent"}
  <2>1. "List" \notin CHANGES /\ "First" \notin CHANGES
    BY PlainKinds DEF CHANGES
  <2>2. c = "Remove" \/ (k = "RemoveCurrent" /\ c = "SetFirst")
    BY <1>3, <2>1, PlainKinds DEF Path
  <2>3. Behind(k, "Remove") = {}
    BY <1>3, PlainKinds DEF Behind
  <2>4. k = "RemoveCurrent" => Behind(k, "SetFirst") = {"Remove"}
    BY PlainKinds DEF Behind
  <2>. QED  BY <2>2, <2>3, <2>4
<1>4. CASE k \in {"Update", "Import"}
  <2>1. CHANGES \intersect {"Get", "Download", "List"} = {}
    BY PlainKinds DEF CHANGES
  <2>2. c = "Import"
    BY <1>4, <2>1, PlainKinds DEF Path
  <2>3. Behind(k, "Import") = {}
    BY <1>4, PlainKinds DEF Behind
  <2>. QED  BY <2>2, <2>3
<1>5. CASE k = "Select"
  <2>1. CHANGES \intersect {"Put", "Groups"} = {}
    BY PlainKinds DEF CHANGES
  <2>2. c = "Memorize"
    BY <1>5, <2>1, PlainKinds DEF Path
  <2>3. Behind(k, "Memorize") = {}
    BY <1>5, PlainKinds DEF Behind
  <2>. QED  BY <2>2, <2>3
<1>. QED
  BY <1>1, <1>2, <1>3, <1>4, <1>5 DEF Kinds

\* A flow asks for a change once, also when it gave up waiting for it: what
\* it is about to ask for was neither done for it nor is still on its way.
THEOREM AtMostOnceAlways == Spec => []AtMostOnce
<1>1. ASSUME IInv PROVE AtMostOnce
  <2> SUFFICES ASSUME NEW s \in Slots, Waits(s), flows[s].call \in CHANGES
               PROVE  ~Marked(s, flows[s].call)
    BY DEF AtMostOnce, Marked
  <2>1. Active(s) /\ flows[s] # Done /\ ~Replied(s)
    BY <1>1, IdleFields DEF Waits, Replied, IInv, OnPath
  <2>2. flows[s].call \notin Behind(flows[s].kind, flows[s].call)
    BY <2>1, PresentIsNotBehind DEF Active
  <2>. QED  BY <1>1, <2>1, <2>2 DEF IInv, Once
<1>2. IInv => AtMostOnce
  BY <1>1
<1>. QED
  BY <1>2, InductiveInvariant, PTL

\* In one step TUN comes on only by a request that says so, or a recovery.
LEMMA TunServed ==
    ASSUME NEW call, NEW of, NEW r, Serves(call, of, r), ~tun, tun'
    PROVE  call \in {"TunForce", "BackupRestore"} /\ r = Ok("ok")
BY DEF Serves, Same

\* For any number of flows: no answer, timeout or order of requests turns TUN
\* on beside that of another program that was up when the helper looked,
\* without the user's word.
THEOREM NoSilentCoexistenceAlways == Spec => NoSilentCoexistence
<1>1. Shape /\ Seen /\ [Next]_vars =>
        [~tun /\ tun' /\ others =>
           \/ checked # {} /\ came
           \/ Served("TunForce") \/ Served("BackupRestore")]_vars
  <2> SUFFICES ASSUME Shape, Seen, [Next]_vars, ~tun, tun', others
               PROVE  \/ checked # {} /\ came
                      \/ Served("TunForce") \/ Served("BackupRestore")
    OBVIOUS
  <2>1. ASSUME NEW s \in Slots, Serve(s)
        PROVE  Served("TunForce") \/ Served("BackupRestore")
    <3>1. PICK r : /\ Serves(flows[s].call, flows[s].of, r)
                   /\ flows' = [flows EXCEPT ![s].reply = r]
      BY <2>1 DEF Serve
    <3>2. flows[s].call \in {"TunForce", "BackupRestore"} /\ r = Ok("ok")
      BY <3>1, TunServed
    <3>3. flows'[s].reply = r /\ Waits(s)
      BY <2>1, <3>1 DEF Serve, Shape
    <3>. QED  BY <3>2, <3>3 DEF Served
  <2>2. ASSUME ServeLate
        PROVE  Served("TunForce") \/ Served("BackupRestore")
    <3>1. PICK q \in late : /\ q[2] \in {"TunForce", "BackupRestore"}
                           /\ late' = late \ {q}
      BY <2>2, TunServed DEF ServeLate, Same
    <3>. QED  BY <3>1 DEF Served
  <2>3. CASE \E q \in checked : TurnOn(q)
    BY <2>3 DEF Seen
  <2>4. \/ ServeLate \/ \E s \in Slots : Serve(s)
        \/ \E q \in checked : TurnOn(q)
        \/ UNCHANGED tun
    BY DEF Next, vars, helper, Start, Take, Refuse, GiveUp, Download,
           CoreAnswers, OtherTun, Decline, Precheck
  <2>. QED  BY <2>1, <2>2, <2>3, <2>4
<1>2. IInv => Shape
  BY DEF IInv
<1>. QED
  BY <1>1, <1>2, InductiveInvariant, PTL DEF Spec, NoSilentCoexistence
=============================================================================
