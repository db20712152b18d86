------------------------------- MODULE Client -------------------------------
(***************************************************************************)
(* The operations the TUI runs for the user (clard-tui app.rs and rpc.rs). *)
(*                                                                         *)
(* What a key starts runs in a task of its own, a flow: a sequence of      *)
(* calls to the helper, to the core and to the subscription server, with a *)
(* message for the user on the way and a fresh list at the end.  Several   *)
(* flows run at a time.  A call to the helper is given up after ten        *)
(* seconds; the helper may still serve the request after that.  Calls to   *)
(* the core have no timeout.                                               *)
(*                                                                         *)
(* The helper serves one request at a time and is modelled by what a       *)
(* request does to the list of profiles, the core and the TUN setting;     *)
(* modules Stores, ConfigStore and CoreLifecycle open each of them up.     *)
(* Turning TUN on is two steps, the check for the TUN of another program   *)
(* and the change: the helper's locks keep other requests out in between,  *)
(* but not the other program.                                              *)
(***************************************************************************)
EXTENDS Naturals, Sequences, FiniteSets

CONSTANTS
    UIDS,       \* profiles
    KINDS,      \* the operations the user may start
    STARTS,     \* the lists of profiles at the start, or in a backup
    MAX_FLOWS,  \* bound: flows in a behaviour
    MAX_FAULTS  \* bound: refused and timed out calls

VARIABLES
    store,      \* the helper's profiles: [items, current]
    core,       \* the core is running
    tun,        \* tun_enabled of the helper's settings
    others,     \* a TUN device of another program is active
    checked,    \* the request to turn TUN on that is past its check
    came,       \* another TUN came up since that check
    flows,      \* the flow in every slot
    late,       \* requests that nobody waits for any more
    performed,  \* <<slot, call>>: what the helper did for a flow on its way
    shown,      \* ProfilesState: [items, current] as last listed
    busy,       \* ProfilesState::busy_uid while busy is Updating
    question,   \* the confirmation about another TUN is open
    faults

helper == <<store, core, tun, others>>
work   == <<checked, came>>
screen == <<shown, busy, question>>
vars   == <<helper, work, flows, late, performed, screen, faults>>

NOBODY == "-"
Slots  == 1 .. MAX_FLOWS

\* The refresh at the end of the operations that are a single call.
PLAIN == [Rename |-> "List", Move |-> "List",
          StartCore |-> "Status", StopCore |-> "Status",
          RestartCore |-> "Status", CleanupTun |-> "Status",
          Setting |-> "Settings", TunOn |-> "Settings",
          TunOff |-> "Settings", TunForce |-> "Settings",
          BackupCreate |-> "Backups", BackupDelete |-> "Backups",
          BackupRestore |-> "List"]

\* Operations on the profile under the cursor.
ON_PROFILE == {"Switch", "Remove", "Update", "Rename", "Move"}

ASSUME ClientAssumption ==
    /\ MAX_FLOWS \in Nat /\ MAX_FAULTS \in Nat
    /\ KINDS \subseteq DOMAIN PLAIN
                     \union {"Switch", "Remove", "Update", "Import", "Select"}

\* <<kind, call, answer, next call, what the user is told>>
PlainRules ==
    {<<k, k, "ok", PLAIN[k], IF k = "Move" THEN "-" ELSE "ok">> :
         k \in DOMAIN PLAIN}
    \union {<<k, k, a, PLAIN[k], "error">> :
                k \in DOMAIN PLAIN, a \in {"err", "partial"}}
    \union {<<"TunOn", "TunOn", "conflict", "Settings", "-">>}

\* Mutant: the helper's refusal is not looked at.
SwitchRulesTrusting ==
    {<<"Switch", "SetCurrent", "ok", "Status", "-">>,
     <<"Switch", "SetCurrent", "err", "Status", "-">>,
     <<"Switch", "Status", "up", "Get", "-">>,
     <<"Switch", "Status", "err", "Get", "-">>,
     <<"Switch", "Status", "down", "StartCore", "-">>,
     <<"Switch", "StartCore", "ok", "Get", "-">>,
     <<"Switch", "StartCore", "err", "List", "error">>,
     <<"Switch", "Get", "ok", "Put", "-">>,
     <<"Switch", "Get", "err", "List", "ok">>,
     <<"Switch", "Put", "ok", "List", "ok">>,
     <<"Switch", "Put", "err", "List", "ok">>}

SwitchRules ==
    {<<"Switch", "SetCurrent", "ok", "Status", "-">>,
     <<"Switch", "SetCurrent", "err", "List", "error">>,
     <<"Switch", "Status", "up", "Get", "-">>,
     <<"Switch", "Status", "err", "Get", "-">>,
     <<"Switch", "Status", "down", "StartCore", "-">>,
     <<"Switch", "StartCore", "ok", "Get", "-">>,
     <<"Switch", "StartCore", "err", "List", "error">>,
     <<"Switch", "Get", "ok", "Put", "-">>,
     <<"Switch", "Get", "err", "List", "ok">>,
     <<"Switch", "Put", "ok", "List", "ok">>,
     <<"Switch", "Put", "err", "List", "ok">>}

\* Mutant: an empty list is not thought of.
RemoveRulesSome ==
    {<<"Remove", "Remove", "ok", "List", "ok">>,
     <<"Remove", "Remove", "err", "List", "error">>,
     <<"RemoveCurrent", "Remove", "ok", "First", "-">>,
     <<"RemoveCurrent", "Remove", "err", "List", "error">>,
     <<"RemoveCurrent", "First", "some", "SetFirst", "-">>,
     <<"RemoveCurrent", "First", "err", "List", "ok">>,
     <<"RemoveCurrent", "SetFirst", "ok", "List", "ok">>,
     <<"RemoveCurrent", "SetFirst", "err", "List", "ok">>}

\* RemoveCurrent is the removal of the profile shown as current: another
\* one is made current then.
RemoveRules ==
    {<<"Remove", "Remove", "ok", "List", "ok">>,
     <<"Remove", "Remove", "err", "List", "error">>,
     <<"RemoveCurrent", "Remove", "ok", "First", "-">>,
     <<"RemoveCurrent", "Remove", "err", "List", "error">>,
     <<"RemoveCurrent", "First", "some", "SetFirst", "-">>,
     <<"RemoveCurrent", "First", "none", "List", "ok">>,
     <<"RemoveCurrent", "First", "err", "List", "ok">>,
     <<"RemoveCurrent", "SetFirst", "ok", "List", "ok">>,
     <<"RemoveCurrent", "SetFirst", "err", "List", "ok">>}

DOWNLOADING == {"Update", "Import"}

UpdateRules ==
    {<<"Update", "Get", "ok", "Download", "-">>,
     <<"Update", "Get", "err", "List", "error">>}
    \union {<<k, "Download", "ok", "Import", "-">> : k \in DOWNLOADING}
    \union {<<k, "Import", "ok", "List", "ok">> : k \in DOWNLOADING}
    \union {<<k, c, "err", "List", "error">> :
                k \in DOWNLOADING, c \in {"Download", "Import"}}

SelectRules ==
    {<<"Select", "Put", "ok", "Memorize", "-">>,
     <<"Select", "Put", "err", "done", "error">>}
    \union {<<"Select", "Memorize", a, "Groups", "-">> : a \in {"ok", "err"}}
    \union {<<"Select", "Groups", a, "done", "-">> : a \in {"ok", "err"}}

\* The flows on profiles end by the list, the TUN flows fetch the status
\* after the settings, a recovery fetches the profiles and the backups.
TUN == {"TunOn", "TunOff", "TunForce"}

LISTED == {"Rename", "Move", "Switch", "Remove", "RemoveCurrent",
           "BackupRestore"} \union DOWNLOADING

EndRules ==
    {<<k, "List", a, IF k = "BackupRestore" THEN "Backups" ELSE "done",
       IF a = "err" THEN "error" ELSE "-">> :
         k \in LISTED, a \in {"some", "none", "err"}}
    \union {<<k, "Settings", a, IF k \in TUN THEN "Status" ELSE "done",
              "-">> : k \in TUN \union {"Setting"}, a \in {"ok", "err"}}
    \union {<<k, "Status", a, "done", "-">> :
                k \in DOMAIN PLAIN, a \in {"up", "down", "err"}}
    \union {<<k, "Backups", a, "done", "-">> :
                k \in {"BackupCreate", "BackupDelete", "BackupRestore"},
                a \in {"ok", "err"}}

Rules == PlainRules \union SwitchRules \union RemoveRules
         \union UpdateRules \union SelectRules \union EndRules

\* The rules that may apply to a flow of this kind at this call.
RulesAt == [k \in {r[1] : r \in Rules} |->
              [c \in {r[2] : r \in {x \in Rules : x[1] = k}} |->
                 {r \in Rules : r[1] = k /\ r[2] = c}]]

FirstCall(kind) == CASE kind = "Switch" -> "SetCurrent"
                     [] kind = "Update" -> "Get"
                     [] kind = "Import" -> "Download"
                     [] kind = "Select" -> "Put"
                     [] kind = "RemoveCurrent" -> "Remove"
                     [] OTHER -> kind

\* Calls that are not to the helper: to the core, to the server.
TO_CORE == {"Put", "Groups"}
OUTSIDE == TO_CORE \union {"Download"}

\* Calls that change something.
CHANGES == {"SetCurrent", "SetFirst", "Remove", "Import", "Memorize"}
           \union DOMAIN PLAIN

NoReply == [answer |-> "-", list |-> [items |-> <<>>, current |-> NOBODY]]
Idle    == [kind |-> "-", of |-> NOBODY, call |-> "idle",
            reply |-> NoReply, said |-> "-"]
Done    == [Idle EXCEPT !.call = "done"]

Waits(s)   == /\ flows[s].call \notin {"idle", "done"}
              /\ flows[s].reply = NoReply
Replied(s) == flows[s].reply # NoReply
Request(s) == <<s, flows[s].call, flows[s].of>>

Fault == faults < MAX_FAULTS /\ faults' = faults + 1

-----------------------------------------------------------------------------
(* The helper.                                                             *)

Members(seq) == {seq[i] : i \in DOMAIN seq}
Orders(S) == {q \in UNION {[1 .. n -> S] : n \in 0 .. Cardinality(S)} :
                  Cardinality(Members(q)) = Len(q)}
Stores == [items : Orders(UIDS), current : UIDS \union {NOBODY}]

Ok(answer)   == [NoReply EXCEPT !.answer = answer]
Listed       == [answer |-> IF store.items = <<>> THEN "none" ELSE "some",
                 list |-> store]
Known(u)     == u \in Members(store.items)
Swap(q, i)   == [q EXCEPT ![i] = q[i + 1], ![i + 1] = q[i]]
Without(q, u) == SelectSeq(q, LAMBDA x : x # u)

Removed(u) == [items   |-> Without(store.items, u),
               current |-> IF store.current = u THEN NOBODY
                           ELSE store.current]

Stored(items) == [items   |-> items,
                  current |-> IF items = <<>> THEN NOBODY ELSE Head(items)]

Same == UNCHANGED <<store, core, tun>>

\* What serving <<call, of>> in one step does and answers.  A recovery
\* takes over whatever lists and settings the backup holds; with force_tun
\* the check looks for no other TUN.
Serves(call, of, reply) ==
    \/ /\ call \in {"SetCurrent", "SetFirst"} /\ Known(of)
       /\ store' = [store EXCEPT !.current = of]
       /\ reply = Ok("ok") /\ UNCHANGED <<core, tun>>
    \/ /\ call = "Remove" /\ Known(of)
       /\ store' = Removed(of)
       /\ reply = Ok("ok") /\ UNCHANGED <<core, tun>>
    \/ /\ call \in {"SetCurrent", "SetFirst", "Remove", "Move", "Rename",
                    "Get"}
       /\ ~Known(of)
       /\ reply = Ok("err") /\ Same
    \/ /\ call = "Move" /\ Known(of)
       /\ \/ \E i \in 1 .. Len(store.items) - 1 :
                /\ of \in {store.items[i], store.items[i + 1]}
                /\ store' = [store EXCEPT !.items = Swap(@, i)]
          \/ /\ of \in {store.items[1], store.items[Len(store.items)]}
             /\ UNCHANGED store
       /\ reply = Ok("ok") /\ UNCHANGED <<core, tun>>
    \/ /\ call = "Import"
       /\ store' = [store EXCEPT !.items =
                        IF Known(of) THEN @ ELSE Append(@, of)]
       /\ reply = Ok("ok") /\ UNCHANGED <<core, tun>>
    \/ /\ call \in {"List", "First"}
       /\ reply = Listed /\ Same
    \/ /\ call = "Status"
       /\ reply = Ok(IF core THEN "up" ELSE "down") /\ Same
    \/ /\ call \in {"StartCore", "StopCore", "RestartCore"}
       /\ core' = (call # "StopCore")
       /\ reply = Ok("ok") /\ UNCHANGED <<store, tun>>
    \/ /\ call \in {"TunForce", "TunOff"}
       /\ tun' = (call = "TunForce")
       /\ reply = Ok("ok") /\ UNCHANGED <<store, core>>
    \/ /\ call = "BackupRestore"
       /\ \E items \in STARTS : store' = Stored(items)
       /\ tun' \in BOOLEAN
       /\ reply = Ok("ok") /\ UNCHANGED core
    \/ /\ call = "CleanupTun"
       /\ reply \in {Ok("ok"), Ok("partial")} /\ Same
    \/ /\ \/ call \in {"Memorize", "Setting", "BackupCreate",
                       "BackupDelete", "Settings", "Backups"}
          \/ call \in {"Get", "Rename"} /\ Known(of)
       /\ reply = Ok("ok") /\ Same

Marks(s, call, reply) ==
    performed' = IF /\ call \in CHANGES /\ reply.answer = "ok"
                    /\ flows[s].call # "done"
                 THEN performed \union {<<s, call>>} ELSE performed

\* The helper holds its locks while it serves a request.
Idles   == checked = {}
Release == checked' = {} /\ came' = FALSE

Serve(s) ==
    /\ Idles
    /\ Waits(s) /\ flows[s].call \notin OUTSIDE \union {"TunOn"}
    /\ \E r \in {Listed} \union {Ok(a) : a \in {"ok", "err", "up", "down",
                                                 "partial"}} :
          /\ Serves(flows[s].call, flows[s].of, r)
          /\ flows' = [flows EXCEPT ![s].reply = r]
          /\ Marks(s, flows[s].call, r)
    /\ UNCHANGED <<others, work, late, screen, faults>>

\* Whoever still waits gets the answer.
Answer(q, r) ==
    IF q \in late
    THEN late' = late \ {q} /\ UNCHANGED flows
    ELSE flows' = [flows EXCEPT ![q[1]].reply = r] /\ UNCHANGED late

\* Mutant: the devices are only looked at while the core is down.
PrecheckWhenDown(q) ==
    /\ Idles /\ q[2] = "TunOn"
    /\ IF others /\ ~core
       THEN Answer(q, Ok("conflict")) /\ UNCHANGED work
       ELSE /\ checked' = {q} /\ came' = FALSE
            /\ UNCHANGED <<flows, late>>
    /\ UNCHANGED <<helper, performed, screen, faults>>

\* precheck_tun_enable: a request that does not force is answered by the
\* TUN devices that are up, if there are any, and goes on otherwise.
Precheck(q) ==
    /\ Idles /\ q[2] = "TunOn"
    /\ IF others
       THEN Answer(q, Ok("conflict")) /\ UNCHANGED work
       ELSE /\ checked' = {q} /\ came' = FALSE
            /\ UNCHANGED <<flows, late>>
    /\ UNCHANGED <<helper, performed, screen, faults>>

\* apply_in_memory, regenerate and save, behind several awaits.
TurnOn(q) ==
    /\ q \in checked
    /\ tun' = TRUE
    /\ Answer(q, Ok("ok"))
    /\ Marks(q[1], q[2], Ok("ok"))
    /\ Release
    /\ UNCHANGED <<store, core, others, screen, faults>>

\* A failed regenerate, a failed write, a core that does not come up.
Refuse(s) ==
    /\ Waits(s) /\ flows[s].call \notin OUTSIDE
    /\ checked \subseteq {Request(s)}
    /\ Fault
    /\ flows' = [flows EXCEPT ![s].reply = Ok("err")]
    /\ Release
    /\ UNCHANGED <<helper, late, performed, screen>>

\* Mutant: the request is sent again.
GiveUpAgain(s) ==
    /\ flows[s].call \notin {"idle", "done"} \union OUTSIDE
    /\ Fault
    /\ flows' = [flows EXCEPT ![s].reply = NoReply]
    /\ late' = IF Replied(s) THEN late ELSE late \union {Request(s)}
    /\ UNCHANGED <<helper, work, performed, screen>>

\* call(): ten seconds are over.  The request has been served and the answer
\* is not there yet, or it waits for the helper's locks.  Nothing bounds the
\* configuration of the core that TurnOn waits for: while it lasts, a timeout
\* is no fault.
GiveUp(s) ==
    /\ flows[s].call \notin {"idle", "done"} \union OUTSIDE
    /\ IF Idles THEN Fault ELSE UNCHANGED faults
    /\ flows' = [flows EXCEPT ![s].reply = Ok("err")]
    /\ late' = IF Replied(s) THEN late ELSE late \union {Request(s)}
    /\ UNCHANGED <<helper, work, performed, screen>>

ServeLate ==
    \E q \in late :
       /\ checked \subseteq {q}
       /\ late' = late \ {q}
       /\ \/ /\ Idles /\ q[2] # "TunOn"
             /\ \E r \in {Listed} \union {Ok(a) : a \in
                             {"ok", "err", "up", "down", "partial"}} :
                   Serves(q[2], q[3], r) /\ Marks(q[1], q[2], r)
          \/ Same /\ UNCHANGED performed
       /\ Release
       /\ UNCHANGED <<others, flows, screen, faults>>

OtherTun ==
    /\ others' = ~others
    /\ came' = (checked # {} /\ (came \/ ~others))
    /\ UNCHANGED <<store, core, tun, checked, flows, late, performed, screen,
                   faults>>

-----------------------------------------------------------------------------
(* The core and the subscription server.                                   *)

Download(s) ==
    /\ Waits(s) /\ flows[s].call = "Download"
    /\ \E a \in {"ok", "err"} : flows' = [flows EXCEPT ![s].reply = Ok(a)]
    /\ UNCHANGED <<helper, work, late, performed, screen, faults>>

CoreAnswers(s) ==
    /\ Waits(s) /\ flows[s].call \in TO_CORE
    /\ \E a \in {"ok", "err"} : flows' = [flows EXCEPT ![s].reply = Ok(a)]
    /\ UNCHANGED <<helper, work, late, performed, screen, faults>>

-----------------------------------------------------------------------------
(* The TUI.                                                                *)

Free(s) == flows[s] = Idle /\ \A t \in Slots : flows[t] = Idle => s <= t

\* A key, or Enter on a dialog: what it needs is taken now.
Start(s, kind, of) ==
    /\ Free(s)
    /\ kind \in KINDS
    /\ kind \in ON_PROFILE => of \in Members(shown.items)
    /\ kind = "Import" => of \in UIDS
    /\ kind \notin ON_PROFILE \union {"Import"} => of = NOBODY
    /\ kind = "TunForce" => question
    /\ flows' = [flows EXCEPT ![s] =
                     [Idle EXCEPT !.kind = IF kind = "Remove"
                                              /\ shown.current = of
                                           THEN "RemoveCurrent" ELSE kind,
                                  !.of = of, !.call = FirstCall(kind)]]
    /\ busy' = IF kind = "Update" THEN of ELSE busy
    /\ question' = (question /\ kind # "TunForce")
    /\ UNCHANGED <<helper, work, late, performed, shown, faults>>

\* Esc on the question about the other TUN.
Decline ==
    /\ question
    /\ question' = FALSE
    /\ UNCHANGED <<helper, work, flows, late, performed, shown, busy,
                   faults>>

\* The task goes on with the answer of its call; what it sends to the main
\* loop is handled in the order sent, so it is handled here.
Take(s) ==
    /\ Replied(s)
    /\ LET f == flows[s]
       IN  \E r \in RulesAt[f.kind][f.call] :
              /\ r[3] = f.reply.answer
              /\ flows' = [flows EXCEPT ![s] =
                     IF r[4] = "done" THEN Done
                     ELSE [f EXCEPT
                             !.call  = r[4],
                             !.reply = NoReply,
                             !.of    = IF r[4] = "SetFirst"
                                       THEN Head(f.reply.list.items) ELSE @,
                             !.said  = IF r[5] = "-" THEN @ ELSE r[5]]]
              /\ IF f.call = "List" /\ f.reply.answer # "err"
                 THEN shown' = f.reply.list /\ busy' = NOBODY
                 ELSE UNCHANGED <<shown, busy>>
              /\ performed' = IF r[4] = "done"
                              THEN {m \in performed : m[1] # s}
                              ELSE performed
              /\ question' = (question \/ f.reply.answer = "conflict")
    /\ UNCHANGED <<helper, work, late, faults>>

Init ==
    /\ \E items \in STARTS : store = Stored(items)
    /\ core = FALSE /\ tun = FALSE /\ others = FALSE
    /\ checked = {} /\ came = FALSE
    /\ flows = [s \in Slots |-> Idle]
    /\ late = {} /\ performed = {}
    /\ shown = store /\ busy = NOBODY /\ question = FALSE
    /\ faults = 0

Next ==
    \/ \E s \in Slots :
          \/ \E kind \in KINDS, of \in UIDS \union {NOBODY} :
                Start(s, kind, of)
          \/ Take(s) \/ Serve(s) \/ Refuse(s) \/ GiveUp(s)
          \/ Waits(s) /\ Precheck(Request(s))
          \/ Download(s) \/ CoreAnswers(s)
    \/ \E q \in late : Precheck(q)
    \/ \E q \in checked : TurnOn(q)
    \/ ServeLate \/ OtherTun \/ Decline

Spec == Init /\ [][Next]_vars

\* A task that can go on does: a call to the helper or to the server ends
\* by an answer or by its timeout.  Nothing makes the core answer, neither
\* the TUI nor the helper.
GoOn(s) == \/ Take(s) \/ Serve(s) \/ Refuse(s) \/ GiveUp(s) \/ Download(s)
           \/ Waits(s) /\ Precheck(Request(s))

FairSpec == Spec /\ \A s \in Slots : WF_vars(GoOn(s))

-----------------------------------------------------------------------------
(* Properties.                                                             *)

\* The call a message of success is about.
Promise(kind) == CASE kind = "Switch" -> "SetCurrent"
                   [] kind = "Update" -> "Import"
                   [] kind = "RemoveCurrent" -> "Remove"
                   [] OTHER -> kind

\* Whoever answers late or not at all, the user is told of a success only
\* when the helper has done what the message says.
ToldIsTrue ==
    \A s \in Slots : flows[s].said = "ok" =>
                        <<s, Promise(flows[s].kind)>> \in performed

\* A request of the user changes the helper's state at most once, also when
\* its caller has given up: what a flow is about to ask for was not done for
\* it yet, and no earlier request for it is still on its way.
AtMostOnce ==
    \A s \in Slots : Waits(s) /\ flows[s].call \in CHANGES =>
       /\ <<s, flows[s].call>> \notin performed
       /\ \A q \in late : q[1] # s \/ q[2] # flows[s].call

\* A request for this is served now.
Served(call) ==
    \/ \E s \in Slots : /\ Waits(s) /\ flows[s].call = call
                        /\ flows'[s].reply = Ok("ok")
    \/ \E q \in late \ late' : q[2] = call

\* The setting of TUN comes on beside a TUN of another program only when the
\* user said so, in answer to the question or by recovering a backup, or
\* when the other TUN came up after the check had looked: whatever is late,
\* given up or sent twice, no TUN that was up all along is passed over.
NoSilentCoexistence ==
    [][~tun /\ tun' /\ others =>
          \/ checked # {} /\ came
          \/ Served("TunForce") \/ Served("BackupRestore")]_vars

\* Every operation ends, or waits for the core, whatever is lost.
EveryFlowEnds ==
    \A s \in Slots :
       flows[s].call \notin {"idle", "done"}
         ~> flows[s].call \in {"done"} \union TO_CORE

=============================================================================
