------------------------------- MODULE Events -------------------------------
(***************************************************************************)
(* How a TUI learns of what happens in the helper.                         *)
(*                                                                         *)
(* The helper broadcasts CoreStatusChanged, TunChanged and Degraded to its *)
(* subscribers (daemon.rs, subscribe_loop).  The TUI keeps a subscription  *)
(* alive (lib.rs, subscribe_events), turns the first two kinds into the    *)
(* UI event Subscribed, and answers that one with a Status request of its  *)
(* own connection, run by a task that sends what it got to the UI queue.   *)
(*                                                                         *)
(* The state of helper, core and TUN is one number, `now`, that grows with *)
(* every change; `shown` is the number the TUI displays.                   *)
(***************************************************************************)
EXTENDS Naturals, Sequences, FiniteSets, SequencesExt

CONSTANTS
  CAP,          \* capacity of the broadcast channel (64 in daemon.rs)
  FETCHES,      \* slots for Status requests under way at the same time
  MAX_NOW,      \* bound: changes of the helper's state
  MAX_RESTARTS, \* bound: deaths of the helper
  MAX_QUEUE,    \* bound: UI events still queued when the 3 s sleep is over
  MAX_LOSSES    \* bound: Status requests that time out or are refused

ASSUME EventsAssumption ==
  /\ CAP \in Nat \ {0} /\ MAX_NOW \in Nat
  /\ MAX_RESTARTS \in Nat
  /\ MAX_QUEUE \in Nat /\ MAX_LOSSES \in Nat

VARIABLES
  up,       \* the helper runs
  now,      \* its state, counted in changes
  restarts, \* deaths of the helper so far
  link,     \* the TUI's subscription: see LinkStates
  rx,       \* the subscriber's receiver in the helper
  wire,     \* events written to the socket and not read yet
  evq,      \* subscribe_events: events of rpc::subscribe not looked at yet
  loop,     \* where subscribe_events is
  ui,       \* queue of the TUI's main loop
  fetch,    \* Status requests under way
  losses,   \* Status requests that brought no answer so far
  shown,    \* what the TUI displays
  noted,    \* history: last change published to the present subscription
  told      \* history: newest state the helper has answered with

vars == <<up, now, restarts, link, rx, wire, evq, loop, ui, fetch, losses,
          shown, noted,
                 told>>
helper == <<up, now, restarts>>
client == <<evq, loop, ui, fetch, losses, shown>>

LinkStates == {"none",     \* the connection task has not been spawned
               "dialing",  \* connect and the Subscribe frame
               "asked",    \* frame written, not handled by the helper
               "live",     \* the helper's subscribe_loop has its receiver
               "broken",   \* closed by the helper; the wire can be read
               "ended"}    \* rpc::subscribe has returned

\* Mutant of Mapped: only a notification, no refresh.
MappedNotify(ev) == [k |-> "degraded", v |-> 0]

\* What the TUI makes of an event of the helper, lib.rs lines 142 to 149.
Mapped(ev) == [k |-> IF ev = "status" THEN "sync" ELSE "degraded", v |-> 0]
Sync == [k |-> "sync", v |-> 0]
Status(n) == [k |-> "answer", v |-> n]

Idle == [at |-> "idle", v |-> 0]

Init ==
  /\ up = TRUE /\ now = 0 /\ restarts = 0
  /\ link = "none" /\ rx = <<>> /\ wire = <<>>
  /\ evq = <<>> /\ loop = "dial"
  /\ ui = <<Sync>>                        \* fetch_core_status at start-up
  /\ fetch = [f \in FETCHES |-> Idle]
  /\ losses = 0 /\ shown = 0 /\ noted = 0 /\ told = 0

-----------------------------------------------------------------------------
(* The helper.                                                             *)

\* A receiver keeps the last CAP messages it has not read; the oldest go.
Retained(s) == IF Len(s) > CAP THEN SubSeq(s, Len(s) - CAP + 1, Len(s)) ELSE s

Publish(evs) ==
  /\ rx' = IF link = "live" THEN Retained(rx \o evs) ELSE rx
  /\ noted' = IF link = "live" THEN now' ELSE noted

\* A successful StartCore, StopCore, RestartCore, InstallCore or CleanupTun,
\* a restart by the crash watchdog, a configuration that regenerate applied.
Change ==
  /\ up /\ now < MAX_NOW
  /\ now' = now + 1
  /\ Publish(<<"status">>)
  /\ UNCHANGED <<up, restarts, link, wire, client, told>>

\* Mutant of FailOpen: the two events are sent in the other order.
FailOpenSwapped ==
  /\ up /\ now < MAX_NOW
  /\ now' = now + 1
  /\ Publish(<<"status", "degraded">>)
  /\ UNCHANGED <<up, restarts, link, wire, client, told>>

\* fail_open: the rules are gone, Degraded and CoreStatusChanged are sent.
FailOpen ==
  /\ up /\ now < MAX_NOW
  /\ now' = now + 1
  /\ Publish(<<"degraded", "status">>)
  /\ UNCHANGED <<up, restarts, link, wire, client, told>>

\* The helper dies: its ends of all connections close, the bytes already
\* written can still be read.  The core dies with it (set_pdeathsig).
Die ==
  /\ up /\ restarts < MAX_RESTARTS
  /\ up' = FALSE /\ restarts' = restarts + 1
  /\ now' = now + 1
  /\ link' = IF link \in {"asked", "live"} THEN "broken" ELSE link
  /\ rx' = <<>> /\ noted' = 0
  /\ UNCHANGED <<wire, client, told>>

\* systemd starts it again; the start-up task starts the core and says so to
\* whoever has subscribed by then, which is nobody.
Boot ==
  /\ ~up
  /\ up' = TRUE /\ now' = now + 1
  /\ UNCHANGED <<restarts, link, rx, wire, client, noted, told>>

\* serve_connection reads the frame; subscribe_loop takes a receiver.
Register ==
  /\ link = "asked"
  /\ link' = "live" /\ rx' = <<>>
  /\ UNCHANGED <<helper, wire, client, noted, told>>

\* rx.recv() => write_event.  RecvError::Lagged is skipped without a word.
Push ==
  /\ link = "live" /\ rx # <<>>
  /\ wire' = Append(wire, Head(rx)) /\ rx' = Tail(rx)
  /\ UNCHANGED <<helper, link, client, noted, told>>

-----------------------------------------------------------------------------
(* rpc::subscribe and subscribe_events in the TUI.                         *)

\* The task is spawned, and Subscribed sent, before anything is connected.
Dial ==
  /\ loop = "dial"
  /\ link' = "dialing" /\ wire' = <<>> /\ evq' = <<>>
  /\ ui' = Append(ui, Sync)
  /\ loop' = "select"
  /\ UNCHANGED <<helper, rx, fetch, losses, shown,
                 noted, told>>

\* Mutant of Connect: a refused connection does not end the task.
ConnectHangs ==
  /\ link = "dialing"
  /\ link' = IF up THEN "asked" ELSE "none"
  /\ UNCHANGED <<helper, rx, wire, client, noted, told>>

Connect ==
  /\ link = "dialing"
  /\ link' = IF up THEN "asked" ELSE "ended"
  /\ UNCHANGED <<helper, rx, wire, client, noted, told>>

\* rpc::subscribe reads a frame and passes it on.
Receive ==
  /\ wire # <<>>
  /\ wire' = Tail(wire) /\ evq' = Append(evq, Head(wire))
  /\ UNCHANGED <<helper, link, rx, loop, ui, fetch, losses, shown,
                 noted, told>>

\* ... and returns at the end of the stream.
LinkEnds ==
  /\ link = "broken" /\ wire = <<>>
  /\ link' = "ended"
  /\ UNCHANGED <<helper, rx, wire, client, noted, told>>

Forward ==
  /\ loop = "select" /\ evq # <<>>
  /\ ui' = Append(ui, Mapped(Head(evq))) /\ evq' = Tail(evq)
  /\ UNCHANGED <<helper, link, rx, wire, loop, fetch, losses, shown,
                 noted, told>>

\* The task has ended: select! may take this branch with events left in evq,
\* which are dropped with the channel.
GiveUp ==
  /\ loop = "select" /\ link = "ended"
  /\ loop' = "sleep" /\ link' = "none" /\ evq' = <<>>
  /\ UNCHANGED <<helper, rx, wire, ui, fetch, losses, shown,
                 noted, told>>

\* Three seconds later; the main loop has gone through its queue by then.
Redial ==
  /\ loop = "sleep" /\ Len(ui) <= MAX_QUEUE
  /\ loop' = "dial"
  /\ UNCHANGED <<helper, link, rx, wire, evq, ui, fetch, losses, shown,
                 noted, told>>

-----------------------------------------------------------------------------
(* The main loop of the TUI and the tasks it starts.                       *)

\* fetch_core_status, in a free slot.
Ask(f) == fetch[f].at = "idle" /\ fetch' = [fetch EXCEPT ![f].at = "asked"]

OnSync ==
  /\ ui # <<>> /\ Head(ui).k = "sync"
  /\ \E f \in FETCHES : Ask(f)
  /\ ui' = Tail(ui)
  /\ UNCHANGED <<helper, link, rx, wire, evq, loop, losses, shown,
                 noted, told>>

OnDegraded ==
  /\ ui # <<>> /\ Head(ui).k = "degraded"
  /\ ui' = Tail(ui)
  /\ UNCHANGED <<helper, link, rx, wire, evq, loop, fetch, losses, shown,
                 noted, told>>

OnStatus ==
  /\ ui # <<>> /\ Head(ui).k = "answer"
  /\ shown' = Head(ui).v
  /\ ui' = Tail(ui)
  /\ UNCHANGED <<helper, link, rx, wire, evq, loop, fetch, losses,
                 noted, told>>

\* The helper answers a Status request under its locks.
Answer(f) ==
  /\ up /\ fetch[f].at = "asked"
  /\ fetch' = [fetch EXCEPT ![f] = [at |-> "answered", v |-> now]]
  /\ told' = now
  /\ UNCHANGED <<helper, link, rx, wire, evq, loop, ui, losses, shown, noted>>

\* The task has the answer and sends it to the UI queue.
Deliver(f) ==
  /\ fetch[f].at = "answered"
  /\ fetch' = [fetch EXCEPT ![f] = Idle]
  /\ ui' = Append(ui, Status(fetch[f].v))
  /\ UNCHANGED <<helper, link, rx, wire, evq, loop, losses, shown,
                 noted, told>>

\* Refused by a dead helper, or given up after RPC_TIMEOUT: `if let Ok` drops
\* it without a word and nothing asks again.
Lose(f) ==
  /\ fetch[f].at = "asked"
  /\ ~up \/ losses < MAX_LOSSES
  /\ fetch' = [fetch EXCEPT ![f] = Idle]
  /\ losses' = IF up THEN losses + 1 ELSE losses
  /\ UNCHANGED <<helper, link, rx, wire, evq, loop, ui, shown, noted,
                 told>>

-----------------------------------------------------------------------------
Helper == Change \/ FailOpen \/ Die \/ Boot \/ Register \/ Push
Subscription ==
  Dial \/ Connect \/ Receive \/ LinkEnds \/ Forward \/ GiveUp \/ Redial
Screen == OnSync \/ OnDegraded \/ OnStatus
Requests(f) == Answer(f) \/ Deliver(f) \/ Lose(f)

Next ==
  Helper \/ Subscription \/ Screen \/ \E f \in FETCHES : Requests(f)

\* Tasks of both runtimes run on, systemd restarts the helper, and a request
\* is answered or given up.  Changes, deaths and losses are not promised.
Fairness ==
  /\ WF_vars(Boot) /\ WF_vars(Register) /\ WF_vars(Push)
  /\ WF_vars(Subscription) /\ WF_vars(Screen)
  /\ \A f \in FETCHES : WF_vars(Requests(f))

Spec == Init /\ [][Next]_vars
FairSpec == Spec /\ Fairness

-----------------------------------------------------------------------------
Events == {"status", "degraded"}

\* Every variable holds a value its Rust type and the code allow.
TypeOK ==
  /\ up \in BOOLEAN
  /\ now \in Nat /\ restarts \in 0..MAX_RESTARTS /\ losses \in 0..MAX_LOSSES
  /\ link \in LinkStates /\ loop \in {"dial", "select", "sleep"}
  /\ rx \in Seq(Events) /\ Len(rx) <= CAP
  /\ wire \in Seq(Events) /\ evq \in Seq(Events)
  /\ ui \in Seq([k : {"sync", "degraded", "answer"}, v : Nat])
  /\ fetch \in [FETCHES -> [at : {"idle", "asked", "answered"}, v : Nat]]
  /\ shown \in Nat /\ noted \in Nat

\* A refresh is on its way: an event that will lead to one, or a request that
\* has not been answered.
RefreshComing ==
  \/ "status" \in ToSet(rx) \cup ToSet(wire) \cup ToSet(evq)
  \/ Sync \in ToSet(ui)
  \/ \E f \in FETCHES : fetch[f].at = "asked"

\* A change published to a live subscription is never slept through: until
\* the helper has answered a request made after it, one is on its way, also
\* when the receiver lagged and lost its oldest events (daemon.rs line 296),
\* unless a Status request of the TUI was given up.
PublishedIsRefreshed ==
  losses = 0 /\ noted > 0 => RefreshComing \/ told >= noted

\* Whatever dies and in whatever state the connection is, the TUI ends up
\* with a live subscription (lib.rs, subscribe_events: reconnect for ever).
Resubscribes == <>[](link = "live")

\* Something will follow behind the last event of the main loop's queue: a
\* status event under way, or, the connection being lost or about to be
\* made, the refresh of the next one.
MoreComes ==
  \/ "status" \in ToSet(rx) \cup ToSet(wire) \cup ToSet(evq)
  \/ link \in {"broken", "ended"} \/ loop # "select"

\* A user who is told DEGRADED is shown the state after it: behind each such
\* notice in the queue there is, or will be, a refresh.  fail_open sends
\* CoreStatusChanged right after Degraded (watchdog.rs, 147 and 148), and
\* neither a lag nor a connection that ends in between may part the two.
DegradedIsRefreshed ==
  \A i \in DOMAIN ui : ui[i] = Mapped("degraded") =>
    MoreComes \/ \E j \in DOMAIN ui : j > i /\ ui[j] = Sync

=============================================================================
