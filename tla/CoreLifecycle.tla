--------------------------- MODULE CoreLifecycle ---------------------------
(***************************************************************************)
(* The life of the mihomo core under clard-helper.                         *)
(*                                                                         *)
(* Seven tasks of the daemon share one CoreManager behind a tokio Mutex:   *)
(* the start-up self-check ("boot"), the crash watchdog ("crash_watch"),   *)
(* the TUN health watchdog ("tun_watch"), the connection that is being     *)
(* served ("rpc"), the subscription timer ("autoupdate"), the poll of      *)
(* helper.toml ("helper_poll") and the SIGTERM branch of the accept loop   *)
(* ("term").                                                               *)
(* Around them move the core process, the TUN identifiers in the kernel    *)
(* (routing rules, table 2023, clard0), systemd and the clock.             *)
(***************************************************************************)
EXTENDS Integers, FiniteSets

CONSTANTS
  WINDOW,              (* crash_backoff: length of the window, in ticks    *)
  MAX_RESTARTS,        (* crash_backoff: crashes tolerated in the window   *)
  MAX_BACKOFF,         (* crash_backoff: longest delay, in ticks           *)
  TUN_FAIL_THRESHOLD,  (* consecutive unhealthy checks before fail-open    *)
  STARTUP_GRACE,       (* no unhealthy check counts for so many ticks      *)
  TunEnabled,          (* settings.tun_enabled, fixed in a behaviour       *)
  Slots,               (* names for core processes                         *)
  NoSlot               (* "no process"                                     *)

ASSUME LimitsAssumption ==
  /\ WINDOW \in Nat \ {0}
  /\ MAX_RESTARTS \in Nat
  /\ MAX_BACKOFF \in Nat \ {0}
  /\ TUN_FAIL_THRESHOLD \in Nat \ {0}
  /\ STARTUP_GRACE \in Nat
  /\ TunEnabled \in BOOLEAN

ASSUME SlotsAssumption == NoSlot \notin Slots

VARIABLES
  helper,        (* "up", "down" (dead, its cgroup still being reaped),    *)
                 (* "swept" (ExecStopPost has run)                         *)
  last_exit,     (* how the instance that is down ended: "killed", "clean" *)
                 (* or "partial" (the verdict of its own cleanup), "none"  *)
  lock,          (* holder of the Mutex<CoreManager>                       *)
  pc,            (* where each task is                                     *)
  op,            (* the request the "rpc" task is serving                  *)
  handle,        (* CoreManager.child / pid                                *)
  want_running,  (* CoreManager.want_running                               *)
  crash_ages,    (* CoreManager.crash_times, as ages in ticks              *)
  delay,         (* what is left of the watchdog's backoff sleep           *)
  config_ready,  (* runtime/config.yaml exists                             *)
  core,          (* state of each core process                             *)
  owner,         (* the process whose descriptor keeps clard0 alive        *)
  tun,           (* TUN identifiers present in the kernel                  *)
  grace,         (* what is left of the TUN watchdog's STARTUP_GRACE       *)
  fail_count,    (* TUN watchdog: consecutive unhealthy checks             *)
  degraded       (* TUN watchdog: already failed open                      *)

manager_vars == <<handle, want_running, crash_ages, delay, config_ready>>
env_vars     == <<core, owner, tun>>
watch_vars   == <<grace, fail_count, degraded>>
helper_vars  == <<helper, last_exit>>
vars == <<helper_vars, lock, pc, op, manager_vars, env_vars, watch_vars>>

Tasks == {"boot", "crash_watch", "tun_watch", "rpc", "autoupdate",
          "helper_poll", "term"}

(* The tasks that send a configuration, or a field of one, to the core.    *)
Loaders == {"rpc", "autoupdate", "helper_poll"}

(* Inside start() or stop(): these steps run with the core lock held.      *)
StartSteps == {"starting", "probing", "fail_wait"}
StopSteps  == {"stopping", "stop_wait"}
CleanSteps == {"clean_rule", "clean_device"}
Steps == StartSteps \cup StopSteps \cup CleanSteps
           \cup {"idle", "waiting", "regen", "backoff", "observe", "loading"}

Ops == {"none", "start", "stop", "restart", "cleanup", "configure"}

CoreStates == {"dead", "booting", "api", "full", "terminating"}
Serving(s) == core[s] \in {"api", "full"}
Alive(s)   == core[s] # "dead"
NoneAlive  == \A s \in Slots : ~Alive(s)

(* What the TUN leaves in the kernel: the ip rules 9100..9109, and clard0   *)
(* with the routes of table 2023 that go through it.                       *)
TunParts == {"rule", "device"}
AllTun   == IF TunEnabled THEN TunParts ELSE {}

(* CoreManager::state() = "running"; when it is not, the call has reaped   *)
(* the child it held.                                                      *)
StateRunning == handle # NoSlot /\ Alive(handle)

(* 2^min(n,5) seconds, at most MAX_BACKOFF.                                *)
Pow2 == [n \in 0..5 |-> CASE n = 0 -> 1 [] n = 1 -> 2 [] n = 2 -> 4
                          [] n = 3 -> 8 [] n = 4 -> 16 [] n = 5 -> 32]
BackoffDelay(n) ==
  LET d == Pow2[IF n < 5 THEN n ELSE 5]
  IN  IF d < MAX_BACKOFF THEN d ELSE MAX_BACKOFF

-----------------------------------------------------------------------------
(* A new instance: every field of CoreManager and every task starts over.  *)
FreshPc == [t \in Tasks |-> IF t = "boot" THEN "clean_rule" ELSE "idle"]

Init ==
  /\ helper = "up" /\ last_exit = "none"
  /\ lock = "free"
  /\ pc = FreshPc
  /\ op = "none"
  /\ handle = NoSlot /\ want_running = FALSE
  /\ crash_ages = {} /\ delay = 0
  /\ config_ready \in BOOLEAN
  /\ core = [s \in Slots |-> "dead"] /\ owner = NoSlot
  /\ tun \in {{}, AllTun \cap {"rule"}}
  /\ grace = STARTUP_GRACE /\ fail_count = 0 /\ degraded = FALSE

Goto(t, step) == pc' = [pc EXCEPT ![t] = step]

(* Take the core lock and go to a step that needs it.                      *)
Acquire(t, step) ==
  /\ lock = "free"
  /\ lock' = t
  /\ Goto(t, step)

(* The guard goes out of scope: the task goes back to its loop.            *)
Release(t) ==
  /\ lock' = "free"
  /\ Goto(t, "idle")
  /\ op' = IF t = "rpc" THEN "none" ELSE op

-----------------------------------------------------------------------------
(* CoreManager::start                                                      *)

StartIdempotent(t) ==
  /\ helper = "up" /\ pc[t] = "starting"
  /\ StateRunning
  /\ Release(t)
  /\ UNCHANGED <<helper_vars, manager_vars, env_vars, watch_vars>>

(* No runtime config, or a binary that verify_core_binary rejects (whether *)
(* it does is left open): an error before want_running is touched.         *)
StartRefused(t) ==
  /\ helper = "up" /\ pc[t] = "starting"
  /\ ~StateRunning
  /\ handle' = NoSlot
  /\ Release(t)
  /\ UNCHANGED <<helper_vars, want_running, crash_ages, delay, config_ready,
                 env_vars, watch_vars>>

StartSpawnFails(t) ==
  /\ helper = "up" /\ pc[t] = "starting"
  /\ ~StateRunning /\ config_ready
  /\ want_running' = TRUE /\ handle' = NoSlot
  /\ Release(t)
  /\ UNCHANGED <<helper_vars, crash_ages, delay, config_ready, env_vars,
                 watch_vars>>

(* Mutants: start() that does not ask state() first; start() that forgets  *)
(* what it was asked.                                                      *)
StartSpawnBlind(t) ==
  /\ helper = "up" /\ pc[t] = "starting" /\ config_ready
  /\ want_running' = TRUE
  /\ \E s \in Slots :
       /\ core[s] = "dead"
       /\ core' = [core EXCEPT ![s] = "booting"]
       /\ handle' = s
  /\ Goto(t, "probing")
  /\ UNCHANGED <<helper_vars, lock, op, crash_ages, delay, config_ready,
                 owner, tun, watch_vars>>

StartSpawnForgetful(t) ==
  /\ helper = "up" /\ pc[t] = "starting"
  /\ ~StateRunning /\ config_ready
  /\ \E s \in Slots :
       /\ core[s] = "dead"
       /\ core' = [core EXCEPT ![s] = "booting"]
       /\ handle' = s
  /\ Goto(t, "probing")
  /\ UNCHANGED <<helper_vars, lock, op, want_running, crash_ages, delay,
                 config_ready, owner, tun, watch_vars>>

StartSpawn(t) ==
  /\ helper = "up" /\ pc[t] = "starting"
  /\ ~StateRunning /\ config_ready
  /\ want_running' = TRUE
  /\ \E s \in Slots :
       /\ core[s] = "dead"
       /\ core' = [core EXCEPT ![s] = "booting"]
       /\ handle' = s
  /\ Goto(t, "probing")
  /\ UNCHANGED <<helper_vars, lock, op, crash_ages, delay, config_ready,
                 owner, tun, watch_vars>>

ProbeReady(t) ==
  /\ helper = "up" /\ pc[t] = "probing"
  /\ handle # NoSlot /\ Serving(handle)
  /\ Release(t)
  /\ UNCHANGED <<helper_vars, manager_vars, env_vars, watch_vars>>

(* SIGTERM to self.pid; a process that is already gone does not mind.      *)
Sigterm(s) ==
  core' = IF s # NoSlot /\ Alive(s) THEN [core EXCEPT ![s] = "terminating"]
                                    ELSE core

(* Mutant: a readiness loop without a count.                               *)
ProbeForever(t) ==
  /\ helper = "up" /\ pc[t] = "probing"
  /\ UNCHANGED vars

(* Twenty probes failed: start() calls stop() and then returns the error.  *)
ProbeTimeout(t) ==
  /\ helper = "up" /\ pc[t] = "probing"
  /\ Sigterm(handle)
  /\ Goto(t, "fail_wait")
  /\ UNCHANGED <<helper_vars, lock, op, manager_vars, owner, tun, watch_vars>>

-----------------------------------------------------------------------------
(* CoreManager::stop and what follows it                                   *)

StopSignal(t) ==
  /\ helper = "up" /\ pc[t] = "stopping"
  /\ Sigterm(handle)
  /\ Goto(t, "stop_wait")
  /\ UNCHANGED <<helper_vars, lock, op, manager_vars, owner, tun, watch_vars>>

AfterStopTermUnlocked(t) ==
  IF pc[t] = "stop_wait" /\ t = "term"
  THEN Goto(t, "clean_rule") /\ lock' = "free" /\ op' = op
  ELSE IF pc[t] = "stop_wait" /\ t # "term" /\ op = "restart"
  THEN Goto(t, "starting") /\ UNCHANGED <<lock, op>>
  ELSE Release(t)

(* stop() has cleared its fields.  start() reports its error, a restart    *)
(* goes on to start(), the SIGTERM branch to cleanup_tun, StopCore is done.*)
AfterStop(t) ==
  CASE pc[t] = "fail_wait" -> Release(t)
    [] pc[t] = "stop_wait" /\ t = "term" ->
         Goto(t, "clean_rule") /\ UNCHANGED <<lock, op>>
    [] pc[t] = "stop_wait" /\ t # "term" /\ op = "restart" ->
         Goto(t, "starting") /\ UNCHANGED <<lock, op>>
    [] OTHER -> Release(t)

(* The kernel closes the descriptors of a process that dies without        *)
(* cleaning up: clard0 and the routes through it go, the rules stay.       *)
Abandon(s) ==
  /\ core' = [core EXCEPT ![s] = "dead"]
  /\ owner' = IF owner = s THEN NoSlot ELSE owner
  /\ tun' = IF owner = s THEN tun \cap {"rule"} ELSE tun

(* child.wait() returned in time.                                          *)
StopReaped(t) ==
  /\ helper = "up" /\ pc[t] \in {"fail_wait", "stop_wait"}
  /\ ~StateRunning
  /\ handle' = NoSlot /\ want_running' = FALSE
  /\ AfterStop(t)
  /\ UNCHANGED <<helper_vars, crash_ages, delay, config_ready, env_vars,
                 watch_vars>>

(* Five seconds passed: the Child is dropped, and kill_on_drop kills it.   *)
StopKill(t) ==
  /\ helper = "up" /\ pc[t] \in {"fail_wait", "stop_wait"}
  /\ StateRunning
  /\ Abandon(handle)
  /\ handle' = NoSlot /\ want_running' = FALSE
  /\ AfterStop(t)
  /\ UNCHANGED <<helper_vars, crash_ages, delay, config_ready, watch_vars>>

-----------------------------------------------------------------------------
(* tun::cleanup_tun: one command after the other, each of which may fail   *)
(* and is then only logged.  The watchdogs and the start-up check run it   *)
(* without any lock.                                                       *)

CleanRule(t) ==
  /\ helper = "up" /\ pc[t] = "clean_rule"
  /\ tun' \in {tun, tun \ {"rule"}}
  /\ Goto(t, "clean_device")
  /\ UNCHANGED <<helper_vars, lock, op, manager_vars, core, owner, watch_vars>>

(* Flush the table, delete the link (nft and resolvectl keep no state of   *)
(* their own here).  Then, by caller: the self-check goes on to regenerate,*)
(* the watchdogs send Degraded and return to their loops, CleanupTun       *)
(* answers.                                                                *)
CleanDevice(t) ==
  /\ helper = "up" /\ pc[t] = "clean_device" /\ t # "term"
  /\ tun' \in {tun, tun \ {"device"}}
  /\ IF t = "rpc" THEN Release(t)
     ELSE /\ Goto(t, IF t = "boot" THEN "regen" ELSE "idle")
          /\ UNCHANGED <<lock, op>>
  /\ UNCHANGED <<helper_vars, manager_vars, core, owner, watch_vars>>

-----------------------------------------------------------------------------
(* Start-up self-check, after its cleanup_tun                              *)

(* regenerate(Startup): takes the locks, may write the runtime config (it  *)
(* needs a current profile), never talks to a core.                        *)
BootRegenerate ==
  /\ helper = "up" /\ pc["boot"] = "regen" /\ lock = "free"
  /\ config_ready' \in {config_ready, TRUE}
  /\ Goto("boot", "waiting")
  /\ UNCHANGED <<helper_vars, lock, op, handle, want_running, crash_ages,
                 delay, env_vars, watch_vars>>

BootStart ==
  /\ helper = "up" /\ pc["boot"] = "waiting"
  /\ Acquire("boot", "starting")
  /\ UNCHANGED <<helper_vars, op, manager_vars, env_vars, watch_vars>>

-----------------------------------------------------------------------------
(* Crash watchdog                                                          *)

CrashSeen ==
  /\ helper = "up" /\ pc["crash_watch"] = "idle" /\ lock = "free"
  /\ want_running /\ ~StateRunning

(* crash_backoff() = Some(delay): the lock is dropped before the sleep.    *)
CheckCrashRestart ==
  /\ CrashSeen
  /\ Cardinality(crash_ages) < MAX_RESTARTS
  /\ handle' = NoSlot
  /\ crash_ages' = crash_ages \cup {0}
  /\ delay' = BackoffDelay(Cardinality(crash_ages))
  /\ Goto("crash_watch", "backoff")
  /\ UNCHANGED <<helper_vars, lock, op, want_running, config_ready, env_vars,
                 watch_vars>>

(* crash_backoff() = None: give up and fail open, again without the lock.  *)
CheckCrashGiveUp ==
  /\ CrashSeen
  /\ Cardinality(crash_ages) >= MAX_RESTARTS
  /\ handle' = NoSlot
  /\ want_running' = FALSE
  /\ Goto("crash_watch", "clean_rule")
  /\ UNCHANGED <<helper_vars, lock, op, crash_ages, delay, config_ready,
                 env_vars, watch_vars>>

(* The sleep is over: lock and start(), whatever happened meanwhile.       *)
BackoffOver ==
  /\ helper = "up" /\ pc["crash_watch"] = "backoff" /\ delay = 0
  /\ Acquire("crash_watch", "starting")
  /\ UNCHANGED <<helper_vars, op, manager_vars, env_vars, watch_vars>>

-----------------------------------------------------------------------------
(* TUN health watchdog                                                     *)

TunHealthy ==
  /\ fail_count' = 0 /\ degraded' = FALSE /\ grace' = grace
  /\ Goto("tun_watch", "idle")

TunUnhealthy ==
  IF grace > 0
  THEN Goto("tun_watch", "idle") /\ UNCHANGED watch_vars
  ELSE LET n == IF fail_count < TUN_FAIL_THRESHOLD THEN fail_count + 1
                                                   ELSE fail_count
           open == n >= TUN_FAIL_THRESHOLD /\ ~degraded
       IN  /\ fail_count' = n
           /\ degraded' = (degraded \/ open)
           /\ grace' = grace
           /\ Goto("tun_watch", IF open THEN "clean_rule" ELSE "idle")

(* TUN disabled or core not running: healthy.  Otherwise look at the       *)
(* kernel, with both locks released.                                       *)
CheckTun ==
  /\ helper = "up" /\ pc["tun_watch"] = "idle"
  /\ IF ~TunEnabled THEN TunHealthy /\ UNCHANGED handle
     ELSE /\ lock = "free"
          /\ IF StateRunning
             THEN /\ Goto("tun_watch", "observe")
                  /\ UNCHANGED <<watch_vars, handle>>
             ELSE TunHealthy /\ handle' = NoSlot
  /\ UNCHANGED <<helper_vars, lock, op, want_running, crash_ages, delay,
                 config_ready, env_vars>>

ObserveTun ==
  /\ helper = "up" /\ pc["tun_watch"] = "observe"
  /\ IF tun = AllTun THEN TunHealthy ELSE TunUnhealthy
  /\ UNCHANGED <<helper_vars, lock, op, manager_vars, env_vars>>

-----------------------------------------------------------------------------
(* RPCs that reach the core manager.  handle() runs with the lock held to  *)
(* the end of the request.                                                 *)

RpcBegin(request, step) ==
  /\ helper = "up" /\ pc["rpc"] = "idle"
  /\ Acquire("rpc", step)
  /\ op' = request
  /\ UNCHANGED <<helper_vars, manager_vars, env_vars, watch_vars>>

RpcStartCore   == RpcBegin("start", "starting")
RpcStopCore    == RpcBegin("stop", "stopping")
RpcRestartCore == RpcBegin("restart", "stopping")
RpcCleanupTun  == RpcBegin("cleanup", "clean_rule")

(* InstallCore and UpdateGeoData restart a core that runs.                 *)
RpcInstall == StateRunning /\ RpcBegin("restart", "stopping")

(* Status, or an install with no core running: state() reaps the child.    *)
RpcStatus ==
  /\ helper = "up" /\ pc["rpc"] = "idle" /\ lock = "free"
  /\ ~StateRunning /\ handle # NoSlot
  /\ handle' = NoSlot
  /\ UNCHANGED <<helper_vars, lock, pc, op, want_running, crash_ages, delay,
                 config_ready, env_vars, watch_vars>>

-----------------------------------------------------------------------------
(* The tasks that talk to a running core keep the lock (and those of the   *)
(* stores, always taken before it) until the core has answered.            *)

(* ApplyConfig, or a regenerate for a request or for the subscription      *)
(* timer: the runtime file is written, and no core has to hear of it.      *)
ConfigureCold(t) ==
  /\ helper = "up" /\ pc[t] = "idle" /\ lock = "free" /\ ~StateRunning
  /\ t \in {"rpc", "autoupdate"}
  /\ handle' = NoSlot /\ config_ready' = TRUE
  /\ UNCHANGED <<helper_vars, lock, pc, op, want_running, crash_ages, delay,
                 env_vars, watch_vars>>

(* With a core that runs: PUT /configs after the file, or for the poll of  *)
(* helper.toml PATCH /configs alone.  Neither request has a timeout.       *)
ConfigureHot(t) ==
  /\ helper = "up" /\ pc[t] = "idle" /\ t \in Loaders /\ StateRunning
  /\ Acquire(t, "loading")
  /\ op' = IF t = "rpc" THEN "configure" ELSE op
  /\ config_ready' = (config_ready \/ t # "helper_poll")
  /\ UNCHANGED <<helper_vars, handle, want_running, crash_ages, delay,
                 env_vars, watch_vars>>

(* The core has answered this request, and those of the read-back or of    *)
(* the rollback that follow it.                                            *)
LoadAnswered(t) ==
  /\ helper = "up" /\ pc[t] = "loading" /\ StateRunning
  /\ Release(t)
  /\ UNCHANGED <<helper_vars, manager_vars, env_vars, watch_vars>>

(* The core died before it answered: the connection breaks.                *)
LoadBroken(t) ==
  /\ helper = "up" /\ pc[t] = "loading" /\ ~StateRunning
  /\ Release(t)
  /\ UNCHANGED <<helper_vars, manager_vars, env_vars, watch_vars>>

-----------------------------------------------------------------------------
(* The end of an instance                                                  *)

(* SIGTERM to every core: by the control group, or by PR_SET_PDEATHSIG     *)
(* when the helper dies.                                                   *)
CoreTerminated ==
  core' = [s \in Slots |-> IF Alive(s) THEN "terminating" ELSE "dead"]

(* SIGTERM to the helper alone (kill) or to the control group (systemctl). *)
SigtermArrives ==
  /\ helper = "up" /\ pc["term"] = "idle"
  /\ Goto("term", "waiting")
  /\ CoreTerminated \/ UNCHANGED core
  /\ UNCHANGED <<helper_vars, lock, op, manager_vars, owner, tun, watch_vars>>

TermStop ==
  /\ helper = "up" /\ pc["term"] = "waiting"
  /\ Acquire("term", "stopping")
  /\ UNCHANGED <<helper_vars, op, manager_vars, env_vars, watch_vars>>

(* Memory is gone, every task with it.                                     *)
Vanish ==
  /\ helper' = "down"
  /\ lock' = "free" /\ op' = "none"
  /\ pc' = [t \in Tasks |-> "idle"]
  /\ handle' = NoSlot /\ want_running' = FALSE
  /\ crash_ages' = {} /\ delay' = 0
  /\ grace' = STARTUP_GRACE /\ fail_count' = 0 /\ degraded' = FALSE
  /\ UNCHANGED config_ready

(* The last cleanup step of the SIGTERM branch, its residual scan, exit.   *)
TermExit ==
  /\ helper = "up" /\ pc["term"] = "clean_device"
  /\ tun' \in {tun, tun \ {"device"}}
  /\ last_exit' = IF tun' = {} THEN "clean" ELSE "partial"
  /\ CoreTerminated
  /\ Vanish
  /\ UNCHANGED owner

(* SIGKILL or a crash.                                                     *)
HelperKilled ==
  /\ helper = "up"
  /\ last_exit' = "killed"
  /\ CoreTerminated
  /\ Vanish
  /\ UNCHANGED <<owner, tun>>

(* Mutant: a restart that does not wait for the control group.             *)
StopPostEarly ==
  /\ helper = "down"
  /\ helper' = "swept"
  /\ tun' \in SUBSET tun
  /\ UNCHANGED <<last_exit, lock, pc, op, manager_vars, core, owner,
                 watch_vars>>

(* systemd: when the control group is empty, ExecStopPost=cleanup-tun ...  *)
StopPost ==
  /\ helper = "down" /\ NoneAlive
  /\ helper' = "swept"
  /\ tun' \in SUBSET tun
  /\ UNCHANGED <<last_exit, lock, pc, op, manager_vars, core, owner,
                 watch_vars>>

(* ... and then Restart=always.                                            *)
HelperStarts ==
  /\ helper = "swept"
  /\ helper' = "up" /\ last_exit' = "none"
  /\ pc' = FreshPc
  /\ UNCHANGED <<lock, op, manager_vars, env_vars, watch_vars>>

-----------------------------------------------------------------------------
(* The core process, the kernel and the clock                              *)

CoreServes(s) ==
  /\ core[s] = "booting"
  /\ core' = [core EXCEPT ![s] = "api"]
  /\ UNCHANGED <<helper_vars, lock, pc, op, manager_vars, owner, tun,
                 watch_vars>>

(* mihomo opens its TUN listener after its API answers.                    *)
CoreTunUp(s) ==
  /\ core[s] = "api"
  /\ core' = [core EXCEPT ![s] = "full"]
  /\ owner' = IF TunEnabled THEN s ELSE owner
  /\ tun' = IF TunEnabled THEN TunParts ELSE tun
  /\ UNCHANGED <<helper_vars, lock, pc, op, manager_vars, watch_vars>>

(* A crash, a kill from outside, systemd's final SIGKILL.                  *)
CoreCrash(s) ==
  /\ Alive(s)
  /\ Abandon(s)
  /\ UNCHANGED <<helper_vars, lock, pc, op, manager_vars, watch_vars>>

(* A graceful exit closes the TUN listener: rules, routes, link.           *)
CoreExit(s) ==
  /\ core[s] = "terminating"
  /\ core' = [core EXCEPT ![s] = "dead"]
  /\ owner' = IF owner = s THEN NoSlot ELSE owner
  /\ tun' = IF owner = s THEN {} ELSE tun
  /\ UNCHANGED <<helper_vars, lock, pc, op, manager_vars, watch_vars>>

(* Another program removes what the core had installed.                    *)
TunBreaks ==
  /\ tun # {}
  /\ \E part \in tun : tun' = tun \ {part}
  /\ UNCHANGED <<helper_vars, lock, pc, op, manager_vars, core, owner,
                 watch_vars>>

(* Mutants: a grace period, and a backoff sleep, whose end moves with the  *)
(* clock.                                                                  *)
TickWithoutGrace ==
  /\ helper = "up"
  /\ crash_ages' = {a + 1 : a \in crash_ages} \cap (0 .. WINDOW - 1)
  /\ delay' = IF delay > 0 THEN delay - 1 ELSE 0
  /\ UNCHANGED <<helper_vars, lock, pc, op, handle, want_running,
                 config_ready, env_vars, watch_vars>>

TickWithoutDelay ==
  /\ helper = "up"
  /\ crash_ages' = {a + 1 : a \in crash_ages} \cap (0 .. WINDOW - 1)
  /\ grace' = IF grace > 0 THEN grace - 1 ELSE 0
  /\ UNCHANGED <<helper_vars, lock, pc, op, handle, want_running, delay,
                 config_ready, env_vars, fail_count, degraded>>

(* One second: crashes leave the window (retain() drops them at the next   *)
(* look), the backoff sleep and the grace period run down.                 *)
Tick ==
  /\ helper = "up"
  /\ crash_ages' = {a + 1 : a \in crash_ages} \cap (0 .. WINDOW - 1)
  /\ delay' = IF delay > 0 THEN delay - 1 ELSE 0
  /\ grace' = IF grace > 0 THEN grace - 1 ELSE 0
  /\ UNCHANGED <<helper_vars, lock, pc, op, handle, want_running,
                 config_ready, env_vars, fail_count, degraded>>

-----------------------------------------------------------------------------
StartStep(t) ==
  \/ StartIdempotent(t) \/ StartRefused(t) \/ StartSpawnFails(t)
  \/ StartSpawn(t) \/ ProbeReady(t) \/ ProbeTimeout(t)

StopStep(t) == StopSignal(t) \/ StopReaped(t) \/ StopKill(t)

CleanStep(t) == CleanRule(t) \/ CleanDevice(t)

TaskStep(t) == StartStep(t) \/ StopStep(t) \/ CleanStep(t) \/ LoadBroken(t)

Load(t) == ConfigureCold(t) \/ ConfigureHot(t) \/ LoadAnswered(t)

Rpc ==
  \/ RpcStartCore \/ RpcStopCore \/ RpcRestartCore \/ RpcCleanupTun
  \/ RpcInstall \/ RpcStatus

CrashWatch == CheckCrashRestart \/ CheckCrashGiveUp

CoreStep(s) ==
  \/ CoreServes(s) \/ CoreTunUp(s) \/ CoreCrash(s) \/ CoreExit(s)

Systemd == StopPost \/ HelperStarts

BootTask  == TaskStep("boot") \/ BootRegenerate \/ BootStart
CrashTask == TaskStep("crash_watch") \/ CrashWatch \/ BackoffOver
TunTask   == TaskStep("tun_watch") \/ CheckTun \/ ObserveTun
TermTask  == TaskStep("term") \/ TermStop \/ TermExit

Next ==
  \/ BootTask \/ CrashTask \/ TunTask \/ TermTask
  \/ TaskStep("rpc") \/ Rpc
  \/ TaskStep("autoupdate") \/ TaskStep("helper_poll")
  \/ \E t \in Loaders : Load(t)
  \/ SigtermArrives \/ HelperKilled \/ Systemd
  \/ \E s \in Slots : CoreStep(s)
  \/ TunBreaks \/ Tick

Spec == Init /\ [][Next]_vars

(* The runtime polls every task and time passes.  tokio's Mutex is first   *)
(* come first served, so a watchdog that asks for the lock again and again *)
(* gets it: strong fairness.  Nothing is assumed of the core (it may leave *)
(* a request unanswered for ever), of the user, of systemd or of who kills *)
(* the helper.                                                             *)
Fairness ==
  /\ WF_vars(BootTask) /\ WF_vars(TermTask)
  /\ WF_vars(\E t \in Loaders : TaskStep(t))
  /\ SF_vars(CrashTask) /\ SF_vars(TunTask)
  /\ WF_vars(Tick)

FairSpec == Spec /\ Fairness

-----------------------------------------------------------------------------
(* Every variable has its type; in particular the ages stay inside the     *)
(* window of crash_backoff() and a delay is never longer than MAX_BACKOFF. *)
TypeOK ==
  /\ helper \in {"up", "down", "swept"}
  /\ last_exit \in {"none", "killed", "clean", "partial"}
  /\ lock \in Tasks \cup {"free"}
  /\ pc \in [Tasks -> Steps]
  /\ op \in Ops
  /\ handle \in Slots \cup {NoSlot}
  /\ want_running \in BOOLEAN
  /\ crash_ages \subseteq 0 .. WINDOW - 1
  /\ delay \in 0 .. MAX_BACKOFF
  /\ config_ready \in BOOLEAN
  /\ core \in [Slots -> CoreStates]
  /\ owner \in Slots \cup {NoSlot}
  /\ tun \subseteq TunParts
  /\ grace \in 0 .. STARTUP_GRACE
  /\ fail_count \in 0 .. TUN_FAIL_THRESHOLD
  /\ degraded \in BOOLEAN

(* At most one core process exists, and while the helper is up it is the   *)
(* one CoreManager holds a handle to: nothing escapes stop().              *)
OneCore ==
  /\ \A s1, s2 \in Slots : Alive(s1) /\ Alive(s2) => s1 = s2
  /\ helper = "up" => \A s \in Slots : Alive(s) => handle = s

(* A core that exists is one the helper wants: if it dies, the watchdog    *)
(* will act on it.                                                         *)
RunningIsSupervised ==
  helper = "up" => \A s \in Slots : Alive(s) => want_running

HoldingSteps(t) ==
  StartSteps \cup StopSteps \cup {"loading"}
    \cup (IF t \in {"rpc", "term"} THEN CleanSteps ELSE {})

(* Steps of start(), stop(), of a reload and of a locked cleanup belong to *)
(* the holder of the lock, and the holder is always in such a step.        *)
LockDiscipline == \A t \in Tasks : lock = t <=> pc[t] \in HoldingSteps(t)

(* A graceful exit whose residual scan found nothing leaves no core and no *)
(* TUN identifier behind.                                                  *)
GracefulExit ==
  helper # "up" /\ last_exit = "clean" => NoneAlive /\ tun = {}

(* An instance that is gone holds nothing, systemd restarts only over an   *)
(* empty control group, and once the SIGTERM branch cleans, no core lives  *)
(* for the rest of the instance.                                           *)
DownIsEmpty ==
  helper # "up" => /\ pc = [t \in Tasks |-> "idle"]
                   /\ handle = NoSlot /\ ~want_running
SweptIsEmpty == helper = "swept" => NoneAlive
TermIsLast   == pc["term"] \in CleanSteps => NoneAlive

(* The inductive invariant: the four properties above are not inductive    *)
(* without what is known of an instance that ends.                         *)
IndInv ==
  /\ TypeOK
  /\ LockDiscipline
  /\ DownIsEmpty /\ SweptIsEmpty
  /\ OneCore /\ RunningIsSupervised
  /\ TermIsLast /\ GracefulExit

(* Somebody holds the core lock and waits for a living core to answer.     *)
AwaitsCore == \E t \in Loaders : pc[t] = "loading" /\ StateRunning

(* Whoever takes the core lock gives it back, through failed probes, hard  *)
(* stops and a core that dies in the middle of a reload; only a core that  *)
(* lives on and never answers keeps it with its holder.                    *)
LockReleased == (lock # "free" ~> lock = "free") \/ <>[]AwaitsCore

(* A wanted core that is not running is noticed: the watchdog gets the     *)
(* lock and calls start(), or the core is up or unwanted already.          *)
CrashAttended ==
  helper = "up" /\ want_running /\ NoneAlive
    ~> \/ helper # "up" \/ ~want_running \/ ~NoneAlive
       \/ lock = "crash_watch"

TunBroken == helper = "up" /\ StateRunning /\ tun # AllTun

(* A running core whose TUN stays broken makes the watchdog fail open,     *)
(* unless the lock it needs stays with a task that awaits that core.       *)
TunLossFailsOpen == <>[]TunBroken => <>[]degraded \/ <>[]AwaitsCore
-----------------------------------------------------------------------------
(* What the documents promise and the code does not keep.                  *)

(* Starting -> Failed -> retry with backoff -> Degraded: a wanted core that *)
(* died is served again, or the watchdog fails open, unless the user or    *)
(* the end of the helper intervenes.                                       *)
CrashRecoversOrFailsOpen ==
  helper = "up" /\ want_running /\ NoneAlive /\ pc["crash_watch"] = "backoff"
    ~> \/ \E s \in Slots : Serving(s)
       \/ pc["crash_watch"] \in CleanSteps
       \/ lock \in {"rpc", "term"} \/ helper # "up"

=============================================================================
