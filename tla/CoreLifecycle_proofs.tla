------------------------ MODULE CoreLifecycle_proofs ------------------------
(***************************************************************************)
(* Proofs about CoreLifecycle, for every size of its limits and every set  *)
(* of process names: the types first, then the lock discipline, then what  *)
(* the lock protects.                                                      *)
(***************************************************************************)
EXTENDS CoreLifecycle, FiniteSetTheorems, TLAPS

-----------------------------------------------------------------------------
(* The backoff delay of crash_backoff is at least one second and at most   *)
(* MAX_BACKOFF, whatever the number of crashes in the window.              *)
LEMMA BackoffDelayType ==
  ASSUME NEW n \in Nat
  PROVE  BackoffDelay(n) \in 1 .. MAX_BACKOFF
<1>1. ASSUME NEW k \in 0..5 PROVE Pow2[k] \in Nat \ {0}
  BY <1>1 DEF Pow2
<1>2. (IF n < 5 THEN n ELSE 5) \in 0..5
  OBVIOUS
<1>3. PICK d \in Nat \ {0} : d = Pow2[IF n < 5 THEN n ELSE 5]
  BY <1>1, <1>2
<1>4. BackoffDelay(n) = IF d < MAX_BACKOFF THEN d ELSE MAX_BACKOFF
  BY <1>3 DEF BackoffDelay
<1> QED BY <1>4, LimitsAssumption

(* The crash times of the window form a finite set.                        *)
LEMMA CrashesFinite ==
  ASSUME crash_ages \subseteq 0 .. WINDOW - 1
  PROVE  Cardinality(crash_ages) \in Nat
<1>1. IsFiniteSet(0 .. WINDOW - 1)
  BY FS_Interval, LimitsAssumption
<1> QED BY <1>1, FS_Subset, FS_CardinalityType

-----------------------------------------------------------------------------
(* The step a task starts from in a new instance is a step.                *)
LEMMA FreshPcType == FreshPc \in [Tasks -> Steps]
  BY DEF FreshPc, Steps, CleanSteps

LEMMA InitTypeOK == Init => TypeOK
<1> SUFFICES ASSUME Init PROVE TypeOK
  OBVIOUS
<1>1. pc \in [Tasks -> Steps]
  BY FreshPcType DEF Init
<1>2. core \in [Slots -> CoreStates] /\ owner \in Slots \cup {NoSlot}
  BY DEF Init, CoreStates
<1>3. tun \subseteq TunParts
  BY DEF Init, TunParts
<1>4. /\ delay \in 0 .. MAX_BACKOFF
      /\ grace \in 0 .. STARTUP_GRACE
      /\ fail_count \in 0 .. TUN_FAIL_THRESHOLD
  BY LimitsAssumption DEF Init
<1> QED
  BY <1>1, <1>2, <1>3, <1>4 DEF Init, TypeOK, Ops

(* Moving one task to a step keeps pc well typed.                          *)
LEMMA GotoType ==
  ASSUME pc \in [Tasks -> Steps], NEW t \in Tasks, NEW step \in Steps,
         Goto(t, step)
  PROVE  pc' \in [Tasks -> Steps]
  BY DEF Goto

(* Giving the lock back keeps lock, pc and op well typed.                  *)
LEMMA ReleaseType ==
  ASSUME TypeOK, NEW t \in Tasks, Release(t)
  PROVE  /\ lock' \in Tasks \cup {"free"}
         /\ pc' \in [Tasks -> Steps]
         /\ op' \in Ops
<1>1. "idle" \in Steps
  BY DEF Steps
<1>2. pc' \in [Tasks -> Steps]
  BY <1>1, GotoType DEF Release, TypeOK
<1> QED BY <1>2 DEF Release, TypeOK, Ops

(* A step of start() is well typed.                                        *)
LEMMA StartStepType ==
  ASSUME TypeOK, NEW t \in Tasks, StartStep(t)
  PROVE  TypeOK'
<1>0. {"probing", "fail_wait", "idle"} \subseteq Steps
  BY DEF Steps, StartSteps
<1>1. CASE StartIdempotent(t)
  BY <1>1, ReleaseType
  DEF StartIdempotent, TypeOK, helper_vars, manager_vars, env_vars, watch_vars
<1>2. CASE StartRefused(t)
  BY <1>2, ReleaseType
  DEF StartRefused, TypeOK, helper_vars, manager_vars, env_vars, watch_vars
<1>3. CASE StartSpawnFails(t)
  BY <1>3, ReleaseType
  DEF StartSpawnFails, TypeOK, helper_vars, manager_vars, env_vars, watch_vars
<1>4. CASE StartSpawn(t)
  <2>1. pc' \in [Tasks -> Steps]
    BY <1>0, <1>4, GotoType DEF StartSpawn, TypeOK
  <2>2. PICK s \in Slots : core' = [core EXCEPT ![s] = "booting"] /\ handle' = s
    BY <1>4 DEF StartSpawn
  <2>3. core' \in [Slots -> CoreStates] /\ handle' \in Slots \cup {NoSlot}
    BY <2>2 DEF TypeOK, CoreStates
  <2> QED
    BY <1>4, <2>1, <2>3 DEF StartSpawn, TypeOK, helper_vars, watch_vars
<1>5. CASE ProbeReady(t)
  BY <1>5, ReleaseType
  DEF ProbeReady, TypeOK, helper_vars, manager_vars, env_vars, watch_vars
<1>6. CASE ProbeTimeout(t)
  <2>1. pc' \in [Tasks -> Steps]
    BY <1>0, <1>6, GotoType DEF ProbeTimeout, TypeOK
  <2>2. core' \in [Slots -> CoreStates]
    BY <1>6 DEF ProbeTimeout, Sigterm, TypeOK, CoreStates
  <2> QED
    BY <1>6, <2>1, <2>2
    DEF ProbeTimeout, TypeOK, helper_vars, manager_vars, watch_vars
<1> QED
  BY <1>1, <1>2, <1>3, <1>4, <1>5, <1>6 DEF StartStep

(* What follows a stop() keeps lock, pc and op well typed.                 *)
LEMMA AfterStopType ==
  ASSUME TypeOK, NEW t \in Tasks, AfterStop(t)
  PROVE  /\ lock' \in Tasks \cup {"free"}
         /\ pc' \in [Tasks -> Steps]
         /\ op' \in Ops
<1>0. {"clean_rule", "starting"} \subseteq Steps
  BY DEF Steps, StartSteps, CleanSteps
<1>1. \/ Release(t)
      \/ Goto(t, "clean_rule") /\ UNCHANGED <<lock, op>>
      \/ Goto(t, "starting") /\ UNCHANGED <<lock, op>>
  BY DEF AfterStop
<1>2. CASE Release(t)
  BY <1>2, ReleaseType
<1>3. CASE Goto(t, "clean_rule") /\ UNCHANGED <<lock, op>>
  BY <1>0, <1>3, GotoType DEF TypeOK
<1>4. CASE Goto(t, "starting") /\ UNCHANGED <<lock, op>>
  BY <1>0, <1>4, GotoType DEF TypeOK
<1> QED BY <1>1, <1>2, <1>3, <1>4

(* The death of a process keeps the environment well typed.                *)
LEMMA AbandonType ==
  ASSUME TypeOK, NEW s \in Slots \cup {NoSlot}, Abandon(s)
  PROVE  /\ core' \in [Slots -> CoreStates]
         /\ owner' \in Slots \cup {NoSlot}
         /\ tun' \subseteq TunParts
  BY DEF Abandon, TypeOK, CoreStates

(* A step of stop() is well typed.                                         *)
LEMMA StopStepType ==
  ASSUME TypeOK, NEW t \in Tasks, StopStep(t)
  PROVE  TypeOK'
<1>1. CASE StopSignal(t)
  <2>0. "stop_wait" \in Steps
    BY DEF Steps, StopSteps
  <2>1. pc' \in [Tasks -> Steps]
    BY <1>1, <2>0, GotoType DEF StopSignal, TypeOK
  <2>2. core' \in [Slots -> CoreStates]
    BY <1>1 DEF StopSignal, Sigterm, TypeOK, CoreStates
  <2> QED
    BY <1>1, <2>1, <2>2
    DEF StopSignal, TypeOK, helper_vars, manager_vars, watch_vars
<1>2. CASE StopReaped(t)
  BY <1>2, AfterStopType
  DEF StopReaped, TypeOK, helper_vars, env_vars, watch_vars
<1>3. CASE StopKill(t)
  <2>1. handle \in Slots \cup {NoSlot}
    BY DEF TypeOK
  <2>2. /\ core' \in [Slots -> CoreStates]
        /\ owner' \in Slots \cup {NoSlot}
        /\ tun' \subseteq TunParts
    BY <1>3, <2>1, AbandonType DEF StopKill
  <2> QED
    BY <1>3, <2>2, AfterStopType DEF StopKill, TypeOK, helper_vars, watch_vars
<1> QED
  BY <1>1, <1>2, <1>3 DEF StopStep

(* A step of cleanup_tun is well typed.                                    *)
LEMMA CleanStepType ==
  ASSUME TypeOK, NEW t \in Tasks, CleanStep(t)
  PROVE  TypeOK'
<1>0. {"clean_device", "regen", "idle"} \subseteq Steps
  BY DEF Steps, CleanSteps
<1>1. CASE CleanRule(t)
  <2>1. pc' \in [Tasks -> Steps]
    BY <1>0, <1>1, GotoType DEF CleanRule, TypeOK
  <2> QED
    BY <1>1, <2>1 DEF CleanRule, TypeOK, helper_vars, manager_vars, watch_vars
<1>2. CASE CleanDevice(t)
  <2>1. /\ pc' \in [Tasks -> Steps]
        /\ lock' \in Tasks \cup {"free"}
        /\ op' \in Ops
    <3>1. CASE t = "rpc"
      BY <1>2, <3>1, ReleaseType DEF CleanDevice
    <3>2. CASE t # "rpc"
      BY <1>0, <1>2, <3>2, GotoType DEF CleanDevice, TypeOK
    <3> QED BY <3>1, <3>2
  <2> QED
    BY <1>2, <2>1 DEF CleanDevice, TypeOK, helper_vars, manager_vars, watch_vars
<1> QED
  BY <1>1, <1>2 DEF CleanStep

LEMMA TaskStepType ==
  ASSUME TypeOK, NEW t \in Tasks, TaskStep(t)
  PROVE  TypeOK'
<1>1. CASE LoadBroken(t)
  BY <1>1, ReleaseType
  DEF LoadBroken, TypeOK, helper_vars, manager_vars, env_vars, watch_vars
<1> QED
  BY <1>1, StartStepType, StopStepType, CleanStepType DEF TaskStep

(* The reloads are well typed.                                             *)
LEMMA LoadType ==
  ASSUME TypeOK, NEW t \in Loaders, Load(t)
  PROVE  TypeOK'
<1>0. /\ t \in Tasks /\ "loading" \in Steps
      /\ "configure" \in Ops
  BY DEF Loaders, Tasks, Steps, Ops
<1>1. CASE ConfigureCold(t)
  BY <1>1 DEF ConfigureCold, TypeOK, helper_vars, env_vars, watch_vars
<1>2. CASE ConfigureHot(t)
  <2>1. pc' \in [Tasks -> Steps] /\ lock' \in Tasks \cup {"free"}
    BY <1>0, <1>2, GotoType DEF ConfigureHot, Acquire, TypeOK
  <2>2. op' \in Ops /\ config_ready' \in BOOLEAN
    BY <1>0, <1>2 DEF ConfigureHot, TypeOK
  <2> QED
    BY <1>2, <2>1, <2>2
    DEF ConfigureHot, TypeOK, helper_vars, env_vars, watch_vars
<1>3. CASE LoadAnswered(t)
  BY <1>0, <1>3, ReleaseType
  DEF LoadAnswered, TypeOK, helper_vars, manager_vars, env_vars, watch_vars
<1> QED BY <1>1, <1>2, <1>3 DEF Load

-----------------------------------------------------------------------------
(* The requests reach the core manager well typed.                         *)
LEMMA RpcType ==
  ASSUME TypeOK, Rpc
  PROVE  TypeOK'
<1>0. "rpc" \in Tasks
  BY DEF Tasks
<1>1. ASSUME NEW request \in Ops,
             NEW step \in Steps, RpcBegin(request, step)
      PROVE  TypeOK'
  <2>1. pc' \in [Tasks -> Steps] /\ lock' \in Tasks \cup {"free"}
    BY <1>0, <1>1, GotoType DEF RpcBegin, Acquire, TypeOK
  <2> QED
    BY <1>1, <2>1
    DEF RpcBegin, TypeOK, helper_vars, manager_vars, env_vars, watch_vars
<1>2. {"starting", "stopping", "clean_rule"} \subseteq Steps
  BY DEF Steps, StartSteps, StopSteps, CleanSteps
<1>3. {"start", "stop", "restart", "cleanup"} \subseteq Ops
  BY DEF Ops
<1>4. CASE \/ RpcStartCore \/ RpcStopCore \/ RpcRestartCore \/ RpcCleanupTun
           \/ RpcInstall
  BY <1>1, <1>2, <1>3, <1>4
  DEF RpcStartCore, RpcStopCore, RpcRestartCore, RpcCleanupTun, RpcInstall
<1>5. CASE RpcStatus
  BY <1>5 DEF RpcStatus, TypeOK, helper_vars, env_vars, watch_vars
<1> QED
  BY <1>4, <1>5 DEF Rpc

(* The start-up self-check is well typed.                                  *)
LEMMA BootTaskType ==
  ASSUME TypeOK, BootTask
  PROVE  TypeOK'
<1>0. "boot" \in Tasks /\ {"waiting", "starting"} \subseteq Steps
  BY DEF Tasks, Steps, StartSteps
<1>1. CASE TaskStep("boot")
  BY <1>0, <1>1, TaskStepType
<1>2. CASE BootRegenerate
  <2>1. pc' \in [Tasks -> Steps]
    BY <1>0, <1>2, GotoType DEF BootRegenerate, TypeOK
  <2> QED
    BY <1>2, <2>1 DEF BootRegenerate, TypeOK, helper_vars, env_vars, watch_vars
<1>3. CASE BootStart
  <2>1. pc' \in [Tasks -> Steps] /\ lock' \in Tasks \cup {"free"}
    BY <1>0, <1>3, GotoType DEF BootStart, Acquire, TypeOK
  <2> QED
    BY <1>3, <2>1
    DEF BootStart, TypeOK, helper_vars, manager_vars, env_vars, watch_vars
<1> QED
  BY <1>1, <1>2, <1>3 DEF BootTask

(* The crash watchdog is well typed; its sleep never exceeds MAX_BACKOFF.  *)
LEMMA CrashTaskType ==
  ASSUME TypeOK, CrashTask
  PROVE  TypeOK'
<1>0. /\ "crash_watch" \in Tasks
      /\ {"backoff", "starting", "clean_rule"} \subseteq Steps
  BY DEF Tasks, Steps, StartSteps, CleanSteps
<1>1. CASE TaskStep("crash_watch")
  BY <1>0, <1>1, TaskStepType
<1>2. CASE CheckCrashRestart
  <2>1. pc' \in [Tasks -> Steps]
    BY <1>0, <1>2, GotoType DEF CheckCrashRestart, TypeOK
  <2>2. delay' \in 0 .. MAX_BACKOFF
    BY <1>2, CrashesFinite, BackoffDelayType, LimitsAssumption
    DEF CheckCrashRestart, TypeOK
  <2>3. crash_ages' \subseteq 0 .. WINDOW - 1
    BY <1>2, LimitsAssumption DEF CheckCrashRestart, TypeOK
  <2> QED
    BY <1>2, <2>1, <2>2, <2>3
    DEF CheckCrashRestart, TypeOK, helper_vars, env_vars, watch_vars
<1>3. CASE CheckCrashGiveUp
  <2>1. pc' \in [Tasks -> Steps]
    BY <1>0, <1>3, GotoType DEF CheckCrashGiveUp, TypeOK
  <2> QED
    BY <1>3, <2>1
    DEF CheckCrashGiveUp, TypeOK, helper_vars, env_vars, watch_vars
<1>4. CASE BackoffOver
  <2>1. pc' \in [Tasks -> Steps] /\ lock' \in Tasks \cup {"free"}
    BY <1>0, <1>4, GotoType DEF BackoffOver, Acquire, TypeOK
  <2> QED
    BY <1>4, <2>1
    DEF BackoffOver, TypeOK, helper_vars, manager_vars, env_vars, watch_vars
<1> QED
  BY <1>1, <1>2, <1>3, <1>4 DEF CrashTask, CrashWatch

(* The TUN watchdog is well typed; its count never exceeds the threshold.  *)
LEMMA TunTaskType ==
  ASSUME TypeOK, TunTask
  PROVE  TypeOK'
<1>0. /\ "tun_watch" \in Tasks
      /\ {"idle", "observe", "clean_rule"} \subseteq Steps
  BY DEF Tasks, Steps, CleanSteps
<1>1. CASE TaskStep("tun_watch")
  BY <1>0, <1>1, TaskStepType
<1>2. ASSUME TunHealthy
      PROVE  /\ pc' \in [Tasks -> Steps]
             /\ grace' \in 0 .. STARTUP_GRACE
             /\ fail_count' \in 0 .. TUN_FAIL_THRESHOLD
             /\ degraded' \in BOOLEAN
  <2>1. pc' \in [Tasks -> Steps]
    BY <1>0, <1>2, GotoType DEF TunHealthy, TypeOK
  <2>2. fail_count' = 0 /\ grace' = grace
    BY <1>2 DEF TunHealthy
  <2>3. fail_count' \in 0 .. TUN_FAIL_THRESHOLD
    BY <2>2, LimitsAssumption
  <2>4. degraded' \in BOOLEAN
    BY <1>2 DEF TunHealthy
  <2> QED BY <2>1, <2>2, <2>3, <2>4 DEF TypeOK
<1>3. ASSUME TunUnhealthy
      PROVE  /\ pc' \in [Tasks -> Steps]
             /\ grace' \in 0 .. STARTUP_GRACE
             /\ fail_count' \in 0 .. TUN_FAIL_THRESHOLD
             /\ degraded' \in BOOLEAN
  <2>1. CASE grace > 0
    <3>1. pc' \in [Tasks -> Steps]
      BY <1>0, <1>3, <2>1, GotoType DEF TunUnhealthy, TypeOK
    <3> QED BY <1>3, <2>1, <3>1 DEF TunUnhealthy, TypeOK, watch_vars
  <2>2. CASE ~(grace > 0)
    <3> DEFINE n == IF fail_count < TUN_FAIL_THRESHOLD THEN fail_count + 1
                                                       ELSE fail_count
               open == n >= TUN_FAIL_THRESHOLD /\ ~degraded
    <3>1. /\ fail_count' = n
          /\ degraded' = (degraded \/ open)
          /\ grace' = grace
          /\ Goto("tun_watch", IF open THEN "clean_rule" ELSE "idle")
      BY <1>3, <2>2 DEF TunUnhealthy
    <3>2. n \in 0 .. TUN_FAIL_THRESHOLD
      BY LimitsAssumption DEF TypeOK
    <3>3. pc' \in [Tasks -> Steps]
      BY <1>0, <3>1, GotoType DEF TypeOK
    <3>4. (degraded \/ open) \in BOOLEAN
      OBVIOUS
    <3> QED BY <3>1, <3>2, <3>3, <3>4 DEF TypeOK
  <2> QED BY <2>1, <2>2
<1>4. CASE CheckTun
  <2>1. /\ pc' \in [Tasks -> Steps]
        /\ grace' \in 0 .. STARTUP_GRACE
        /\ fail_count' \in 0 .. TUN_FAIL_THRESHOLD
        /\ degraded' \in BOOLEAN
    <3>1. CASE TunHealthy
      BY <1>2, <3>1
    <3>2. CASE Goto("tun_watch", "observe") /\ UNCHANGED watch_vars
      <4>1. pc' \in [Tasks -> Steps]
        BY <1>0, <3>2, GotoType DEF TypeOK
      <4> QED BY <3>2, <4>1 DEF TypeOK, watch_vars
    <3> QED BY <1>4, <3>1, <3>2 DEF CheckTun
  <2>2. handle' \in Slots \cup {NoSlot}
    BY <1>4 DEF CheckTun, TypeOK
  <2> QED
    BY <1>4, <2>1, <2>2 DEF CheckTun, TypeOK, helper_vars, env_vars
<1>5. CASE ObserveTun
  <2>1. /\ pc' \in [Tasks -> Steps]
        /\ grace' \in 0 .. STARTUP_GRACE
        /\ fail_count' \in 0 .. TUN_FAIL_THRESHOLD
        /\ degraded' \in BOOLEAN
    BY <1>2, <1>3, <1>5 DEF ObserveTun
  <2> QED
    BY <1>5, <2>1 DEF ObserveTun, TypeOK, helper_vars, manager_vars, env_vars
<1> QED
  BY <1>1, <1>4, <1>5 DEF TunTask

(* The end of an instance leaves the state of a new one.                   *)
LEMMA VanishType ==
  ASSUME TypeOK, Vanish, CoreTerminated,
         last_exit' \in {"killed", "clean", "partial"},
         owner' = owner, tun' \subseteq tun
  PROVE  TypeOK'
<1>1. pc' \in [Tasks -> Steps]
  BY DEF Vanish, Steps
<1>2. core' \in [Slots -> CoreStates]
  BY DEF CoreTerminated, CoreStates
<1>3. /\ delay' \in 0 .. MAX_BACKOFF
      /\ grace' \in 0 .. STARTUP_GRACE
      /\ fail_count' \in 0 .. TUN_FAIL_THRESHOLD
  BY LimitsAssumption DEF Vanish
<1> QED
  BY <1>1, <1>2, <1>3 DEF Vanish, TypeOK, Ops

(* SIGTERM, SIGKILL and the way out are well typed.                        *)
LEMMA EndType ==
  ASSUME TypeOK, TermTask \/ SigtermArrives \/ HelperKilled
  PROVE  TypeOK'
<1>0. "term" \in Tasks /\ {"waiting", "stopping"} \subseteq Steps
  BY DEF Tasks, Steps, StopSteps
<1>1. CASE TaskStep("term")
  BY <1>0, <1>1, TaskStepType
<1>2. CASE TermStop
  <2>1. pc' \in [Tasks -> Steps] /\ lock' \in Tasks \cup {"free"}
    BY <1>0, <1>2, GotoType DEF TermStop, Acquire, TypeOK
  <2> QED
    BY <1>2, <2>1
    DEF TermStop, TypeOK, helper_vars, manager_vars, env_vars, watch_vars
<1>3. CASE TermExit
  <2>1. tun' \subseteq tun /\ last_exit' \in {"killed", "clean", "partial"}
    BY <1>3 DEF TermExit
  <2> QED
    BY <1>3, <2>1, VanishType DEF TermExit
<1>4. CASE SigtermArrives
  <2>1. pc' \in [Tasks -> Steps]
    BY <1>0, <1>4, GotoType DEF SigtermArrives, TypeOK
  <2>2. core' \in [Slots -> CoreStates]
    BY <1>4 DEF SigtermArrives, CoreTerminated, CoreStates, TypeOK
  <2> QED
    BY <1>4, <2>1, <2>2
    DEF SigtermArrives, TypeOK, helper_vars, manager_vars, watch_vars
<1>5. CASE HelperKilled
  BY <1>5, VanishType DEF HelperKilled
<1> QED
  BY <1>1, <1>2, <1>3, <1>4, <1>5 DEF TermTask

(* systemd's steps are well typed.                                         *)
LEMMA SystemdType ==
  ASSUME TypeOK, Systemd
  PROVE  TypeOK'
<1>1. CASE StopPost
  BY <1>1 DEF StopPost, TypeOK, manager_vars, watch_vars
<1>2. CASE HelperStarts
  BY <1>2, FreshPcType DEF HelperStarts, TypeOK, manager_vars, env_vars, watch_vars
<1> QED
  BY <1>1, <1>2 DEF Systemd

(* The steps of the core process are well typed.                           *)
LEMMA CoreStepType ==
  ASSUME TypeOK, NEW s \in Slots, CoreStep(s)
  PROVE  TypeOK'
<1>1. CASE CoreServes(s)
  <2>1. core' \in [Slots -> CoreStates]
    BY <1>1 DEF CoreServes, TypeOK, CoreStates
  <2> QED
    BY <1>1, <2>1
    DEF CoreServes, TypeOK, helper_vars, manager_vars, watch_vars
<1>2. CASE CoreTunUp(s)
  <2>1. core' \in [Slots -> CoreStates]
    BY <1>2 DEF CoreTunUp, TypeOK, CoreStates
  <2> QED
    BY <1>2, <2>1 DEF CoreTunUp, TypeOK, helper_vars, manager_vars, watch_vars
<1>3. CASE CoreCrash(s)
  <2>1. /\ core' \in [Slots -> CoreStates]
        /\ owner' \in Slots \cup {NoSlot}
        /\ tun' \subseteq TunParts
    BY <1>3, AbandonType DEF CoreCrash
  <2> QED
    BY <1>3, <2>1 DEF CoreCrash, TypeOK, helper_vars, manager_vars, watch_vars
<1>4. CASE CoreExit(s)
  <2>1. core' \in [Slots -> CoreStates]
    BY <1>4 DEF CoreExit, TypeOK, CoreStates
  <2> QED
    BY <1>4, <2>1 DEF CoreExit, TypeOK, helper_vars, manager_vars, watch_vars
<1> QED
  BY <1>1, <1>2, <1>3, <1>4 DEF CoreStep

(* A lost identifier and a second of the clock are well typed.             *)
LEMMA WorldType ==
  ASSUME TypeOK, TunBreaks \/ Tick
  PROVE  TypeOK'
<1>1. CASE TunBreaks
  BY <1>1 DEF TunBreaks, TypeOK, helper_vars, manager_vars, watch_vars
<1>2. CASE Tick
  <2>1. crash_ages' \subseteq 0 .. WINDOW - 1
    BY <1>2 DEF Tick
  <2>2. delay' \in 0 .. MAX_BACKOFF /\ grace' \in 0 .. STARTUP_GRACE
    BY <1>2, LimitsAssumption DEF Tick, TypeOK
  <2> QED
    BY <1>2, <2>1, <2>2 DEF Tick, TypeOK, helper_vars, env_vars
<1> QED BY <1>1, <1>2

-----------------------------------------------------------------------------
(* Every step is well typed.                                               *)
LEMMA TypeStep == TypeOK /\ [Next]_vars => TypeOK'
<1> SUFFICES ASSUME TypeOK, [Next]_vars PROVE TypeOK'
  OBVIOUS
<1>0. Loaders \subseteq Tasks /\ Loaders = {"rpc", "autoupdate", "helper_poll"}
  BY DEF Tasks, Loaders
<1>1. CASE UNCHANGED vars
  BY <1>1 DEF vars, helper_vars, manager_vars, env_vars, watch_vars, TypeOK
<1>2. CASE \E t \in Loaders : TaskStep(t) \/ Load(t)
  BY <1>0, <1>2, TaskStepType, LoadType
<1>3. CASE \E s \in Slots : CoreStep(s)
  BY <1>3, CoreStepType
<1> QED
  BY <1>0, <1>1, <1>2, <1>3, BootTaskType, CrashTaskType, TunTaskType, EndType,
     RpcType, SystemdType, WorldType
  DEF Next

(* Type correctness, for every size of the limits: among the rest, the     *)
(* backoff sleep stays within MAX_BACKOFF and the failure count within its *)
(* threshold.                                                              *)
THEOREM TypeInvariant == Spec => []TypeOK
  BY InitTypeOK, TypeStep, PTL DEF Spec

-----------------------------------------------------------------------------
(* Lock discipline.  A step of one task keeps it in one of three ways: the *)
(* task takes the lock, gives it back, or stays on its side of the lock.   *)

LEMMA AcquireKeepsDiscipline ==
  ASSUME TypeOK, LockDiscipline, NEW t \in Tasks, NEW step \in HoldingSteps(t),
         Acquire(t, step)
  PROVE  LockDiscipline'
<1>1. lock = "free" /\ lock' = t /\ pc' = [pc EXCEPT ![t] = step]
  BY DEF Acquire, Goto
<1>2. "free" \notin Tasks
  BY DEF Tasks
<1>3. \A u \in Tasks : pc[u] \notin HoldingSteps(u)
  BY <1>1, <1>2 DEF LockDiscipline
<1>4. /\ pc'[t] = step
      /\ \A u \in Tasks \ {t} : pc'[u] = pc[u]
  BY <1>1 DEF TypeOK
<1>5. ASSUME NEW u \in Tasks
      PROVE  lock' = u <=> pc'[u] \in HoldingSteps(u)
  <2>1. CASE u = t
    BY <1>1, <1>4, <2>1
  <2>2. CASE u # t
    BY <1>1, <1>3, <1>4, <2>2
  <2> QED BY <2>1, <2>2
<1> QED BY <1>5 DEF LockDiscipline, HoldingSteps

LEMMA ReleaseKeepsDiscipline ==
  ASSUME TypeOK, LockDiscipline, NEW t \in Tasks, pc[t] \in HoldingSteps(t),
         Release(t)
  PROVE  LockDiscipline'
<1>1. lock = t /\ lock' = "free" /\ pc' = [pc EXCEPT ![t] = "idle"]
  BY DEF Release, Goto, LockDiscipline
<1>2. "free" \notin Tasks
  BY DEF Tasks
<1>3. \A u \in Tasks : "idle" \notin HoldingSteps(u)
  BY DEF HoldingSteps, StartSteps, StopSteps, CleanSteps
<1>4. /\ pc'[t] = "idle"
      /\ \A u \in Tasks \ {t} : pc'[u] = pc[u]
  BY <1>1 DEF TypeOK
<1>5. \A u \in Tasks \ {t} : pc[u] \notin HoldingSteps(u)
  BY <1>1 DEF LockDiscipline
<1>6. \A u \in Tasks : lock' # u /\ pc'[u] \notin HoldingSteps(u)
  BY <1>1, <1>2, <1>3, <1>4, <1>5
<1> QED BY <1>6 DEF LockDiscipline, HoldingSteps

LEMMA GotoKeepsDiscipline ==
  ASSUME TypeOK, LockDiscipline, NEW t \in Tasks, NEW step \in Steps,
         Goto(t, step), lock' = lock,
         pc[t] \in HoldingSteps(t) <=> step \in HoldingSteps(t)
  PROVE  LockDiscipline'
<1>1. /\ pc'[t] = step
      /\ \A u \in Tasks \ {t} : pc'[u] = pc[u]
  BY DEF Goto, TypeOK
<1>2. ASSUME NEW u \in Tasks
      PROVE  lock' = u <=> pc'[u] \in HoldingSteps(u)
  <2>1. CASE u = t
    BY <1>1, <2>1 DEF LockDiscipline
  <2>2. CASE u # t
    BY <1>1, <2>2 DEF LockDiscipline
  <2> QED BY <2>1, <2>2
<1> QED BY <1>2 DEF LockDiscipline, HoldingSteps

LEMMA StillKeepsDiscipline ==
  ASSUME LockDiscipline, UNCHANGED <<lock, pc>>
  PROVE  LockDiscipline'
  BY DEF LockDiscipline, HoldingSteps

(* The steps of start() and stop() hold the lock, whoever runs them.       *)
LEMMA StartStopHold ==
  ASSUME NEW t \in Tasks
  PROVE  StartSteps \cup StopSteps \subseteq HoldingSteps(t)
  BY DEF HoldingSteps

LEMMA StartStepDiscipline ==
  ASSUME TypeOK, LockDiscipline, NEW t \in Tasks, StartStep(t)
  PROVE  LockDiscipline'
<1>0. /\ {"starting", "probing", "fail_wait"} \subseteq HoldingSteps(t)
      /\ {"probing", "fail_wait"} \subseteq Steps
  BY DEF HoldingSteps, StartSteps, Steps
<1>1. CASE \/ StartIdempotent(t) \/ StartRefused(t) \/ StartSpawnFails(t)
           \/ ProbeReady(t)
  <2>1. pc[t] \in HoldingSteps(t) /\ Release(t)
    BY <1>0, <1>1
    DEF StartIdempotent, StartRefused, StartSpawnFails, ProbeReady
  <2> QED BY <2>1, ReleaseKeepsDiscipline
<1>2. CASE StartSpawn(t)
  <2>1. pc[t] = "starting" /\ Goto(t, "probing") /\ lock' = lock
    BY <1>2 DEF StartSpawn
  <2> QED BY <1>0, <2>1, GotoKeepsDiscipline
<1>3. CASE ProbeTimeout(t)
  <2>1. pc[t] = "probing" /\ Goto(t, "fail_wait") /\ lock' = lock
    BY <1>3 DEF ProbeTimeout
  <2> QED BY <1>0, <2>1, GotoKeepsDiscipline
<1> QED BY <1>1, <1>2, <1>3 DEF StartStep

LEMMA StopStepDiscipline ==
  ASSUME TypeOK, LockDiscipline, NEW t \in Tasks, StopStep(t)
  PROVE  LockDiscipline'
<1>0. /\ {"starting", "fail_wait", "stopping", "stop_wait"}
            \subseteq HoldingSteps(t)
      /\ {"starting", "stop_wait", "clean_rule"} \subseteq Steps
      /\ t = "term" => "clean_rule" \in HoldingSteps(t)
  BY DEF HoldingSteps, StartSteps, StopSteps, CleanSteps, Steps
<1>1. CASE StopSignal(t)
  <2>1. pc[t] = "stopping" /\ Goto(t, "stop_wait") /\ lock' = lock
    BY <1>1 DEF StopSignal
  <2> QED BY <1>0, <2>1, GotoKeepsDiscipline
<1>2. CASE StopReaped(t) \/ StopKill(t)
  <2>1. pc[t] \in HoldingSteps(t) /\ AfterStop(t)
    BY <1>0, <1>2 DEF StopReaped, StopKill
  <2>2. \/ Release(t)
        \/ t = "term" /\ Goto(t, "clean_rule") /\ lock' = lock
        \/ Goto(t, "starting") /\ lock' = lock
    BY <2>1 DEF AfterStop
  <2>3. CASE Release(t)
    BY <2>1, <2>3, ReleaseKeepsDiscipline
  <2>4. CASE t = "term" /\ Goto(t, "clean_rule") /\ lock' = lock
    BY <1>0, <2>1, <2>4, GotoKeepsDiscipline
  <2>5. CASE Goto(t, "starting") /\ lock' = lock
    BY <1>0, <2>1, <2>5, GotoKeepsDiscipline
  <2> QED BY <2>2, <2>3, <2>4, <2>5
<1> QED BY <1>1, <1>2 DEF StopStep

LEMMA CleanStepDiscipline ==
  ASSUME TypeOK, LockDiscipline, NEW t \in Tasks, CleanStep(t)
  PROVE  LockDiscipline'
<1>0. /\ {"clean_rule", "clean_device", "regen", "idle"} \subseteq Steps
      /\ \/ {"clean_rule", "clean_device"} \subseteq HoldingSteps(t)
         \/ /\ t \notin {"rpc", "term"}
            /\ {"clean_rule", "clean_device"} \cap HoldingSteps(t) = {}
      /\ {"regen", "idle"} \cap HoldingSteps(t) = {}
      /\ t = "rpc" => "clean_device" \in HoldingSteps(t)
  BY DEF HoldingSteps, StartSteps, StopSteps, CleanSteps, Steps
<1>1. CASE CleanRule(t)
  <2>1. pc[t] = "clean_rule" /\ Goto(t, "clean_device") /\ lock' = lock
    BY <1>1 DEF CleanRule
  <2> QED BY <1>0, <2>1, GotoKeepsDiscipline
<1>2. CASE CleanDevice(t)
  <2>1. pc[t] = "clean_device" /\ t # "term"
    BY <1>2 DEF CleanDevice
  <2>2. CASE t = "rpc"
    <3>1. Release(t)
      BY <1>2, <2>2 DEF CleanDevice
    <3> QED BY <1>0, <2>1, <2>2, <3>1, ReleaseKeepsDiscipline
  <2>3. CASE t # "rpc"
    <3>1. /\ Goto(t, "regen") \/ Goto(t, "idle")
          /\ lock' = lock
      BY <1>2, <2>3 DEF CleanDevice
    <3>2. pc[t] \notin HoldingSteps(t)
      BY <2>1, <2>3 DEF HoldingSteps, StartSteps, StopSteps
    <3>3. CASE Goto(t, "regen")
      BY <1>0, <3>1, <3>2, <3>3, GotoKeepsDiscipline
    <3>4. CASE Goto(t, "idle")
      BY <1>0, <3>1, <3>2, <3>4, GotoKeepsDiscipline
    <3> QED BY <3>1, <3>3, <3>4
  <2> QED BY <2>2, <2>3
<1> QED BY <1>1, <1>2 DEF CleanStep

LEMMA TaskStepDiscipline ==
  ASSUME TypeOK, LockDiscipline, NEW t \in Tasks, TaskStep(t)
  PROVE  LockDiscipline'
<1>1. CASE LoadBroken(t)
  <2>1. pc[t] \in HoldingSteps(t) /\ Release(t)
    BY <1>1 DEF LoadBroken, HoldingSteps
  <2> QED BY <2>1, ReleaseKeepsDiscipline
<1> QED
  BY <1>1, StartStepDiscipline, StopStepDiscipline, CleanStepDiscipline
  DEF TaskStep

(* A reload takes the lock before the core is asked and gives it back      *)
(* after the answer.                                                       *)
LEMMA LoadDiscipline ==
  ASSUME TypeOK, LockDiscipline, NEW t \in Loaders, Load(t)
  PROVE  LockDiscipline'
<1>0. t \in Tasks /\ "loading" \in HoldingSteps(t)
  BY DEF Loaders, Tasks, HoldingSteps
<1>1. CASE ConfigureCold(t)
  BY <1>1, StillKeepsDiscipline DEF ConfigureCold
<1>2. CASE ConfigureHot(t)
  BY <1>0, <1>2, AcquireKeepsDiscipline DEF ConfigureHot
<1>3. CASE LoadAnswered(t)
  <2>1. pc[t] \in HoldingSteps(t) /\ Release(t)
    BY <1>0, <1>3 DEF LoadAnswered
  <2> QED BY <1>0, <2>1, ReleaseKeepsDiscipline
<1> QED BY <1>1, <1>2, <1>3 DEF Load

(* Every step of the system keeps the lock discipline.  DownIsEmpty is     *)
(* what a new instance starts from.                                        *)
LEMMA NextDiscipline ==
  ASSUME TypeOK, LockDiscipline, DownIsEmpty, Next
  PROVE  LockDiscipline'
<1>0. /\ {"boot", "crash_watch", "tun_watch", "rpc", "term"} \subseteq Tasks
      /\ {"autoupdate", "helper_poll"} \subseteq Tasks
      /\ "free" \notin Tasks
  BY DEF Tasks
<1>a. \A t \in Tasks : {"starting", "stopping"} \subseteq HoldingSteps(t)
  BY DEF HoldingSteps, StartSteps, StopSteps
<1>b. \A t \in Tasks :
        {"idle", "waiting", "regen", "backoff", "observe"} \cap HoldingSteps(t)
          = {}
  BY DEF HoldingSteps, StartSteps, StopSteps, CleanSteps
<1>c. \A t \in {"boot", "crash_watch", "tun_watch"} :
        "clean_rule" \notin HoldingSteps(t)
  BY DEF HoldingSteps, StartSteps, StopSteps
<1>d. {"idle", "waiting", "regen", "backoff", "observe", "clean_rule"}
        \subseteq Steps
  BY DEF Steps, CleanSteps
<1>1. CASE \E t \in Tasks : TaskStep(t)
  BY <1>1, TaskStepDiscipline
<1>2. CASE BootRegenerate
  <2>1. pc["boot"] = "regen" /\ Goto("boot", "waiting") /\ lock' = lock
    BY <1>2 DEF BootRegenerate
  <2> QED BY <1>0, <1>b, <1>d, <2>1, GotoKeepsDiscipline
<1>3. CASE BootStart \/ BackoffOver \/ TermStop
  <2>1. \/ Acquire("boot", "starting") \/ Acquire("crash_watch", "starting")
        \/ Acquire("term", "stopping")
    BY <1>3 DEF BootStart, BackoffOver, TermStop
  <2> QED BY <1>0, <1>a, <2>1, AcquireKeepsDiscipline
<1>4. CASE CrashWatch
  <2>1. /\ pc["crash_watch"] = "idle" /\ lock' = lock
        /\ Goto("crash_watch", "backoff") \/ Goto("crash_watch", "clean_rule")
    BY <1>4 DEF CrashWatch, CheckCrashRestart, CheckCrashGiveUp, CrashSeen
  <2> QED BY <1>0, <1>b, <1>c, <1>d, <2>1, GotoKeepsDiscipline
<1>5. CASE CheckTun \/ ObserveTun
  <2>1. /\ pc["tun_watch"] \in {"idle", "observe"} /\ lock' = lock
        /\ \/ Goto("tun_watch", "idle") \/ Goto("tun_watch", "observe")
           \/ Goto("tun_watch", "clean_rule")
    BY <1>5 DEF CheckTun, ObserveTun, TunHealthy, TunUnhealthy
  <2> QED BY <1>0, <1>b, <1>c, <1>d, <2>1, GotoKeepsDiscipline
<1>6. CASE Rpc
  <2>1. CASE RpcStatus
    BY <2>1, StillKeepsDiscipline DEF RpcStatus
  <2>2. CASE ~RpcStatus
    <3>1. \E step \in {"starting", "stopping", "clean_rule"} :
            Acquire("rpc", step)
      BY <1>6, <2>2
      DEF Rpc, RpcStartCore, RpcStopCore, RpcRestartCore, RpcCleanupTun,
          RpcInstall, RpcBegin
    <3>2. {"starting", "stopping", "clean_rule"} \subseteq HoldingSteps("rpc")
      BY DEF HoldingSteps, StartSteps, StopSteps, CleanSteps
    <3> QED BY <1>0, <3>1, <3>2, AcquireKeepsDiscipline
  <2> QED BY <2>1, <2>2
<1>7. CASE SigtermArrives
  <2>1. pc["term"] = "idle" /\ Goto("term", "waiting") /\ lock' = lock
    BY <1>7 DEF SigtermArrives
  <2> QED BY <1>0, <1>b, <1>d, <2>1, GotoKeepsDiscipline
<1>8. CASE TermExit \/ HelperKilled
  <2>1. lock' = "free" /\ pc' = [t \in Tasks |-> "idle"]
    BY <1>8 DEF TermExit, HelperKilled, Vanish
  <2>2. \A t \in Tasks : lock' # t /\ pc'[t] \notin HoldingSteps(t)
    BY <1>0, <1>b, <2>1
  <2> QED BY <2>2 DEF LockDiscipline, HoldingSteps
<1>9. CASE HelperStarts
  <2>1. lock' = lock /\ pc' = FreshPc /\ pc = [t \in Tasks |-> "idle"]
    BY <1>9 DEF HelperStarts, DownIsEmpty
  <2>2. \A t \in Tasks : lock # t
    BY <1>b, <2>1 DEF LockDiscipline
  <2>3. \A t \in Tasks : pc'[t] \notin HoldingSteps(t)
    BY <1>0, <1>b, <1>c, <2>1 DEF FreshPc
  <2> QED BY <2>1, <2>2, <2>3 DEF LockDiscipline, HoldingSteps
<1>10. CASE StopPost \/ (\E s \in Slots : CoreStep(s)) \/ TunBreaks \/ Tick
  BY <1>10, StillKeepsDiscipline
  DEF StopPost, CoreStep, CoreServes, CoreTunUp, CoreCrash, CoreExit,
      TunBreaks, Tick
<1>11. CASE \E t \in Loaders : Load(t)
  BY <1>11, LoadDiscipline
<1> QED
  BY <1>0, <1>1, <1>2, <1>3, <1>4, <1>5, <1>6, <1>7, <1>8, <1>9, <1>10, <1>11
  DEF Next, BootTask, CrashTask, TunTask, TermTask, Systemd

-----------------------------------------------------------------------------
(* What the lock protects.                                                 *)

CoreSafe ==
  /\ DownIsEmpty /\ SweptIsEmpty
  /\ OneCore /\ RunningIsSupervised
  /\ TermIsLast /\ GracefulExit

(* While the helper is up it is enough that a live process is the one held *)
(* and wanted, and that none lives while the SIGTERM branch cleans.        *)
LEMMA UpStep ==
  ASSUME helper' = "up",
         \A s \in Slots : core'[s] # "dead" => handle' = s /\ want_running',
         pc'["term"] \in CleanSteps => \A s \in Slots : core'[s] = "dead"
  PROVE  CoreSafe'
<1>1. OneCore' /\ RunningIsSupervised'
  BY DEF OneCore, RunningIsSupervised, Alive
<1>2. TermIsLast'
  BY DEF TermIsLast, NoneAlive, Alive, CleanSteps
<1>3. DownIsEmpty' /\ SweptIsEmpty' /\ GracefulExit'
  BY DEF DownIsEmpty, SweptIsEmpty, GracefulExit
<1> QED BY <1>1, <1>2, <1>3 DEF CoreSafe

(* A step that starts no process and leaves handle and want_running alone. *)
LEMMA QuietStep ==
  ASSUME CoreSafe, helper = "up",
         UNCHANGED <<helper, handle, want_running>>,
         \A s \in Slots : core[s] = "dead" => core'[s] = "dead",
         pc'["term"] \in CleanSteps => pc["term"] \in CleanSteps
  PROVE  CoreSafe'
<1>1. \A s \in Slots : core'[s] # "dead" => handle' = s /\ want_running'
  BY DEF CoreSafe, OneCore, RunningIsSupervised, Alive
<1>2. pc'["term"] \in CleanSteps => \A s \in Slots : core'[s] = "dead"
  BY DEF CoreSafe, TermIsLast, NoneAlive, Alive
<1> QED BY <1>1, <1>2, UpStep

(* A step after which no process lives is safe whatever else it does.      *)
LEMMA EmptyStep ==
  ASSUME helper' = "up", \A s \in Slots : core'[s] = "dead"
  PROVE  CoreSafe'
  BY UpStep

(* If state() does not say "running", no process exists at all.            *)
LEMMA NotRunningIsEmpty ==
  ASSUME CoreSafe, helper = "up", ~StateRunning
  PROVE  \A s \in Slots : core[s] = "dead"
  BY SlotsAssumption DEF CoreSafe, OneCore, StateRunning, Alive

LEMMA StartStepSafe ==
  ASSUME TypeOK, LockDiscipline, CoreSafe, NEW t \in Tasks, StartStep(t)
  PROVE  CoreSafe'
<1>0. /\ helper = "up" /\ "term" \in Tasks
      /\ {"idle", "probing", "fail_wait"} \cap CleanSteps = {}
  BY DEF StartStep, StartIdempotent, StartRefused, StartSpawnFails, StartSpawn,
         ProbeReady, ProbeTimeout, Tasks, CleanSteps
<1>1. CASE StartIdempotent(t) \/ ProbeReady(t)
  <2>1. /\ pc' = [pc EXCEPT ![t] = "idle"]
        /\ UNCHANGED <<helper, handle, want_running, core>>
    BY <1>1 DEF StartIdempotent, ProbeReady, Release, Goto, helper_vars,
                manager_vars, env_vars
  <2>2. pc'["term"] \in CleanSteps => pc["term"] \in CleanSteps
    BY <1>0, <2>1 DEF TypeOK
  <2> QED BY <1>0, <2>1, <2>2, QuietStep
<1>2. CASE StartRefused(t) \/ StartSpawnFails(t)
  <2>1. helper' = helper /\ core' = core /\ ~StateRunning
    BY <1>2 DEF StartRefused, StartSpawnFails, helper_vars, env_vars
  <2> QED BY <1>0, <2>1, NotRunningIsEmpty, EmptyStep
<1>3. CASE StartSpawn(t)
  <2>1. PICK s \in Slots :
           core' = [core EXCEPT ![s] = "booting"] /\ handle' = s
    BY <1>3 DEF StartSpawn
  <2>2. \A r \in Slots : core[r] = "dead"
    BY <1>0, <1>3, NotRunningIsEmpty DEF StartSpawn
  <2>3. \A r \in Slots : core'[r] # "dead" => handle' = r /\ want_running'
    BY <1>3, <2>1, <2>2 DEF StartSpawn, TypeOK
  <2>4. helper' = "up"
    BY <1>0, <1>3 DEF StartSpawn, helper_vars
  <2>5. pc'["term"] \notin CleanSteps
    <3>1. lock = t /\ pc' = [pc EXCEPT ![t] = "probing"]
      BY <1>3 DEF StartSpawn, Goto, LockDiscipline, HoldingSteps, StartSteps
    <3>2. CASE t = "term"
      BY <1>0, <3>1, <3>2 DEF TypeOK
    <3>3. CASE t # "term"
      <4>1. pc["term"] \notin HoldingSteps("term")
        BY <1>0, <3>1, <3>3 DEF LockDiscipline
      <4> QED BY <1>0, <3>1, <3>3, <4>1 DEF TypeOK, HoldingSteps
    <3> QED BY <3>2, <3>3
  <2> QED BY <2>3, <2>4, <2>5, UpStep
<1>4. CASE ProbeTimeout(t)
  <2>1. /\ pc' = [pc EXCEPT ![t] = "fail_wait"]
        /\ UNCHANGED <<helper, handle, want_running>>
    BY <1>4 DEF ProbeTimeout, Goto, helper_vars, manager_vars
  <2>2. pc'["term"] \in CleanSteps => pc["term"] \in CleanSteps
    BY <1>0, <2>1 DEF TypeOK
  <2>3. \A s \in Slots : core[s] = "dead" => core'[s] = "dead"
    BY <1>4 DEF ProbeTimeout, Sigterm, Alive, TypeOK
  <2> QED BY <1>0, <2>1, <2>2, <2>3, QuietStep
<1> QED BY <1>1, <1>2, <1>3, <1>4 DEF StartStep

LEMMA StopStepSafe ==
  ASSUME TypeOK, CoreSafe, NEW t \in Tasks, StopStep(t)
  PROVE  CoreSafe'
<1>0. helper = "up" /\ "term" \in Tasks /\ "stop_wait" \notin CleanSteps
  BY DEF StopStep, StopSignal, StopReaped, StopKill, Tasks, CleanSteps
<1>1. CASE StopSignal(t)
  <2>1. /\ pc' = [pc EXCEPT ![t] = "stop_wait"]
        /\ UNCHANGED <<helper, handle, want_running>>
    BY <1>1 DEF StopSignal, Goto, helper_vars, manager_vars
  <2>2. pc'["term"] \in CleanSteps => pc["term"] \in CleanSteps
    BY <1>0, <2>1 DEF TypeOK
  <2>3. \A s \in Slots : core[s] = "dead" => core'[s] = "dead"
    BY <1>1 DEF StopSignal, Sigterm, Alive, TypeOK
  <2> QED BY <1>0, <2>1, <2>2, <2>3, QuietStep
<1>2. CASE StopReaped(t)
  <2>1. helper' = helper /\ core' = core /\ ~StateRunning
    BY <1>2 DEF StopReaped, helper_vars, env_vars
  <2> QED BY <1>0, <2>1, NotRunningIsEmpty, EmptyStep
<1>3. CASE StopKill(t)
  <2>1. helper' = "up" /\ core' = [core EXCEPT ![handle] = "dead"]
    BY <1>0, <1>3 DEF StopKill, Abandon, helper_vars
  <2>2. \A s \in Slots : core'[s] = "dead"
    BY <1>0, <2>1 DEF CoreSafe, OneCore, Alive, TypeOK
  <2> QED BY <2>1, <2>2, EmptyStep
<1> QED BY <1>1, <1>2, <1>3 DEF StopStep

LEMMA CleanStepSafe ==
  ASSUME TypeOK, CoreSafe, NEW t \in Tasks, CleanStep(t)
  PROVE  CoreSafe'
<1>0. /\ helper = "up" /\ "term" \in Tasks /\ pc[t] \in CleanSteps
      /\ UNCHANGED <<helper, handle, want_running, core>>
  BY DEF CleanStep, CleanRule, CleanDevice, Tasks, CleanSteps, helper_vars,
         manager_vars
<1>1. \A u \in Tasks \ {t} : pc'[u] = pc[u]
  BY DEF CleanStep, CleanRule, CleanDevice, Release, Goto, TypeOK
<1>2. pc'["term"] \in CleanSteps => pc["term"] \in CleanSteps
  BY <1>0, <1>1
<1> QED BY <1>0, <1>2, QuietStep

(* A task that moves leaves the SIGTERM branch where it is.                *)
LEMMA TermUnmoved ==
  ASSUME TypeOK, NEW t \in Tasks \ {"term"}, NEW step, Goto(t, step)
  PROVE  pc'["term"] = pc["term"]
  BY DEF Goto, TypeOK, Tasks

(* A reload moves its task in and out of the lock and touches no process.  *)
LEMMA LoadSafe ==
  ASSUME TypeOK, CoreSafe, NEW t \in Loaders, Load(t)
  PROVE  CoreSafe'
<1>0. t \in Tasks \ {"term"}
  BY DEF Loaders, Tasks
<1>1. CASE ConfigureCold(t)
  <2>1. helper = "up" /\ ~StateRunning /\ helper' = helper /\ core' = core
    BY <1>1 DEF ConfigureCold, helper_vars, env_vars
  <2> QED BY <2>1, NotRunningIsEmpty, EmptyStep
<1>2. CASE ConfigureHot(t) \/ LoadAnswered(t)
  <2>1. helper = "up" /\ UNCHANGED <<helper, handle, want_running, core>>
    BY <1>2 DEF ConfigureHot, LoadAnswered, helper_vars, manager_vars, env_vars
  <2>2. pc'["term"] = pc["term"]
    BY <1>0, <1>2, TermUnmoved
    DEF ConfigureHot, LoadAnswered, Acquire, Release
  <2> QED BY <2>1, <2>2, QuietStep
<1> QED BY <1>1, <1>2 DEF Load

(* The self-check, the watchdogs, the requests and the arrival of SIGTERM. *)
LEMMA TaskSafe ==
  ASSUME TypeOK, LockDiscipline, CoreSafe,
         \/ BootTask \/ CrashTask \/ TunTask \/ TaskStep("rpc") \/ Rpc
         \/ TaskStep("autoupdate") \/ TaskStep("helper_poll")
         \/ TaskStep("term") \/ TermStop \/ SigtermArrives
  PROVE  CoreSafe'
<1>0. /\ {"boot", "crash_watch", "tun_watch", "rpc", "term"} \subseteq Tasks
      /\ {"autoupdate", "helper_poll"} \subseteq Tasks
      /\ {"waiting", "stopping"} \cap CleanSteps = {}
  BY DEF Tasks, CleanSteps
<1>1. CASE \E t \in Tasks : TaskStep(t)
  <2>1. PICK t \in Tasks : TaskStep(t)
    BY <1>1
  <2>2. CASE LoadBroken(t)
    <3>1. helper = "up" /\ UNCHANGED <<helper, handle, want_running, core>>
      BY <2>2 DEF LoadBroken, helper_vars, manager_vars, env_vars
    <3>2. pc' = [pc EXCEPT ![t] = "idle"]
      BY <2>2 DEF LoadBroken, Release, Goto
    <3>3. pc'["term"] \in CleanSteps => pc["term"] \in CleanSteps
      BY <3>2, <1>0 DEF TypeOK, CleanSteps
    <3> QED BY <3>1, <3>3, QuietStep
  <2> QED BY <2>1, <2>2, StartStepSafe, StopStepSafe, CleanStepSafe DEF TaskStep
<1>2. CASE BootRegenerate \/ BootStart \/ BackoffOver
  <2>1. helper = "up" /\ UNCHANGED <<helper, handle, want_running, core>>
    BY <1>2 DEF BootRegenerate, BootStart, BackoffOver, helper_vars,
                manager_vars, env_vars
  <2>2. pc'["term"] = pc["term"]
    BY <1>0, <1>2, TermUnmoved DEF BootRegenerate, BootStart, BackoffOver, Acquire
  <2> QED BY <2>1, <2>2, QuietStep
<1>3. CASE CrashWatch
  <2>1. helper = "up" /\ ~StateRunning /\ helper' = helper /\ core' = core
    BY <1>3 DEF CrashWatch, CheckCrashRestart, CheckCrashGiveUp, CrashSeen,
                helper_vars, env_vars
  <2> QED BY <2>1, NotRunningIsEmpty, EmptyStep
<1>4. CASE CheckTun \/ ObserveTun
  <2>1. helper = "up" /\ UNCHANGED <<helper, want_running, core>>
    BY <1>4 DEF CheckTun, ObserveTun, helper_vars, manager_vars, env_vars
  <2>2. pc'["term"] = pc["term"]
    BY <1>0, <1>4, TermUnmoved DEF CheckTun, ObserveTun, TunHealthy, TunUnhealthy
  <2>3. handle' = handle \/ ~StateRunning
    BY <1>4 DEF CheckTun, ObserveTun, manager_vars
  <2>4. CASE handle' = handle
    BY <2>1, <2>2, <2>4, QuietStep
  <2>5. CASE ~StateRunning
    BY <2>1, <2>5, NotRunningIsEmpty, EmptyStep
  <2> QED BY <2>3, <2>4, <2>5
<1>5. CASE Rpc
  <2>1. CASE RpcStatus
    <3>1. helper = "up" /\ ~StateRunning /\ helper' = helper /\ core' = core
      BY <2>1 DEF RpcStatus, helper_vars, env_vars
    <3> QED BY <3>1, NotRunningIsEmpty, EmptyStep
  <2>2. CASE ~RpcStatus
    <3>1. helper = "up" /\ UNCHANGED <<helper, handle, want_running, core>>
      BY <1>5, <2>2
      DEF Rpc, RpcStartCore, RpcStopCore, RpcRestartCore, RpcCleanupTun,
          RpcInstall, RpcBegin, helper_vars, manager_vars, env_vars
    <3>2. pc' = pc \/ \E step \in {"starting", "stopping", "clean_rule"} :
                        Goto("rpc", step)
      BY <1>5, <2>2
      DEF Rpc, RpcStartCore, RpcStopCore, RpcRestartCore, RpcCleanupTun,
          RpcInstall, RpcBegin, Acquire
    <3>3. pc'["term"] = pc["term"]
      BY <1>0, <3>2, TermUnmoved
    <3> QED BY <3>1, <3>3, QuietStep
  <2> QED BY <2>1, <2>2
<1>6. CASE TermStop \/ SigtermArrives
  <2>1. /\ helper = "up" /\ UNCHANGED <<helper, handle, want_running>>
        /\ pc'["term"] \in {"waiting", "stopping"}
    BY <1>6 DEF TermStop, SigtermArrives, Acquire, Goto, TypeOK, Tasks,
                helper_vars, manager_vars
  <2>2. \A s \in Slots : core[s] = "dead" => core'[s] = "dead"
    BY <1>6 DEF TermStop, SigtermArrives, CoreTerminated, Alive, env_vars
  <2> QED BY <1>0, <2>1, <2>2, QuietStep
<1> QED
  BY <1>0, <1>1, <1>2, <1>3, <1>4, <1>5, <1>6
  DEF BootTask, CrashTask, TunTask

(* The way out and systemd.                                                *)
LEMMA InstanceSafe ==
  ASSUME TypeOK, CoreSafe, TermExit \/ HelperKilled \/ Systemd
  PROVE  CoreSafe'
<1>0. "term" \in Tasks /\ "idle" \notin CleanSteps
  BY DEF Tasks, CleanSteps
<1>1. CASE TermExit \/ HelperKilled
  <2>1. /\ helper = "up" /\ helper' = "down" /\ handle' = NoSlot
        /\ want_running' = FALSE /\ pc' = [t \in Tasks |-> "idle"]
    BY <1>1 DEF TermExit, HelperKilled, Vanish
  <2>2. \A s \in Slots : core[s] = "dead" <=> core'[s] = "dead"
    BY <1>1 DEF TermExit, HelperKilled, CoreTerminated, Alive
  <2>3. DownIsEmpty' /\ SweptIsEmpty'
    BY <2>1 DEF DownIsEmpty, SweptIsEmpty
  <2>4. OneCore' /\ RunningIsSupervised'
    BY <2>1, <2>2 DEF CoreSafe, OneCore, RunningIsSupervised, Alive
  <2>5. TermIsLast'
    BY <1>0, <2>1 DEF TermIsLast, CleanSteps
  <2>6. GracefulExit'
    <3>1. CASE TermExit
      <4>1. \A s \in Slots : core[s] = "dead"
        BY <3>1 DEF TermExit, CoreSafe, TermIsLast, NoneAlive, Alive, CleanSteps
      <4>2. last_exit' = "clean" => tun' = {}
        BY <3>1 DEF TermExit
      <4> QED BY <2>2, <4>1, <4>2 DEF GracefulExit, NoneAlive, Alive
    <3>2. CASE HelperKilled
      BY <3>2 DEF HelperKilled, GracefulExit
    <3> QED BY <1>1, <3>1, <3>2
  <2> QED BY <2>3, <2>4, <2>5, <2>6 DEF CoreSafe
<1>2. CASE StopPost
  <2>1. /\ helper = "down" /\ helper' = "swept" /\ NoneAlive
        /\ tun' \subseteq tun
        /\ UNCHANGED <<pc, handle, want_running, core, last_exit>>
    BY <1>2 DEF StopPost, manager_vars
  <2>2. DownIsEmpty' /\ SweptIsEmpty' /\ NoneAlive'
    BY <2>1 DEF CoreSafe, DownIsEmpty, SweptIsEmpty, NoneAlive, Alive
  <2>3. OneCore' /\ RunningIsSupervised' /\ TermIsLast'
    BY <2>1, <2>2 DEF OneCore, RunningIsSupervised, TermIsLast, NoneAlive, Alive
  <2>4. GracefulExit'
    BY <2>1, <2>2 DEF CoreSafe, GracefulExit
  <2> QED BY <2>2, <2>3, <2>4 DEF CoreSafe
<1>3. CASE HelperStarts
  <2>1. helper' = "up" /\ (\A s \in Slots : core'[s] = "dead")
    BY <1>3 DEF HelperStarts, CoreSafe, SweptIsEmpty, NoneAlive, Alive, env_vars
  <2> QED BY <2>1, EmptyStep
<1> QED BY <1>1, <1>2, <1>3 DEF Systemd

(* The processes, the kernel and the clock, with the helper up or not.     *)
LEMMA WorldSafe ==
  ASSUME TypeOK, CoreSafe,
         (\E s \in Slots : CoreStep(s)) \/ TunBreaks \/ Tick
  PROVE  CoreSafe'
<1>1. UNCHANGED <<helper, last_exit, pc, handle, want_running>>
  BY DEF CoreStep, CoreServes, CoreTunUp, CoreCrash, CoreExit, TunBreaks, Tick,
         helper_vars, manager_vars
<1>2. \A s \in Slots : core[s] = "dead" => core'[s] = "dead"
  BY DEF CoreStep, CoreServes, CoreTunUp, CoreCrash, CoreExit, TunBreaks, Tick,
         Abandon, Alive, TypeOK, env_vars
<1>3. NoneAlive => NoneAlive'
  BY <1>2 DEF NoneAlive, Alive
<1>4. DownIsEmpty' /\ SweptIsEmpty'
  BY <1>1, <1>3 DEF CoreSafe, DownIsEmpty, SweptIsEmpty
<1>5. OneCore' /\ RunningIsSupervised'
  BY <1>1, <1>2 DEF CoreSafe, OneCore, RunningIsSupervised, Alive
<1>6. TermIsLast'
  BY <1>1, <1>3 DEF CoreSafe, TermIsLast, CleanSteps
<1>7. GracefulExit'
  <2>1. CASE Tick
    BY <1>1, <2>1 DEF Tick, GracefulExit
  <2>2. CASE ~NoneAlive
    BY <1>1, <2>2 DEF CoreSafe, GracefulExit
  <2>3. CASE TunBreaks
    BY <1>1, <2>3 DEF TunBreaks, CoreSafe, GracefulExit
  <2>4. (\E s \in Slots : CoreStep(s)) => ~NoneAlive
    BY DEF CoreStep, CoreServes, CoreTunUp, CoreCrash, CoreExit, NoneAlive, Alive
  <2> QED BY <2>1, <2>2, <2>3, <2>4
<1> QED BY <1>4, <1>5, <1>6, <1>7 DEF CoreSafe

-----------------------------------------------------------------------------
LEMMA InitIndInv == Init => IndInv
<1> SUFFICES ASSUME Init PROVE IndInv
  OBVIOUS
<1>1. TypeOK
  BY InitTypeOK
<1>2. LockDiscipline
  <2>1. \A t \in Tasks : pc[t] \notin HoldingSteps(t)
    BY DEF Init, FreshPc, HoldingSteps, StartSteps, StopSteps, CleanSteps
  <2>2. \A t \in Tasks : lock # t
    BY DEF Init, Tasks
  <2> QED BY <2>1, <2>2 DEF LockDiscipline
<1>3. /\ DownIsEmpty /\ SweptIsEmpty /\ OneCore /\ RunningIsSupervised
      /\ TermIsLast /\ GracefulExit
  BY DEF Init, DownIsEmpty, SweptIsEmpty, OneCore, RunningIsSupervised,
         TermIsLast, GracefulExit, NoneAlive, Alive
<1> QED BY <1>1, <1>2, <1>3 DEF IndInv

LEMMA NextIndInv == IndInv /\ [Next]_vars => IndInv'
<1> SUFFICES ASSUME IndInv, [Next]_vars PROVE IndInv'
  OBVIOUS
<1>0. TypeOK /\ LockDiscipline /\ DownIsEmpty /\ CoreSafe
  BY DEF IndInv, CoreSafe
<1>1. TypeOK'
  BY <1>0, TypeStep
<1>2. CASE Next
  <2>1. LockDiscipline'
    BY <1>0, <1>2, NextDiscipline
  <2>2. CoreSafe'
    BY <1>0, <1>2, TaskSafe, LoadSafe, InstanceSafe, WorldSafe
    DEF Next, TermTask
  <2> QED BY <1>1, <2>1, <2>2 DEF IndInv, CoreSafe
<1>3. CASE UNCHANGED vars
  <2>1. UNCHANGED <<helper, last_exit, lock, pc, handle, want_running, core, tun>>
    BY <1>3 DEF vars, helper_vars, manager_vars, env_vars
  <2>2. LockDiscipline'
    BY <1>0, <2>1, StillKeepsDiscipline
  <2>3. CoreSafe'
    BY <1>0, <2>1
    DEF CoreSafe, DownIsEmpty, SweptIsEmpty, OneCore, RunningIsSupervised,
        TermIsLast, GracefulExit, NoneAlive, Alive
  <2> QED BY <1>1, <2>2, <2>3 DEF IndInv, CoreSafe
<1> QED BY <1>2, <1>3

(* The inductive invariant holds in every reachable state.                 *)
THEOREM InductiveInvariant == Spec => []IndInv
  BY InitIndInv, NextIndInv, PTL DEF Spec

(* At most one core exists, and a helper that is up holds its handle.      *)
THEOREM OneCoreAlways == Spec => []OneCore
<1>1. IndInv => OneCore
  BY DEF IndInv
<1> QED BY <1>1, InductiveInvariant, PTL

(* A core that lives under a helper that is up is wanted.                  *)
THEOREM RunningIsSupervisedAlways == Spec => []RunningIsSupervised
<1>1. IndInv => RunningIsSupervised
  BY DEF IndInv
<1> QED BY <1>1, InductiveInvariant, PTL

(* start(), stop() and the locked cleanups never overlap.                  *)
THEOREM LockDisciplineAlways == Spec => []LockDiscipline
<1>1. IndInv => LockDiscipline
  BY DEF IndInv
<1> QED BY <1>1, InductiveInvariant, PTL

(* After a graceful exit that reports no residue there is none, however    *)
(* SIGTERM raced with the other tasks.                                     *)
THEOREM GracefulExitAlways == Spec => []GracefulExit
<1>1. IndInv => GracefulExit
  BY DEF IndInv
<1> QED BY <1>1, InductiveInvariant, PTL
=============================================================================
