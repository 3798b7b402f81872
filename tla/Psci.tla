--------------------------------- MODULE Psci ---------------------------------
(***************************************************************************)
(* The PSCI library of BL31 (lib/psci): CPU_ON, CPU_OFF, CPU_SUSPEND,      *)
(* SYSTEM_SUSPEND, SET_SUSPEND_MODE and the warm boot path, run by every   *)
(* CPU concurrently.  The lock of a power domain is an AbstractLock (the   *)
(* bakery lock is shown to implement it); every acquisition is a step, so  *)
(* is every read or write of state that other CPUs access.                 *)
(***************************************************************************)
EXTENDS PowerDomains

CONSTANTS
  PrimaryCpu,             \* the CPU that cold boots and runs psci_setup
  SuspendRequest,         \* what validate_power_state accepts (platform)
  SysSuspendState,        \* get_sys_suspend_power_state (platform)
  EntryPoint,             \* entry points that calls supply
  psci_caps,              \* the calls the platform supports (psci_setup)
  PSCI_OS_INIT_MODE,      \* build option
  HW_ASSISTED_COHERENCY,  \* build option: a power down wfi may return
  NoCpu,                  \* the owner of a free lock
  NoEntry                 \* an entry point that was never set

\* The asserts of psci_cpu_suspend and psci_system_suspend on what the platform
\* hooks return.
ASSUME PlatformAssumption ==
  /\ PrimaryCpu \in CPU
  /\ SuspendRequest \subseteq
        [state : PowerState, powerDown : BOOLEAN, last : Nat]
  /\ \A r \in SuspendRequest :
        /\ psci_validate_suspend_req(r.state, r.powerDown)
        /\ r.powerDown => is_local_state_off(r.state[PSCI_CPU_PWR_LVL])
  /\ SysSuspendState \in PowerState
  /\ \A l \in Level : is_local_state_off(SysSuspendState[l])
  /\ PSCI_OS_INIT_MODE \in BOOLEAN
  /\ HW_ASSISTED_COHERENCY \in BOOLEAN
  /\ NoCpu \notin CPU
  /\ EntryPoint # {}
  /\ "SET_SUSPEND_MODE" \in psci_caps => PSCI_OS_INIT_MODE
  /\ NoEntry \notin EntryPoint

VARIABLES
  aff_info_state,   \* psci_svc_cpu_data.aff_info_state
  suspend_pwrlvl,   \* psci_svc_cpu_data.target_pwrlvl
  local_state,      \* psci_svc_cpu_data.local_state
  pd_state,         \* psci_non_cpu_pd_nodes[].local_state
  req,              \* psci_req_local_pwr_states
  psci_lock,        \* owner of each domain's lock
  cpu_lock,         \* owner of each CPU's spinlock
  warmboot_ep,      \* the entry point stored for each CPU
  suspend_mode,     \* psci_suspend_mode
  on_request,       \* the power controller was told to power the CPU on
  pc,               \* where each CPU is in the firmware
  op,               \* which handler it runs
  held,             \* how many domain locks it holds, from level 1 up
  end_pwrlvl,       \* local of the handlers
  state_info,       \* local of the handlers
  powerDown,        \* local of the handlers: is_power_down_state
  last_at_pwrlvl,   \* local of the handlers: state_info->last_at_pwrlvl
  target,           \* local of psci_cpu_on_start: target_idx
  ep,               \* argument of psci_cpu_on_start
  prev,             \* local of psci_validate_state_coordination
  scan              \* loop counter of psci_is_last_on_cpu, psci_are_all_cpus_on

cpu_data == <<aff_info_state, suspend_pwrlvl, local_state>>
domains == <<pd_state, req>>
locks == <<psci_lock, cpu_lock, held>>
args == <<end_pwrlvl, state_info, powerDown, last_at_pwrlvl, target, ep,
          prev, scan>>
platform == <<warmboot_ep, suspend_mode, on_request>>
vars == <<cpu_data, domains, locks, platform, pc, op, args>>

AFF_STATE_ON == "ON"
AFF_STATE_OFF == "OFF"
AFF_STATE_ON_PENDING == "ON_PENDING"
PLAT_COORD == "PLAT_COORD"
OS_INIT == "OS_INIT"

AllRun == [l \in Level |-> PSCI_LOCAL_STATE_RUN]
NoRequest == [l \in DomainLevel |-> PSCI_LOCAL_STATE_RUN]
AllOff == [l \in Level |-> PLAT_MAX_OFF_STATE]

-----------------------------------------------------------------------------
(* Cold boot: psci_setup leaves the primary CPU and its ancestors running  *)
(* and everything else off.                                                *)

Init ==
  /\ aff_info_state =
       [c \in CPU |-> IF c = PrimaryCpu THEN AFF_STATE_ON ELSE AFF_STATE_OFF]
  /\ suspend_pwrlvl = [c \in CPU |-> PLAT_MAX_PWR_LVL]
  /\ local_state =
       [c \in CPU |-> IF c = PrimaryCpu THEN PSCI_LOCAL_STATE_RUN
                                        ELSE PLAT_MAX_OFF_STATE]
  /\ pd_state =
       [n \in Node |-> IF PrimaryCpu \in CpusBelow(n) THEN PSCI_LOCAL_STATE_RUN
                                                      ELSE PLAT_MAX_OFF_STATE]
  /\ req = [c \in CPU |-> [l \in DomainLevel |->
              IF c = PrimaryCpu THEN PSCI_LOCAL_STATE_RUN ELSE PLAT_MAX_OFF_STATE]]
  /\ psci_lock = [n \in Node |-> NoCpu]
  /\ cpu_lock = [c \in CPU |-> NoCpu]
  /\ warmboot_ep = [c \in CPU |-> NoEntry]
  /\ suspend_mode = PLAT_COORD
  /\ on_request = [c \in CPU |-> FALSE]
  /\ pc = [c \in CPU |-> IF c = PrimaryCpu THEN "run" ELSE "off"]
  /\ op = [c \in CPU |-> "none"]
  /\ held = [c \in CPU |-> 0]
  /\ end_pwrlvl = [c \in CPU |-> 0]
  /\ state_info = [c \in CPU |-> AllRun]
  /\ powerDown = [c \in CPU |-> FALSE]
  /\ last_at_pwrlvl = [c \in CPU |-> 0]
  /\ target = [c \in CPU |-> c]
  /\ ep = [c \in CPU |-> NoEntry]
  /\ prev = [c \in CPU |-> NoRequest]
  /\ scan = [c \in CPU |-> 0]

-----------------------------------------------------------------------------
(* Power domain locks: taken from level 1 up, released from the top down.  *)

goto(c, label) == pc' = [pc EXCEPT ![c] = label]
become(c, handler) == op' = [op EXCEPT ![c] = handler]

\* The locals of a CPU that is in no handler.
NoArgs(c) ==
  /\ op' = [op EXCEPT ![c] = "none"]
  /\ end_pwrlvl' = [end_pwrlvl EXCEPT ![c] = 0]
  /\ state_info' = [state_info EXCEPT ![c] = AllRun]
  /\ powerDown' = [powerDown EXCEPT ![c] = FALSE]
  /\ last_at_pwrlvl' = [last_at_pwrlvl EXCEPT ![c] = 0]
  /\ target' = [target EXCEPT ![c] = c]
  /\ ep' = [ep EXCEPT ![c] = NoEntry]
  /\ prev' = [prev EXCEPT ![c] = NoRequest]
  /\ scan' = [scan EXCEPT ![c] = 0]

\* Mutant: the lock of the top level is not taken.
psci_acquire_pwr_domain_locks_NotTop(c) ==
  LET n == Ancestor[c][held[c] + 1] IN
  /\ pc[c] = "acquire"
  /\ held[c] < end_pwrlvl[c]
  /\ psci_lock[n] = NoCpu \/ held[c] + 1 = PLAT_MAX_PWR_LVL
  /\ psci_lock' = [psci_lock EXCEPT ![n] = c]
  /\ held' = [held EXCEPT ![c] = held[c] + 1]
  /\ UNCHANGED <<cpu_data, domains, cpu_lock, platform, pc, op, args>>

psci_acquire_pwr_domain_locks(c) ==
  LET n == Ancestor[c][held[c] + 1] IN
  /\ pc[c] = "acquire"
  /\ held[c] < end_pwrlvl[c]
  /\ psci_lock[n] = NoCpu
  /\ psci_lock' = [psci_lock EXCEPT ![n] = c]
  /\ held' = [held EXCEPT ![c] = held[c] + 1]
  /\ UNCHANGED <<cpu_data, domains, cpu_lock, platform, pc, op, args>>

\* All the locks the handler asked for are held.
Locked(c) == pc[c] = "acquire" /\ held[c] = end_pwrlvl[c]

\* Mutant: the loop stops before level 1.
psci_release_pwr_domain_locks_KeepFirst(c) ==
  /\ pc[c] = "release"
  /\ held[c] > 0
  /\ psci_lock' = IF held[c] = 1 THEN psci_lock
                  ELSE [psci_lock EXCEPT ![Ancestor[c][held[c]]] = NoCpu]
  /\ held' = [held EXCEPT ![c] = held[c] - 1]
  /\ UNCHANGED <<cpu_data, domains, cpu_lock, platform, pc, op, args>>

psci_release_pwr_domain_locks(c) ==
  /\ pc[c] = "release"
  /\ held[c] > 0
  /\ psci_lock' = [psci_lock EXCEPT ![Ancestor[c][held[c]]] = NoCpu]
  /\ held' = [held EXCEPT ![c] = held[c] - 1]
  /\ UNCHANGED <<cpu_data, domains, cpu_lock, platform, pc, op, args>>

Released(c) == pc[c] = "release" /\ held[c] = 0

\* A handler that is done returns to the normal world.
ReturnToCaller(c) ==
  /\ Released(c)
  /\ op[c] = "return"
  /\ goto(c, "run")
  /\ NoArgs(c)
  /\ UNCHANGED <<cpu_data, domains, locks, platform>>

-----------------------------------------------------------------------------
(* CPU_ON (psci_on.c).                                                     *)

psci_cpu_on(c) ==
  /\ "CPU_ON" \in psci_caps
  /\ pc[c] = "run"
  /\ goto(c, "on_lock")
  /\ \E t \in CPU : target' = [target EXCEPT ![c] = t]
  /\ \E e \in EntryPoint : ep' = [ep EXCEPT ![c] = e]
  /\ UNCHANGED <<cpu_data, domains, locks, platform, op, end_pwrlvl, state_info,
                 powerDown, last_at_pwrlvl, prev, scan>>

psci_spin_lock_cpu(c) ==
  /\ pc[c] = "on_lock"
  /\ cpu_lock[target[c]] = NoCpu
  /\ cpu_lock' = [cpu_lock EXCEPT ![target[c]] = c]
  /\ goto(c, "on_validate")
  /\ UNCHANGED <<cpu_data, domains, psci_lock, held, platform, op, args>>

\* Mutant: the entry point is written before the state of the target is checked.
cpu_on_validate_state_EpFirst(c) ==
  /\ pc[c] = "on_validate"
  /\ goto(c, IF aff_info_state[target[c]] = AFF_STATE_OFF THEN "on_pending"
                                                          ELSE "on_unlock")
  /\ warmboot_ep' = [warmboot_ep EXCEPT ![target[c]] = ep[c]]
  /\ UNCHANGED <<cpu_data, domains, locks, suspend_mode, on_request, op, args>>

\* The target must be off; then its entry point is published.
cpu_on_validate_state(c) ==
  /\ pc[c] = "on_validate"
  /\ \/ /\ aff_info_state[target[c]] = AFF_STATE_OFF
        /\ warmboot_ep' = [warmboot_ep EXCEPT ![target[c]] = ep[c]]
        /\ goto(c, "on_pending")
     \/ /\ aff_info_state[target[c]] # AFF_STATE_OFF
        /\ goto(c, "on_unlock")
        /\ UNCHANGED warmboot_ep
  /\ UNCHANGED <<cpu_data, domains, locks, suspend_mode, on_request, op, args>>

\* Mutant: the update of the affinity state is lost.
SetOnPending_Lost(c) ==
  /\ pc[c] = "on_pending"
  /\ goto(c, "on_power")
  /\ UNCHANGED <<cpu_data, domains, locks, platform, op, args>>

SetOnPending(c) ==
  /\ pc[c] = "on_pending"
  /\ aff_info_state' = [aff_info_state EXCEPT ![target[c]] = AFF_STATE_ON_PENDING]
  /\ goto(c, "on_power")
  /\ UNCHANGED <<suspend_pwrlvl, local_state, domains, locks, platform, op, args>>

\* The platform powers the target on, or fails and the target is off again.
pwr_domain_on(c) ==
  /\ pc[c] = "on_power"
  /\ \/ /\ on_request' = [on_request EXCEPT ![target[c]] = TRUE]
        /\ UNCHANGED aff_info_state
     \/ /\ aff_info_state' = [aff_info_state EXCEPT ![target[c]] = AFF_STATE_OFF]
        /\ UNCHANGED on_request
  /\ goto(c, "on_unlock")
  /\ UNCHANGED <<suspend_pwrlvl, local_state, domains, locks, warmboot_ep,
                 suspend_mode, op, args>>

\* Mutant: CPU_ON returns without releasing the spinlock.
psci_spin_unlock_cpu_Forgotten(c) ==
  /\ pc[c] = "on_unlock"
  /\ goto(c, "run")
  /\ NoArgs(c)
  /\ UNCHANGED <<cpu_data, domains, locks, platform>>

psci_spin_unlock_cpu(c) ==
  /\ pc[c] = "on_unlock"
  /\ cpu_lock' = [cpu_lock EXCEPT ![target[c]] = NoCpu]
  /\ goto(c, "run")
  /\ NoArgs(c)
  /\ UNCHANGED <<cpu_data, domains, psci_lock, held, platform>>

-----------------------------------------------------------------------------
(* CPU_OFF, CPU_SUSPEND and SYSTEM_SUSPEND: the calls.                     *)

\* Enter a handler that takes the domain locks up to level end.
EnterHandler(c, handler, end, s, pd, last) ==
  /\ goto(c, "acquire")
  /\ become(c, handler)
  /\ end_pwrlvl' = [end_pwrlvl EXCEPT ![c] = end]
  /\ state_info' = [state_info EXCEPT ![c] = s]
  /\ powerDown' = [powerDown EXCEPT ![c] = pd]
  /\ last_at_pwrlvl' = [last_at_pwrlvl EXCEPT ![c] = last]
  /\ UNCHANGED <<target, ep, prev>>

\* A power down call stores the entry point for the CPU that makes it.
StoreEntryPoint(c) ==
  \E e \in EntryPoint : warmboot_ep' = [warmboot_ep EXCEPT ![c] = e]

psci_cpu_off(c) ==
  /\ "CPU_OFF" \in psci_caps
  /\ pc[c] = "run"
  /\ EnterHandler(c, "off", PLAT_MAX_PWR_LVL, AllOff, TRUE, 0)
  /\ UNCHANGED <<cpu_data, domains, locks, platform, scan>>

\* CPU_SUSPEND to standby at the CPU level: no lock, no coordination.
cpu_standby(c) ==
  /\ "CPU_SUSPEND" \in psci_caps
  /\ pc[c] = "run"
  /\ \E r \in SuspendRequest :
       /\ is_cpu_standby_req(r.powerDown, psci_find_target_suspend_lvl(r.state))
       /\ local_state' = [local_state EXCEPT ![c] = r.state[PSCI_CPU_PWR_LVL]]
  /\ goto(c, "standby")
  /\ UNCHANGED <<aff_info_state, suspend_pwrlvl, domains, locks, platform, op, args>>

cpu_standby_exit(c) ==
  /\ pc[c] = "standby"
  /\ local_state' = [local_state EXCEPT ![c] = PSCI_LOCAL_STATE_RUN]
  /\ goto(c, "run")
  /\ UNCHANGED <<aff_info_state, suspend_pwrlvl, domains, locks, platform, op, args>>

psci_cpu_suspend(c) ==
  /\ "CPU_SUSPEND" \in psci_caps
  /\ pc[c] = "run"
  /\ \E r \in SuspendRequest :
       LET lvl == psci_find_target_suspend_lvl(r.state) IN
       /\ ~is_cpu_standby_req(r.powerDown, lvl)
       /\ EnterHandler(c, "suspend", lvl, r.state, r.powerDown, r.last)
       /\ IF r.powerDown THEN StoreEntryPoint(c) ELSE UNCHANGED warmboot_ep
  /\ UNCHANGED <<cpu_data, domains, locks, suspend_mode, on_request, scan>>

psci_system_suspend(c) ==
  /\ "SYSTEM_SUSPEND" \in psci_caps
  /\ pc[c] = "run"
  /\ goto(c, "scan")
  /\ become(c, "sys_suspend")
  /\ UNCHANGED <<cpu_data, domains, locks, platform, args>>

\* The last CPU suspends the system: the entry point is stored, then the
\* suspend handler runs with the locks of all levels.
StartSystemSuspend(c) ==
  /\ EnterHandler(c, "suspend", PLAT_MAX_PWR_LVL, SysSuspendState, TRUE,
                  PLAT_MAX_PWR_LVL)
  /\ StoreEntryPoint(c)
  /\ scan' = [scan EXCEPT ![c] = 0]
  /\ UNCHANGED <<cpu_data, domains, locks, suspend_mode, on_request>>

-----------------------------------------------------------------------------
(* SET_SUSPEND_MODE, and the loops that read every CPU's affinity state.   *)

\* Mutant: the checks run without the locks (psci_is_last_on_cpu).
psci_set_suspend_mode_Unlocked(c) ==
  /\ "SET_SUSPEND_MODE" \in psci_caps
  /\ pc[c] = "run"
  /\ EnterHandler(c, IF suspend_mode = OS_INIT THEN "to_plat_last" ELSE "to_os_last",
                  0, AllRun, FALSE, 0)
  /\ UNCHANGED <<cpu_data, domains, locks, platform, scan>>

\* Both checks of the call take all the locks of the caller's branch.
psci_set_suspend_mode(c) ==
  /\ "SET_SUSPEND_MODE" \in psci_caps
  /\ pc[c] = "run"
  /\ EnterHandler(c, IF suspend_mode = OS_INIT THEN "to_plat_last" ELSE "to_os_all",
                  PLAT_MAX_PWR_LVL, AllRun, FALSE, 0)
  /\ UNCHANGED <<cpu_data, domains, locks, platform, scan>>

StartScan(c) ==
  /\ Locked(c)
  /\ op[c] \in {"to_plat_last", "to_os_all", "to_os_last"}
  /\ goto(c, "scan")
  /\ UNCHANGED <<cpu_data, domains, locks, platform, op, args>>

\* Does CPU i refute what CPU c verifies?  psci_is_last_on_cpu wants all the
\* others off, psci_are_all_cpus_on wants none off.
Refutes(c, i) ==
  IF op[c] = "to_os_all" THEN aff_info_state[i] = AFF_STATE_OFF
                         ELSE i # c /\ aff_info_state[i] # AFF_STATE_OFF

ScanNext(c) ==
  /\ pc[c] = "scan"
  /\ scan[c] \in CPU
  /\ ~Refutes(c, scan[c])
  /\ scan' = [scan EXCEPT ![c] = scan[c] + 1]
  /\ UNCHANGED <<cpu_data, domains, locks, platform, pc, op, end_pwrlvl, state_info,
                 powerDown, last_at_pwrlvl, target, ep, prev>>

\* The check fails: SYSTEM_SUSPEND and SET_SUSPEND_MODE are denied, except
\* that a failed "all on" is followed by "last on".
ScanFails(c) ==
  /\ pc[c] = "scan"
  /\ scan[c] \in CPU
  /\ Refutes(c, scan[c])
  /\ goto(c, "release")
  /\ become(c, IF op[c] = "to_os_all" THEN "to_os_retry" ELSE "return")
  /\ scan' = [scan EXCEPT ![c] = 0]
  /\ UNCHANGED <<cpu_data, domains, locks, platform, end_pwrlvl, state_info,
                 powerDown, last_at_pwrlvl, target, ep, prev>>

ScanSucceeds(c) ==
  /\ pc[c] = "scan"
  /\ scan[c] = psci_plat_core_count
  /\ \/ op[c] = "sys_suspend" /\ StartSystemSuspend(c)
     \/ /\ op[c] # "sys_suspend"
        /\ goto(c, "release")
        /\ become(c, IF op[c] = "to_plat_last" THEN "set_plat" ELSE "set_os")
        /\ scan' = [scan EXCEPT ![c] = 0]
        /\ UNCHANGED <<cpu_data, domains, locks, platform, end_pwrlvl, state_info,
                       powerDown, last_at_pwrlvl, target, ep, prev>>

RetryLastOn(c) ==
  /\ Released(c)
  /\ op[c] = "to_os_retry"
  /\ EnterHandler(c, "to_os_last", PLAT_MAX_PWR_LVL, AllRun, FALSE, 0)
  /\ UNCHANGED <<cpu_data, domains, locks, platform, scan>>

SetMode(c) ==
  /\ Released(c)
  /\ op[c] \in {"set_plat", "set_os"}
  /\ suspend_mode' = IF op[c] = "set_plat" THEN PLAT_COORD ELSE OS_INIT
  /\ goto(c, "run")
  /\ NoArgs(c)
  /\ UNCHANGED <<cpu_data, domains, locks, warmboot_ep, on_request>>

-----------------------------------------------------------------------------
(* Powering down: coordinate, store the targets, release, sleep.           *)

\* The Secure Payload Dispatcher refuses the power down (svc_off).  What the platform
\* refuses earlier (pwr_domain_off_early) is refused before a lock or a store: such a
\* call changes nothing.
svc_off_Denied(c) ==
  /\ Locked(c)
  /\ op[c] = "off"
  /\ goto(c, "release")
  /\ become(c, "return")
  /\ UNCHANGED <<cpu_data, domains, locks, platform, args>>

\* A wake-up interrupt is already pending (read_isr_el1).
WakeupPending(c) ==
  /\ Locked(c)
  /\ op[c] = "suspend"
  /\ goto(c, "release")
  /\ become(c, "return")
  /\ UNCHANGED <<cpu_data, domains, locks, platform, args>>

OsInitiated(c) == op[c] = "suspend" /\ PSCI_OS_INIT_MODE /\ suspend_mode = OS_INIT

\* Platform-coordinated mode, and CPU_OFF in both modes.
Coordinate(c) ==
  /\ Locked(c)
  /\ op[c] \in {"off", "suspend"}
  /\ ~OsInitiated(c)
  /\ req' = Requests(req, c, end_pwrlvl[c], state_info[c])
  /\ state_info' = [state_info EXCEPT ![c] =
       psci_do_state_coordination(req', c, end_pwrlvl[c], state_info[c])]
  /\ goto(c, "set_target")
  /\ UNCHANGED <<cpu_data, pd_state, locks, platform, op, end_pwrlvl, powerDown,
                 last_at_pwrlvl, target, ep, prev, scan>>

\* OS-initiated mode stores the request first, for every level: those above
\* end_pwrlvl are not covered by the locks held.
psci_update_req(c) ==
  /\ Locked(c)
  /\ OsInitiated(c)
  /\ prev' = [prev EXCEPT ![c] = req[c]]
  /\ req' = psci_update_req_local_pwr_states(req, c, end_pwrlvl[c], state_info[c])
  /\ goto(c, "validate")
  /\ UNCHANGED <<cpu_data, pd_state, locks, platform, op, end_pwrlvl, state_info,
                 powerDown, last_at_pwrlvl, target, ep, scan>>

\* Then it validates the request.  A last_at_pwrlvl beyond the highest level is
\* refused without the restore that the other refusals do.
psci_validate_state_coordination(c) ==
  LET consistent == psci_validate_hierarchical_state_consistency(
                      local_state, pd_state, c, end_pwrlvl[c], state_info[c])
      inRange == last_at_pwrlvl[c] <= PLAT_MAX_PWR_LVL
      last == last_at_pwrlvl[c] > end_pwrlvl[c] =>
                psci_is_last_cpu_to_idle_at_pwrlvl(local_state, c, last_at_pwrlvl[c])
  IN
  /\ pc[c] = "validate"
  /\ \/ /\ consistent /\ inRange /\ last
        /\ goto(c, "set_target")
        /\ UNCHANGED <<op, req>>
     \/ /\ consistent /\ ~inRange
        /\ goto(c, "release")
        /\ become(c, "return")
        /\ UNCHANGED req
     \/ /\ ~consistent \/ (inRange /\ ~last)
        /\ req' = [req EXCEPT ![c] = prev[c]]
        /\ goto(c, "release")
        /\ become(c, "return")
  /\ UNCHANGED <<cpu_data, pd_state, locks, platform, args>>

\* Mutant: the loop stops one level early.
psci_set_pwr_domains_to_run_NotTop(c, end) ==
  /\ pd_state' = [n \in Node |-> IF \E l \in 1..(end - 1) : Ancestor[c][l] = n
                                 THEN PSCI_LOCAL_STATE_RUN ELSE pd_state[n]]
  /\ req' = Requests(req, c, end - 1, AllRun)
  /\ aff_info_state' = [aff_info_state EXCEPT ![c] = AFF_STATE_ON]
  /\ local_state' = [local_state EXCEPT ![c] = PSCI_LOCAL_STATE_RUN]

\* The effect of psci_set_pwr_domains_to_run(c, end).
psci_set_pwr_domains_to_run(c, end) ==
  /\ pd_state' = [n \in Node |-> IF \E l \in 1..end : Ancestor[c][l] = n
                                 THEN PSCI_LOCAL_STATE_RUN ELSE pd_state[n]]
  /\ req' = Requests(req, c, end, AllRun)
  /\ aff_info_state' = [aff_info_state EXCEPT ![c] = AFF_STATE_ON]
  /\ local_state' = [local_state EXCEPT ![c] = PSCI_LOCAL_STATE_RUN]

\* The platform refuses the negotiated state (pwr_domain_validate_suspend):
\* the levels go back to RUN, those without a lock included.
pwr_domain_validate_suspend_Fails(c) ==
  /\ pc[c] = "set_target"
  /\ op[c] = "suspend"
  /\ PSCI_OS_INIT_MODE
  /\ psci_set_pwr_domains_to_run(c, PLAT_MAX_PWR_LVL)
  /\ goto(c, "release")
  /\ become(c, "return")
  /\ UNCHANGED <<suspend_pwrlvl, locks, platform, args>>

\* Mutant: the highest level that is turned off is recorded.
SuspendLevel_MaxOff(c) == psci_find_max_off_lvl(state_info[c])

\* The level a power down suspend records for the warm boot path.
SuspendLevel(c) == IF OsInitiated(c) THEN PLAT_MAX_PWR_LVL ELSE end_pwrlvl[c]

\* The targets are stored in the tree, then psci_suspend_to_pwrdown_start runs.
psci_set_target_local_pwr_states(c) ==
  /\ pc[c] = "set_target"
  /\ local_state' = [local_state EXCEPT ![c] = state_info[c][PSCI_CPU_PWR_LVL]]
  /\ pd_state' = [n \in Node |->
       IF \E l \in 1..end_pwrlvl[c] : Ancestor[c][l] = n
       THEN state_info[c][CHOOSE l \in 1..end_pwrlvl[c] : Ancestor[c][l] = n]
       ELSE pd_state[n]]
  /\ suspend_pwrlvl' = IF op[c] = "suspend" /\ powerDown[c]
                       THEN [suspend_pwrlvl EXCEPT ![c] = SuspendLevel(c)]
                       ELSE suspend_pwrlvl
  /\ goto(c, "release")
  /\ UNCHANGED <<aff_info_state, req, locks, platform, op, args>>

\* CPU_OFF marks the CPU off once the locks are released, then stops for good.
PowerOff(c) ==
  /\ Released(c)
  /\ op[c] = "off"
  /\ aff_info_state' = [aff_info_state EXCEPT ![c] = AFF_STATE_OFF]
  /\ goto(c, "off")
  /\ NoArgs(c)
  /\ UNCHANGED <<suspend_pwrlvl, local_state, domains, locks, platform>>

Sleep(c) ==
  /\ Released(c)
  /\ op[c] = "suspend"
  /\ goto(c, "wfi")
  /\ UNCHANGED <<cpu_data, domains, locks, platform, op, args>>

-----------------------------------------------------------------------------
(* Waking up.                                                              *)

\* The states the domains of CPU c emerge from.
psci_get_target_local_pwr_states(c, end) ==
  [l \in Level |-> IF l = PSCI_CPU_PWR_LVL THEN local_state[c]
                   ELSE IF l <= end THEN pd_state[Ancestor[c][l]]
                   ELSE PSCI_LOCAL_STATE_RUN]

\* wfi returns: from retention, or because the power down was abandoned.
WakeInPlace(c) ==
  /\ pc[c] = "wfi"
  /\ powerDown[c] => HW_ASSISTED_COHERENCY
  /\ goto(c, "acquire")
  /\ become(c, "wake")
  /\ UNCHANGED <<cpu_data, domains, locks, platform, args>>

\* A CPU whose power was removed starts at the warm boot entry point: a wake-up
\* event of a suspended CPU, or the power controller turning a CPU on.
psci_warmboot_entrypoint(c) ==
  /\ \/ pc[c] = "wfi" /\ powerDown[c] /\ UNCHANGED on_request
     \/ pc[c] = "off" /\ on_request[c]
                      /\ on_request' = [on_request EXCEPT ![c] = FALSE]
  /\ \/ /\ aff_info_state[c] = AFF_STATE_OFF
        /\ goto(c, "panic")
        /\ NoArgs(c)
     \/ /\ aff_info_state[c] # AFF_STATE_OFF
        /\ EnterHandler(c, "boot", suspend_pwrlvl[c], AllRun, FALSE, 0)
        /\ UNCHANGED scan
  /\ UNCHANGED <<cpu_data, domains, locks, warmboot_ep, suspend_mode>>

\* Turned on: wait until the CPU_ON call has let go of this CPU's spinlock.
psci_cpu_on_finish(c) ==
  /\ Locked(c)
  /\ op[c] = "boot"
  /\ aff_info_state[c] = AFF_STATE_ON_PENDING
  /\ cpu_lock[c] = NoCpu
  /\ goto(c, "set_run")
  /\ UNCHANGED <<cpu_data, domains, locks, platform, op, args>>

\* Resumed: from power down through the warm boot path, or in place.
psci_cpu_suspend_finish(c) ==
  /\ Locked(c)
  /\ \/ op[c] = "wake"
     \/ op[c] = "boot" /\ aff_info_state[c] # AFF_STATE_ON_PENDING
  /\ suspend_pwrlvl' = [suspend_pwrlvl EXCEPT ![c] = PLAT_MAX_PWR_LVL]
  /\ goto(c, "set_run")
  /\ UNCHANGED <<aff_info_state, local_state, domains, locks, platform, op, args>>

FinishPowerUp(c) ==
  /\ pc[c] = "set_run"
  /\ psci_set_pwr_domains_to_run(c, end_pwrlvl[c])
  /\ goto(c, "release")
  /\ become(c, "return")
  /\ UNCHANGED <<suspend_pwrlvl, locks, platform, args>>

-----------------------------------------------------------------------------
\* What a CPU does inside the firmware, and what the normal world asks for.
Firmware(c) ==
  \/ psci_acquire_pwr_domain_locks(c) \/ psci_release_pwr_domain_locks(c)
  \/ ReturnToCaller(c)
  \/ psci_spin_lock_cpu(c) \/ cpu_on_validate_state(c) \/ SetOnPending(c)
  \/ pwr_domain_on(c) \/ psci_spin_unlock_cpu(c)
  \/ StartScan(c) \/ ScanNext(c) \/ ScanFails(c) \/ ScanSucceeds(c)
  \/ RetryLastOn(c) \/ SetMode(c)
  \/ svc_off_Denied(c) \/ WakeupPending(c) \/ Coordinate(c)
  \/ psci_update_req(c) \/ psci_validate_state_coordination(c)
  \/ pwr_domain_validate_suspend_Fails(c) \/ psci_set_target_local_pwr_states(c)
  \/ PowerOff(c) \/ Sleep(c)
  \/ psci_cpu_on_finish(c) \/ psci_cpu_suspend_finish(c) \/ FinishPowerUp(c)

Call(c) ==
  \/ psci_cpu_on(c) \/ psci_cpu_off(c) \/ cpu_standby(c) \/ psci_cpu_suspend(c)
  \/ psci_system_suspend(c) \/ psci_set_suspend_mode(c)

PowerEvent(c) ==
  cpu_standby_exit(c) \/ WakeInPlace(c) \/ psci_warmboot_entrypoint(c)

Next == \E c \in CPU : Firmware(c) \/ Call(c) \/ PowerEvent(c)

Spec == Init /\ [][Next]_vars

\* A CPU in the firmware keeps executing, and the power controller powers a CPU on
\* when asked to.  A domain lock that is a bakery lock starves nobody who waits for
\* it (EveryCallReturns of BakeryLock); a spinlock promises no such thing.
Fairness ==
  \A c \in CPU :
    /\ WF_vars(Firmware(c))
    /\ ~HW_ASSISTED_COHERENCY => SF_vars(psci_acquire_pwr_domain_locks(c))
    /\ WF_vars(on_request[c] /\ psci_warmboot_entrypoint(c))

FairSpec == Spec /\ Fairness

-----------------------------------------------------------------------------
(* Properties.                                                             *)

Handler == {"none", "off", "suspend", "wake", "boot", "return", "sys_suspend",
            "to_plat_last", "to_os_all", "to_os_last", "to_os_retry",
            "set_plat", "set_os"}
Label == {"run", "standby", "on_lock", "on_validate", "on_pending", "on_power",
          "on_unlock", "scan", "acquire", "validate", "set_target", "release",
          "wfi", "off", "set_run", "panic"}

\* Every variable holds a value of its C type.
TypeOK ==
  /\ aff_info_state \in
       [CPU -> {AFF_STATE_ON, AFF_STATE_OFF, AFF_STATE_ON_PENDING}]
  /\ suspend_pwrlvl \in [CPU -> Level]
  /\ local_state \in [CPU -> LocalState]
  /\ pd_state \in [Node -> LocalState]
  /\ req \in [CPU -> [DomainLevel -> LocalState]]
  /\ psci_lock \in [Node -> CPU \cup {NoCpu}]
  /\ cpu_lock \in [CPU -> CPU \cup {NoCpu}]
  /\ warmboot_ep \in [CPU -> EntryPoint \cup {NoEntry}]
  /\ suspend_mode \in {PLAT_COORD, OS_INIT}
  /\ on_request \in [CPU -> BOOLEAN]
  /\ pc \in [CPU -> Label]
  /\ op \in [CPU -> Handler]
  /\ held \in [CPU -> Level]
  /\ end_pwrlvl \in [CPU -> Level]
  /\ state_info \in [CPU -> PowerState]
  /\ powerDown \in [CPU -> BOOLEAN]
  /\ last_at_pwrlvl \in [CPU -> Nat]
  /\ target \in [CPU -> CPU]
  /\ ep \in [CPU -> EntryPoint \cup {NoEntry}]
  /\ prev \in [CPU -> [DomainLevel -> LocalState]]
  /\ scan \in [CPU -> 0..psci_plat_core_count]

\* A CPU that executes in the normal world runs in domains that all run: no
\* coordination by other CPUs (psci_do_state_coordination and the store of its
\* result) puts a domain above it into a low power state.
RunningCpuDomainsRun ==
  \A c \in CPU : pc[c] = "run" =>
    /\ local_state[c] = PSCI_LOCAL_STATE_RUN
    /\ \A l \in DomainLevel : pd_state[Ancestor[c][l]] = PSCI_LOCAL_STATE_RUN

\* psci_set_pwr_domains_to_run: a CPU back in the normal world requests RUN for
\* every domain above it, so that it keeps them running.
RunningCpuRequestsRun ==
  \A c \in CPU : pc[c] = "run" =>
    \A l \in DomainLevel : req[c][l] = PSCI_LOCAL_STATE_RUN

\* A domain whose lock is free is in the shallowest of the states its CPUs
\* request: the coordination result that is stored is never out of date.
DomainStateIsCoordinated ==
  \A c \in CPU : \A l \in DomainLevel :
    LET n == Ancestor[c][l] IN
    psci_lock[n] = NoCpu =>
      /\ \E d \in CpusBelow(n) : pd_state[n] = req[d][l]
      /\ \A d \in CpusBelow(n) : pd_state[n] <= req[d][l]

\* No domain is in a deeper kind of state than a domain or CPU below it.
DomainNoDeeperThanChildren ==
  \A c \in CPU :
    /\ find_local_state_type(local_state[c]) >=
         find_local_state_type(pd_state[Ancestor[c][1]])
    /\ \A l \in DomainLevel \ {1} :
         find_local_state_type(pd_state[Ancestor[c][l - 1]]) >=
           find_local_state_type(pd_state[Ancestor[c][l]])

\* psci_warmboot_entrypoint never panics, and the asserts of the finishers hold:
\* a CPU that is not being turned on resumes from a CPU-level off state.
WakeStateIsLegal ==
  \A c \in CPU :
    /\ pc[c] # "panic"
    /\ pc[c] = "acquire" /\ op[c] = "boot" =>
         /\ aff_info_state[c] # AFF_STATE_OFF
         /\ aff_info_state[c] = AFF_STATE_ON =>
              is_local_state_off(
                psci_get_target_local_pwr_states(c, end_pwrlvl[c])[PSCI_CPU_PWR_LVL])
    /\ pc[c] = "acquire" /\ op[c] = "wake" =>
         /\ aff_info_state[c] = AFF_STATE_ON
         /\ powerDown[c] => is_local_state_off(local_state[c])

\* The warm boot path reaches every domain that the CPU let go of: above the
\* level it starts from (get_power_on_target_pwrlvl) the CPU still requests RUN.
WarmBootReachesRequests ==
  \A c \in CPU : pc[c] \in {"off", "wfi"} =>
    \A l \in DomainLevel :
      req[c][l] # PSCI_LOCAL_STATE_RUN =>
        l <= IF powerDown[c] \/ pc[c] = "off" THEN suspend_pwrlvl[c]
                                              ELSE end_pwrlvl[c]

\* "Check if the current CPU is the last ON CPU": when psci_is_last_on_cpu_safe
\* is about to return true, every other CPU is off.
LastOnIsLast ==
  \A c \in CPU :
    pc[c] = "scan" /\ scan[c] = psci_plat_core_count
                   /\ op[c] \in {"to_plat_last", "to_os_last"} =>
      \A d \in CPU \ {c} : aff_info_state[d] = AFF_STATE_OFF

\* SYSTEM_SUSPEND: when psci_is_last_on_cpu is about to return true, every other
\* CPU is off.
SystemSuspendIsLast ==
  \A c \in CPU :
    pc[c] = "scan" /\ scan[c] = psci_plat_core_count /\ op[c] = "sys_suspend" =>
      \A d \in CPU \ {c} : aff_info_state[d] = AFF_STATE_OFF

\* A CPU that is being turned on starts at the entry point of the CPU_ON call
\* that succeeded: calls that find it ON_PENDING do not replace it.
PendingEntryPointKept ==
  [][\A c \in CPU : aff_info_state[c] = AFF_STATE_ON_PENDING =>
       warmboot_ep'[c] = warmboot_ep[c]]_vars

\* Another CPU takes a spinlock while CPU c waits for it: a CPU's own lock, or that
\* of a domain where HW_ASSISTED_COHERENCY makes it a spinlock.
Overtaken(c) ==
  LET Lost(owner, owner2) == owner = NoCpu /\ owner2 \notin {NoCpu, c} IN
  \/ pc[c] = "on_lock" /\ Lost(cpu_lock[target[c]], cpu_lock'[target[c]])
  \/ Locked(c) /\ op[c] = "boot" /\ Lost(cpu_lock[c], cpu_lock'[c])
  \/ /\ HW_ASSISTED_COHERENCY
     /\ pc[c] = "acquire" /\ held[c] < end_pwrlvl[c]
     /\ LET n == Ancestor[c][held[c] + 1] IN Lost(psci_lock[n], psci_lock'[n])

\* The spinlocks, which are not queued, are snatched from a waiting CPU for ever.
Starvation == \E c \in CPU : []<><<Overtaken(c)>>_vars

\* Every call that enters the firmware returns, or leaves its CPU asleep or off,
\* unless CPUs are starved at a spinlock: no refusal, wake-up or CPU_ON leaves a
\* lock taken or the CPUs waiting for each other, although psci_cpu_on_finish waits
\* for a spinlock with the locks of all domains held.
EveryCallCompletes ==
  \/ Starvation
  \/ \A c \in CPU :
       pc[c] \notin {"run", "standby", "wfi", "off"} ~>
         pc[c] \in {"run", "standby", "wfi", "off"}

\* A CPU that the platform was asked to power on reaches the normal world, whatever
\* the CPU that called CPU_ON does next, unless CPUs are starved at a spinlock.
TurnedOnCpuRuns ==
  \/ Starvation
  \/ \A c \in CPU : on_request[c] ~> pc[c] = "run"
=============================================================================
