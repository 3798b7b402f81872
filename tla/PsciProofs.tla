----------------------------- MODULE PsciProofs ------------------------------
(*****************************************************************************)
(* The inductive invariant of the PSCI core and the theorems on wake-up      *)
(* states and pending entry points.  Same generality as PsciTypeProofs.      *)
(*****************************************************************************)
EXTENDS PsciOnProofs

(* Waking up from a legal state.                                           *)

\* A CPU that powers down asks for, and then records, an off state of its own.
DepthOK(c) ==
  /\ pc[c] \in {"acquire", "validate", "set_target"} /\ op[c] = "suspend" /\ powerDown[c] =>
       is_local_state_off(state_info[c][PSCI_CPU_PWR_LVL])
  /\ (pc[c] = "release" /\ op[c] = "suspend") \/ pc[c] = "wfi" \/ op[c] = "wake" =>
       (powerDown[c] => is_local_state_off(local_state[c]))
  /\ op[c] = "boot" /\ aff_info_state[c] = AFF_STATE_ON => is_local_state_off(local_state[c])

DepthInv == \A c \in CPU : DepthOK(c)

\* A step keeps that for the CPU that takes it.
LEMMA DepthStep ==
  ASSUME TypeOK, OnInv, DepthInv, NEW c \in CPU, Step(c)
  PROVE  DepthOK(c)'
<1> USE DEF DepthOK, goto, become
<1>0. /\ pc \in [CPU -> Label] /\ op \in [CPU -> Handler] /\ powerDown \in [CPU -> BOOLEAN]
      /\ local_state \in [CPU -> LocalState] /\ state_info \in [CPU -> PowerState]
      /\ aff_info_state \in [CPU -> {AFF_STATE_ON, AFF_STATE_OFF, AFF_STATE_ON_PENDING}]
      /\ OpOK(c) /\ AffOK(c) /\ DepthOK(c)
  BY Zenon DEF TypeOK, OnInv, DepthInv
<1>1. CASE psci_acquire_pwr_domain_locks(c) \/ psci_release_pwr_domain_locks(c)
  BY Zenon, <1>0, <1>1 DEF psci_acquire_pwr_domain_locks, psci_release_pwr_domain_locks, cpu_data, args
<1>2. CASE ReturnToCaller(c) \/ psci_spin_unlock_cpu(c) \/ SetMode(c) \/ PowerOff(c)
  BY ZenonT(30), <1>0, <1>2 DEF ReturnToCaller, psci_spin_unlock_cpu, SetMode, PowerOff, NoArgs
<1>3. CASE \/ psci_cpu_on(c) \/ psci_spin_lock_cpu(c) \/ cpu_on_validate_state(c)
           \/ SetOnPending(c) \/ pwr_domain_on(c) \/ cpu_standby(c) \/ cpu_standby_exit(c)
  <2>1. op'[c] = "none" /\ pc'[c] \notin {"acquire", "validate", "set_target", "release", "wfi"}
    BY ZenonT(30), <1>0, <1>3 DEF psci_cpu_on, psci_spin_lock_cpu, cpu_on_validate_state, SetOnPending,
                      pwr_domain_on, cpu_standby, cpu_standby_exit, OpOK, OnLabel
  <2> QED
    BY Zenon, <2>1
<1>4. CASE psci_cpu_off(c) \/ psci_set_suspend_mode(c) \/ RetryLastOn(c)
  BY ZenonT(30), <1>0, <1>4 DEF psci_cpu_off, psci_set_suspend_mode, RetryLastOn, EnterHandler
<1>5. CASE psci_cpu_suspend(c)
  <2>1. PICK r \in SuspendRequest :
          EnterHandler(c, "suspend", psci_find_target_suspend_lvl(r.state), r.state,
                       r.powerDown, r.last)
    BY Zenon, <1>5 DEF psci_cpu_suspend
  <2>2. pc'[c] = "acquire" /\ op'[c] = "suspend" /\ powerDown'[c] = r.powerDown
        /\ state_info'[c] = r.state
    BY Zenon, <1>0, <2>1 DEF EnterHandler
  <2>3. r.powerDown => is_local_state_off(r.state[PSCI_CPU_PWR_LVL])
    BY Zenon, PlatformAssumption
  <2> QED
    BY Zenon, <2>2, <2>3
<1>6. CASE \/ psci_system_suspend(c) \/ StartScan(c) \/ ScanFails(c) \/ svc_off_Denied(c)
           \/ WakeupPending(c) \/ ScanNext(c)
  BY ZenonT(30), <1>0, <1>6 DEF psci_system_suspend, StartScan, ScanFails, svc_off_Denied,
              WakeupPending, Locked, ScanNext, OpOK
<1>7. CASE Sleep(c) \/ WakeInPlace(c)
  BY Zenon, <1>0, <1>7 DEF Sleep, WakeInPlace, Released, OpOK, cpu_data, args
<1>8. CASE ScanSucceeds(c)
  <2>1. CASE StartSystemSuspend(c)
    BY Zenon, <1>0, <2>1, ConstantFacts, PlatformAssumption
       DEF StartSystemSuspend, EnterHandler, PSCI_CPU_PWR_LVL
  <2>2. CASE op'[c] \in {"set_plat", "set_os"} /\ pc'[c] = "release"
    BY Zenon, <2>2
  <2> QED
    BY Zenon, <1>0, <1>8, <2>1, <2>2 DEF ScanSucceeds
<1>9. CASE Coordinate(c)
  <2>1. state_info'[c][PSCI_CPU_PWR_LVL] = state_info[c][PSCI_CPU_PWR_LVL]
    <3>1. 0 \in Level /\ 0 \notin 1..end_pwrlvl[c]
      BY CountAssumption DEF Level
    <3> QED
      BY Zenon, <1>0, <1>9, <3>1 DEF Coordinate, psci_do_state_coordination, PSCI_CPU_PWR_LVL
  <2> QED
    BY Zenon, <1>0, <1>9, <2>1 DEF Coordinate, Locked, OpOK, cpu_data
<1>10. CASE psci_update_req(c) \/ psci_validate_state_coordination(c)
  BY ZenonT(30), <1>0, <1>10 DEF psci_update_req, psci_validate_state_coordination, Locked, OsInitiated,
                     OpOK, args, cpu_data
<1>11. CASE pwr_domain_validate_suspend_Fails(c) \/ FinishPowerUp(c)
  BY ZenonT(30), <1>0, <1>11 DEF pwr_domain_validate_suspend_Fails, FinishPowerUp
<1>12. CASE psci_set_target_local_pwr_states(c)
  BY Zenon, <1>0, <1>12 DEF psci_set_target_local_pwr_states, OpOK, args
<1>13. CASE psci_cpu_on_finish(c) \/ psci_cpu_suspend_finish(c)
  BY Zenon, <1>0, <1>13 DEF psci_cpu_on_finish, psci_cpu_suspend_finish, Locked, OpOK, cpu_data, args
<1>14. CASE psci_warmboot_entrypoint(c)
  BY ZenonT(30), <1>0, <1>14 DEF psci_warmboot_entrypoint, NoArgs, EnterHandler, AffOK, cpu_data,
                     AFF_STATE_ON, AFF_STATE_ON_PENDING
<1> QED
  BY ZenonT(30), <1>1, <1>2, <1>3, <1>4, <1>5, <1>6, <1>7, <1>8, <1>9, <1>10, <1>11, <1>12, <1>13, <1>14
     DEF Step, Firmware, Call, PowerEvent

\* The inductive invariant: types, affinity states and depths.
PsciInv == TypeOK /\ OnInv /\ DepthInv

\* It holds after psci_setup.
LEMMA PsciInvInit == Init => PsciInv
<1> SUFFICES ASSUME Init PROVE PsciInv
  BY Zenon
<1>1. TypeOK
  BY Zenon, TypeInit
<1>2. OnInv
  BY ZenonT(30) DEF Init, OnInv, OpOK, AffOK, OnLabel, AFF_STATE_ON, AFF_STATE_OFF, AFF_STATE_ON_PENDING
<1>3. DepthInv
  BY Zenon DEF Init, DepthInv, DepthOK
<1> QED
  BY Zenon, <1>1, <1>2, <1>3 DEF PsciInv

\* Every step of a CPU keeps it.
LEMMA PsciInvStep ==
  ASSUME PsciInv, NEW c \in CPU, Step(c)
  PROVE  PsciInv'
<1>0. TypeOK /\ OnInv /\ DepthInv
  BY Zenon DEF PsciInv
<1>1. TypeOK'
  <2>1. ArgsOK /\ StateOK
    BY Zenon, <1>0, TypeParts
  <2>2. ArgsOK' /\ StateOK'
    BY Zenon, <2>1, ArgsStep, StateStep
  <2> QED
    BY Zenon, <2>2 DEF TypeOK, ArgsOK, StateOK
<1>2. OnInv'
  BY Zenon, <1>0, OnInvStep
<1>3. DepthInv'
  <2>1. DepthOK(c)'
    BY Zenon, <1>0, DepthStep
  <2>2. OthersKept(c)
    BY Zenon, <1>0, StepKeepsOthers
  <2>3. \A d \in CPU \ {c} : op[d] = "boot" => aff_info_state'[d] = aff_info_state[d]
    BY Zenon, <1>0, BootStateKept
  <2>4. \A d \in CPU \ {c} : DepthOK(d)'
    <3> SUFFICES ASSUME NEW d \in CPU \ {c} PROVE DepthOK(d)'
      BY Zenon
    <3>1. /\ pc'[d] = pc[d] /\ op'[d] = op[d] /\ local_state'[d] = local_state[d]
          /\ state_info'[d] = state_info[d] /\ powerDown'[d] = powerDown[d]
          /\ op[d] = "boot" => aff_info_state'[d] = aff_info_state[d]
      BY Zenon, <2>2, <2>3 DEF OthersKept
    <3>2. DepthOK(d)
      BY Zenon, <1>0 DEF DepthInv
    <3> QED
      BY Zenon, <3>1, <3>2 DEF DepthOK
  <2> QED
    BY Zenon, <2>1, <2>4 DEF DepthInv
<1> QED
  BY Zenon, <1>1, <1>2, <1>3 DEF PsciInv

\* It is an invariant.
LEMMA PsciInvariant == Spec => []PsciInv
<1>1. PsciInv /\ [Next]_vars => PsciInv'
  <2>1. ASSUME PsciInv, NEW c \in CPU, Step(c) PROVE PsciInv'
    BY Zenon, <2>1, PsciInvStep
  <2>2. ASSUME PsciInv, UNCHANGED vars PROVE PsciInv'
    BY ZenonT(60), <2>2 DEF PsciInv, TypeOK, OnInv, OpOK, AffOK, DepthInv, DepthOK, vars, cpu_data,
                domains, locks, platform, args
  <2> QED
    BY Zenon, <2>1, <2>2 DEF Next, Step
<1> QED
  BY <1>1, PsciInvInit, PTL DEF Spec

\* A CPU never reaches the panic of psci_warmboot_entrypoint, and it resumes from
\* power down only out of a CPU-level off state, in both coordination modes.
THEOREM PsciWakesLegally == Spec => []WakeStateIsLegal
<1>1. PsciInv => WakeStateIsLegal
  <2> SUFFICES ASSUME PsciInv, NEW c \in CPU
               PROVE  /\ pc[c] # "panic"
                      /\ pc[c] = "acquire" /\ op[c] = "boot" =>
                           /\ aff_info_state[c] # AFF_STATE_OFF
                           /\ aff_info_state[c] = AFF_STATE_ON =>
                                is_local_state_off(psci_get_target_local_pwr_states(
                                  c, end_pwrlvl[c])[PSCI_CPU_PWR_LVL])
                      /\ pc[c] = "acquire" /\ op[c] = "wake" =>
                           /\ aff_info_state[c] = AFF_STATE_ON
                           /\ powerDown[c] => is_local_state_off(local_state[c])
    BY Zenon DEF WakeStateIsLegal
  <2>1. OpOK(c) /\ AffOK(c) /\ DepthOK(c)
    BY Zenon DEF PsciInv, OnInv, DepthInv
  <2>2. psci_get_target_local_pwr_states(c, end_pwrlvl[c])[PSCI_CPU_PWR_LVL] = local_state[c]
    BY Zenon, ConstantFacts DEF psci_get_target_local_pwr_states, PSCI_CPU_PWR_LVL
  <2> QED
    BY Zenon, <2>1, <2>2 DEF AffOK, DepthOK
<1> QED
  BY <1>1, PsciInvariant, PTL

\* Between a successful CPU_ON and the start of its target nobody replaces the
\* entry point: neither another CPU_ON nor the target itself.
THEOREM PsciKeepsPendingEntryPoint == Spec => PendingEntryPointKept
<1>1. ASSUME PsciInv, [Next]_vars
      PROVE  [\A c \in CPU : aff_info_state[c] = AFF_STATE_ON_PENDING =>
                warmboot_ep'[c] = warmboot_ep[c]]_vars
  <2> SUFFICES ASSUME NEW c \in CPU, Step(c), NEW d \in CPU,
                      aff_info_state[d] = AFF_STATE_ON_PENDING
               PROVE  warmboot_ep'[d] = warmboot_ep[d]
    BY Zenon, <1>1 DEF Next, Step
  <2>0. /\ warmboot_ep \in [CPU -> EntryPoint \cup {NoEntry}] /\ target \in [CPU -> CPU]
        /\ AffOK(c) /\ OpOK(c)
    BY Zenon, <1>1 DEF PsciInv, TypeOK, OnInv
  <2>1. CASE cpu_on_validate_state(c)
    BY Zenon, <2>0, <2>1 DEF cpu_on_validate_state, AFF_STATE_OFF, AFF_STATE_ON_PENDING
  <2>2. CASE psci_cpu_suspend(c) \/ ScanSucceeds(c)
    <3>1. c # d
      BY Zenon, <2>0, <2>2 DEF psci_cpu_suspend, ScanSucceeds, AffOK, OpOK, AFF_STATE_ON,
                        AFF_STATE_ON_PENDING
    <3> QED
      BY Zenon, <2>0, <2>2, <3>1 DEF psci_cpu_suspend, ScanSucceeds, StartSystemSuspend,
                              StoreEntryPoint, platform
  <2>3. CASE UNCHANGED warmboot_ep
    BY Zenon, <2>3
  <2> QED
    BY Zenon, <2>1, <2>2, <2>3
       DEF Step, Firmware, Call, PowerEvent, platform,
           psci_acquire_pwr_domain_locks, psci_release_pwr_domain_locks, ReturnToCaller,
           psci_spin_lock_cpu, SetOnPending, pwr_domain_on, psci_spin_unlock_cpu, StartScan,
           ScanNext, ScanFails, RetryLastOn, SetMode, svc_off_Denied, WakeupPending,
           Coordinate, psci_update_req, psci_validate_state_coordination,
           pwr_domain_validate_suspend_Fails, psci_set_target_local_pwr_states, PowerOff,
           Sleep, psci_cpu_on_finish, psci_cpu_suspend_finish, FinishPowerUp, psci_cpu_on,
           psci_cpu_off, cpu_standby, psci_system_suspend, psci_set_suspend_mode,
           cpu_standby_exit, WakeInPlace, psci_warmboot_entrypoint
<1> QED
  BY <1>1, PsciInvariant, PTL DEF Spec, PendingEntryPointKept
==============================================================================
