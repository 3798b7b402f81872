---------------------------- MODULE PsciOnProofs -----------------------------
(*****************************************************************************)
(* CPU_ON and the affinity states: which handler runs where, who works on    *)
(* the affinity state of a CPU, and that a step of one CPU leaves alone      *)
(* what the others rely on.                                                  *)
(*****************************************************************************)
EXTENDS PsciTypeProofs

(* The inductive invariant.                                                *)

OnLabel == {"on_validate", "on_pending", "on_power", "on_unlock"}

\* Which handlers run at which label.
OpOK(c) ==
  /\ pc[c] \in {"run", "standby", "off", "on_lock"} \cup OnLabel => op[c] = "none"
  /\ pc[c] = "scan" => op[c] \in {"sys_suspend", "to_plat_last", "to_os_all", "to_os_last"}
  /\ pc[c] = "acquire" =>
       op[c] \in {"off", "suspend", "wake", "boot", "to_plat_last", "to_os_all", "to_os_last"}
  /\ pc[c] \in {"validate", "wfi"} => op[c] = "suspend"
  /\ pc[c] = "set_target" => op[c] \in {"off", "suspend"}
  /\ pc[c] = "set_run" => op[c] \in {"wake", "boot"}
  /\ pc[c] = "release" =>
       op[c] \in {"off", "suspend", "return", "to_os_retry", "set_plat", "set_os"}

\* The affinity state of a CPU agrees with where the CPU is; only the holder of
\* a CPU's spinlock turns it on, and only while it is off.
AffOK(c) ==
  /\ pc[c] # "panic"
  /\ pc[c] = "off" => aff_info_state[c] # AFF_STATE_ON
  /\ op[c] = "boot" => aff_info_state[c] # AFF_STATE_OFF
  /\ pc[c] # "off" /\ op[c] # "boot" => aff_info_state[c] = AFF_STATE_ON
  /\ on_request[c] => pc[c] = "off" /\ aff_info_state[c] = AFF_STATE_ON_PENDING
  /\ pc[c] \in OnLabel => cpu_lock[target[c]] = c
  /\ pc[c] = "on_pending" => aff_info_state[target[c]] = AFF_STATE_OFF
  /\ pc[c] = "on_power" => /\ aff_info_state[target[c]] = AFF_STATE_ON_PENDING
                           /\ pc[target[c]] = "off"
                           /\ ~ on_request[target[c]]

OnInv == \A c \in CPU : OpOK(c) /\ AffOK(c)

\* A step of one CPU leaves the place, the locals and the requests of the others.
OthersKept(c) ==
  \A d \in CPU \ {c} :
    /\ pc'[d] = pc[d] /\ op'[d] = op[d] /\ held'[d] = held[d]
    /\ end_pwrlvl'[d] = end_pwrlvl[d] /\ state_info'[d] = state_info[d]
    /\ powerDown'[d] = powerDown[d] /\ target'[d] = target[d]
    /\ local_state'[d] = local_state[d] /\ suspend_pwrlvl'[d] = suspend_pwrlvl[d]
    /\ req'[d] = req[d]

\* No step of a CPU touches what belongs to another.
LEMMA StepKeepsOthers ==
  ASSUME TypeOK, NEW c \in CPU, Step(c)
  PROVE  OthersKept(c)
<1>0. /\ DOMAIN pc = CPU /\ DOMAIN op = CPU /\ DOMAIN held = CPU
      /\ DOMAIN end_pwrlvl = CPU /\ DOMAIN state_info = CPU /\ DOMAIN powerDown = CPU
      /\ DOMAIN target = CPU /\ DOMAIN local_state = CPU /\ DOMAIN suspend_pwrlvl = CPU
      /\ DOMAIN req = CPU
  BY Zenon DEF TypeOK
<1> SUFFICES ASSUME NEW d \in CPU \ {c}
             PROVE  /\ pc'[d] = pc[d] /\ op'[d] = op[d] /\ held'[d] = held[d]
                    /\ end_pwrlvl'[d] = end_pwrlvl[d] /\ state_info'[d] = state_info[d]
                    /\ powerDown'[d] = powerDown[d] /\ target'[d] = target[d]
                    /\ local_state'[d] = local_state[d]
                    /\ suspend_pwrlvl'[d] = suspend_pwrlvl[d] /\ req'[d] = req[d]
  BY ZenonT(30) DEF OthersKept
<1> USE DEF goto, become, cpu_data, domains, locks, platform, args
<1>1. CASE psci_acquire_pwr_domain_locks(c) \/ psci_release_pwr_domain_locks(c)
  BY Zenon, <1>0, <1>1 DEF psci_acquire_pwr_domain_locks, psci_release_pwr_domain_locks
<1>2. CASE ReturnToCaller(c) \/ psci_spin_unlock_cpu(c) \/ SetMode(c) \/ PowerOff(c)
  BY ZenonT(30), <1>0, <1>2 DEF ReturnToCaller, psci_spin_unlock_cpu, SetMode, PowerOff, NoArgs
<1>3. CASE \/ psci_cpu_on(c) \/ psci_spin_lock_cpu(c) \/ cpu_on_validate_state(c)
           \/ SetOnPending(c) \/ pwr_domain_on(c)
  BY Zenon, <1>0, <1>3 DEF psci_cpu_on, psci_spin_lock_cpu, cpu_on_validate_state, SetOnPending,
              pwr_domain_on
<1>4. CASE psci_cpu_off(c) \/ psci_cpu_suspend(c) \/ psci_set_suspend_mode(c) \/ RetryLastOn(c)
  BY ZenonT(30), <1>0, <1>4 DEF psci_cpu_off, psci_cpu_suspend, psci_set_suspend_mode, RetryLastOn,
              EnterHandler
<1>5. CASE cpu_standby(c) \/ cpu_standby_exit(c)
  BY Zenon, <1>0, <1>5 DEF cpu_standby, cpu_standby_exit
<1>6. CASE \/ psci_system_suspend(c) \/ StartScan(c) \/ ScanNext(c) \/ ScanFails(c)
           \/ svc_off_Denied(c) \/ WakeupPending(c) \/ Sleep(c) \/ WakeInPlace(c)
  BY Zenon, <1>0, <1>6 DEF psci_system_suspend, StartScan, ScanNext, ScanFails, svc_off_Denied,
              WakeupPending, Sleep, WakeInPlace
<1>7. CASE ScanSucceeds(c)
  BY ZenonT(30), <1>0, <1>7 DEF ScanSucceeds, StartSystemSuspend, EnterHandler
<1>8. CASE Coordinate(c)
  BY Zenon, <1>0, <1>8 DEF Coordinate, Requests
<1>9. CASE psci_update_req(c) \/ psci_validate_state_coordination(c)
  BY ZenonT(30), <1>0, <1>9 DEF psci_update_req, psci_validate_state_coordination,
              psci_update_req_local_pwr_states
<1>10. CASE pwr_domain_validate_suspend_Fails(c) \/ FinishPowerUp(c)
  BY ZenonT(30), <1>0, <1>10 DEF pwr_domain_validate_suspend_Fails, FinishPowerUp,
               psci_set_pwr_domains_to_run, Requests
<1>11. CASE psci_set_target_local_pwr_states(c)
  BY Zenon, <1>0, <1>11 DEF psci_set_target_local_pwr_states
<1>12. CASE psci_cpu_on_finish(c) \/ psci_cpu_suspend_finish(c)
  BY Zenon, <1>0, <1>12 DEF psci_cpu_on_finish, psci_cpu_suspend_finish
<1>13. CASE psci_warmboot_entrypoint(c)
  BY ZenonT(30), <1>0, <1>13 DEF psci_warmboot_entrypoint, NoArgs, EnterHandler
<1> QED
  BY ZenonT(30), <1>1, <1>2, <1>3, <1>4, <1>5, <1>6, <1>7, <1>8, <1>9, <1>10, <1>11, <1>12, <1>13
     DEF Step, Firmware, Call, PowerEvent

\* A step keeps the handler of a CPU in line with its label.
LEMMA OpStep ==
  ASSUME TypeOK, NEW c \in CPU, Step(c), OpOK(c)
  PROVE  OpOK(c)'
<1> USE DEF OpOK, OnLabel, goto, become
<1>0. pc \in [CPU -> Label] /\ op \in [CPU -> Handler]
  BY Zenon DEF TypeOK
<1>1. CASE psci_acquire_pwr_domain_locks(c) \/ psci_release_pwr_domain_locks(c) \/ ScanNext(c)
  BY Zenon, <1>1 DEF psci_acquire_pwr_domain_locks, psci_release_pwr_domain_locks, ScanNext
<1>2. CASE ReturnToCaller(c) \/ psci_spin_unlock_cpu(c) \/ SetMode(c) \/ PowerOff(c)
  BY ZenonT(30), <1>0, <1>2 DEF ReturnToCaller, psci_spin_unlock_cpu, SetMode, PowerOff, NoArgs
<1>3. CASE \/ psci_cpu_on(c) \/ psci_spin_lock_cpu(c) \/ cpu_on_validate_state(c)
           \/ SetOnPending(c) \/ pwr_domain_on(c)
  BY ZenonT(30), <1>0, <1>3 DEF psci_cpu_on, psci_spin_lock_cpu, cpu_on_validate_state, SetOnPending,
              pwr_domain_on
<1>4. CASE psci_cpu_off(c) \/ psci_cpu_suspend(c) \/ psci_set_suspend_mode(c) \/ RetryLastOn(c)
  BY ZenonT(30), <1>0, <1>4 DEF psci_cpu_off, psci_cpu_suspend, psci_set_suspend_mode, RetryLastOn,
              EnterHandler
<1>5. CASE cpu_standby(c) \/ cpu_standby_exit(c)
  BY Zenon, <1>0, <1>5 DEF cpu_standby, cpu_standby_exit
<1>6. CASE \/ psci_system_suspend(c) \/ StartScan(c) \/ ScanFails(c) \/ svc_off_Denied(c)
           \/ WakeupPending(c) \/ Sleep(c) \/ WakeInPlace(c)
  BY ZenonT(30), <1>0, <1>6 DEF psci_system_suspend, StartScan, ScanFails, svc_off_Denied,
              WakeupPending, Sleep, WakeInPlace, Locked, Released
<1>7. CASE ScanSucceeds(c)
  BY Zenon, <1>0, <1>7 DEF ScanSucceeds, StartSystemSuspend, EnterHandler
<1>8. CASE Coordinate(c) \/ psci_update_req(c) \/ psci_validate_state_coordination(c)
  BY ZenonT(30), <1>0, <1>8 DEF Coordinate, psci_update_req, psci_validate_state_coordination,
                    OsInitiated, Locked
<1>9. CASE pwr_domain_validate_suspend_Fails(c) \/ FinishPowerUp(c)
  BY Zenon, <1>0, <1>9 DEF pwr_domain_validate_suspend_Fails, FinishPowerUp
<1>10. CASE psci_set_target_local_pwr_states(c)
  BY Zenon, <1>0, <1>10 DEF psci_set_target_local_pwr_states
<1>11. CASE psci_cpu_on_finish(c) \/ psci_cpu_suspend_finish(c)
  BY Zenon, <1>0, <1>11 DEF psci_cpu_on_finish, psci_cpu_suspend_finish, Locked
<1>12. CASE psci_warmboot_entrypoint(c)
  BY ZenonT(30), <1>0, <1>12 DEF psci_warmboot_entrypoint, NoArgs, EnterHandler
<1> QED
  BY Zenon, <1>1, <1>2, <1>3, <1>4, <1>5, <1>6, <1>7, <1>8, <1>9, <1>10, <1>11, <1>12
     DEF Step, Firmware, Call, PowerEvent

\* A step that has nothing to do with turning CPUs on and off.
QuietStep(c) ==
  /\ UNCHANGED <<aff_info_state, on_request, cpu_lock>>
  /\ pc[c] # "off" /\ pc'[c] \notin {"off", "panic"} \cup OnLabel
  /\ op'[c] = "boot" <=> op[c] = "boot"

\* These steps are quiet.
LEMMA QuietSteps ==
  ASSUME TypeOK, OnInv, NEW c \in CPU, Step(c)
  PROVE  \/ QuietStep(c)
         \/ psci_spin_lock_cpu(c) \/ cpu_on_validate_state(c) \/ SetOnPending(c)
         \/ pwr_domain_on(c) \/ psci_spin_unlock_cpu(c) \/ PowerOff(c)
         \/ pwr_domain_validate_suspend_Fails(c) \/ FinishPowerUp(c)
         \/ psci_warmboot_entrypoint(c)
<1> USE DEF QuietStep, OnLabel, goto, become, cpu_data, domains, locks, platform, args
<1>0. pc \in [CPU -> Label] /\ op \in [CPU -> Handler] /\ OpOK(c) /\ pc[c] # "panic"
  BY Zenon DEF TypeOK, OnInv, AffOK
<1>1. CASE psci_acquire_pwr_domain_locks(c) \/ psci_release_pwr_domain_locks(c) \/ ScanNext(c)
  BY Zenon, <1>0, <1>1 DEF psci_acquire_pwr_domain_locks, psci_release_pwr_domain_locks, ScanNext
<1>2. CASE ReturnToCaller(c) \/ SetMode(c)
  BY ZenonT(30), <1>0, <1>2 DEF ReturnToCaller, SetMode, NoArgs, Released
<1>3. CASE psci_cpu_on(c)
  BY Zenon, <1>0, <1>3 DEF psci_cpu_on
<1>4. CASE psci_cpu_off(c) \/ psci_cpu_suspend(c) \/ psci_set_suspend_mode(c) \/ RetryLastOn(c)
  BY ZenonT(30), <1>0, <1>4 DEF psci_cpu_off, psci_cpu_suspend, psci_set_suspend_mode, RetryLastOn,
              EnterHandler, OpOK, Released
<1>5. CASE cpu_standby(c) \/ cpu_standby_exit(c)
  BY Zenon, <1>0, <1>5 DEF cpu_standby, cpu_standby_exit
<1>6. CASE \/ psci_system_suspend(c) \/ StartScan(c) \/ ScanFails(c) \/ svc_off_Denied(c)
           \/ WakeupPending(c) \/ Sleep(c) \/ WakeInPlace(c)
  BY ZenonT(30), <1>0, <1>6 DEF psci_system_suspend, StartScan, ScanFails, svc_off_Denied,
              WakeupPending, Sleep, WakeInPlace, Locked, Released, OpOK
<1>7. CASE ScanSucceeds(c)
  BY ZenonT(30), <1>0, <1>7 DEF ScanSucceeds, StartSystemSuspend, EnterHandler, OpOK
<1>8. CASE Coordinate(c) \/ psci_update_req(c) \/ psci_validate_state_coordination(c)
  BY ZenonT(30), <1>0, <1>8 DEF Coordinate, psci_update_req, psci_validate_state_coordination,
                    OsInitiated, Locked, OpOK
<1>9. CASE psci_set_target_local_pwr_states(c)
  BY Zenon, <1>0, <1>9 DEF psci_set_target_local_pwr_states
<1>10. CASE psci_cpu_on_finish(c) \/ psci_cpu_suspend_finish(c)
  BY Zenon, <1>0, <1>10 DEF psci_cpu_on_finish, psci_cpu_suspend_finish, Locked
<1> QED
  BY Zenon, <1>1, <1>2, <1>3, <1>4, <1>5, <1>6, <1>7, <1>8, <1>9, <1>10
     DEF Step, Firmware, Call, PowerEvent

\* Every step keeps the affinity states in line with where the CPUs are.
LEMMA OnInvStep ==
  ASSUME TypeOK, OnInv, NEW c \in CPU, Step(c)
  PROVE  OnInv'
<1>1. OthersKept(c)
  BY Zenon, StepKeepsOthers
<1>2. \A d \in CPU : OpOK(d)'
  <2>1. OpOK(c)'
    BY Zenon, OpStep DEF OnInv
  <2>2. \A d \in CPU \ {c} : OpOK(d)'
    BY SMTT(30), <1>1 DEF OnInv, OpOK, OthersKept
  <2> QED
    BY Zenon, <2>1, <2>2
<1>3. /\ pc \in [CPU -> Label] /\ op \in [CPU -> Handler] /\ target \in [CPU -> CPU]
      /\ aff_info_state \in [CPU -> {AFF_STATE_ON, AFF_STATE_OFF, AFF_STATE_ON_PENDING}]
      /\ on_request \in [CPU -> BOOLEAN] /\ cpu_lock \in [CPU -> CPU \cup {NoCpu}]
      /\ NoCpu \notin CPU
  BY Zenon, PlatformAssumption DEF TypeOK
<1> USE DEF AFF_STATE_ON, AFF_STATE_OFF, AFF_STATE_ON_PENDING
<1>4. SUFFICES ASSUME NEW d \in CPU PROVE AffOK(d)'
  BY Zenon, <1>2 DEF OnInv
<1>5. OpOK(c) /\ AffOK(c) /\ OpOK(d) /\ AffOK(d) /\ AffOK(target[c]) /\ OpOK(target[c])
  BY Zenon, <1>3 DEF OnInv
<1> DEFINE t == target[c]
<1>t. t \in CPU /\ target[d] \in CPU
  BY Zenon, <1>3
<1>k. d # c => /\ pc'[d] = pc[d] /\ op'[d] = op[d] /\ target'[d] = target[d]
               /\ target[d] # c => pc'[target[d]] = pc[target[d]]
  BY Zenon, <1>1, <1>t DEF OthersKept
<1>6. CASE QuietStep(c)
  <2>1. CASE d = c
    <3>1. /\ aff_info_state'[c] = aff_info_state[c] /\ on_request'[c] = on_request[c]
          /\ pc[c] # "off" /\ pc'[c] \notin {"off", "panic"} \cup OnLabel
          /\ op'[c] = "boot" <=> op[c] = "boot"
      BY Zenon, <1>6 DEF QuietStep
    <3> QED
      BY Zenon, <1>5, <2>1, <3>1 DEF AffOK, OnLabel
  <2>2. CASE d # c
    <3>1. UNCHANGED <<aff_info_state, on_request, cpu_lock>> /\ pc[c] # "off"
      BY Zenon, <1>6 DEF QuietStep
    <3> QED
      BY ZenonT(30), <1>5, <1>k, <2>2, <3>1 DEF AffOK
  <2> QED
    BY Zenon, <2>1, <2>2
<1>7. CASE psci_spin_lock_cpu(c)
  <2>1. /\ UNCHANGED <<aff_info_state, on_request, target>>
        /\ pc[c] = "on_lock" /\ pc' = [pc EXCEPT ![c] = "on_validate"] /\ op'[c] = op[c]
        /\ cpu_lock[t] = NoCpu /\ cpu_lock' = [cpu_lock EXCEPT ![t] = c]
    BY Zenon, <1>3, <1>7 DEF psci_spin_lock_cpu, goto, cpu_data, platform, args
  <2> QED
    BY ZenonT(30), <1>3, <1>5, <1>t, <1>k, <2>1 DEF AffOK, OnLabel
<1>8. CASE cpu_on_validate_state(c)
  <2>1. /\ UNCHANGED <<aff_info_state, on_request, cpu_lock, target>>
        /\ pc[c] = "on_validate" /\ op'[c] = op[c]
        /\ \/ pc' = [pc EXCEPT ![c] = "on_unlock"]
           \/ pc' = [pc EXCEPT ![c] = "on_pending"] /\ aff_info_state[t] = AFF_STATE_OFF
    BY Zenon, <1>3, <1>8 DEF cpu_on_validate_state, goto, cpu_data, locks, platform, args
  <2> QED
    BY ZenonT(60), <1>3, <1>5, <1>t, <1>k, <2>1 DEF AffOK, OnLabel
<1>9. CASE SetOnPending(c)
  <2>1. /\ UNCHANGED <<on_request, cpu_lock, target>>
        /\ pc[c] = "on_pending" /\ pc' = [pc EXCEPT ![c] = "on_power"] /\ op'[c] = op[c]
        /\ aff_info_state' = [aff_info_state EXCEPT ![t] = AFF_STATE_ON_PENDING]
    BY Zenon, <1>3, <1>9 DEF SetOnPending, goto, locks, platform, args
  <2>2. pc[t] = "off" /\ ~ on_request[t] /\ cpu_lock[t] = c
    BY Zenon, <1>5, <1>t, <2>1 DEF AffOK, OpOK, OnLabel
  <2> QED
    BY SMTT(30), <1>3, <1>5, <1>t, <1>k, <2>1, <2>2 DEF AffOK, OnLabel
<1>10. CASE pwr_domain_on(c)
  <2>1. /\ UNCHANGED <<cpu_lock, target>>
        /\ pc[c] = "on_power" /\ pc' = [pc EXCEPT ![c] = "on_unlock"] /\ op'[c] = op[c]
        /\ \/ on_request' = [on_request EXCEPT ![t] = TRUE] /\ UNCHANGED aff_info_state
           \/ /\ aff_info_state' = [aff_info_state EXCEPT ![t] = AFF_STATE_OFF]
              /\ UNCHANGED on_request
    BY Zenon, <1>3, <1>10 DEF pwr_domain_on, goto, locks, platform, args
  <2>2. /\ pc[t] = "off" /\ ~ on_request[t] /\ cpu_lock[t] = c /\ op[t] = "none" /\ t # c
        /\ aff_info_state[t] = AFF_STATE_ON_PENDING
    BY Zenon, <1>5, <1>t, <2>1 DEF AffOK, OpOK, OnLabel
  <2> QED
    BY SMTT(30), <1>3, <1>5, <1>t, <1>k, <2>1, <2>2 DEF AffOK, OnLabel
<1>11. CASE psci_spin_unlock_cpu(c)
  <2>1. /\ UNCHANGED <<aff_info_state, on_request>>
        /\ pc[c] = "on_unlock" /\ pc' = [pc EXCEPT ![c] = "run"] /\ op'[c] = "none"
        /\ cpu_lock' = [cpu_lock EXCEPT ![t] = NoCpu]
    BY Zenon, <1>3, <1>11 DEF psci_spin_unlock_cpu, goto, cpu_data, platform, NoArgs
  <2>2. CASE d = c
    BY Zenon, <1>3, <1>5, <2>1, <2>2 DEF AffOK, OpOK, OnLabel
  <2>3. CASE d # c
    BY SMTT(30), <1>3, <1>5, <1>t, <1>k, <2>1, <2>3 DEF AffOK, OnLabel
  <2> QED
    BY Zenon, <2>2, <2>3
<1>12. CASE PowerOff(c)
  <2>1. /\ UNCHANGED <<on_request, cpu_lock>>
        /\ pc[c] # "off" /\ pc' = [pc EXCEPT ![c] = "off"] /\ op'[c] = "none"
        /\ aff_info_state' = [aff_info_state EXCEPT ![c] = AFF_STATE_OFF]
    BY Zenon, <1>3, <1>12 DEF PowerOff, goto, locks, platform, NoArgs, Released
  <2>2. CASE d = c
    BY Zenon, <1>3, <1>5, <2>1, <2>2 DEF AffOK, OnLabel
  <2>3. CASE d # c
    BY ZenonT(60), <1>3, <1>5, <1>t, <1>k, <2>1, <2>3 DEF AffOK, OnLabel
  <2> QED
    BY Zenon, <2>2, <2>3
<1>13. CASE pwr_domain_validate_suspend_Fails(c) \/ FinishPowerUp(c)
  <2>1. /\ UNCHANGED <<on_request, cpu_lock, target>>
        /\ pc[c] # "off" /\ pc' = [pc EXCEPT ![c] = "release"] /\ op'[c] # "boot"
        /\ aff_info_state' = [aff_info_state EXCEPT ![c] = AFF_STATE_ON]
    BY Zenon, <1>3, <1>5, <1>13
       DEF pwr_domain_validate_suspend_Fails, FinishPowerUp, psci_set_pwr_domains_to_run,
           OpOK, goto, become, locks, platform, args
  <2>2. CASE d = c
    BY Zenon, <1>3, <1>5, <2>1, <2>2 DEF AffOK, OnLabel
  <2>3. CASE d # c
    BY ZenonT(30), <1>3, <1>5, <1>t, <1>k, <2>1, <2>3 DEF AffOK, OnLabel
  <2> QED
    BY Zenon, <2>2, <2>3
<1>14. CASE psci_warmboot_entrypoint(c)
  <2>1. /\ UNCHANGED <<aff_info_state, cpu_lock>>
        /\ pc'[c] \notin {"off", "panic"} \cup OnLabel
        /\ op'[c] = "boot" /\ aff_info_state[c] # AFF_STATE_OFF
        /\ pc[c] = "off" => on_request[c]
        /\ ~ on_request'[c] /\ \A e \in CPU \ {c} : on_request'[e] = on_request[e]
    <3>1. /\ aff_info_state[c] # AFF_STATE_OFF /\ pc[c] \in {"wfi", "off"}
          /\ (pc[c] = "off" => on_request[c]) /\ (pc[c] # "off" => ~ on_request[c])
      BY Zenon, <1>5, <1>14 DEF psci_warmboot_entrypoint, AffOK, OpOK
    <3>2. /\ pc' = [pc EXCEPT ![c] = "acquire"] /\ op' = [op EXCEPT ![c] = "boot"]
          /\ UNCHANGED <<aff_info_state, cpu_lock>>
      BY Zenon, <1>14, <3>1
         DEF psci_warmboot_entrypoint, EnterHandler, goto, become, cpu_data, locks
    <3>3. \/ pc[c] = "wfi" /\ on_request' = on_request
          \/ on_request' = [on_request EXCEPT ![c] = FALSE]
      BY Zenon, <1>14 DEF psci_warmboot_entrypoint
    <3>4. ~ on_request'[c] /\ \A e \in CPU \ {c} : on_request'[e] = on_request[e]
      BY <1>3, <3>1, <3>3
    <3> QED
      BY Zenon, <1>3, <3>1, <3>2, <3>4 DEF OnLabel
  <2>2. CASE d = c
    BY Zenon, <1>3, <1>5, <2>1, <2>2 DEF AffOK, OnLabel
  <2>3. CASE d # c
    <3>1. /\ on_request'[d] = on_request[d]
          /\ on_request'[target[d]] => target[d] # c /\ on_request[target[d]]
      BY Zenon, <1>t, <2>1, <2>3
    <3>2. pc[d] = "on_power" => target[d] # c
      BY Zenon, <1>5, <2>1, <2>3 DEF AffOK
    <3> QED
      BY ZenonT(30), <1>5, <1>k, <2>1, <2>3, <3>1, <3>2 DEF AffOK
  <2> QED
    BY Zenon, <2>2, <2>3
<1> QED
  BY ZenonT(30), <1>6, <1>7, <1>8, <1>9, <1>10, <1>11, <1>12, <1>13, <1>14, QuietSteps

\* The state of a CPU that boots is left alone by the other CPUs.
LEMMA BootStateKept ==
  ASSUME TypeOK, OnInv, NEW c \in CPU, Step(c), NEW d \in CPU \ {c}, op[d] = "boot"
  PROVE  aff_info_state'[d] = aff_info_state[d]
<1>1. /\ target \in [CPU -> CPU] /\ OpOK(d) /\ AffOK(c) /\ AffOK(d)
      /\ aff_info_state \in [CPU -> {AFF_STATE_ON, AFF_STATE_OFF, AFF_STATE_ON_PENDING}]
  BY Zenon DEF TypeOK, OnInv
<1>2. CASE QuietStep(c)
  BY Zenon, <1>2 DEF QuietStep
<1>3. CASE psci_spin_lock_cpu(c) \/ cpu_on_validate_state(c) \/ psci_spin_unlock_cpu(c)
           \/ psci_warmboot_entrypoint(c)
  BY Zenon, <1>3 DEF psci_spin_lock_cpu, cpu_on_validate_state, psci_spin_unlock_cpu,
              psci_warmboot_entrypoint, cpu_data
<1>4. CASE SetOnPending(c) \/ pwr_domain_on(c)
  <2>1. target[c] # d
    BY Zenon, <1>1, <1>4 DEF SetOnPending, pwr_domain_on, AffOK, OpOK, AFF_STATE_OFF
  <2> QED
    BY Zenon, <1>1, <1>4, <2>1 DEF SetOnPending, pwr_domain_on
<1>5. CASE PowerOff(c) \/ pwr_domain_validate_suspend_Fails(c) \/ FinishPowerUp(c)
  BY Zenon, <1>1, <1>5 DEF PowerOff, pwr_domain_validate_suspend_Fails, FinishPowerUp,
                    psci_set_pwr_domains_to_run
<1> QED
  BY Zenon, <1>2, <1>3, <1>4, <1>5, QuietSteps
==============================================================================
