--------------------------- MODULE PsciTypeProofs ----------------------------
(*****************************************************************************)
(* Type correctness of the PSCI core, for every number of CPUs, every power  *)
(* domain tree, every set of power states and every platform that keeps the  *)
(* assumptions of module Psci.                                               *)
(*****************************************************************************)
EXTENDS Psci, PowerDomainsProofs

\* One step of CPU c.
Step(c) == Firmware(c) \/ Call(c) \/ PowerEvent(c)

\* The constants that the proofs use everywhere: levels, states and the tree.
LEMMA ConstantFacts ==
  /\ psci_plat_core_count \in Nat \ {0}
  /\ PLAT_MAX_PWR_LVL \in Nat \ {0}
  /\ Level \subseteq Nat /\ DomainLevel \subseteq Level
  /\ 0 \in Level /\ PLAT_MAX_PWR_LVL \in Level /\ PLAT_MAX_PWR_LVL \in DomainLevel
  /\ PSCI_LOCAL_STATE_RUN \in LocalState /\ PLAT_MAX_OFF_STATE \in LocalState
  /\ \A c \in CPU : \A l \in DomainLevel : Ancestor[c][l] \in Node
BY CountAssumption, StateAssumption, AncestorAssumption
   DEF Level, DomainLevel, LocalState, PSCI_LOCAL_STATE_RUN

\* The composite states that the handlers start from.
LEMMA CompositeStates ==
  /\ AllRun \in PowerState /\ AllOff \in PowerState /\ SysSuspendState \in PowerState
  /\ NoRequest \in [DomainLevel -> LocalState]
BY Zenon, ConstantFacts, PlatformAssumption DEF AllRun, AllOff, NoRequest, PowerState

\* A request that CPU_SUSPEND accepts: its state, its level and its depth.
LEMMA RequestFacts ==
  ASSUME NEW r \in SuspendRequest
  PROVE  LET lvl == psci_find_target_suspend_lvl(r.state) IN
         /\ r.state \in PowerState /\ r.powerDown \in BOOLEAN /\ r.last \in Nat
         /\ lvl \in Level
         /\ r.powerDown => is_local_state_off(r.state[PSCI_CPU_PWR_LVL])
         /\ \A l \in Level : l <= lvl => r.state[l] # PSCI_LOCAL_STATE_RUN
<1>1. /\ r.state \in PowerState /\ r.powerDown \in BOOLEAN /\ r.last \in Nat
      /\ psci_validate_suspend_req(r.state, r.powerDown)
      /\ r.powerDown => is_local_state_off(r.state[PSCI_CPU_PWR_LVL])
  BY Zenon, PlatformAssumption
<1>2. psci_find_target_suspend_lvl(r.state) \in Level
  BY Zenon, <1>1, TargetSuspendLevel DEF psci_validate_suspend_req
<1>3. \A l \in Level : l <= psci_find_target_suspend_lvl(r.state) =>
        ~ is_local_state_run(r.state[l])
  BY Zenon, <1>1, ValidRequestLeavesRun
<1> QED
  BY Zenon, <1>1, <1>2, <1>3 DEF is_local_state_run

-----------------------------------------------------------------------------
(* Type correctness.                                                       *)

\* The effect of entering a handler, and of leaving one, is well typed.
ArgsOK ==
  /\ pc \in [CPU -> Label] /\ op \in [CPU -> Handler]
  /\ end_pwrlvl \in [CPU -> Level] /\ state_info \in [CPU -> PowerState]
  /\ powerDown \in [CPU -> BOOLEAN] /\ last_at_pwrlvl \in [CPU -> Nat]
  /\ target \in [CPU -> CPU] /\ ep \in [CPU -> EntryPoint \cup {NoEntry}]
  /\ prev \in [CPU -> [DomainLevel -> LocalState]]
  /\ scan \in [CPU -> 0..psci_plat_core_count]

StateOK ==
  /\ aff_info_state \in [CPU -> {AFF_STATE_ON, AFF_STATE_OFF, AFF_STATE_ON_PENDING}]
  /\ suspend_pwrlvl \in [CPU -> Level] /\ local_state \in [CPU -> LocalState]
  /\ pd_state \in [Node -> LocalState] /\ req \in [CPU -> [DomainLevel -> LocalState]]
  /\ psci_lock \in [Node -> CPU \cup {NoCpu}] /\ cpu_lock \in [CPU -> CPU \cup {NoCpu}]
  /\ held \in [CPU -> Level]
  /\ warmboot_ep \in [CPU -> EntryPoint \cup {NoEntry}]
  /\ suspend_mode \in {PLAT_COORD, OS_INIT} /\ on_request \in [CPU -> BOOLEAN]

\* TypeOK in two parts: what a handler keeps, and what the CPUs share.
LEMMA TypeParts == TypeOK <=> ArgsOK /\ StateOK
BY Zenon DEF TypeOK, ArgsOK, StateOK

\* Entering a handler leaves well-typed locals.
LEMMA EnterHandlerType ==
  ASSUME ArgsOK, NEW c \in CPU, NEW h \in Handler, NEW end \in Level,
         NEW s \in PowerState, NEW pd \in BOOLEAN, NEW last \in Nat,
         EnterHandler(c, h, end, s, pd, last),
         scan' \in [CPU -> 0..psci_plat_core_count]
  PROVE  ArgsOK'
BY Zenon DEF ArgsOK, EnterHandler, goto, become, Label

\* Leaving a handler leaves well-typed locals.
LEMMA NoArgsType ==
  ASSUME ArgsOK, NEW c \in CPU, NoArgs(c), pc' \in [CPU -> Label]
  PROVE  ArgsOK'
<1>1. op' \in [CPU -> Handler] /\ target' \in [CPU -> CPU]
  BY Zenon DEF ArgsOK, NoArgs, Handler
<1>2. end_pwrlvl' \in [CPU -> Level] /\ state_info' \in [CPU -> PowerState]
  BY Zenon, ConstantFacts, CompositeStates DEF ArgsOK, NoArgs
<1>3. powerDown' \in [CPU -> BOOLEAN] /\ last_at_pwrlvl' \in [CPU -> Nat]
  BY Zenon DEF ArgsOK, NoArgs
<1>4. ep' \in [CPU -> EntryPoint \cup {NoEntry}]
  BY Zenon DEF ArgsOK, NoArgs
<1>5. prev' \in [CPU -> [DomainLevel -> LocalState]]
  BY Zenon, CompositeStates DEF ArgsOK, NoArgs
<1>6. scan' \in [CPU -> 0..psci_plat_core_count]
  BY CountAssumption DEF ArgsOK, NoArgs
<1> QED
  BY Zenon, <1>1, <1>2, <1>3, <1>4, <1>5, <1>6 DEF ArgsOK

\* Every step keeps the locals well typed.
LEMMA ArgsStep ==
  ASSUME ArgsOK, StateOK, NEW c \in CPU, Step(c)
  PROVE  ArgsOK'
<1>1. CASE \/ psci_acquire_pwr_domain_locks(c) \/ psci_release_pwr_domain_locks(c)
  BY Zenon, <1>1 DEF ArgsOK, psci_acquire_pwr_domain_locks, psci_release_pwr_domain_locks, args
<1>2. CASE ReturnToCaller(c) \/ psci_spin_unlock_cpu(c) \/ SetMode(c)
  <2>1. NoArgs(c) /\ pc' = [pc EXCEPT ![c] = "run"]
    BY Zenon, <1>2 DEF ReturnToCaller, psci_spin_unlock_cpu, SetMode, goto
  <2> QED
    BY Zenon, <2>1, NoArgsType DEF ArgsOK, Label
<1>3. CASE psci_cpu_on(c)
  BY <1>3 DEF psci_cpu_on, ArgsOK, Label, goto
<1>4. CASE psci_spin_lock_cpu(c) \/ cpu_on_validate_state(c) \/ SetOnPending(c) \/ pwr_domain_on(c)
  <2>1. /\ UNCHANGED <<op, args>>
        /\ \E l \in Label : pc' = [pc EXCEPT ![c] = l]
    BY Zenon, <1>4 DEF psci_spin_lock_cpu, cpu_on_validate_state, SetOnPending, pwr_domain_on,
                goto, Label
  <2> QED
    BY <2>1 DEF ArgsOK, args
<1>5. CASE psci_cpu_off(c)
  <2>1. EnterHandler(c, "off", PLAT_MAX_PWR_LVL, AllOff, TRUE, 0) /\ scan' = scan
    BY Zenon, <1>5 DEF psci_cpu_off
  <2> QED
    BY Zenon, <2>1, EnterHandlerType, ConstantFacts, CompositeStates DEF Handler, ArgsOK
<1>6. CASE cpu_standby(c) \/ cpu_standby_exit(c) \/ StartScan(c) \/ Sleep(c)
           \/ psci_cpu_on_finish(c) \/ psci_cpu_suspend_finish(c)
           \/ psci_set_target_local_pwr_states(c)
  <2>1. /\ UNCHANGED <<op, args>>
        /\ \E l \in Label : pc' = [pc EXCEPT ![c] = l]
    BY Zenon, <1>6 DEF cpu_standby, cpu_standby_exit, StartScan, Sleep, psci_cpu_on_finish,
                psci_cpu_suspend_finish, psci_set_target_local_pwr_states, goto, Label
  <2> QED
    BY <2>1 DEF ArgsOK, args
<1>7. CASE psci_cpu_suspend(c)
  <2>1. PICK r \in SuspendRequest :
          EnterHandler(c, "suspend", psci_find_target_suspend_lvl(r.state), r.state,
                       r.powerDown, r.last)
    BY Zenon, <1>7 DEF psci_cpu_suspend
  <2>2. scan' \in [CPU -> 0..psci_plat_core_count] /\ "suspend" \in Handler
    BY Zenon, <1>7 DEF psci_cpu_suspend, ArgsOK, Handler
  <2>3. /\ psci_find_target_suspend_lvl(r.state) \in Level /\ r.state \in PowerState
        /\ r.powerDown \in BOOLEAN /\ r.last \in Nat
    BY Zenon, RequestFacts
  <2> QED
    BY ONLY ArgsOK, c \in CPU, <2>1, <2>2, <2>3, EnterHandlerType, Zenon
<1>8. CASE \/ psci_system_suspend(c) \/ svc_off_Denied(c) \/ WakeupPending(c)
           \/ psci_validate_state_coordination(c) \/ pwr_domain_validate_suspend_Fails(c)
           \/ WakeInPlace(c) \/ FinishPowerUp(c)
  <2>1. /\ UNCHANGED args
        /\ \E l \in Label : pc' = [pc EXCEPT ![c] = l]
        /\ op' = op \/ \E h \in Handler : op' = [op EXCEPT ![c] = h]
    BY Zenon, <1>8 DEF psci_system_suspend, svc_off_Denied, WakeupPending,
                psci_validate_state_coordination, pwr_domain_validate_suspend_Fails,
                WakeInPlace, FinishPowerUp, goto, become, Label, Handler
  <2> QED
    BY <2>1 DEF ArgsOK, args
<1>9. CASE psci_set_suspend_mode(c) \/ RetryLastOn(c)
  <2>1. /\ scan' = scan
        /\ \E h \in Handler : EnterHandler(c, h, PLAT_MAX_PWR_LVL, AllRun, FALSE, 0)
    BY Zenon, <1>9 DEF psci_set_suspend_mode, RetryLastOn, Handler
  <2> QED
    BY Zenon, <2>1, EnterHandlerType, ConstantFacts, CompositeStates DEF ArgsOK
<1>10. CASE ScanNext(c)
  <2>1. scan[c] + 1 \in 0..psci_plat_core_count
    BY <1>10, CountAssumption DEF ScanNext, CPU
  <2> QED
    BY Zenon, <1>10, <2>1 DEF ScanNext, ArgsOK
<1>11. CASE ScanFails(c)
  BY <1>11, CountAssumption DEF ScanFails, ArgsOK, goto, become, Label, Handler
<1>12. CASE ScanSucceeds(c)
  <2>0. scan' = [scan EXCEPT ![c] = 0]
    BY Zenon, <1>12 DEF ScanSucceeds, StartSystemSuspend
  <2>1. scan' \in [CPU -> 0..psci_plat_core_count]
    BY <2>0, CountAssumption DEF ArgsOK
  <2>2. CASE StartSystemSuspend(c)
    BY Zenon, <2>1, <2>2, EnterHandlerType, ConstantFacts, CompositeStates
       DEF StartSystemSuspend, Handler
  <2>3. CASE ~ StartSystemSuspend(c)
    <3>1. /\ pc' = [pc EXCEPT ![c] = "release"]
          /\ \E h \in Handler : op' = [op EXCEPT ![c] = h]
          /\ UNCHANGED <<end_pwrlvl, state_info, powerDown, last_at_pwrlvl, target, ep, prev>>
      BY Zenon, <1>12, <2>3 DEF ScanSucceeds, goto, become, Handler
    <3> QED
      BY <2>1, <3>1 DEF ArgsOK, Label
  <2> QED
    BY Zenon, <2>2, <2>3
<1>13. CASE Coordinate(c)
  <2> DEFINE r == Requests(req, c, end_pwrlvl[c], state_info[c])
  <2> DEFINE t == psci_do_state_coordination(r, c, end_pwrlvl[c], state_info[c])
  <2>1. r \in [CPU -> [DomainLevel -> LocalState]]
    BY ConstantFacts DEF Requests, ArgsOK, StateOK, PowerState
  <2>2. t \in PowerState
    BY ZenonT(30), <2>1, CoordinationIsSafe DEF ArgsOK
  <2>3. state_info' = [state_info EXCEPT ![c] = t]
    BY Zenon, <1>13 DEF Coordinate
  <2> HIDE DEF t
  <2> QED
    BY <1>13, <2>2, <2>3 DEF Coordinate, ArgsOK, goto, Label
<1>14. CASE psci_update_req(c)
  BY Zenon, <1>14 DEF psci_update_req, ArgsOK, StateOK, goto, Label
<1>15. CASE PowerOff(c)
  <2>1. NoArgs(c) /\ pc' = [pc EXCEPT ![c] = "off"]
    BY Zenon, <1>15 DEF PowerOff, goto
  <2> QED
    BY Zenon, <2>1, NoArgsType DEF ArgsOK, Label
<1>16. CASE psci_warmboot_entrypoint(c)
  <2>1. CASE NoArgs(c) /\ goto(c, "panic")
    BY Zenon, <2>1, NoArgsType DEF ArgsOK, Label, goto
  <2>2. CASE EnterHandler(c, "boot", suspend_pwrlvl[c], AllRun, FALSE, 0) /\ scan' = scan
    <3>1. suspend_pwrlvl[c] \in Level
      BY Zenon DEF StateOK
    <3> QED
      BY Zenon, <2>2, <3>1, EnterHandlerType, CompositeStates DEF Handler, ArgsOK
  <2> QED
    BY Zenon, <1>16, <2>1, <2>2 DEF psci_warmboot_entrypoint
<1> QED
  BY Zenon, <1>1, <1>2, <1>3, <1>4, <1>5, <1>6, <1>7, <1>8, <1>9, <1>10, <1>11, <1>12, <1>13,
     <1>14, <1>15, <1>16 DEF Step, Firmware, Call, PowerEvent

\* Requests and targets are functions of the right type.
LEMMA RequestsType ==
  ASSUME NEW r \in [CPU -> [DomainLevel -> LocalState]], NEW c \in CPU,
         NEW end \in Level, NEW s \in PowerState
  PROVE  /\ Requests(r, c, end, s) \in [CPU -> [DomainLevel -> LocalState]]
         /\ psci_update_req_local_pwr_states(r, c, end, s)
              \in [CPU -> [DomainLevel -> LocalState]]
<1>1. \A l \in DomainLevel : s[l] \in LocalState /\ s[end] \in LocalState
  BY Zenon, ConstantFacts DEF PowerState
<1> QED
  BY Zenon, <1>1 DEF Requests, psci_update_req_local_pwr_states

\* What psci_set_pwr_domains_to_run stores is well typed.
LEMMA SetToRunType ==
  ASSUME StateOK, NEW c \in CPU, NEW end \in Level, psci_set_pwr_domains_to_run(c, end)
  PROVE  /\ aff_info_state' \in [CPU -> {AFF_STATE_ON, AFF_STATE_OFF, AFF_STATE_ON_PENDING}]
         /\ local_state' \in [CPU -> LocalState] /\ pd_state' \in [Node -> LocalState]
         /\ req' \in [CPU -> [DomainLevel -> LocalState]]
<1>1. req' \in [CPU -> [DomainLevel -> LocalState]]
  BY Zenon, RequestsType, CompositeStates DEF StateOK, psci_set_pwr_domains_to_run
<1>2. pd_state' \in [Node -> LocalState]
  BY Zenon, ConstantFacts DEF StateOK, psci_set_pwr_domains_to_run
<1> QED
  BY Zenon, <1>1, <1>2, ConstantFacts DEF StateOK, psci_set_pwr_domains_to_run

\* Every step keeps the shared state well typed.
LEMMA StateStep ==
  ASSUME ArgsOK, StateOK, NEW c \in CPU, Step(c)
  PROVE  StateOK'
<1>1. CASE psci_acquire_pwr_domain_locks(c)
  <2>1. held[c] + 1 \in Level /\ held[c] + 1 \in DomainLevel
    BY SMTT(30), <1>1, CountAssumption DEF psci_acquire_pwr_domain_locks, ArgsOK, StateOK, Level, DomainLevel
  <2>2. held' \in [CPU -> Level]
    BY Zenon, <1>1, <2>1 DEF psci_acquire_pwr_domain_locks, StateOK
  <2>3. psci_lock' \in [Node -> CPU \cup {NoCpu}]
    BY Zenon, <1>1, <2>1, ConstantFacts DEF psci_acquire_pwr_domain_locks, StateOK
  <2> QED
    BY Zenon, <1>1, <2>2, <2>3 DEF psci_acquire_pwr_domain_locks, StateOK, cpu_data, domains, platform
<1>2. CASE psci_release_pwr_domain_locks(c)
  <2>1. held[c] - 1 \in Level
    BY SMTT(30), <1>2, CountAssumption DEF psci_release_pwr_domain_locks, StateOK, Level
  <2>2. held' \in [CPU -> Level]
    BY Zenon, <1>2, <2>1 DEF psci_release_pwr_domain_locks, StateOK
  <2>3. psci_lock' \in [Node -> CPU \cup {NoCpu}]
    BY Zenon, <1>2 DEF psci_release_pwr_domain_locks, StateOK
  <2> QED
    BY Zenon, <1>2, <2>2, <2>3 DEF psci_release_pwr_domain_locks, StateOK, cpu_data, domains, platform
<1>3. CASE \/ ReturnToCaller(c) \/ psci_cpu_on(c) \/ psci_cpu_off(c) \/ psci_system_suspend(c)
           \/ psci_set_suspend_mode(c) \/ StartScan(c) \/ ScanNext(c) \/ ScanFails(c)
           \/ RetryLastOn(c) \/ svc_off_Denied(c) \/ WakeupPending(c) \/ Sleep(c)
           \/ WakeInPlace(c) \/ psci_cpu_on_finish(c)
  <2>1. UNCHANGED <<cpu_data, domains, locks, platform>>
    BY Zenon, <1>3 DEF ReturnToCaller, psci_cpu_on, psci_cpu_off, psci_system_suspend,
         psci_set_suspend_mode, StartScan, ScanNext, ScanFails, RetryLastOn,
         svc_off_Denied, WakeupPending, Sleep, WakeInPlace, psci_cpu_on_finish
  <2> QED
    BY Zenon, <2>1 DEF StateOK, cpu_data, domains, locks, platform
<1>4. CASE psci_spin_lock_cpu(c) \/ psci_spin_unlock_cpu(c)
  <2>1. /\ UNCHANGED <<cpu_data, domains, psci_lock, held, platform>>
        /\ cpu_lock' \in [CPU -> CPU \cup {NoCpu}]
    <3>1. CASE psci_spin_lock_cpu(c)
      BY Zenon, <3>1 DEF psci_spin_lock_cpu, StateOK
    <3>2. CASE psci_spin_unlock_cpu(c)
      BY Zenon, <3>2 DEF psci_spin_unlock_cpu, StateOK
    <3> QED
      BY Zenon, <1>4, <3>1, <3>2
  <2> QED
    BY Zenon, <2>1 DEF StateOK, cpu_data, domains, platform
<1>5. CASE cpu_on_validate_state(c)
  BY Zenon, <1>5 DEF cpu_on_validate_state, StateOK, ArgsOK, cpu_data, domains, locks
<1>6. CASE SetOnPending(c) \/ pwr_domain_on(c) \/ PowerOff(c)
  <2>1. /\ aff_info_state' \in [CPU -> {AFF_STATE_ON, AFF_STATE_OFF, AFF_STATE_ON_PENDING}]
        /\ on_request' \in [CPU -> BOOLEAN]
        /\ UNCHANGED <<suspend_pwrlvl, local_state, domains, locks, warmboot_ep, suspend_mode>>
    <3>1. CASE SetOnPending(c)
      BY Zenon, <3>1 DEF SetOnPending, StateOK, platform
    <3>2. CASE pwr_domain_on(c)
      BY Zenon, <3>2 DEF pwr_domain_on, StateOK
    <3>3. CASE PowerOff(c)
      BY Zenon, <3>3 DEF PowerOff, StateOK, platform
    <3> QED
      BY Zenon, <1>6, <3>1, <3>2, <3>3
  <2> QED
    BY Zenon, <2>1 DEF StateOK, domains, locks
<1>7. CASE cpu_standby(c) \/ cpu_standby_exit(c)
  <2>1. local_state' \in [CPU -> LocalState]
    <3>1. CASE cpu_standby(c)
      <4>1. PICK r \in SuspendRequest :
              local_state' = [local_state EXCEPT ![c] = r.state[PSCI_CPU_PWR_LVL]]
        BY Zenon, <3>1 DEF cpu_standby
      <4>2. r.state[PSCI_CPU_PWR_LVL] \in LocalState
        BY Zenon, RequestFacts, ConstantFacts DEF PowerState, PSCI_CPU_PWR_LVL
      <4> QED
        BY Zenon, <4>1, <4>2 DEF StateOK
    <3>2. CASE cpu_standby_exit(c)
      BY Zenon, <3>2, ConstantFacts DEF cpu_standby_exit, StateOK
    <3> QED
      BY Zenon, <1>7, <3>1, <3>2
  <2> QED
    BY Zenon, <1>7, <2>1 DEF cpu_standby, cpu_standby_exit, StateOK, domains, locks, platform
<1>8. CASE psci_cpu_suspend(c)
  <2>1. warmboot_ep' \in [CPU -> EntryPoint \cup {NoEntry}]
    BY Zenon, <1>8 DEF psci_cpu_suspend, StoreEntryPoint, StateOK
  <2> QED
    BY Zenon, <1>8, <2>1 DEF psci_cpu_suspend, StateOK, cpu_data, domains, locks
<1>9. CASE ScanSucceeds(c)
  <2>1. warmboot_ep' \in [CPU -> EntryPoint \cup {NoEntry}]
    BY Zenon, <1>9 DEF ScanSucceeds, StartSystemSuspend, StoreEntryPoint, StateOK, platform
  <2>2. UNCHANGED <<cpu_data, domains, locks, suspend_mode, on_request>>
    BY Zenon, <1>9 DEF ScanSucceeds, StartSystemSuspend, platform
  <2> QED
    BY Zenon, <2>1, <2>2 DEF StateOK, cpu_data, domains, locks
<1>10. CASE SetMode(c)
  BY Zenon, <1>10 DEF SetMode, StateOK, cpu_data, domains, locks
<1>11. CASE Coordinate(c) \/ psci_update_req(c) \/ psci_validate_state_coordination(c)
  <2>1. req' \in [CPU -> [DomainLevel -> LocalState]]
    <3>1. /\ Requests(req, c, end_pwrlvl[c], state_info[c])
               \in [CPU -> [DomainLevel -> LocalState]]
          /\ psci_update_req_local_pwr_states(req, c, end_pwrlvl[c], state_info[c])
               \in [CPU -> [DomainLevel -> LocalState]]
      BY Zenon, RequestsType DEF ArgsOK, StateOK
    <3>2. CASE Coordinate(c) \/ psci_update_req(c)
      BY Zenon, <3>1, <3>2 DEF Coordinate, psci_update_req
    <3>3. CASE psci_validate_state_coordination(c)
      BY Zenon, <3>3 DEF psci_validate_state_coordination, ArgsOK, StateOK
    <3> QED
      BY Zenon, <1>11, <3>2, <3>3
  <2>2. UNCHANGED <<cpu_data, pd_state, locks, platform>>
    BY Zenon, <1>11 DEF Coordinate, psci_update_req, psci_validate_state_coordination
  <2> QED
    BY Zenon, <2>1, <2>2 DEF StateOK, cpu_data, locks, platform
<1>12. CASE pwr_domain_validate_suspend_Fails(c) \/ FinishPowerUp(c)
  <2>1. \E end \in Level : psci_set_pwr_domains_to_run(c, end)
    BY Zenon, <1>12, ConstantFacts DEF pwr_domain_validate_suspend_Fails, FinishPowerUp, ArgsOK
  <2>2. UNCHANGED <<suspend_pwrlvl, locks, platform>>
    BY Zenon, <1>12 DEF pwr_domain_validate_suspend_Fails, FinishPowerUp
  <2> QED
    BY Zenon, <2>1, <2>2, SetToRunType DEF StateOK, locks, platform
<1>13. CASE psci_set_target_local_pwr_states(c)
  <2>1. \A l \in Level : state_info[c][l] \in LocalState
    BY Zenon DEF ArgsOK, PowerState
  <2>2. local_state' \in [CPU -> LocalState]
    BY Zenon, <1>13, <2>1, ConstantFacts
       DEF psci_set_target_local_pwr_states, StateOK, PSCI_CPU_PWR_LVL
  <2>3. pd_state' \in [Node -> LocalState]
    <3>1. 1..end_pwrlvl[c] \subseteq Level
      BY CountAssumption DEF ArgsOK, Level
    <3> QED
      BY Zenon, <1>13, <2>1, <3>1 DEF psci_set_target_local_pwr_states, StateOK
  <2>4. suspend_pwrlvl' \in [CPU -> Level]
    BY Zenon, <1>13, ConstantFacts
       DEF psci_set_target_local_pwr_states, StateOK, ArgsOK, SuspendLevel
  <2> QED
    BY Zenon, <1>13, <2>2, <2>3, <2>4 DEF psci_set_target_local_pwr_states, StateOK, locks, platform
<1>14. CASE psci_cpu_suspend_finish(c)
  BY Zenon, <1>14, ConstantFacts DEF psci_cpu_suspend_finish, StateOK, domains, locks, platform
<1>15. CASE psci_warmboot_entrypoint(c)
  BY Zenon, <1>15 DEF psci_warmboot_entrypoint, StateOK, cpu_data, domains, locks
<1> QED
  BY ZenonT(30), <1>1, <1>2, <1>3, <1>4, <1>5, <1>6, <1>7, <1>8, <1>9, <1>10, <1>11, <1>12, <1>13,
     <1>14, <1>15 DEF Step, Firmware, Call, PowerEvent

\* psci_setup leaves well-typed state.
LEMMA TypeInit == Init => TypeOK
<1> SUFFICES ASSUME Init PROVE ArgsOK /\ StateOK
  BY Zenon DEF TypeOK, ArgsOK, StateOK
<1>1. ArgsOK
  BY SMTT(30), ConstantFacts, CompositeStates, PlatformAssumption, CountAssumption
     DEF Init, ArgsOK, Label, Handler
<1>2. StateOK
  BY Zenon, ConstantFacts, CompositeStates, PlatformAssumption DEF Init, StateOK
<1> QED
  BY Zenon, <1>1, <1>2

\* Type correctness of the PSCI core: levels, states, loop counters and locals of
\* every handler stay within the types of the C code.
THEOREM PsciTypeCorrect == Spec => []TypeOK
<1>1. TypeOK /\ [Next]_vars => TypeOK'
  <2>1. ASSUME TypeOK, NEW c \in CPU, Step(c) PROVE TypeOK'
    <3>1. ArgsOK /\ StateOK
      BY Zenon, <2>1, TypeParts
    <3>2. ArgsOK' /\ StateOK'
      BY Zenon, <2>1, <3>1, ArgsStep, StateStep
    <3> QED
      BY Zenon, <3>2 DEF TypeOK, ArgsOK, StateOK
  <2>2. ASSUME TypeOK, UNCHANGED vars PROVE TypeOK'
    BY Zenon, <2>2 DEF TypeOK, vars, cpu_data, domains, locks, platform, args
  <2> QED
    BY Zenon, <2>1, <2>2 DEF Next, Step
<1> QED
  BY <1>1, TypeInit, PTL DEF Spec
==============================================================================
