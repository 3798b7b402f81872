--------------------------- MODULE PsciCoordProofs ---------------------------
(*****************************************************************************)
(* The coordination of the PSCI core: for a platform built without           *)
(* OS-initiated mode, why a CPU in the normal world never loses a domain     *)
(* above it.                                                                 *)
(*****************************************************************************)
EXTENDS PsciLockProofs

(* The domains above a CPU that requests RUN.                              *)

\* A domain runs when a CPU below it requests so.
DomainRuns ==
  \A c \in CPU : \A l \in DomainLevel :
    req[c][l] = PSCI_LOCAL_STATE_RUN => pd_state[Ancestor[c][l]] = PSCI_LOCAL_STATE_RUN

\* What a CPU is about to store for a domain is still right when it stores it:
\* whoever wants to change a request needs a lock that this CPU holds.
TargetFresh ==
  \A c, d \in CPU : \A l \in DomainLevel :
    /\ pc[c] = "set_target" /\ l <= end_pwrlvl[c]
    /\ Ancestor[d][l] = Ancestor[c][l]
    /\ req[d][l] = PSCI_LOCAL_STATE_RUN
    => state_info[c][l] = PSCI_LOCAL_STATE_RUN

\* Requests change below the level of the locks that the CPU holds.
LEMMA RequestsUnderLock ==
  ASSUME ~ PSCI_OS_INIT_MODE, PsciInv, LockInv, CpuInv, TargetFresh, NEW c \in CPU, Step(c),
         NEW s, req' = Requests(req, c, end_pwrlvl[c], s), held[c] = end_pwrlvl[c],
         NEW b \in CPU \ {c}, NEW d \in CPU, NEW l \in DomainLevel,
         pc[b] = "set_target", l <= end_pwrlvl[b], Ancestor[d][l] = Ancestor[b][l],
         req'[d][l] = PSCI_LOCAL_STATE_RUN
  PROVE  state_info[b][l] = PSCI_LOCAL_STATE_RUN
<1>0. req \in [CPU -> [DomainLevel -> LocalState]]
  BY Zenon DEF PsciInv, TypeOK
<1>1. CASE d # c
  BY Zenon, <1>0, <1>1 DEF TargetFresh, Requests
<1>2. CASE d = c
  <2>1. held[b] = end_pwrlvl[b]
    BY Zenon DEF LockInv, HeldOK
  <2>2. ~ (l <= end_pwrlvl[c])
    BY Zenon, <1>2, <2>1, LocksExclude
  <2>3. req'[c][l] = req[c][l]
    BY Zenon, <1>0, <2>2 DEF Requests
  <2> QED
    BY Zenon, <1>2, <2>3 DEF TargetFresh
<1> QED
  BY Zenon, <1>1, <1>2

\* The steps that touch neither requests nor domain states.
LEMMA DomainQuiet ==
  ASSUME ~ PSCI_OS_INIT_MODE, PsciInv, CpuInv, NEW c \in CPU, Step(c)
  PROVE  \/ UNCHANGED <<pd_state, req>> /\ pc'[c] # "set_target"
         \/ Coordinate(c) \/ psci_set_target_local_pwr_states(c) \/ FinishPowerUp(c)
<1> USE DEF goto, become, domains
<1>0. pc \in [CPU -> Label] /\ pc[c] # "validate"
  BY Zenon DEF PsciInv, TypeOK, CpuInv, RequestOK
<1>1. CASE psci_acquire_pwr_domain_locks(c) \/ psci_release_pwr_domain_locks(c) \/ ScanNext(c)
  BY Zenon, <1>0, <1>1 DEF psci_acquire_pwr_domain_locks, psci_release_pwr_domain_locks, ScanNext
<1>2. CASE ReturnToCaller(c) \/ psci_spin_unlock_cpu(c) \/ SetMode(c) \/ PowerOff(c)
  BY Zenon, <1>0, <1>2 DEF ReturnToCaller, psci_spin_unlock_cpu, SetMode, PowerOff
<1>3. CASE \/ psci_cpu_on(c) \/ psci_spin_lock_cpu(c) \/ cpu_on_validate_state(c)
           \/ SetOnPending(c) \/ pwr_domain_on(c) \/ cpu_standby(c) \/ cpu_standby_exit(c)
  BY Zenon, <1>0, <1>3 DEF psci_cpu_on, psci_spin_lock_cpu, cpu_on_validate_state, SetOnPending,
                    pwr_domain_on, cpu_standby, cpu_standby_exit
<1>4. CASE psci_cpu_off(c) \/ psci_cpu_suspend(c) \/ psci_set_suspend_mode(c) \/ RetryLastOn(c)
  BY Zenon, <1>0, <1>4 DEF psci_cpu_off, psci_cpu_suspend, psci_set_suspend_mode, RetryLastOn,
                    EnterHandler
<1>5. CASE \/ psci_system_suspend(c) \/ StartScan(c) \/ ScanFails(c) \/ svc_off_Denied(c)
           \/ WakeupPending(c) \/ Sleep(c) \/ WakeInPlace(c)
  BY Zenon, <1>0, <1>5 DEF psci_system_suspend, StartScan, ScanFails, svc_off_Denied,
                    WakeupPending, Sleep, WakeInPlace
<1>6. CASE ScanSucceeds(c)
  BY Zenon, <1>0, <1>6 DEF ScanSucceeds, StartSystemSuspend, EnterHandler
<1>7. CASE \/ psci_update_req(c) \/ psci_validate_state_coordination(c)
           \/ pwr_domain_validate_suspend_Fails(c)
  BY Zenon, <1>0, <1>7 DEF psci_update_req, psci_validate_state_coordination, OsInitiated,
                    pwr_domain_validate_suspend_Fails
<1>8. CASE psci_cpu_on_finish(c) \/ psci_cpu_suspend_finish(c) \/ psci_warmboot_entrypoint(c)
  BY Zenon, <1>0, <1>8 DEF psci_cpu_on_finish, psci_cpu_suspend_finish, psci_warmboot_entrypoint,
                    EnterHandler
<1> QED
  BY Zenon, <1>1, <1>2, <1>3, <1>4, <1>5, <1>6, <1>7, <1>8 DEF Step, Firmware, Call, PowerEvent

\* A store of coordinated states, and a wake-up, leave running what must run.
LEMMA DomainStep ==
  ASSUME ~ PSCI_OS_INIT_MODE, PsciInv, LockInv, CpuInv, DomainRuns, TargetFresh,
         NEW c \in CPU, Step(c)
  PROVE  DomainRuns' /\ TargetFresh'
<1>0. /\ req \in [CPU -> [DomainLevel -> LocalState]] /\ pd_state \in [Node -> LocalState]
      /\ pc \in [CPU -> Label] /\ end_pwrlvl \in [CPU -> Level]
      /\ state_info \in [CPU -> PowerState]
      /\ HeldOK(c) /\ RequestOK(c) /\ OthersKept(c)
  BY Zenon, StepKeepsOthers DEF PsciInv, TypeOK, LockInv, CpuInv
<1>k. \A b \in CPU \ {c} : /\ pc'[b] = pc[b] /\ end_pwrlvl'[b] = end_pwrlvl[b]
                          /\ state_info'[b] = state_info[b] /\ req'[b] = req[b]
  BY Zenon, <1>0 DEF OthersKept
<1>1. CASE UNCHANGED <<pd_state, req>> /\ pc'[c] # "set_target"
  <2>1. DomainRuns'
    BY Zenon, <1>1 DEF DomainRuns
  <2>2. TargetFresh'
    BY SMTT(30), <1>1, <1>k DEF TargetFresh
  <2> QED
    BY Zenon, <2>1, <2>2
<1>2. CASE Coordinate(c)
  <2>1. /\ pc[c] = "acquire" /\ op[c] \in {"off", "suspend"} /\ held[c] = end_pwrlvl[c]
        /\ req' = Requests(req, c, end_pwrlvl[c], state_info[c])
        /\ state_info' = [state_info EXCEPT ![c] =
             psci_do_state_coordination(req', c, end_pwrlvl[c], state_info[c])]
        /\ pd_state' = pd_state /\ end_pwrlvl' = end_pwrlvl
    BY Zenon, <1>2 DEF Coordinate, Locked
  <2>2. \A l \in DomainLevel : req[c][l] = PSCI_LOCAL_STATE_RUN
    BY Zenon, <1>0, <2>1 DEF RequestOK, Awake
  <2>3. DomainRuns'
    <3> SUFFICES ASSUME NEW d \in CPU, NEW l \in DomainLevel,
                        req'[d][l] = PSCI_LOCAL_STATE_RUN
                 PROVE  pd_state[Ancestor[d][l]] = PSCI_LOCAL_STATE_RUN
      BY Zenon, <2>1 DEF DomainRuns
    <3>1. req[d][l] = PSCI_LOCAL_STATE_RUN
      BY Zenon, <1>k, <2>2
    <3> QED
      BY Zenon, <3>1 DEF DomainRuns
  <2>4. req' \in [CPU -> [DomainLevel -> LocalState]]
    BY Zenon, <1>0, <2>1, RequestsType
  <2>5. ASSUME NEW d \in CPU, NEW l \in DomainLevel, l <= end_pwrlvl[c],
               Ancestor[d][l] = Ancestor[c][l], req'[d][l] = PSCI_LOCAL_STATE_RUN
        PROVE  state_info'[c][l] = PSCI_LOCAL_STATE_RUN
    <3> DEFINE t == psci_do_state_coordination(req', c, end_pwrlvl[c], state_info[c])
    <3>0. end_pwrlvl[c] \in Level
      BY Zenon, <1>0
    <3>1. l \in 1..end_pwrlvl[c] /\ d \in CpusBelow(Ancestor[c][l]) /\ l \in Level
      <4>1. l \in 1..end_pwrlvl[c] /\ l \in Level
        BY <2>5, <3>0, CountAssumption DEF DomainLevel, Level
      <4>2. d \in CpusBelow(Ancestor[c][l])
        BY Zenon, <2>5 DEF CpusBelow
      <4> QED
        BY Zenon, <4>1, <4>2
    <3>2. /\ t \in PowerState
          /\ \A k \in 1..end_pwrlvl[c] : \A e \in CpusBelow(Ancestor[c][k]) : t[k] <= req'[e][k]
      <4>1. state_info[c] \in PowerState
        BY Zenon, <1>0
      <4> QED
        BY Zenon, <2>4, <3>0, <4>1, CoordinationIsSafe
    <3>3. t[l] \in LocalState /\ t[l] <= PSCI_LOCAL_STATE_RUN
      BY Zenon, <2>5, <3>1, <3>2 DEF PowerState
    <3>4. t[l] = PSCI_LOCAL_STATE_RUN
      BY ONLY SMTT(30), <3>3, StateAssumption DEF LocalState, PSCI_LOCAL_STATE_RUN
    <3>5. state_info'[c] = t
      BY Zenon, <1>0, <2>1
    <3> QED
      BY Zenon, <3>4, <3>5
  <2>6. ASSUME NEW b \in CPU \ {c}, NEW d \in CPU, NEW l \in DomainLevel,
               pc'[b] = "set_target", l <= end_pwrlvl'[b], Ancestor[d][l] = Ancestor[b][l],
               req'[d][l] = PSCI_LOCAL_STATE_RUN
        PROVE  state_info'[b][l] = PSCI_LOCAL_STATE_RUN
    <3>1. pc[b] = "set_target" /\ l <= end_pwrlvl[b] /\ state_info'[b] = state_info[b]
      BY Zenon, <1>k, <2>6
    <3> QED
      BY SMTT(30), <2>1, <2>6, <3>1, RequestsUnderLock
  <2>7. TargetFresh'
    <3> SUFFICES ASSUME NEW b \in CPU, NEW d \in CPU, NEW l \in DomainLevel,
                        pc'[b] = "set_target", l <= end_pwrlvl'[b],
                        Ancestor[d][l] = Ancestor[b][l], req'[d][l] = PSCI_LOCAL_STATE_RUN
                 PROVE  state_info'[b][l] = PSCI_LOCAL_STATE_RUN
      BY ZenonT(60) DEF TargetFresh
    <3>1. CASE b = c
      BY Zenon, <2>1, <2>5, <3>1
    <3>2. CASE b # c
      BY Zenon, <2>6, <3>2
    <3> QED
      BY Zenon, <3>1, <3>2
  <2> QED
    BY Zenon, <2>3, <2>7
<1>3. CASE psci_set_target_local_pwr_states(c)
  <2>1. /\ pc[c] = "set_target" /\ pc'[c] = "release" /\ req' = req
        /\ pd_state' = [n \in Node |->
             IF \E l \in 1..end_pwrlvl[c] : Ancestor[c][l] = n
             THEN state_info[c][CHOOSE l \in 1..end_pwrlvl[c] : Ancestor[c][l] = n]
             ELSE pd_state[n]]
    BY Zenon, <1>0, <1>3 DEF psci_set_target_local_pwr_states, goto
  <2>2. ASSUME NEW d \in CPU, NEW l \in DomainLevel, req[d][l] = PSCI_LOCAL_STATE_RUN
        PROVE  pd_state'[Ancestor[d][l]] = PSCI_LOCAL_STATE_RUN
    <3> DEFINE n == Ancestor[d][l]
               found == \E k \in 1..end_pwrlvl[c] : Ancestor[c][k] = n
               k0 == CHOOSE k \in 1..end_pwrlvl[c] : Ancestor[c][k] = n
    <3>1. n \in Node /\ pd_state[n] = PSCI_LOCAL_STATE_RUN
      BY Zenon, <2>2, ConstantFacts DEF DomainRuns
    <3>2. pd_state'[n] = IF found THEN state_info[c][k0] ELSE pd_state[n]
      BY Zenon, <2>1, <3>1
    <3>3. CASE found
      <4>1. k0 \in 1..end_pwrlvl[c] /\ Ancestor[c][k0] = n
        BY Zenon, <3>3
      <4> HIDE DEF k0
      <4>0. end_pwrlvl[c] \in Level
        BY Zenon, <1>0
      <4>2. k0 \in DomainLevel /\ k0 <= end_pwrlvl[c]
        BY <4>0, <4>1, CountAssumption DEF DomainLevel, Level
      <4>3. k0 = l
        BY Zenon, <4>1, <4>2, OneLevel
      <4> QED
        BY ZenonT(30), <2>1, <2>2, <3>2, <3>3, <4>1, <4>2, <4>3 DEF TargetFresh
    <3> QED
      BY Zenon, <3>1, <3>2, <3>3
  <2>3. DomainRuns'
    BY Zenon, <2>1, <2>2 DEF DomainRuns
  <2>4. TargetFresh'
    BY SMTT(30), <1>k, <2>1 DEF TargetFresh
  <2> QED
    BY Zenon, <2>3, <2>4
<1>4. CASE FinishPowerUp(c)
  <2>1. /\ pc[c] = "set_run" /\ pc'[c] = "release" /\ held[c] = end_pwrlvl[c]
        /\ pd_state' = [n \in Node |-> IF \E l \in 1..end_pwrlvl[c] : Ancestor[c][l] = n
                                       THEN PSCI_LOCAL_STATE_RUN ELSE pd_state[n]]
        /\ req' = Requests(req, c, end_pwrlvl[c], AllRun)
    BY Zenon, <1>0, <1>4 DEF FinishPowerUp, psci_set_pwr_domains_to_run, goto, HeldOK
  <2>2. ASSUME NEW d \in CPU, NEW l \in DomainLevel, req'[d][l] = PSCI_LOCAL_STATE_RUN
        PROVE  pd_state'[Ancestor[d][l]] = PSCI_LOCAL_STATE_RUN
    <3>1. Ancestor[d][l] \in Node
      BY Zenon, ConstantFacts
    <3>2. CASE d = c /\ l <= end_pwrlvl[c]
      <4>0. end_pwrlvl[c] \in Level
        BY Zenon, <1>0
      <4>1. l \in 1..end_pwrlvl[c]
        BY <3>2, <4>0, CountAssumption DEF DomainLevel, Level
      <4> QED
        BY Zenon, <2>1, <3>1, <3>2, <4>1
    <3>3. CASE ~ (d = c /\ l <= end_pwrlvl[c])
      <4>1. req[d][l] = PSCI_LOCAL_STATE_RUN
        BY Zenon, <1>0, <2>1, <2>2, <3>3 DEF Requests
      <4> QED
        BY Zenon, <2>1, <3>1, <4>1 DEF DomainRuns
    <3> QED
      BY Zenon, <3>2, <3>3
  <2>3. ASSUME NEW b \in CPU \ {c}, NEW d \in CPU, NEW l \in DomainLevel,
               pc'[b] = "set_target", l <= end_pwrlvl'[b], Ancestor[d][l] = Ancestor[b][l],
               req'[d][l] = PSCI_LOCAL_STATE_RUN
        PROVE  state_info'[b][l] = PSCI_LOCAL_STATE_RUN
    <3>1. pc[b] = "set_target" /\ l <= end_pwrlvl[b] /\ state_info'[b] = state_info[b]
      BY Zenon, <1>k, <2>3
    <3> QED
      BY SMTT(30), <2>1, <2>3, <3>1, RequestsUnderLock
  <2>4. DomainRuns'
    BY Zenon, <2>2 DEF DomainRuns
  <2>5. TargetFresh'
    <3> SUFFICES ASSUME NEW b \in CPU, NEW d \in CPU, NEW l \in DomainLevel,
                        pc'[b] = "set_target", l <= end_pwrlvl'[b],
                        Ancestor[d][l] = Ancestor[b][l], req'[d][l] = PSCI_LOCAL_STATE_RUN
                 PROVE  state_info'[b][l] = PSCI_LOCAL_STATE_RUN
      BY Zenon DEF TargetFresh
    <3>1. b # c
      BY Zenon, <2>1
    <3> QED
      BY Zenon, <2>3, <3>1
  <2> QED
    BY Zenon, <2>4, <2>5
<1> QED
  BY ZenonT(30), <1>1, <1>2, <1>3, <1>4, DomainQuiet

\* The inductive invariant of the platform-coordinated mode.
CoordInv == PsciInv /\ LockInv /\ CpuInv /\ DomainRuns /\ TargetFresh

\* It holds after psci_setup.
LEMMA CoordInvInit == Init => CoordInv
<1> SUFFICES ASSUME Init PROVE CoordInv
  BY Zenon
<1>1. PsciInv /\ LockInv
  BY Zenon, PsciInvInit, LockInvInit
<1>2. CpuInv
  <2>1. ASSUME NEW c \in CPU PROVE RequestOK(c)
    BY Zenon DEF Init, RequestOK, Awake, OnLabel
  <2>2. ASSUME NEW c \in CPU PROVE LevelOK(c)
    BY Zenon DEF Init, LevelOK, Awake
  <2> QED
    BY Zenon, <2>1, <2>2 DEF CpuInv
<1>3. DomainRuns
  <2> SUFFICES ASSUME NEW c \in CPU, NEW l \in DomainLevel, req[c][l] = PSCI_LOCAL_STATE_RUN
               PROVE  pd_state[Ancestor[c][l]] = PSCI_LOCAL_STATE_RUN
    BY Zenon DEF DomainRuns
  <2>1. c = PrimaryCpu
    BY StateAssumption DEF Init, PSCI_LOCAL_STATE_RUN
  <2>2. Ancestor[c][l] \in Node /\ c \in CpusBelow(Ancestor[c][l])
    BY Zenon, ConstantFacts DEF CpusBelow
  <2> QED
    BY Zenon, <2>1, <2>2 DEF Init
<1>4. TargetFresh
  BY Zenon DEF Init, TargetFresh
<1> QED
  BY Zenon, <1>1, <1>2, <1>3, <1>4 DEF CoordInv

\* Every step keeps it.
LEMMA CoordInvStep ==
  ASSUME ~ PSCI_OS_INIT_MODE, CoordInv, [Next]_vars
  PROVE  CoordInv'
<1>1. ASSUME NEW c \in CPU, Step(c) PROVE CoordInv'
  <2>0. PsciInv /\ LockInv /\ CpuInv /\ DomainRuns /\ TargetFresh /\ TypeOK /\ OnInv
    BY Zenon DEF CoordInv, PsciInv
  <2>1. PsciInv' /\ LockInv'
    BY Zenon, <1>1, <2>0, PsciInvStep, LockInvStep
  <2>2. RequestOK(c)' /\ LevelOK(c)'
    BY Zenon, <1>1, <2>0, RequestStep, LevelStep
  <2>3. OthersKept(c)
    BY Zenon, <1>1, <2>0, StepKeepsOthers
  <2>4. \A d \in CPU \ {c} : op[d] = "boot" => aff_info_state'[d] = aff_info_state[d]
    BY Zenon, <1>1, <2>0, BootStateKept
  <2>5. \A d \in CPU \ {c} : RequestOK(d)'
    <3> SUFFICES ASSUME NEW d \in CPU \ {c} PROVE RequestOK(d)'
      BY Zenon
    <3>1. /\ pc'[d] = pc[d] /\ op'[d] = op[d] /\ req'[d] = req[d]
          /\ end_pwrlvl'[d] = end_pwrlvl[d] /\ local_state'[d] = local_state[d]
      BY Zenon, <2>3 DEF OthersKept
    <3>2. RequestOK(d)
      BY Zenon, <2>0 DEF CpuInv
    <3> QED
      BY Zenon, <3>1, <3>2 DEF RequestOK, Awake
  <2>6. \A d \in CPU \ {c} : LevelOK(d)'
    <3> SUFFICES ASSUME NEW d \in CPU \ {c} PROVE LevelOK(d)'
      BY Zenon
    <3>1. /\ pc'[d] = pc[d] /\ op'[d] = op[d] /\ req'[d] = req[d]
          /\ end_pwrlvl'[d] = end_pwrlvl[d] /\ suspend_pwrlvl'[d] = suspend_pwrlvl[d]
          /\ powerDown'[d] = powerDown[d]
          /\ op[d] = "boot" => aff_info_state'[d] = aff_info_state[d]
      BY Zenon, <2>3, <2>4 DEF OthersKept
    <3>2. LevelOK(d)
      BY Zenon, <2>0 DEF CpuInv
    <3> QED
      BY Zenon, <3>1, <3>2 DEF LevelOK, Awake
  <2>7. DomainRuns' /\ TargetFresh'
    BY ZenonT(30), <1>1, <2>0, DomainStep
  <2>8. CpuInv'
    BY ZenonT(30), <2>2, <2>5, <2>6 DEF CpuInv
  <2> QED
    BY Zenon, <2>1, <2>7, <2>8 DEF CoordInv
<1>2. ASSUME UNCHANGED vars PROVE CoordInv'
  <2>1. PsciInv'
    BY ZenonT(60), <1>2 DEF CoordInv, PsciInv, TypeOK, OnInv, OpOK, AffOK, DepthInv, DepthOK, vars,
                cpu_data, domains, locks, platform, args
  <2>2. LockInv' /\ CpuInv'
    BY ZenonT(60), <1>2 DEF CoordInv, LockInv, OwnLocks, HeldOK, CpuInv, RequestOK, LevelOK, Awake, vars,
                cpu_data, domains, locks, args
  <2>3. DomainRuns' /\ TargetFresh'
    BY Zenon, <1>2 DEF CoordInv, DomainRuns, TargetFresh, vars, domains, args
  <2> QED
    BY Zenon, <2>1, <2>2, <2>3 DEF CoordInv
<1> QED
  BY Zenon, <1>1, <1>2 DEF Next, Step

\* So it is an invariant of a platform without OS-initiated mode.
LEMMA CoordInvariant ==
  ASSUME ~ PSCI_OS_INIT_MODE
  PROVE  Spec => []CoordInv
<1>1. CoordInv /\ [Next]_vars => CoordInv'
  BY Zenon, CoordInvStep
<1> QED
  BY <1>1, CoordInvInit, PTL DEF Spec

\* In every state a CPU in the normal world runs, and so do all the domains above
\* it, whatever the other CPUs request, store or wake up from at the same time.
THEOREM PsciKeepsDomainsRunning ==
  ASSUME ~ PSCI_OS_INIT_MODE
  PROVE  Spec => []RunningCpuDomainsRun
<1>1. CoordInv => RunningCpuDomainsRun
  BY Zenon DEF CoordInv, CpuInv, RequestOK, Awake, DomainRuns, RunningCpuDomainsRun
<1> QED
  BY <1>1, CoordInvariant, PTL

\* A CPU in the normal world requests RUN for all its domains.
THEOREM PsciRestoresRequests ==
  ASSUME ~ PSCI_OS_INIT_MODE
  PROVE  Spec => []RunningCpuRequestsRun
<1>1. CoordInv => RunningCpuRequestsRun
  BY Zenon DEF CoordInv, CpuInv, RequestOK, Awake, RunningCpuRequestsRun
<1> QED
  BY <1>1, CoordInvariant, PTL

\* The warm boot path starts from a level that covers everything the CPU gave up.
THEOREM PsciWarmBootReaches ==
  ASSUME ~ PSCI_OS_INIT_MODE
  PROVE  Spec => []WarmBootReachesRequests
<1>1. ASSUME CoordInv PROVE WarmBootReachesRequests
  <2> SUFFICES ASSUME NEW c \in CPU, pc[c] \in {"off", "wfi"}, NEW l \in DomainLevel,
                      req[c][l] # PSCI_LOCAL_STATE_RUN
               PROVE  l <= IF powerDown[c] \/ pc[c] = "off" THEN suspend_pwrlvl[c]
                                                            ELSE end_pwrlvl[c]
    BY Zenon DEF WarmBootReachesRequests
  <2>0. end_pwrlvl[c] \in Level /\ l \in DomainLevel
    BY Zenon, <1>1 DEF CoordInv, PsciInv, TypeOK
  <2>1. /\ RequestOK(c) /\ LevelOK(c) /\ OpOK(c)
        /\ l \in Nat /\ end_pwrlvl[c] \in Nat /\ l <= PLAT_MAX_PWR_LVL
    <3>1. l \in Nat /\ end_pwrlvl[c] \in Nat /\ l <= PLAT_MAX_PWR_LVL
      BY ONLY <2>0, CountAssumption DEF DomainLevel, Level
    <3> QED
      BY Zenon, <1>1, <3>1 DEF CoordInv, PsciInv, OnInv, CpuInv
  <2>2. CASE pc[c] = "off"
    BY Zenon, <2>1, <2>2 DEF LevelOK
  <2>3. CASE pc[c] = "wfi"
    <3>1. op[c] = "suspend"
      BY Zenon, <2>1, <2>3 DEF OpOK
    <3>2. ~ Awake(c)
      BY Zenon, <2>3 DEF Awake, OnLabel
    <3>3. l <= end_pwrlvl[c]
      BY SMTT(30), <2>1, <2>3, <3>2 DEF RequestOK
    <3> QED
      BY Zenon, <2>1, <2>3, <3>3 DEF LevelOK
  <2> QED
    BY Zenon, <2>2, <2>3
<1> QED
  BY <1>1, CoordInvariant, PTL
==============================================================================
