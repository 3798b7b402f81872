--------------------------- MODULE PsciLockProofs ----------------------------
(*****************************************************************************)
(* Who owns the lock of a power domain, and how the requests of a CPU and    *)
(* the levels it works on agree with its state.                              *)
(*****************************************************************************)
EXTENDS PsciProofs

(* The locks of the domains.                                               *)

LockLabel == {"acquire", "scan", "validate", "set_target", "set_run", "release"}

\* A CPU owns the locks of the first held[c] levels above it and no others.
OwnLocks(c) ==
  \A l \in DomainLevel : psci_lock[Ancestor[c][l]] = c <=> l <= held[c]

HeldOK(c) ==
  /\ held[c] <= end_pwrlvl[c]
  /\ pc[c] \in {"validate", "set_target", "set_run"} => held[c] = end_pwrlvl[c]
  /\ pc[c] \notin LockLabel => held[c] = 0
  /\ pc[c] = "scan" /\ op[c] = "sys_suspend" => held[c] = 0

LockInv == \A c \in CPU : OwnLocks(c) /\ HeldOK(c)

\* The tree, one CPU at a time: a domain is at one level only.
LEMMA OneLevel ==
  ASSUME NEW c \in CPU, NEW d \in CPU, NEW k \in DomainLevel, NEW l \in DomainLevel,
         Ancestor[c][k] = Ancestor[d][l]
  PROVE  k = l
BY TreeAssumption

\* No two CPUs work on the same domain: neither reaches the level with its locks.
LEMMA LocksExclude ==
  ASSUME LockInv, NEW c \in CPU, NEW d \in CPU, c # d, NEW l \in DomainLevel,
         Ancestor[c][l] = Ancestor[d][l], l <= held[c], l <= held[d]
  PROVE  FALSE
BY DEF LockInv, OwnLocks

\* Taking and giving up a lock keeps the owners right.
LEMMA OwnLocksStep ==
  ASSUME TypeOK, LockInv, NEW c \in CPU, Step(c)
  PROVE  \A d \in CPU : OwnLocks(d)'
<1>0. /\ psci_lock \in [Node -> CPU \cup {NoCpu}] /\ held \in [CPU -> Level]
      /\ end_pwrlvl \in [CPU -> Level] /\ NoCpu \notin CPU
      /\ \A d \in CPU : OwnLocks(d)
  BY Zenon, PlatformAssumption DEF TypeOK, LockInv
<1>1. CASE psci_acquire_pwr_domain_locks(c)
  <2> DEFINE k == held[c] + 1
  <2>1. k \in DomainLevel /\ held[c] \in Nat /\ Ancestor[c][k] \in Node
    BY <1>0, <1>1, ConstantFacts DEF psci_acquire_pwr_domain_locks, Level, DomainLevel
  <2>2. /\ psci_lock[Ancestor[c][k]] = NoCpu
        /\ psci_lock' = [psci_lock EXCEPT ![Ancestor[c][k]] = c]
        /\ held' = [held EXCEPT ![c] = k]
    BY Zenon, <1>1 DEF psci_acquire_pwr_domain_locks
  <2> HIDE DEF k
  <2>3. \A d \in CPU \ {c} : OwnLocks(d)'
    <3> SUFFICES ASSUME NEW d \in CPU \ {c}, NEW l \in DomainLevel
                 PROVE  psci_lock'[Ancestor[d][l]] = d <=> l <= held'[d]
      BY Zenon DEF OwnLocks
    <3>1. Ancestor[d][l] \in Node
      BY Zenon, ConstantFacts
    <3>2. psci_lock[Ancestor[d][l]] = d <=> l <= held[d]
      BY Zenon, <1>0 DEF OwnLocks
    <3> QED
      BY Zenon, <1>0, <2>1, <2>2, <3>1, <3>2
  <2>4. OwnLocks(c)'
    <3> SUFFICES ASSUME NEW l \in DomainLevel
                 PROVE  psci_lock'[Ancestor[c][l]] = c <=> l <= held'[c]
      BY Zenon DEF OwnLocks
    <3>1. Ancestor[c][l] \in Node /\ l \in Nat
      BY Zenon, ConstantFacts
    <3>2. psci_lock[Ancestor[c][l]] = c <=> l <= held[c]
      BY Zenon, <1>0 DEF OwnLocks
    <3>3. Ancestor[c][k] = Ancestor[c][l] => k = l
      BY Zenon, <2>1, OneLevel
    <3>4. held'[c] = k /\ k = held[c] + 1
      BY ZenonT(30), <1>0, <2>2 DEF k
    <3> QED
      BY <1>0, <2>1, <2>2, <3>1, <3>2, <3>3, <3>4
  <2> QED
    BY Zenon, <2>3, <2>4
<1>2. CASE psci_release_pwr_domain_locks(c)
  <2> DEFINE k == held[c]
  <2>1. k \in DomainLevel /\ k \in Nat /\ Ancestor[c][k] \in Node
    BY <1>0, <1>2, ConstantFacts DEF psci_release_pwr_domain_locks, Level, DomainLevel
  <2>2. /\ psci_lock[Ancestor[c][k]] = c
        /\ psci_lock' = [psci_lock EXCEPT ![Ancestor[c][k]] = NoCpu]
        /\ held' = [held EXCEPT ![c] = k - 1]
    BY <1>0, <1>2, <2>1 DEF psci_release_pwr_domain_locks, OwnLocks
  <2>3. \A d \in CPU \ {c} : OwnLocks(d)'
    <3> SUFFICES ASSUME NEW d \in CPU \ {c}, NEW l \in DomainLevel
                 PROVE  psci_lock'[Ancestor[d][l]] = d <=> l <= held'[d]
      BY Zenon DEF OwnLocks
    <3>1. Ancestor[d][l] \in Node
      BY Zenon, ConstantFacts
    <3>2. psci_lock[Ancestor[d][l]] = d <=> l <= held[d]
      BY Zenon, <1>0 DEF OwnLocks
    <3> QED
      BY ZenonT(30), <1>0, <2>1, <2>2, <3>1, <3>2
  <2>4. OwnLocks(c)'
    <3> SUFFICES ASSUME NEW l \in DomainLevel
                 PROVE  psci_lock'[Ancestor[c][l]] = c <=> l <= held'[c]
      BY Zenon DEF OwnLocks
    <3>1. Ancestor[c][l] \in Node /\ l \in Nat
      BY Zenon, ConstantFacts
    <3>2. psci_lock[Ancestor[c][l]] = c <=> l <= held[c]
      BY Zenon, <1>0 DEF OwnLocks
    <3>3. Ancestor[c][k] = Ancestor[c][l] => k = l
      BY Zenon, <2>1, OneLevel
    <3>4. held'[c] = k - 1
      BY Zenon, <1>0, <2>2
    <3> QED
      BY <1>0, <2>1, <2>2, <3>1, <3>2, <3>3, <3>4
  <2> QED
    BY Zenon, <2>3, <2>4
<1>3. CASE UNCHANGED <<psci_lock, held>>
  BY Zenon, <1>0, <1>3 DEF OwnLocks
<1> QED
  BY ZenonT(30), <1>1, <1>2, <1>3
     DEF Step, Firmware, Call, PowerEvent, locks, ReturnToCaller, psci_spin_lock_cpu,
         cpu_on_validate_state, SetOnPending, pwr_domain_on, psci_spin_unlock_cpu, StartScan,
         ScanNext, ScanFails, ScanSucceeds, StartSystemSuspend, RetryLastOn, SetMode,
         svc_off_Denied, WakeupPending, Coordinate, psci_update_req,
         psci_validate_state_coordination, pwr_domain_validate_suspend_Fails,
         psci_set_target_local_pwr_states, PowerOff, Sleep, psci_cpu_on_finish,
         psci_cpu_suspend_finish, FinishPowerUp, psci_cpu_on, psci_cpu_off, cpu_standby,
         psci_cpu_suspend, psci_system_suspend, psci_set_suspend_mode, cpu_standby_exit,
         WakeInPlace, psci_warmboot_entrypoint

\* A handler keeps count of the locks it holds.
LEMMA HeldStep ==
  ASSUME TypeOK, OnInv, LockInv, NEW c \in CPU, Step(c)
  PROVE  HeldOK(c)'
<1> USE DEF HeldOK, LockLabel, goto, become
<1>0. /\ pc \in [CPU -> Label] /\ op \in [CPU -> Handler] /\ held \in [CPU -> Level]
      /\ end_pwrlvl \in [CPU -> Level] /\ suspend_pwrlvl \in [CPU -> Level]
      /\ \A l \in Level : l \in Nat /\ 0 <= l
      /\ PLAT_MAX_PWR_LVL \in Level
      /\ HeldOK(c) /\ OpOK(c)
  BY ConstantFacts DEF TypeOK, LockInv, OnInv
<1>1. CASE psci_acquire_pwr_domain_locks(c) \/ psci_release_pwr_domain_locks(c)
  <2>1. /\ pc'[c] = pc[c] /\ op'[c] = op[c] /\ end_pwrlvl'[c] = end_pwrlvl[c]
        /\ pc[c] \in {"acquire", "release"}
    BY Zenon, <1>1 DEF psci_acquire_pwr_domain_locks, psci_release_pwr_domain_locks, args
  <2>2. \/ held[c] < end_pwrlvl[c] /\ held'[c] = held[c] + 1
        \/ held[c] > 0 /\ held'[c] = held[c] - 1
    BY Zenon, <1>0, <1>1 DEF psci_acquire_pwr_domain_locks, psci_release_pwr_domain_locks
  <2>3. held[c] \in Nat /\ end_pwrlvl[c] \in Nat /\ held[c] <= end_pwrlvl[c]
    BY Zenon, <1>0
  <2> QED
    BY <2>1, <2>2, <2>3
<1>2. CASE ReturnToCaller(c) \/ psci_spin_unlock_cpu(c) \/ SetMode(c) \/ PowerOff(c)
  BY <1>0, <1>2 DEF ReturnToCaller, psci_spin_unlock_cpu, SetMode, PowerOff, NoArgs,
                    Released, locks
<1>3. CASE \/ psci_cpu_on(c) \/ psci_spin_lock_cpu(c) \/ cpu_on_validate_state(c)
           \/ SetOnPending(c) \/ pwr_domain_on(c) \/ cpu_standby(c) \/ cpu_standby_exit(c)
  <2>1. /\ UNCHANGED <<held, end_pwrlvl>> /\ pc[c] \notin LockLabel
        /\ \E l \in Label \ LockLabel : pc' = [pc EXCEPT ![c] = l]
    BY Zenon, <1>3 DEF psci_cpu_on, psci_spin_lock_cpu, cpu_on_validate_state, SetOnPending,
                pwr_domain_on, cpu_standby, cpu_standby_exit, locks, args, Label
  <2> QED
    BY Zenon, <1>0, <2>1
<1>4. CASE psci_cpu_off(c) \/ psci_set_suspend_mode(c) \/ RetryLastOn(c)
  BY <1>0, <1>4 DEF psci_cpu_off, psci_set_suspend_mode, RetryLastOn, EnterHandler,
                    Released, locks
<1>5. CASE psci_cpu_suspend(c)
  <2>1. PICK r \in SuspendRequest :
          EnterHandler(c, "suspend", psci_find_target_suspend_lvl(r.state), r.state,
                       r.powerDown, r.last)
    BY Zenon, <1>5 DEF psci_cpu_suspend
  <2>2. psci_find_target_suspend_lvl(r.state) \in Level
    BY Zenon, RequestFacts
  <2>3. /\ pc'[c] = "acquire" /\ end_pwrlvl'[c] = psci_find_target_suspend_lvl(r.state)
        /\ held'[c] = 0
    BY Zenon, <1>0, <1>5, <2>1 DEF EnterHandler, psci_cpu_suspend, locks
  <2>4. held'[c] <= end_pwrlvl'[c]
    BY Zenon, <1>0, <2>2, <2>3
  <2> QED
    BY Zenon, <2>3, <2>4
<1>6. CASE \/ psci_system_suspend(c) \/ StartScan(c) \/ ScanFails(c) \/ svc_off_Denied(c)
           \/ WakeupPending(c) \/ ScanNext(c)
  BY Zenon, <1>0, <1>6 DEF psci_system_suspend, StartScan, ScanFails, svc_off_Denied,
              WakeupPending, Locked, ScanNext, locks, args
<1>7. CASE Sleep(c) \/ WakeInPlace(c)
  BY Zenon, <1>0, <1>7 DEF Sleep, WakeInPlace, Released, locks, args
<1>8. CASE ScanSucceeds(c)
  <2>1. CASE StartSystemSuspend(c) /\ op[c] = "sys_suspend"
    BY Zenon, <1>0, <1>8, <2>1 DEF StartSystemSuspend, ScanSucceeds, EnterHandler, locks
  <2>2. CASE UNCHANGED <<held, end_pwrlvl>> /\ pc' = [pc EXCEPT ![c] = "release"]
    BY Zenon, <1>0, <2>2
  <2> QED
    BY Zenon, <1>0, <1>8, <2>1, <2>2 DEF ScanSucceeds, locks
<1>9. CASE Coordinate(c) \/ psci_update_req(c) \/ psci_validate_state_coordination(c)
  BY Zenon, <1>0, <1>9 DEF Coordinate, psci_update_req, psci_validate_state_coordination, Locked,
                    args, locks
<1>10. CASE \/ pwr_domain_validate_suspend_Fails(c) \/ FinishPowerUp(c)
            \/ psci_set_target_local_pwr_states(c)
  BY Zenon, <1>0, <1>10 DEF pwr_domain_validate_suspend_Fails, FinishPowerUp, args, locks,
                     psci_set_target_local_pwr_states
<1>11. CASE psci_cpu_on_finish(c) \/ psci_cpu_suspend_finish(c)
  BY Zenon, <1>0, <1>11 DEF psci_cpu_on_finish, psci_cpu_suspend_finish, Locked, locks, args
<1>12. CASE psci_warmboot_entrypoint(c)
  <2>1. held'[c] = 0 /\ pc'[c] \in {"acquire", "panic"}
    BY Zenon, <1>0, <1>12 DEF psci_warmboot_entrypoint, EnterHandler, locks
  <2>2. end_pwrlvl'[c] \in {0, suspend_pwrlvl[c]}
    BY Zenon, <1>0, <1>12 DEF psci_warmboot_entrypoint, EnterHandler, NoArgs
  <2>3. 0 <= end_pwrlvl'[c]
    BY <1>0, <2>2
  <2> QED
    BY Zenon, <2>1, <2>3
<1> QED
  BY Zenon, <1>1, <1>2, <1>3, <1>4, <1>5, <1>6, <1>7, <1>8, <1>9, <1>10, <1>11, <1>12
     DEF Step, Firmware, Call, PowerEvent

\* The lock discipline as a whole.
LEMMA LockInvStep ==
  ASSUME PsciInv, LockInv, NEW c \in CPU, Step(c)
  PROVE  LockInv'
<1>1. TypeOK /\ OnInv
  BY Zenon DEF PsciInv
<1>2. \A d \in CPU : OwnLocks(d)'
  BY Zenon, <1>1, OwnLocksStep
<1>3. HeldOK(c)'
  BY Zenon, <1>1, HeldStep
<1>4. OthersKept(c)
  BY Zenon, <1>1, StepKeepsOthers
<1>5. \A d \in CPU \ {c} : HeldOK(d)'
  BY <1>4 DEF LockInv, HeldOK, OthersKept
<1> QED
  BY Zenon, <1>2, <1>3, <1>5 DEF LockInv

\* All locks are free after psci_setup.
LEMMA LockInvInit == Init => LockInv
<1> SUFFICES ASSUME Init PROVE LockInv
  BY Zenon
<1>1. ASSUME NEW c \in CPU PROVE OwnLocks(c)
  <2>1. \A l \in DomainLevel : Ancestor[c][l] \in Node /\ ~ (l <= 0)
    BY ConstantFacts DEF DomainLevel
  <2> QED
    BY Zenon, <2>1, PlatformAssumption DEF Init, OwnLocks
<1>2. ASSUME NEW c \in CPU PROVE HeldOK(c)
  BY DEF Init, HeldOK
<1> QED
  BY Zenon, <1>1, <1>2 DEF LockInv

-----------------------------------------------------------------------------
(* What a CPU requests, without OS-initiated mode.                         *)

\* Where a CPU has not given anything up.
Awake(c) ==
  \/ pc[c] \in {"run", "standby", "on_lock", "scan"} \cup OnLabel
  \/ pc[c] = "acquire" /\ op[c] \notin {"wake", "boot"}
  \/ pc[c] = "release" /\ op[c] \notin {"off", "suspend"}

\* An awake CPU requests RUN for all its domains; one that is not still does so
\* above the level its handler works on.
RequestOK(c) ==
  /\ pc[c] # "validate"
  /\ Awake(c) => \A l \in DomainLevel : req[c][l] = PSCI_LOCAL_STATE_RUN
  /\ ~ Awake(c) /\ pc[c] # "off" =>
       \A l \in DomainLevel : l > end_pwrlvl[c] => req[c][l] = PSCI_LOCAL_STATE_RUN
  /\ Awake(c) /\ pc[c] # "standby" => local_state[c] = PSCI_LOCAL_STATE_RUN

\* The level that the warm boot path starts from is the one the CPU gave up, and
\* the highest one whenever no power down suspend is in progress.
LevelOK(c) ==
  /\ op[c] = "off" => end_pwrlvl[c] = PLAT_MAX_PWR_LVL
  /\ (pc[c] = "release" /\ op[c] = "suspend") \/ pc[c] = "wfi" =>
       (powerDown[c] => suspend_pwrlvl[c] = end_pwrlvl[c])
  /\ (\/ Awake(c) \/ pc[c] \in {"off", "set_target", "set_run"} \/ op[c] = "off"
      \/ op[c] = "boot" /\ aff_info_state[c] = AFF_STATE_ON_PENDING) =>
       suspend_pwrlvl[c] = PLAT_MAX_PWR_LVL

CpuInv == \A c \in CPU : RequestOK(c) /\ LevelOK(c)

\* A step keeps the recorded level of the CPU that takes it.
LEMMA LevelStep ==
  ASSUME ~ PSCI_OS_INIT_MODE, PsciInv, CpuInv, NEW c \in CPU, Step(c)
  PROVE  LevelOK(c)'
<1> USE DEF LevelOK, Awake, OnLabel, goto, become
<1>0. /\ pc \in [CPU -> Label] /\ op \in [CPU -> Handler] /\ powerDown \in [CPU -> BOOLEAN]
      /\ end_pwrlvl \in [CPU -> Level] /\ suspend_pwrlvl \in [CPU -> Level]
      /\ aff_info_state \in [CPU -> {AFF_STATE_ON, AFF_STATE_OFF, AFF_STATE_ON_PENDING}]
      /\ OpOK(c) /\ AffOK(c) /\ LevelOK(c) /\ pc[c] # "validate"
  BY Zenon DEF PsciInv, TypeOK, OnInv, CpuInv, RequestOK
<1>1. CASE psci_acquire_pwr_domain_locks(c) \/ psci_release_pwr_domain_locks(c)
  BY Zenon, <1>0, <1>1 DEF psci_acquire_pwr_domain_locks, psci_release_pwr_domain_locks, cpu_data, args
<1>2. CASE ReturnToCaller(c) \/ psci_spin_unlock_cpu(c) \/ SetMode(c) \/ PowerOff(c)
  BY ZenonT(30), <1>0, <1>2 DEF ReturnToCaller, psci_spin_unlock_cpu, SetMode, PowerOff, NoArgs,
                    Released, cpu_data
<1>3. CASE \/ psci_cpu_on(c) \/ psci_spin_lock_cpu(c) \/ cpu_on_validate_state(c)
           \/ SetOnPending(c) \/ pwr_domain_on(c) \/ cpu_standby(c) \/ cpu_standby_exit(c)
  <2>1. op'[c] = "none" /\ pc'[c] \notin {"release", "wfi"} /\ Awake(c)
        /\ suspend_pwrlvl' = suspend_pwrlvl
    BY Zenon, <1>0, <1>3 DEF psci_cpu_on, psci_spin_lock_cpu, cpu_on_validate_state, SetOnPending,
                      pwr_domain_on, cpu_standby, cpu_standby_exit, OpOK, cpu_data
  <2> QED
    BY Zenon, <1>0, <2>1
<1>4. CASE psci_cpu_off(c) \/ psci_set_suspend_mode(c) \/ RetryLastOn(c)
  BY Zenon, <1>0, <1>4 DEF psci_cpu_off, psci_set_suspend_mode, RetryLastOn, EnterHandler,
                    Released, cpu_data
<1>5. CASE psci_cpu_suspend(c)
  <2>1. pc[c] = "run" /\ pc'[c] = "acquire" /\ op'[c] = "suspend"
        /\ suspend_pwrlvl' = suspend_pwrlvl
    BY Zenon, <1>0, <1>5 DEF psci_cpu_suspend, EnterHandler, cpu_data
  <2> QED
    BY Zenon, <1>0, <2>1
<1>6. CASE \/ psci_system_suspend(c) \/ StartScan(c) \/ ScanFails(c) \/ svc_off_Denied(c)
           \/ WakeupPending(c) \/ ScanNext(c)
  BY ZenonT(30), <1>0, <1>6 DEF psci_system_suspend, StartScan, ScanFails, svc_off_Denied,
              WakeupPending, Locked, ScanNext, OpOK, cpu_data, args
<1>7. CASE Sleep(c) \/ WakeInPlace(c)
  BY ZenonT(30), <1>0, <1>7 DEF Sleep, WakeInPlace, Released, OpOK, cpu_data, args
<1>8. CASE ScanSucceeds(c)
  <2>1. pc[c] = "scan" /\ suspend_pwrlvl' = suspend_pwrlvl
    BY Zenon, <1>8 DEF ScanSucceeds, StartSystemSuspend, cpu_data
  <2>2. \/ pc'[c] = "acquire" /\ op'[c] = "suspend"
        \/ pc'[c] = "release" /\ op'[c] \in {"set_plat", "set_os"}
    <3>1. CASE StartSystemSuspend(c)
      BY Zenon, <1>0, <3>1 DEF StartSystemSuspend, EnterHandler
    <3>2. CASE op[c] # "sys_suspend"
      BY Zenon, <1>0, <1>8, <3>2 DEF ScanSucceeds
    <3> QED
      BY Zenon, <1>8, <3>1, <3>2 DEF ScanSucceeds
  <2> QED
    BY Zenon, <1>0, <2>1, <2>2
<1>9. CASE Coordinate(c)
  BY Zenon, <1>0, <1>9 DEF Coordinate, Locked, cpu_data
<1>10. CASE psci_update_req(c) \/ psci_validate_state_coordination(c)
  BY Zenon, <1>0, <1>10 DEF psci_update_req, psci_validate_state_coordination, OsInitiated
<1>11. CASE pwr_domain_validate_suspend_Fails(c) \/ FinishPowerUp(c)
  BY Zenon, <1>0, <1>11 DEF pwr_domain_validate_suspend_Fails, FinishPowerUp
<1>12. CASE psci_set_target_local_pwr_states(c)
  BY Zenon, <1>0, <1>12 DEF psci_set_target_local_pwr_states, SuspendLevel, OsInitiated, OpOK, args
<1>13. CASE psci_cpu_on_finish(c) \/ psci_cpu_suspend_finish(c)
  BY Zenon, <1>0, <1>13 DEF psci_cpu_on_finish, psci_cpu_suspend_finish, Locked, OpOK, cpu_data, args
<1>14. CASE psci_warmboot_entrypoint(c)
  <2>1. /\ pc[c] = "off" \/ (pc[c] = "wfi" /\ powerDown[c])
        /\ aff_info_state[c] # AFF_STATE_OFF
        /\ UNCHANGED <<aff_info_state, suspend_pwrlvl>>
    BY Zenon, <1>0, <1>14 DEF psci_warmboot_entrypoint, AffOK, OpOK, cpu_data,
                       AFF_STATE_ON, AFF_STATE_OFF, AFF_STATE_ON_PENDING
  <2>2. pc'[c] = "acquire" /\ op'[c] = "boot"
    BY Zenon, <1>0, <1>14, <2>1 DEF psci_warmboot_entrypoint, EnterHandler
  <2>3. aff_info_state[c] = AFF_STATE_ON_PENDING => suspend_pwrlvl[c] = PLAT_MAX_PWR_LVL
    BY Zenon, <1>0, <2>1 DEF AffOK, OpOK, AFF_STATE_ON, AFF_STATE_ON_PENDING
  <2> QED
    BY Zenon, <2>1, <2>2, <2>3
<1> QED
  BY Zenon, <1>1, <1>2, <1>3, <1>4, <1>5, <1>6, <1>7, <1>8, <1>9, <1>10, <1>11, <1>12, <1>13, <1>14
     DEF Step, Firmware, Call, PowerEvent

\* A step keeps the requests of the CPU that takes it in line with where it is.
LEMMA RequestStep ==
  ASSUME ~ PSCI_OS_INIT_MODE, PsciInv, CpuInv, NEW c \in CPU, Step(c)
  PROVE  RequestOK(c)'
<1> USE DEF RequestOK, Awake, OnLabel, goto, become
<1>0. /\ pc \in [CPU -> Label] /\ op \in [CPU -> Handler] /\ powerDown \in [CPU -> BOOLEAN]
      /\ end_pwrlvl \in [CPU -> Level] /\ suspend_pwrlvl \in [CPU -> Level]
      /\ req \in [CPU -> [DomainLevel -> LocalState]] /\ local_state \in [CPU -> LocalState]
      /\ OpOK(c) /\ AffOK(c) /\ LevelOK(c) /\ RequestOK(c)
  BY Zenon DEF PsciInv, TypeOK, OnInv, CpuInv
<1>1. CASE psci_acquire_pwr_domain_locks(c) \/ psci_release_pwr_domain_locks(c)
  BY Zenon, <1>0, <1>1 DEF psci_acquire_pwr_domain_locks, psci_release_pwr_domain_locks, cpu_data,
                    args, domains
<1>2. CASE ReturnToCaller(c) \/ psci_spin_unlock_cpu(c) \/ SetMode(c)
  <2>1. Awake(c) /\ pc[c] # "standby" /\ UNCHANGED <<req, local_state>> /\ pc'[c] = "run"
    BY ZenonT(30), <1>0, <1>2 DEF ReturnToCaller, psci_spin_unlock_cpu, SetMode, Released, cpu_data, domains
  <2> QED
    BY Zenon, <1>0, <2>1
<1>3. CASE PowerOff(c)
  BY Zenon, <1>0, <1>3 DEF PowerOff
<1>4. CASE \/ psci_cpu_on(c) \/ psci_spin_lock_cpu(c) \/ cpu_on_validate_state(c)
           \/ SetOnPending(c) \/ pwr_domain_on(c)
  <2>1. Awake(c) /\ Awake(c)' /\ pc[c] # "standby" /\ pc'[c] # "validate"
        /\ UNCHANGED <<req, local_state>>
    BY Zenon, <1>0, <1>4 DEF psci_cpu_on, psci_spin_lock_cpu, cpu_on_validate_state, SetOnPending,
                      pwr_domain_on, cpu_data, domains
  <2> QED
    BY ZenonT(30), <1>0, <2>1
<1>5. CASE cpu_standby(c) \/ cpu_standby_exit(c)
  BY Zenon, <1>0, <1>5 DEF cpu_standby, cpu_standby_exit, domains
<1>6. CASE psci_cpu_off(c) \/ psci_set_suspend_mode(c) \/ RetryLastOn(c)
  BY ZenonT(30), <1>0, <1>6 DEF psci_cpu_off, psci_set_suspend_mode, RetryLastOn, EnterHandler,
                    Released, cpu_data, domains
<1>7. CASE psci_cpu_suspend(c)
  <2>1. pc[c] = "run" /\ pc'[c] = "acquire" /\ op'[c] = "suspend"
        /\ UNCHANGED <<req, local_state>>
    BY ZenonT(60), <1>0, <1>7 DEF psci_cpu_suspend, EnterHandler, cpu_data, domains
  <2> QED
    BY Zenon, <1>0, <2>1
<1>8. CASE \/ psci_system_suspend(c) \/ StartScan(c) \/ ScanFails(c) \/ svc_off_Denied(c)
           \/ WakeupPending(c) \/ ScanNext(c)
  <2>1. Awake(c) /\ Awake(c)' /\ pc[c] # "standby" /\ pc'[c] # "validate"
        /\ UNCHANGED <<req, local_state>>
    BY ZenonT(30), <1>0, <1>8 DEF psci_system_suspend, StartScan, ScanFails, svc_off_Denied,
                      WakeupPending, Locked, ScanNext, OpOK, cpu_data, domains
  <2> QED
    BY Zenon, <1>0, <2>1
<1>9. CASE Sleep(c) \/ WakeInPlace(c)
  BY ZenonT(30), <1>0, <1>9 DEF Sleep, WakeInPlace, Released, OpOK, domains, args
<1>10. CASE ScanSucceeds(c)
  <2>1. pc[c] = "scan" /\ UNCHANGED <<req, local_state>>
    BY Zenon, <1>10 DEF ScanSucceeds, StartSystemSuspend, cpu_data, domains
  <2>2. Awake(c)' /\ pc'[c] # "validate"
    <3>1. CASE StartSystemSuspend(c)
      BY Zenon, <1>0, <3>1 DEF StartSystemSuspend, EnterHandler
    <3>2. CASE op[c] # "sys_suspend"
      BY Zenon, <1>0, <1>10, <3>2 DEF ScanSucceeds
    <3> QED
      BY Zenon, <1>10, <3>1, <3>2 DEF ScanSucceeds
  <2> QED
    BY Zenon, <1>0, <2>1, <2>2
<1>11. CASE Coordinate(c)
  <2>1. /\ pc[c] = "acquire" /\ op[c] \in {"off", "suspend"} /\ pc'[c] = "set_target"
        /\ UNCHANGED <<op, end_pwrlvl>>
    BY Zenon, <1>0, <1>11 DEF Coordinate, Locked
  <2>2. \A l \in DomainLevel : l > end_pwrlvl[c] => req'[c][l] = req[c][l]
    <3>1. \A l \in DomainLevel : l > end_pwrlvl[c] => ~ (l <= end_pwrlvl[c])
      <4>1. end_pwrlvl[c] \in Nat /\ \A l \in DomainLevel : l \in Nat
        BY Zenon, <1>0, ConstantFacts
      <4> QED
        BY ONLY <4>1
    <3> QED
      BY ZenonT(30), <1>0, <1>11, <3>1 DEF Coordinate, Requests
  <2> QED
    BY Zenon, <1>0, <2>1, <2>2
<1>12. CASE psci_update_req(c) \/ psci_validate_state_coordination(c)
  BY Zenon, <1>0, <1>12 DEF psci_update_req, psci_validate_state_coordination, OsInitiated
<1>13. CASE pwr_domain_validate_suspend_Fails(c)
  BY Zenon, <1>13 DEF pwr_domain_validate_suspend_Fails
<1>14. CASE FinishPowerUp(c)
  <2>1. /\ pc[c] = "set_run" /\ pc'[c] = "release" /\ op'[c] = "return"
        /\ local_state'[c] = PSCI_LOCAL_STATE_RUN
    BY Zenon, <1>0, <1>14 DEF FinishPowerUp, psci_set_pwr_domains_to_run
  <2>2. ASSUME NEW l \in DomainLevel PROVE req'[c][l] = PSCI_LOCAL_STATE_RUN
    <3>1. req'[c][l] = IF l <= end_pwrlvl[c] THEN AllRun[l] ELSE req[c][l]
      BY Zenon, <1>0, <1>14 DEF FinishPowerUp, psci_set_pwr_domains_to_run, Requests
    <3>2. l \in Level /\ (l <= end_pwrlvl[c] \/ l > end_pwrlvl[c])
      <4>1. end_pwrlvl[c] \in Nat /\ l \in Nat /\ l \in Level
        BY Zenon, <1>0, ConstantFacts
      <4> QED
        BY ONLY <4>1
    <3> QED
      BY Zenon, <1>0, <2>1, <3>1, <3>2 DEF AllRun
  <2> QED
    BY Zenon, <2>1, <2>2
<1>15. CASE psci_set_target_local_pwr_states(c)
  BY ZenonT(30), <1>0, <1>15 DEF psci_set_target_local_pwr_states, OpOK, args
<1>16. CASE psci_cpu_on_finish(c) \/ psci_cpu_suspend_finish(c)
  BY ZenonT(30), <1>0, <1>16 DEF psci_cpu_on_finish, psci_cpu_suspend_finish, Locked, OpOK, domains, args
<1>17. CASE psci_warmboot_entrypoint(c)
  <2>1. /\ pc[c] = "off" \/ (pc[c] = "wfi" /\ powerDown[c])
        /\ req' = req
    BY Zenon, <1>17 DEF psci_warmboot_entrypoint, domains
  <2>2. CASE aff_info_state[c] = AFF_STATE_OFF
    BY Zenon, <1>0, <1>17, <2>2 DEF psci_warmboot_entrypoint, AffOK, OpOK, AFF_STATE_ON,
                             AFF_STATE_OFF, AFF_STATE_ON_PENDING
  <2>3. CASE aff_info_state[c] # AFF_STATE_OFF
    <3>1. pc'[c] = "acquire" /\ op'[c] = "boot" /\ end_pwrlvl'[c] = suspend_pwrlvl[c]
      BY ZenonT(30), <1>0, <1>17, <2>3 DEF psci_warmboot_entrypoint, EnterHandler
    <3>2. \A l \in DomainLevel : l > suspend_pwrlvl[c] => req[c][l] = PSCI_LOCAL_STATE_RUN
      <4>1. CASE pc[c] = "off"
        BY SMTT(30), <1>0, <4>1, CountAssumption DEF LevelOK, DomainLevel
      <4>2. CASE pc[c] = "wfi" /\ powerDown[c]
        BY Zenon, <1>0, <4>2 DEF LevelOK
      <4> QED
        BY Zenon, <2>1, <4>1, <4>2
    <3> QED
      BY Zenon, <2>1, <3>1, <3>2
  <2> QED
    BY Zenon, <2>2, <2>3
<1> QED
  BY ZenonT(30), <1>1, <1>2, <1>3, <1>4, <1>5, <1>6, <1>7, <1>8, <1>9, <1>10, <1>11, <1>12, <1>13, <1>14,
     <1>15, <1>16, <1>17 DEF Step, Firmware, Call, PowerEvent
==============================================================================
