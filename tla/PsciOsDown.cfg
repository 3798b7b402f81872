CONSTANTS
  psci_plat_core_count = 3
  PLAT_MAX_PWR_LVL = 2
  PLAT_MAX_RET_STATE = 1
  PLAT_MAX_OFF_STATE = 2
  Node <- MCNode
  Ancestor <- MCAncestor
  PrimaryCpu = 0
  SuspendRequest <- MCOsPowerDown
  SysSuspendState <- MCSysSuspend
  EntryPoint = {e1}
  psci_caps = {"CPU_ON", "CPU_OFF", "CPU_SUSPEND", "SET_SUSPEND_MODE"}
  PSCI_OS_INIT_MODE = TRUE
  HW_ASSISTED_COHERENCY = FALSE
  NoCpu = NoCpu
  NoEntry = NoEntry
SPECIFICATION Spec
INVARIANTS RunningCpuDomainsRun

CHECK_DEADLOCK FALSE
