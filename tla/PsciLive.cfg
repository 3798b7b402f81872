CONSTANTS
  psci_plat_core_count = 2
  PLAT_MAX_PWR_LVL = 2
  PLAT_MAX_RET_STATE = 1
  PLAT_MAX_OFF_STATE = 2
  Node <- MCNode
  Ancestor <- MCAncestor2
  PrimaryCpu = 0
  SuspendRequest <- MCOsRequests
  SysSuspendState <- MCSysSuspend
  EntryPoint = {e1}
  psci_caps = {"CPU_ON", "CPU_OFF", "CPU_SUSPEND", "SYSTEM_SUSPEND", "SET_SUSPEND_MODE"}
  PSCI_OS_INIT_MODE = TRUE
  HW_ASSISTED_COHERENCY = FALSE
  NoCpu = NoCpu
  NoEntry = NoEntry
SPECIFICATION FairSpec
PROPERTIES EveryCallCompletes TurnedOnCpuRuns
CHECK_DEADLOCK FALSE
