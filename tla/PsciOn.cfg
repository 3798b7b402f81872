CONSTANTS
  psci_plat_core_count = 3
  PLAT_MAX_PWR_LVL = 1
  PLAT_MAX_RET_STATE = 1
  PLAT_MAX_OFF_STATE = 2
  Node <- MCNode
  Ancestor <- MCAncestor
  PrimaryCpu = 0
  SuspendRequest <- MCOsRequests
  SysSuspendState <- MCSysSuspend
  EntryPoint = {e1, e2}
  psci_caps = {"CPU_ON", "CPU_OFF", "SET_SUSPEND_MODE"}
  PSCI_OS_INIT_MODE = TRUE
  HW_ASSISTED_COHERENCY = TRUE
  NoCpu = NoCpu
  NoEntry = NoEntry
SPECIFICATION Spec
SYMMETRY Symmetry
INVARIANT LastOnIsLast
PROPERTY PendingEntryPointKept
CHECK_DEADLOCK FALSE
