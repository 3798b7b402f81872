CONSTANTS
  psci_plat_core_count = 3
  PLAT_MAX_PWR_LVL = 2
  PLAT_MAX_RET_STATE = 1
  PLAT_MAX_OFF_STATE = 2
  Node <- MCNode
  Ancestor <- MCAncestor
  PrimaryCpu = 0
  SuspendRequest <- MCPlatRequests
  SysSuspendState <- MCSysSuspend
  EntryPoint = {e1}
  psci_caps = {"CPU_ON", "CPU_OFF", "SYSTEM_SUSPEND"}
  PSCI_OS_INIT_MODE = FALSE
  HW_ASSISTED_COHERENCY = TRUE
  NoCpu = NoCpu
  NoEntry = NoEntry
SPECIFICATION Spec
INVARIANT SystemSuspendIsLast

CHECK_DEADLOCK FALSE
