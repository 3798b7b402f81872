-------------------------------- MODULE MCPsci --------------------------------
(***************************************************************************)
(* Instances of Psci for TLC: three CPUs, clusters {0, 1} and {2} under    *)
(* one system domain; with one level, the system domain alone.             *)
(***************************************************************************)
EXTENDS Psci, TLC

\* Entry points are stored, compared and handed on, never looked into.
Symmetry == Permutations(EntryPoint)

MCNode == {"cluster0", "cluster1", "system"}
MCAncestor == [c \in CPU |-> [l \in DomainLevel |->
                 IF l = PLAT_MAX_PWR_LVL THEN "system"
                 ELSE IF c < 2 THEN "cluster0" ELSE "cluster1"]]

\* Two CPUs in clusters of their own.
MCAncestor2 == [c \in CPU |-> [l \in DomainLevel |->
                  IF l = PLAT_MAX_PWR_LVL THEN "system"
                  ELSE IF c = 0 THEN "cluster0" ELSE "cluster1"]]

\* Composite states by kind: 0 runs, 1 retains, 2 is off.
State3(cpu, cluster, system) ==
  [l \in Level |-> <<cpu, cluster, system>>[l + 1]]
Request(s, pd, last) == [state |-> s, powerDown |-> pd, last |-> last]

MCSysSuspend == [l \in Level |-> PLAT_MAX_OFF_STATE]

\* Platform-coordinated mode: standby of the CPU, retention of the cluster,
\* power down of everything.  A CPU that is off below a retained cluster comes
\* out of the coordination of the last two.
MCPlatRequests ==
  {Request(State3(1, 0, 0), FALSE, 0),
   Request(State3(1, 1, 0), FALSE, 0),
   Request(State3(2, 2, 2), TRUE, 0)}

\* OS-initiated mode.  last_at_pwrlvl is the highest level at which the OS says
\* the CPU is the last to idle; 3 is beyond the highest level.
MCOsRequests ==
  {Request(State3(1, 1, 0), FALSE, 3),
   Request(State3(2, 2, 2), TRUE, 2)}

\* A request of OS-initiated mode that powers down the CPU.
MCOsPowerDown == {Request(State3(2, 0, 0), TRUE, 0)}

=============================================================================
