----------------------------- MODULE PowerDomains -----------------------------
(***************************************************************************)
(* The power domain tree of PSCI and the functions that compute power      *)
(* states on it (lib/psci/psci_common.c, plat/common/plat_psci_common.c).  *)
(* A local power state is a number: 0 runs, 1..PLAT_MAX_RET_STATE retains, *)
(* and the rest up to PLAT_MAX_OFF_STATE is off.  A composite power state  *)
(* (psci_power_state_t) gives one local state to every level.              *)
(***************************************************************************)
EXTENDS Integers, FiniteSetsExt

CONSTANTS
  psci_plat_core_count,  \* number of CPUs
  PLAT_MAX_PWR_LVL,      \* level of the root of the tree; CPUs are level 0
  PLAT_MAX_RET_STATE,
  PLAT_MAX_OFF_STATE,
  Node,                  \* the non-CPU power domains
  Ancestor               \* Ancestor[c][l]: the domain at level l above CPU c

CPU == 0..(psci_plat_core_count - 1)
Level == 0..PLAT_MAX_PWR_LVL
DomainLevel == 1..PLAT_MAX_PWR_LVL
LocalState == 0..PLAT_MAX_OFF_STATE
PowerState == [Level -> LocalState]

PSCI_CPU_PWR_LVL == 0
PSCI_INVALID_PWR_LVL == PLAT_MAX_PWR_LVL + 1
PSCI_LOCAL_STATE_RUN == 0

ASSUME CountAssumption ==
  /\ psci_plat_core_count \in Nat \ {0}
  /\ PLAT_MAX_PWR_LVL \in Nat \ {0}

\* CASSERT(PLAT_MAX_RET_STATE < PLAT_MAX_OFF_STATE)
ASSUME StateAssumption ==
  /\ PLAT_MAX_RET_STATE \in Nat
  /\ PLAT_MAX_OFF_STATE \in Nat
  /\ PLAT_MAX_RET_STATE < PLAT_MAX_OFF_STATE

ASSUME AncestorAssumption == Ancestor \in [CPU -> [DomainLevel -> Node]]

\* The domains form a tree: two CPUs that share a domain share everything above
\* it, and a domain has one level.
ASSUME TreeAssumption ==
  \A c, d \in CPU : \A k, l \in DomainLevel :
    Ancestor[c][k] = Ancestor[d][l] =>
      /\ k = l
      /\ \A m \in DomainLevel : m >= l => Ancestor[c][m] = Ancestor[d][m]

-----------------------------------------------------------------------------
(* The tree.                                                               *)

\* cpu_start_idx .. cpu_start_idx + ncpus - 1 of a node.
CpusBelow(n) == {c \in CPU : \E l \in DomainLevel : Ancestor[c][l] = n}

\* The domains of level l - 1 under the same level-l domain as CPU c, except
\* the one on c's own path: CPUs when l is 1.
SiblingCpus(c) ==
  {d \in CPU : Ancestor[d][1] = Ancestor[c][1]} \ {c}
SiblingNodes(c, l) ==
  {Ancestor[d][l - 1] : d \in CpusBelow(Ancestor[c][l])} \ {Ancestor[c][l - 1]}

-----------------------------------------------------------------------------
(* Classification of local states and of composite states.                *)

is_local_state_run(s) == s = PSCI_LOCAL_STATE_RUN
is_local_state_off(s) == s > PLAT_MAX_RET_STATE /\ s <= PLAT_MAX_OFF_STATE

STATE_TYPE_RUN == 0
STATE_TYPE_RETN == 1
STATE_TYPE_OFF == 2

find_local_state_type(s) ==
  IF is_local_state_run(s) THEN STATE_TYPE_RUN
  ELSE IF s > PLAT_MAX_RET_STATE THEN STATE_TYPE_OFF ELSE STATE_TYPE_RETN

\* The highest level of a set of levels, PSCI_INVALID_PWR_LVL when there is none.
HighestLevel(S) == IF S = {} THEN PSCI_INVALID_PWR_LVL ELSE Max(S)

psci_find_max_off_lvl(s) ==
  HighestLevel({l \in Level : is_local_state_off(s[l])})

psci_find_target_suspend_lvl(s) ==
  HighestLevel({l \in Level : ~is_local_state_run(s[l])})

is_cpu_standby_req(powerDown, lvl) == ~powerDown /\ lvl = PSCI_CPU_PWR_LVL

\* Below the target level no level is in a shallower kind of state than the
\* next one up, and only a power down request turns a level off.
psci_validate_suspend_req(s, powerDown) ==
  LET target == psci_find_target_suspend_lvl(s)
      maxOff == psci_find_max_off_lvl(s)
  IN  /\ target # PSCI_INVALID_PWR_LVL
      /\ \A l \in 1..target :
            find_local_state_type(s[l - 1]) >= find_local_state_type(s[l])
      /\ ~powerDown => maxOff = PSCI_INVALID_PWR_LVL

-----------------------------------------------------------------------------
(* Coordination.  req[c][l] is the state CPU c requested for the domain    *)
(* above it at level l (psci_req_local_pwr_states).                        *)

\* Mutant: the deepest request wins.
plat_get_target_pwr_state_Deepest(states) == Max(states)

\* The shallowest request wins.
plat_get_target_pwr_state(states) == Min(states \cup {PLAT_MAX_OFF_STATE})

\* The requests after CPU c asked for s at the levels up to end.
Requests(req, c, end, s) ==
  [req EXCEPT ![c] = [l \in DomainLevel |-> IF l <= end THEN s[l] ELSE @[l]]]

\* The state the platform picks for the domain above c at level l.
NegotiatedState(req, c, l) ==
  plat_get_target_pwr_state({req[d][l] : d \in CpusBelow(Ancestor[c][l])})

\* The target states: once a level stays in RUN the levels above it do too.
psci_do_state_coordination(req, c, end, s) ==
  [l \in Level |->
     IF l \notin 1..end THEN s[l]
     ELSE IF \E k \in 1..l : is_local_state_run(NegotiatedState(req, c, k))
          THEN PSCI_LOCAL_STATE_RUN
          ELSE NegotiatedState(req, c, l)]

\* OS-initiated mode requests the state of the target level above it as well.
psci_update_req_local_pwr_states(req, c, end, s) ==
  [req EXCEPT ![c] = [l \in DomainLevel |-> s[IF l <= end THEN l ELSE end]]]

\* Every sibling on the way up is at least as deep as its parent's new state.
psci_validate_hierarchical_state_consistency(local_state, pd_state, c, end, s) ==
  /\ end >= 1 => \A d \in SiblingCpus(c) : local_state[d] >= s[1]
  /\ \A l \in 2..end : \A n \in SiblingNodes(c, l) : pd_state[n] >= s[l]

\* No other CPU below c's domain at level l runs.
psci_is_last_cpu_to_idle_at_pwrlvl(local_state, c, l) ==
  l # PSCI_CPU_PWR_LVL =>
    \A d \in CpusBelow(Ancestor[c][l]) \ {c} : ~is_local_state_run(local_state[d])
=============================================================================
