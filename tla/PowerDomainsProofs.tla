-------------------------- MODULE PowerDomainsProofs --------------------------
(***************************************************************************)
(* Facts about the power domain tree and the coordination of power states, *)
(* for every tree and every number of power states.                        *)
(***************************************************************************)
EXTENDS PowerDomains, WellFoundedInduction, TLAPS

\* A set of naturals that is not empty has a minimum, and Min is it.
LEMMA MinExists ==
  ASSUME NEW S, S \subseteq Nat, S # {}
  PROVE  Min(S) \in S /\ \A y \in S : Min(S) <= y
<1>1. \E x \in S : \A y \in S : ~ (<<y, x>> \in OpToRel(<, Nat))
  BY ONLY NatLessThanWellFounded, WFMin, S \subseteq Nat, S # {}
<1>2. PICK x \in S : \A y \in S : ~ (<<y, x>> \in OpToRel(<, Nat))
  BY <1>1
<1>3. ASSUME NEW y \in S PROVE x <= y
  <2>1. x \in Nat /\ y \in Nat
    OBVIOUS
  <2>2. y < x => <<y, x>> \in OpToRel(<, Nat)
    BY ONLY <2>1 DEF OpToRel
  <2>3. ~ (y < x)
    BY ONLY <1>2, <2>2, y \in S, Zenon
  <2> QED
    BY ONLY <2>1, <2>3
<1> QED
  BY <1>3 DEF Min

\* A bounded set of naturals that is not empty has a maximum, and Max is it.
LEMMA MaxExists ==
  ASSUME NEW n \in Nat, NEW S, S \subseteq 0..n, S # {}
  PROVE  Max(S) \in S /\ \A y \in S : Max(S) >= y
<1> DEFINE T == {n - x : x \in S}
<1>1. T \subseteq Nat /\ T # {}
  <2>1. \A x \in S : n - x \in Nat
    OBVIOUS
  <2> QED
    BY <2>1, Zenon
<1>2. Min(T) \in T /\ \A y \in T : Min(T) <= y
  BY <1>1, MinExists
<1>3. PICK x \in S : Min(T) = n - x
  BY <1>2
<1>4. ASSUME NEW y \in S PROVE x >= y
  <2>1. n - x <= n - y
    BY <1>2, <1>3
  <2> QED
    BY <2>1
<1> QED
  BY <1>4 DEF Max

-----------------------------------------------------------------------------
(* Classification of composite states.                                     *)

\* psci_find_target_suspend_lvl returns the highest level that is not to run.
LEMMA TargetSuspendLevel ==
  ASSUME NEW s \in PowerState,
         psci_find_target_suspend_lvl(s) # PSCI_INVALID_PWR_LVL
  PROVE  /\ psci_find_target_suspend_lvl(s) \in Level
         /\ ~ is_local_state_run(s[psci_find_target_suspend_lvl(s)])
<1> DEFINE S == {l \in Level : ~ is_local_state_run(s[l])}
<1>1. S # {}
  BY DEF psci_find_target_suspend_lvl, HighestLevel
<1>2. Max(S) \in S
  BY <1>1, MaxExists, CountAssumption DEF Level
<1> QED
  BY <1>1, <1>2 DEF psci_find_target_suspend_lvl, HighestLevel

\* A request that psci_validate_suspend_req accepts asks for a low power state at
\* every level up to its target level.
THEOREM ValidRequestLeavesRun ==
  ASSUME NEW s \in PowerState, NEW pd \in BOOLEAN, psci_validate_suspend_req(s, pd),
         NEW l \in Level, l <= psci_find_target_suspend_lvl(s)
  PROVE  ~ is_local_state_run(s[l])
<1> DEFINE target == psci_find_target_suspend_lvl(s)
<1> DEFINE Runs == {k \in 0..target : is_local_state_run(s[k])}
<1>1. target \in Level /\ ~ is_local_state_run(s[target])
  BY TargetSuspendLevel DEF psci_validate_suspend_req
<1>2. SUFFICES ASSUME Runs # {} PROVE FALSE
  BY <1>1, CountAssumption DEF Level
<1>3. target \in Nat
  BY <1>1, CountAssumption DEF Level
<1> HIDE DEF target
<1>4. Max(Runs) \in Runs /\ \A y \in Runs : Max(Runs) >= y
  BY <1>2, <1>3, MaxExists
<1> DEFINE k == Max(Runs)
<1>5. k \in 0..target /\ is_local_state_run(s[k]) /\ k # target
  BY <1>1, <1>4
<1>6. k + 1 \in 1..target /\ ~ is_local_state_run(s[k + 1])
  <2> HIDE DEF k
  <2>1. k + 1 \in 0..target /\ k + 1 \in 1..target /\ ~ (k >= k + 1)
    BY <1>3, <1>5
  <2>2. k + 1 \notin Runs
    BY <1>4, <2>1 DEF k
  <2> QED
    BY <2>1, <2>2
<1>7. find_local_state_type(s[k]) >= find_local_state_type(s[k + 1])
  <2> HIDE DEF k
  <2>1. \A j \in 1..target : find_local_state_type(s[j - 1]) >= find_local_state_type(s[j])
    BY DEF psci_validate_suspend_req, target
  <2>2. (k + 1) - 1 = k
    BY <1>5, <1>3
  <2> QED
    BY <1>6, <2>1, <2>2
<1> QED
  BY <1>5, <1>6, <1>7 DEF find_local_state_type, STATE_TYPE_RUN, STATE_TYPE_RETN,
                          STATE_TYPE_OFF

-----------------------------------------------------------------------------
(* Coordination.                                                           *)

\* The platform picks the smallest of the requests of the CPUs below a domain.
LEMMA NegotiatedStateIsMin ==
  ASSUME NEW req \in [CPU -> [DomainLevel -> LocalState]],
         NEW c \in CPU, NEW l \in DomainLevel
  PROVE  /\ NegotiatedState(req, c, l) \in LocalState
         /\ \A d \in CpusBelow(Ancestor[c][l]) : NegotiatedState(req, c, l) <= req[d][l]
         /\ \E d \in CpusBelow(Ancestor[c][l]) : NegotiatedState(req, c, l) = req[d][l]
<1> DEFINE B == CpusBelow(Ancestor[c][l])
<1> DEFINE R == {req[d][l] : d \in B}
<1> DEFINE S == R \cup {PLAT_MAX_OFF_STATE}
<1>1. B \subseteq CPU /\ c \in B
  BY DEF CpusBelow
<1> HIDE DEF B
<1>2. \A d \in B : req[d][l] \in LocalState
  BY <1>1
<1>3. S \subseteq Nat /\ S # {} /\ S \subseteq LocalState
  BY <1>2, StateAssumption DEF LocalState
<1>4. Min(S) \in S /\ \A y \in S : Min(S) <= y
  BY <1>3, MinExists
<1>5. Min(S) \in LocalState
  BY <1>3, <1>4
<1>6. \A d \in B : Min(S) <= req[d][l]
  BY <1>4
<1>7. \E d \in B : Min(S) = req[d][l]
  <2>1. CASE Min(S) \in R
    BY <2>1
  <2>2. CASE Min(S) = PLAT_MAX_OFF_STATE
    <3>1. req[c][l] \in LocalState /\ Min(S) <= req[c][l]
      BY <1>1, <1>2, <1>6
    <3>2. Min(S) = req[c][l]
      BY <2>2, <3>1, StateAssumption DEF LocalState
    <3> QED
      BY <1>1, <3>2
  <2> QED
    BY <1>4, <2>1, <2>2
<1>8. NegotiatedState(req, c, l) = Min(S)
  BY DEF NegotiatedState, plat_get_target_pwr_state, B
<1> QED
  BY <1>5, <1>6, <1>7, <1>8 DEF B

\* psci_do_state_coordination: the CPU's own level is as requested, no domain goes
\* deeper than any CPU below it allows, so a domain leaves RUN only when no CPU
\* below it requests RUN, and above a domain that runs everything runs.
THEOREM CoordinationIsSafe ==
  ASSUME NEW req \in [CPU -> [DomainLevel -> LocalState]],
         NEW c \in CPU, NEW end \in Level, NEW s \in PowerState
  PROVE  LET t == psci_do_state_coordination(req, c, end, s) IN
         /\ t \in PowerState
         /\ t[PSCI_CPU_PWR_LVL] = s[PSCI_CPU_PWR_LVL]
         /\ \A l \in 1..end : \A d \in CpusBelow(Ancestor[c][l]) : t[l] <= req[d][l]
         /\ \A k, l \in 1..end : k <= l /\ is_local_state_run(t[k]) =>
                                   is_local_state_run(t[l])
<1> DEFINE t == psci_do_state_coordination(req, c, end, s)
<1> DEFINE neg(l) == NegotiatedState(req, c, l)
<1> DEFINE stop(l) == \E k \in 1..l : is_local_state_run(neg(k))
<1>1. 1..end \subseteq DomainLevel /\ 1..end \subseteq Level /\ 0 \in Level
  BY CountAssumption DEF Level, DomainLevel
<1>2. \A l \in DomainLevel :
         /\ neg(l) \in LocalState
         /\ \A d \in CpusBelow(Ancestor[c][l]) : neg(l) <= req[d][l]
  BY NegotiatedStateIsMin
<1>3. t = [l \in Level |-> IF l \notin 1..end THEN s[l]
                           ELSE IF stop(l) THEN PSCI_LOCAL_STATE_RUN ELSE neg(l)]
  BY DEF psci_do_state_coordination
<1>4. \A d \in CPU : \A l \in DomainLevel : req[d][l] \in LocalState
  OBVIOUS
<1>5. PSCI_LOCAL_STATE_RUN \in LocalState /\ \A x \in LocalState : PSCI_LOCAL_STATE_RUN <= x
  BY StateAssumption DEF LocalState, PSCI_LOCAL_STATE_RUN
<1> HIDE DEF t, neg, stop
<1>6. t \in PowerState
  BY <1>1, <1>2, <1>3, <1>5 DEF PowerState
<1>7. t[PSCI_CPU_PWR_LVL] = s[PSCI_CPU_PWR_LVL]
  BY <1>1, <1>3 DEF PSCI_CPU_PWR_LVL
<1>8. ASSUME NEW l \in 1..end, NEW d \in CpusBelow(Ancestor[c][l]) PROVE t[l] <= req[d][l]
  <2>1. d \in CPU /\ l \in DomainLevel /\ l \in Level
    BY <1>1 DEF CpusBelow
  <2>2. CASE stop(l)
    BY <1>3, <1>4, <1>5, <2>1, <2>2
  <2>3. CASE ~ stop(l)
    BY <1>2, <1>3, <2>1, <2>3
  <2> QED
    BY <2>2, <2>3
<1>9. ASSUME NEW k \in 1..end, NEW l \in 1..end, k <= l, is_local_state_run(t[k])
      PROVE  is_local_state_run(t[l])
  <2>1. k \in 1..l /\ k \in 1..k
    BY <1>9, CountAssumption DEF Level
  <2>2. stop(k)
    <3>1. CASE stop(k)
      BY <3>1
    <3>2. CASE ~ stop(k)
      BY <1>1, <1>3, <1>9, <2>1, <3>2 DEF stop
    <3> QED
      BY <3>1, <3>2
  <2>3. stop(l)
    BY <1>9, <2>2, CountAssumption DEF stop, Level
  <2> QED
    BY <1>1, <1>3, <2>3 DEF is_local_state_run
<1> QED
  BY <1>6, <1>7, <1>8, <1>9 DEF t
=============================================================================
