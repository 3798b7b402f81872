------------------------------- MODULE EhfData -------------------------------
(***************************************************************************)
(* The functions of the EL3 Exception Handling Framework (bl31/ehf.c) on   *)
(* the data of one PE: the fields of pe_exc_data_t and the GIC priority    *)
(* mask (PMR).  Each maps that data d and the running priority to the new  *)
(* data; error is the check that failed, "" when none did.  A smaller      *)
(* number is a higher priority.                                            *)
(***************************************************************************)
EXTENDS Integers, FiniteSetsExt

CONSTANTS
  Priority,                 \* the secure levels of exception_data, positive
  GIC_HIGHEST_NS_PRIORITY,  \* 0x80
  GIC_PRI_MASK,             \* the idle priority, 0xff
  NsMask                    \* the masks the Non-secure world programs

ASSUME PriorityAssumption ==
  /\ Priority \subseteq Nat \ {0} /\ Priority # {}
  /\ GIC_HIGHEST_NS_PRIORITY \in Nat /\ GIC_PRI_MASK \in Nat
  /\ \A p \in Priority : p < GIC_HIGHEST_NS_PRIORITY
  /\ NsMask \subseteq {m \in Nat : m >= GIC_HIGHEST_NS_PRIORITY}
  /\ GIC_PRI_MASK \in NsMask

IS_PRI_SECURE(p) == p < GIC_HIGHEST_NS_PRIORITY

has_valid_pri_activations(d) == d.active_pri_bits # {}

\* The data of a PE that has just been initialised.
InitialData ==
  [active_pri_bits |-> {}, init_pri_mask |-> 0, ns_pri_mask |-> 0,
   pmr |-> GIC_PRI_MASK, error |-> ""]

\* Mutant: the mask is left alone.
ehf_activate_priority_NoMask(d, run, p) ==
  [d EXCEPT !.active_pri_bits = @ \cup {p}, !.init_pri_mask = d.pmr]

ehf_activate_priority(d, run, p) ==
  LET first == ~has_valid_pri_activations(d) IN
  IF p >= run \/ (~first /\ p >= Min(d.active_pri_bits))
  THEN [d EXCEPT !.error = "order"]
  ELSE [d EXCEPT !.active_pri_bits = @ \cup {p},
                 !.pmr = p,
                 !.error = IF p >= d.pmr THEN "mask" ELSE "",
                 !.init_pri_mask = IF first THEN d.pmr ELSE @]

\* Mutant: the last deactivation forgets the stashed mask.
ehf_deactivate_priority_KeepMask(d, run, p) ==
  [d EXCEPT !.active_pri_bits = @ \ {p}, !.pmr = p]

\* While other levels stay active the mask is set to the level just left.
ehf_deactivate_priority(d, run, p) ==
  LET rest == d.active_pri_bits \ {p} IN
  IF \/ p >= run
     \/ ~has_valid_pri_activations(d)
     \/ p # Min(d.active_pri_bits)
  THEN [d EXCEPT !.error = "order"]
  ELSE [d EXCEPT !.active_pri_bits = rest,
                 !.pmr = IF rest = {} THEN d.init_pri_mask ELSE p,
                 !.error = IF d.pmr > p THEN "mask" ELSE ""]

\* Mutant: the mask is not raised.
ehf_exited_normal_world_NoRaise(d, run) ==
  IF IS_PRI_SECURE(run) \/ has_valid_pri_activations(d) THEN d
  ELSE [d EXCEPT !.ns_pri_mask = d.pmr]

ehf_exited_normal_world(d, run) ==
  IF IS_PRI_SECURE(run) \/ has_valid_pri_activations(d) THEN d
  ELSE IF d.ns_pri_mask # 0 THEN [d EXCEPT !.error = "stash"]
  ELSE [d EXCEPT !.ns_pri_mask = d.pmr,
                 !.pmr = GIC_HIGHEST_NS_PRIORITY,
                 !.error = IF IS_PRI_SECURE(d.pmr) THEN "mask" ELSE ""]

\* Mutant: the stash is used and kept.
ehf_entering_normal_world_KeepStash(d, run) ==
  IF IS_PRI_SECURE(run) \/ has_valid_pri_activations(d) \/ d.ns_pri_mask = 0 THEN d
  ELSE [d EXCEPT !.pmr = d.ns_pri_mask]

ehf_entering_normal_world(d, run) ==
  IF \/ IS_PRI_SECURE(run)
     \/ has_valid_pri_activations(d)
     \/ d.ns_pri_mask = 0
  THEN d
  ELSE [d EXCEPT !.pmr = d.ns_pri_mask,
                 !.error = IF d.pmr \in {GIC_HIGHEST_NS_PRIORITY, d.ns_pri_mask}
                           THEN "" ELSE "mask",
                 !.ns_pri_mask = 0]

\* Mutant: the stash survives, as if preemption had not been allowed.
ehf_allow_ns_preemption_KeepStash(d) ==
  IF d.ns_pri_mask = 0 THEN [d EXCEPT !.error = "stash"]
  ELSE [d EXCEPT !.pmr = d.ns_pri_mask]

ehf_allow_ns_preemption(d) ==
  IF d.ns_pri_mask = 0 THEN [d EXCEPT !.error = "stash"]
  ELSE IF has_valid_pri_activations(d) THEN [d EXCEPT !.error = "order"]
  ELSE [d EXCEPT !.pmr = d.ns_pri_mask, !.ns_pri_mask = 0]

ehf_is_ns_preemption_allowed(d, run) ==
  /\ ~IS_PRI_SECURE(run)
  /\ ~has_valid_pri_activations(d)
  /\ d.ns_pri_mask = 0
=============================================================================
