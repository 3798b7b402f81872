----------------------------- MODULE GranuleMap -----------------------------
(***************************************************************************)
(* What granule transitions promise: every granule has one physical        *)
(* address space, which changes one granule at a time along the permitted  *)
(* transitions.  A granule that is handed back to the Non-secure world is  *)
(* accessible to nobody in between.                                        *)
(***************************************************************************)
CONSTANTS Granule, GPI,
          Delegations,     \* <<from, to>> that happen at once
          Undelegations    \* <<from, to>> that pass through NO_ACCESS

VARIABLES gpi,    \* the GPI of each granule
          from    \* what a granule on its way back used to be, or "none"

vars == <<gpi, from>>

Init ==
  /\ gpi \in [Granule -> GPI]
  /\ from = [g \in Granule |-> "none"]

\* Granule g becomes t and no other changes.
Becomes(g, t) == gpi' = [gpi EXCEPT ![g] = t]

Delegate(g) ==
  /\ <<gpi[g], gpi'[g]>> \in Delegations
  /\ Becomes(g, gpi'[g])
  /\ UNCHANGED from

Withdraw(g) ==
  /\ \E t \in GPI : <<gpi[g], t>> \in Undelegations
  /\ Becomes(g, "NO_ACCESS")
  /\ from' = [from EXCEPT ![g] = gpi[g]]

Grant(g) ==
  /\ <<from[g], gpi'[g]>> \in Undelegations
  /\ Becomes(g, gpi'[g])
  /\ from' = [from EXCEPT ![g] = "none"]

Moved == LET old == gpi
             new == gpi'
         IN  {g \in Granule : old[g] # new[g]}

Next == \E g \in Moved : Delegate(g) \/ Withdraw(g) \/ Grant(g)

Spec == Init /\ [][Next]_vars
==============================================================================
