SPECIFICATION Spec
CONSTANT Priority = {1, 2, 3}
CONSTANT GIC_HIGHEST_NS_PRIORITY = 8
CONSTANT GIC_PRI_MASK = 15
CONSTANT NsMask = {10, 15}
INVARIANT NsMaskPreserved
INVARIANT PrioritiesNest
INVARIANT SecureNotPreempted
INVARIANT PreemptionReportedRight
INVARIANT ChecksFailInsideDispatch
