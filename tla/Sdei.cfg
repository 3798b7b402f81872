SPECIFICATION Spec
SYMMETRY Symmetry
CONSTANT p1 = p1
CONSTANT p2 = p2
CONSTANT PE <- PEs
CONSTANT Event = {0, 10, 12, 13, 20, 21, 22, 23}
CONSTANT Private <- Privates
CONSTANT Critical <- Criticals
CONSTANT Dynamic <- Dynamics
CONSTANT Explicit <- Explicits
CONSTANT StaticIntr <- StaticIntrs
CONSTANT Spi = {33, 34, 40, 41}
CONSTANT Ppi = {25}
CONSTANT Workload <- SafetyWorkloads
CONSTANT RegCountCap = 2
INVARIANT RunningIsDispatched
INVARIANT CriticalInsideNormal
INVARIANT AcknowledgedIsHandled
INVARIANT EnabledEventCanFire
INVARIANT OwnedWhileRegistered
INVARIANT RegCountCovers
INVARIANT MappingOutlivesDispatch
PROPERTY BindingKept
