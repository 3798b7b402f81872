SPECIFICATION FairSpec
CONSTANT p1 = p1
CONSTANT p2 = p2
CONSTANT PE <- PEs
CONSTANT Event = {14, 22}
CONSTANT Private <- Privates
CONSTANT Critical <- Criticals
CONSTANT Dynamic <- Dynamics
CONSTANT Explicit <- Explicits
CONSTANT StaticIntr <- StaticIntrs
CONSTANT Spi = {40}
CONSTANT Ppi = {24}
CONSTANT Workload <- ProgressWorkloads
CONSTANT RegCountCap = 2
PROPERTY PendingIsDispatched
