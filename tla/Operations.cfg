CONSTANT Checks = {k1, k2, k3}
SPECIFICATION Spec
CHECK_DEADLOCK FALSE
PROPERTIES
    EveryCheckEnds
    OnlyBacklogDelaysShutdown
