SPECIFICATION Spec
CONSTANTS Launches = {1,2} MaxWrites = 1 DrainLimit = 1 MaxFaults = 0
INVARIANT PipeEnds
CHECK_DEADLOCK FALSE
