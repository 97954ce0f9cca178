SPECIFICATION FairSpec
CONSTANTS
    ObserverType = "SMO"
    BreakEnable = FALSE
    MinRpm = 1
    MaxWr = 2
    WrMaxStep = 1
    WrEstimates = {2}
    HostRpms = {0, 1}
    HostCalibrates = FALSE
    VbusChecks <- OneCheck
    IsrFaults = {}
PROPERTIES
    FaultShutsBridge
    StopHonoured
    ReversalCompletes
