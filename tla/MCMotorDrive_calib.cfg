SPECIFICATION FairSpec
CONSTANTS
    ObserverType = "ENCODER"
    BreakEnable = FALSE
    MinRpm = 1
    MaxWr = 1
    WrMaxStep = 1
    WrEstimates = {1}
    HostRpms = {1}
    HostCalibrates = TRUE
    VbusChecks <- NoChecks
    IsrFaults = {"UNDEF_INT"}
INVARIANTS
    CalibrationPowered
PROPERTIES
    CalibrationEnds
