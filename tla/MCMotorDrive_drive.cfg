SPECIFICATION Spec
CONSTANTS
    ObserverType = "SMO"
    BreakEnable = TRUE
    MinRpm = 2
    MaxWr = 3
    WrMaxStep = 2
    WrEstimates = {1, 3}
    HostRpms = {0, 1}
    HostCalibrates = FALSE
    VbusChecks <- OneCheck
    IsrFaults = {"AD_OFFSET", "OC_PEAK", "UNDEF_INT"}
INVARIANTS
    TypeOK
    PwmOffImpliesZero
    LoopsFollowStartup
PROPERTIES
    SessionSpec
