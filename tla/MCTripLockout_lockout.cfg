SPECIFICATION LockSpec
CONSTANTS
    ObserverType = "HFI_SMO"
    BreakEnable = FALSE
    MinRpm = 1
    MaxWr = 2
    WrMaxStep = 1
    WrEstimates = {1}
    HostRpms = {0, 1}
    HostCalibrates = FALSE
    VbusChecks <- OneCheck
    IsrFaults = {"OC_PEAK"}
    PeakOcpTime = 2
    ErrClrTime = 2
INVARIANTS
    TripLocksOut
PROPERTIES
    ReleasedAfterCalm
