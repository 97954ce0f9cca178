SPECIFICATION Spec
CONSTANTS
    Cpr = 4
    Garbled = {9}
    MaxPos = 3
    IntMax = 7
    MinRpm = 2
    MaxWr = 5
    WrMaxStep = 2
    HostRpms <- AllRpms
    WrEstimates <- Estimates
    DelayTime = 2
    DetectTime = 4
    RefOffset = 3
    MaxBias = 1
    Readings = {0, 2, 4, 7}
    DenMax = 64
    PollMax = 2
    RxErrMax = 3
    BufferSize = 3
    Values = {1, 3}
    ObserverType = "HFI_SMO"
    MotorObserver = "ENCODER"
    NumR = 2
    NumL = 4
    HoldTime = 3
    PhaseEnd = 3
    Settle = 5
    Pulse = 3
    Take = 2
    Pause = 2
    Responses = {0, 1}
    TicksPerMs = 4
    MsPer100 = 3
    HundredsPerS = 2
    MaxTicks = 60
    Peak = 21
    MaxDuty = 16
    Scale = 2
    VMax = 50
INVARIANTS
    TypesOK
    ShadowTracksRotor
    CommandAgrees
    OffsetFaultIsFinal
    HostAndDeviceAgree
    OnePacketInFlight
    AverageIsOfRecentValues
    VectorInWindow
PROPERTIES
    WholeUntilGivenUp
    CalibrationIsComplete
    IsCalibrationLoop
    PolarityIsDecidedOnce
    KeepsTime
