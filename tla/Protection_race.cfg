SPECIFICATION Spec
CONSTANTS
    SysTickerFreqHz = 4000
    OverVoltageTimeUs = 1000
    UnderVoltageTimeUs = 250
    AbnormalVbusTimeUs = 250
    PeakOverCurrTimeUs = 500
    PeakOcpTime = 3
    ErrClrTime = 4
INVARIANTS
    TypeOK
    VbusFollowsSustainedLevel
PROPERTIES
    SustainedOvercurrentTrips
    OvercurrentReleasedOnlyAfterCalm
