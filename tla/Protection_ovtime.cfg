SPECIFICATION Spec
CONSTANTS
    SysTickerFreqHz = 4000
    OverVoltageTimeUs = 1000
    UnderVoltageTimeUs = 1000
    AbnormalVbusTimeUs = 1000
    PeakOverCurrTimeUs = 500
    PeakOcpTime = 3
    ErrClrTime = 4
PROPERTIES
    OvervoltageTripsAtItsOwnTime
