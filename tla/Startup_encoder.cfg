SPECIFICATION FairSpec
CONSTANTS
    ObserverType = "ENCODER"
    AlignTime <- ShortTimes
    AlignIq = 4
    AlignDIq = 2
    ForceMaxIq = 4
    ForceDIq = 1
    ForceMaxWr = 3
    ForceAccRate = 2
    WrEstimates = {1}
    PidOutputs <- SomeOutputs
    Turn = 3
PROPERTIES
    OffsetIsRotorAngle
    AlignLastsItsTime
