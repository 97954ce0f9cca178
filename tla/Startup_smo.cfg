SPECIFICATION FairSpec
CONSTANTS
    ObserverType = "SMO"
    AlignTime <- ThreeTimes
    AlignIq = 7
    AlignDIq = 2
    ForceMaxIq = 10
    ForceDIq = 2
    ForceMaxWr = 9
    ForceAccRate = 2
    WrEstimates = {1, 9}
    PidOutputs <- SomeOutputs
    Turn = 2
INVARIANTS
    TypeOK
    OvershootBelowOneStep
PROPERTIES
    NoCurrentKick
    IsStartupControl
    StartupFinishes
