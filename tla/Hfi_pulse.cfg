SPECIFICATION HfiSpec
CONSTANTS
    ObserverType = "HFI_SMO"
    Settle = 5
    Pulse = 3
    Take = 2
    Pause = 2
    Responses = {0, 1}
INVARIANTS
    PulseIsApplied
