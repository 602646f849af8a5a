SPECIFICATION Spec
CONSTANTS
    sber = sber
    Ticker = {sber}
    OrderId = {1, 2}
    MaxLots = 2
    KillSwitchOnDailyLoss = FALSE
    ResetAnyTime = TRUE
    MaxFaults = 0
PROPERTIES FillsStay
