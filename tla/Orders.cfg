SPECIFICATION Spec
CONSTANTS
    sber = sber
    Ticker = {sber}
    OrderId = {1, 2}
    MaxLots = 2
    KillSwitchOnDailyLoss = FALSE
    ResetAnyTime = FALSE
    MaxFaults = 2
INVARIANTS OrdersInv LedgerNeverAhead NoStrayOrder SeenPositionWithinLots
PROPERTIES SwitchStopsTrading FillsStay
