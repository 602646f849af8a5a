SPECIFICATION Spec
CONSTANTS
    sber = sber
    gazp = gazp
    Ticker = {sber, gazp}
    Price <- Prices
    Target <- Targets
    MaxLots = 2
    LotSize <- Lots
    RateDivisor = 60
    SpreadDivisor = 12
    MinDeviationPct = 0
    MaxNetExposure <- GrossCap
    MaxNetShort <- DirectionCap
    MaxNetLong <- DirectionCap
    SectorCaps <- OneSector
    MaxConsecutiveLosses = 2
    LossLimit <- Limit
    MaxFills = 5
SYMMETRY Tickers
INVARIANTS BooksInv MoneyConserved CapUpToRealized RestartKeepsVerdict BacktestAgrees SummaryAgrees
