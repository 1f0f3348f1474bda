CONSTANTS
    NumRuns = 3
    Accounts = {usd, out}
    usd = usd
    out = out
    Names <- MCNames
    UnitOf <- MCUnitOf
    RateIn <- MCRateIn
    RateOut <- MCRateOut
    Unpriced = {3}
    MaxTokens = 2
    MaxAmount = 5
    MaxCost = 6
    MaxExcess = 2
SPECIFICATION Spec
INVARIANTS
    TypeOK
    ReservationsAccounted
    NotOverspent
