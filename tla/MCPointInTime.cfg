CONSTANTS
    Isin = {1, 2, 3}
    LastSession = 3
    Horizon = 1
    Period = 1
    Value = {2, 3}
    Factor = 2
    Config <- MCConfig
    MaxMissing = 1
    MaxSplits = 1
    None = None
    Refused = Refused
SPECIFICATION TrainSpec
INVARIANT PricesArePointInTime
