SPECIFICATION Spec
CONSTANTS
    X = X
    Y = Y
    x = x
    Null = Null
    Bad = Bad
    None = None
    Isin <- MCIsin
    Session <- MCSession
    Spelling <- MCSpelling
    Canonical <- MCCanonical
    Version <- MCVersion
    V1 = 1
    Lookback = 2
    Period = 1
    Windows <- MCWindows
    Unit = 3
    RiskWeight = 1
    WeightUnit = 1
    Inputs <- MCInputs
    Corrections <- MCCorrections
    MaxCorrections = 1
INVARIANTS
    ReturnsSpanTheirSessions
    GatesSpareFeatures
    ActionsAreApplied
    DailyRanksKeepTheirIsin
    EveryNameIsRanked
    MoreBullishRanksBetter
CHECK_DEADLOCK FALSE
