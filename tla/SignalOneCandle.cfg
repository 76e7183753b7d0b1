SPECIFICATION Spec
CONSTANTS
    Missing = Missing
    NoSnapshot = NoSnapshot
    ConfirmationBars = 2
    Cooldown = 2
    MaxDataAge = 3
    TrendAdx = 25
    RangeAdx = 20
    HighAtr = 3
    LowAtr = 1
    HighBb = 10
    LowBb = 3
    Bars = 5
    BarWidth = 2
    SignalDelay = 1
    DecisionInterval = 3
    Readings <- MCReadings
    MinRsi = 35
    MaxRsi = 60
    MaxCloseAbove = 1
    RateScale = 100
    StrategyEnabled = TRUE
    MaxTime = 12
INVARIANT NoSwitchOnOneCandle
CHECK_DEADLOCK FALSE
