SPECIFICATION Safe
CONSTANTS
    Calls = {k1, k2}
    MaxConcurrency = 2
    Refill = 2
    Ticks = 1
    Unit = 1
    MaxClock = 0
INVARIANTS
    GaugeSettles
