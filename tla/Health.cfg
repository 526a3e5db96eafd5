CONSTANTS
    BATTERY_FULL = 4
    BATTERY_LOW = 2
    BATTERY_CRITICAL_LOW_MV = 3
    BATTERY_DEAD_MV = 1
    NORMAL_MAX_SOC_DEC = 2
    CRITICAL_LOW_FORCE_SOC_DROP = 3
    UPDATE_PERIOD_MINIMUM_S = 1
    Voltage <- MCVoltage
    Temperature <- MCTemperature
    SysinfoFails = TRUE
SPECIFICATION FairSpec
INVARIANTS ZeroHasCause VoltageIsWatched
PROPERTIES MovesSlowly CriticalEndsAtZero GaugeIsReached
