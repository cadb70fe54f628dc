SPECIFICATION FairSpec
CONSTANTS
    u1 = u1
    u2 = u2
    u3 = u3
    Units <- ThreeUnits
    MaxConcurrency = 2
    MaxCooldown = 1
    UNAVAILABLE_HOLD = 1
    RETRY_AFTER_SAFETY = 1
    MAX_RETRY_AFTER = 3
INVARIANTS
    SlotAccounting
    NoLostWakeup
    ProviderDeadlineKept
PROPERTIES
    NoOvertaking
    LimitRespected
    HoldRespected
    BreakerRespected
    WaiterServed
