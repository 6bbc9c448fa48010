SPECIFICATION FairSpec
CONSTANTS
    p1 = p1
    a1 = a1
    a2 = a2
    r1 = r1
    r2 = r2
    f1 = f1
    f2 = f2
    Pilots = {p1}
    Reservations = {r1, r2}
    Attempts = {a1, a2}
    Profiles = {f1}
    Policy <- OneTask
    Eligible <- EligibleAll
    NoPilot = NoPilot
    NoProfile = NoProfile
    NoAttempt = NoAttempt
    NoBeat = NoBeat
    TicksPerSecond = 1
    LockWait = 1
    MaxClock = 5
    MaxCrashes = 0
PROPERTIES
    PilotsRetire
    
\* The clock is bounded and users stop, so the system may come to rest.
CHECK_DEADLOCK FALSE
