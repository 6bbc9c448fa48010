SPECIFICATION Spec
CONSTANTS
    p1 = p1
    a1 = a1
    a2 = a2
    r1 = r1
    r2 = r2
    f1 = f1
    f2 = f2
    Pilots = {p1}
    Reservations = {r1, r2}
    Attempts = {a1, a2}
    Profiles = {f1, f2}
    Policy <- Versions
    Eligible <- EligiblePart
    NoPilot = NoPilot
    NoProfile = NoProfile
    NoAttempt = NoAttempt
    NoBeat = NoBeat
    TicksPerSecond = 2
    LockWait = 1
    MaxClock = 6
    MaxCrashes = 1
SYMMETRY PilotSymmetry
INVARIANTS
    PilotTypeOK
    CapacityHolds
    PlacedOnLivePilot
    OneReservationPerAttempt
PROPERTIES
    LifecycleForward
    NeverPlacedLate
\* The clock is bounded and users stop, so the system may come to rest.
CHECK_DEADLOCK FALSE
