SPECIFICATION Spec
CONSTANTS
    MaxCalls = 2
    MaxEvents = 2
CHECK_DEADLOCK FALSE
INVARIANTS EventsInOrder RegistrationAgrees
PROPERTIES NobodyWaitsForEver EventsArrive
