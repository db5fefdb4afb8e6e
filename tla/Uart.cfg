SPECIFICATION Spec
CONSTANTS
    Connections <- MCConnections
    Others <- MCOthers
    Noise <- MCNoise
    Serials = {5, 6, 249}
    Attempts = 3
    MaxFaults = 1
    MaxEvents = 2
    MaxOthers = 1
    RxRoom = 14
INVARIANTS TypeOK EventsInOrder RetriesSuffice
PROPERTIES EventsHandled
CHECK_DEADLOCK FALSE
