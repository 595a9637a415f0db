SPECIFICATION Spec
CONSTANTS
    Questions = {"p", "q"}
    MaxStreams = 2
    MaxEvents = 2
    CitedIds = {"d1", "d2"}
    Scale = 1
INVARIANTS
    TextOfItsRequest
    StreamingHonest
    StreamsControlled
PROPERTIES
    Settles
CHECK_DEADLOCK FALSE
