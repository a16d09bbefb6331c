\* Three clients, both port layouts, every failure.  The process ends.
CONSTANTS
    Clients = {c1, c2, c3}
    Modes = {"same", "split"}
    Faults = {"accept", "bind"}
SPECIFICATION Spec
INVARIANTS TypeOK RadosOpenWhileHandling HttpBeforeGrpc EndNeverStalls
PROPERTIES SignalEnds FailureEnds
CHECK_DEADLOCK FALSE
