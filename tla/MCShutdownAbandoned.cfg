SPECIFICATION Spec
CONSTANTS
    Worker = {w1}
    Request = {r1}
    Server = Server
    Hooks = 2
    MaxBatch = 2
INVARIANTS
    NoJobAbandoned
CHECK_DEADLOCK FALSE
