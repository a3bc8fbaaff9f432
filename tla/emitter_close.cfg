\* Shutdown may time out while requests are still emitting.
SPECIFICATION RequestFairSpec
CONSTANTS
    Procs = {p1, p2}
    MaxEvents = 3
    BufferSize = 2
INVARIANTS TypeOK EventsAccounted CloseDrains TelemetryNeverFailsRequests
PROPERTIES EmitNeverBlocks ShutdownCompletes
CHECK_DEADLOCK FALSE
