SPECIFICATION Spec
CONSTANTS
    Client = "client"
    Server = "server"
    AppCodes = {"APP_1"}
    Writers = {"client"}
    MaxBatch = 1
    MaxEvents = 2
CHECK_DEADLOCK FALSE
INVARIANTS RemoteCauseTrue FlushBeforeClose
PROPERTIES ShutdownEnds
