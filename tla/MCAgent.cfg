\* One request of each kind; the command may leave a child behind.
SPECIFICATION Spec
CONSTANTS
    Kinds = {"exec", "stream", "shell"}
    MaxOut = 2
    MaxKept = 1
INVARIANTS
    AgentTypeOK
    ExitIsLast
    OutputComplete
    KillReported
PROPERTIES
    HangupKills
    
CHECK_DEADLOCK FALSE
