SPECIFICATION Spec
CONSTANTS
    Callers = {t1}
    Scif = Scif
    None = None
    UserCommands = {"BOOT", "RESET_FORCE"}
    MaxCommand = 3
    MaxSession = 1
    MaxFault = 0
    MaxIntr = 0
INVARIANT OnlineIsReal
CHECK_DEADLOCK FALSE
