SPECIFICATION FairSpec
CONSTANTS
    Callers = {t1}
    Scif = Scif
    None = None
    UserCommands = {"BOOT_FIRMWARE", "BOOT", "RESET", "SHUTDOWN", "RESET_FORCE", "SHUTDOWN_FORCE"}
    MaxCommand = 2
    MaxSession = 2
    MaxFault = 1
    MaxIntr = 1
INVARIANTS StableWhenIdle CommandHasFlow NoWarning StartedOnReturn OneSession EchoIgnored
PROPERTIES CommandEnds ServerReturns
CHECK_DEADLOCK FALSE
