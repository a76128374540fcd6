SPECIFICATION Spec
CONSTANTS
    Clients = {c1}
    Listeners = {l1}
    Slots = {s1}
    Null = Null
    ListenPorts = {p5}
    NewPorts = {1}
    ENOSPCPort = 1
    Backlog = 1
    MaxBirth = 1
    MaxSlot = 1
    MaxListen = 1
    MaxTrouble = 0
INVARIANT PortsHeld
CHECK_DEADLOCK FALSE
