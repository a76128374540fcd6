SPECIFICATION Spec
CONSTANTS
    Clients = {c1, c2}
    Listeners = {l1}
    Slots = {s1}
    Null = Null
    ListenPorts = {p5, p6}
    NewPorts = {1}
    ENOSPCPort = 1
    Backlog = 1
    MaxBirth = 1
    MaxSlot = 2
    MaxListen = 1
    MaxTrouble = 1
SYMMETRY Symmetry
INVARIANTS AcceptedHasPeer ConnectedToDst ReplyFindsEndpoint DisconnectsOwnPeer NoPortLeak GrantAnswered DisconnectAnswered
CHECK_DEADLOCK FALSE
