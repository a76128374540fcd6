SPECIFICATION Spec
CONSTANTS
    Cards = {1, 2}
    Scenarios <- MCScenarios
    None = None
INVARIANTS TypeOK AckAfterCleanup MappingsFreed RefHasQp RemoveReturns Agreed AckFindsQp
CHECK_DEADLOCK FALSE
