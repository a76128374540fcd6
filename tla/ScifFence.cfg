SPECIFICATION Spec
CONSTANTS
    EndOf <- MCEndOf
    Scenarios <- MCScenarios
    None = None
INVARIANTS WaitedDone SignalsQueued AnswerFindsRequest EndpointFound CallReturns
CHECK_DEADLOCK FALSE
