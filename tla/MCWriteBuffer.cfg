CONSTANTS
    p1 = p1
    p2 = p2
    p3 = p3
    metrics = metrics
    events = events
    Requests = {p1, p2, p3}
    Topics = {metrics, events}
    Topic <- MCTopic
    Size <- MCSize
    ChanCap = 1
    MaxSize = 3
    MaxRetries = 2
SPECIFICATION LiveSpec
INVARIANTS TypeOK OkIsStored WholeBatch NobodyForgotten
PROPERTIES CountsAddUp OwnCounts ImplementsPublishing EveryRequestAnswered ShutdownEnds
