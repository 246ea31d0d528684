\* A caller that cancels need not read: does the listener goroutine still end?
CONSTANTS
    o1 = o1
    o2 = o2
    t1 = t1
    Ops <- MCOps
    Topics <- MCTopics
    TopicOf <- MCTopicOf
    TimeoutSet = FALSE
    CompetingConsumers = FALSE
    NotifyWhenExecuted <- MCOps
    MaxDeliveries = 2
    NoMsg = NoMsg
SPECIFICATION Spec
PROPERTY ListenerStopsAfterCancel
\* Every call finishes (replied, cancelled or failed) and then nothing moves.
CHECK_DEADLOCK FALSE
