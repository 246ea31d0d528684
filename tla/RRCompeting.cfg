\* Shared reply topic whose subscribers compete for its messages, no timeout.
CONSTANTS
    o1 = o1
    o2 = o2
    t1 = t1
    Ops <- MCOps
    Topics <- MCTopics
    TopicOf <- MCTopicOf
    TimeoutSet = FALSE
    CompetingConsumers = TRUE
    NotifyWhenExecuted <- MCOps
    MaxDeliveries = 2
    NoMsg = NoMsg
SPECIFICATION Spec
PROPERTY EventuallyReplied
\* Every call finishes (replied, cancelled or failed) and then nothing moves.
CHECK_DEADLOCK FALSE
