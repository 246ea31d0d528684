\* A call whose command lacks the notify marker, no timeout: is it replied?
CONSTANTS
    o1 = o1
    o2 = o2
    t1 = t1
    Ops <- MCOps
    Topics <- MCTopics
    TopicOf <- MCTopicOf
    TimeoutSet = FALSE
    CompetingConsumers = FALSE
    NotifyWhenExecuted <- MCMarked
    MaxDeliveries = 1
    NoMsg = NoMsg
SPECIFICATION Spec
PROPERTY EventuallyReplied
\* Every call finishes (replied, cancelled or failed) and then nothing moves.
CHECK_DEADLOCK FALSE
