\* Two calls, shared topic, timeout configured: counts the replies of one call.
CONSTANTS
    o1 = o1
    o2 = o2
    t1 = t1
    Ops <- MCOps
    Topics <- MCTopics
    TopicOf <- MCTopicOf
    TimeoutSet = TRUE
    CompetingConsumers = FALSE
    NotifyWhenExecuted <- MCOps
    MaxDeliveries = 2
    NoMsg = NoMsg
SPECIFICATION Spec
INVARIANT AtMostOneReply
\* Every call finishes (replied, cancelled or failed) and then nothing moves.
CHECK_DEADLOCK FALSE
