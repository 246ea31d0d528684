\* Two calls, shared topic, timeout configured, fan-out transport.
CONSTANTS
    o1 = o1
    o2 = o2
    t1 = t1
    Ops <- MCOps
    Topics <- MCTopics
    TopicOf <- MCTopicOf
    TimeoutSet = TRUE
    CompetingConsumers = FALSE
    NotifyWhenExecuted <- MCMarked
    MaxDeliveries = 2
    NoMsg = NoMsg
SPECIFICATION Spec
INVARIANTS
    TypeOK
    ReplyCorrelation
PROPERTY
    ImplementsReplyChannel
\* Every call finishes (replied, cancelled or failed) and then nothing moves.
CHECK_DEADLOCK FALSE
