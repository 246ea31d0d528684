\* Two calls, shared topic, no timeout, fan-out, no redelivery, caller keeps reading.
CONSTANTS
    o1 = o1
    o2 = o2
    t1 = t1
    Ops <- MCOps
    Topics <- MCTopics
    TopicOf <- MCTopicOf
    TimeoutSet = FALSE
    CompetingConsumers = FALSE
    NotifyWhenExecuted <- MCOps
    MaxDeliveries = 1
    NoMsg = NoMsg
SPECIFICATION DrainSpec
PROPERTIES
    EventuallyReplied
    ChannelClosedAfterCancel
\* Every call finishes (replied, cancelled or failed) and then nothing moves.
CHECK_DEADLOCK FALSE
