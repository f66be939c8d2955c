\* One call of sendMessage, two topics, and two calls of kafkajs that throw.
SPECIFICATION FairSpec
CONSTANTS
    Messages = {m1}
    MaxRetries = 1
    MaxProducerRetries = 2
    Topics = {t1, t2}
    MessageTopic = t1
    Intervals = {i1}
    Calls = {c1}
    Setup = Setup
    NoTopic = NoTopic
    MaxConsumerRetries = 2
    MaxSubscriptionRetries = 1
    MaxFailures = 2
\* All messages may have been handled.
CHECK_DEADLOCK FALSE
INVARIANTS TypeOK NeverIdleDisconnected NoTopicForgotten PendingOnce
           NothingSilentlyMissed NoRecordLost
PROPERTIES SendsEnd EarlyTopicsAreFetched SentIsHandled PromiseKept
