---------------------------- MODULE KafkaConsumer -----------------------------
(***************************************************************************)
(* KafkaConsumerService: connect with its timer, setupSubscriptions,       *)
(* subscribe, the list of pending topics and the interval that retries     *)
(* them; and the clients that subscribe, BookingConsumerService for one.   *)
(*                                                                         *)
(* The topics are subscribed to one at a time by loops, which all run      *)
(* subscribeToTopic: the loop of setupSubscriptions, calls of              *)
(* retryPendingSubscriptions by the interval, and calls of subscribe made  *)
(* while the consumer runs.  todo[f] is what loop f has still to do,       *)
(* topic[f] the topic it is at, attempts[f] its retryCount there.  A call  *)
(* of consumer.subscribe and the code after it are one step; the pause     *)
(* between two attempts is the time between two steps.                     *)
(*                                                                         *)
(* kafkajs throws at subscribe once run has been called, and fetches the   *)
(* topics it knew when run was called.                                     *)
(***************************************************************************)
EXTENDS KafkaCalls

CONSTANTS
    Topics,
    Intervals,               \* bound: calls of the interval under way at a time
    Calls,                   \* bound: calls of subscribe that wait at a time
    Setup,                   \* the loop of setupSubscriptions
    NoTopic,
    MaxConsumerRetries,      \* MAX_CONNECTION_RETRIES
    MaxSubscriptionRetries   \* MAX_SUBSCRIPTION_RETRIES

Loops == Intervals \cup Calls \cup {Setup}

ASSUME ConsumerAssumption ==
    /\ NoTopic \notin Topics
    /\ Setup \notin Intervals \cup Calls
    /\ Intervals \cap Calls = {}
    /\ MaxConsumerRetries \in Nat \ {0}
    /\ MaxSubscriptionRetries \in Nat

VARIABLES
    subscriptions,      \* topics with a callback
    pending,            \* pending[t]: how often t is in pendingSubscriptions
    consumerConnected,  \* isConnected
    consumerRunning,    \* isConsumerRunning
    consumerRetries,    \* connectionRetryCount
    consumerClosed,     \* onModuleDestroy has run
    phase,              \* where connect is, see Phases
    todo, topic, attempts,
    isSubscribed,       \* topics whose client takes itself for subscribed
    known,              \* topics kafkajs was told to subscribe to
    ran,                \* consumer.run() has returned
    fetching            \* topics whose messages kafkajs fetches

loopVars     == <<todo, topic, attempts>>
kafkaVars    == <<known, ran, fetching>>
linkVars     == <<consumerConnected, consumerRunning, consumerRetries, consumerClosed, phase>>
consumerVars == <<subscriptions, pending, isSubscribed, linkVars, loopVars, kafkaVars>>

Phases == {"timer",       \* a timer will call connect
           "connect",     \* consumer.connect
           "subscribe",   \* the loop of setupSubscriptions
           "run",         \* consumer.run
           "over",        \* connect has returned for the last time
           "givenUp"}     \* no timer was set after the last failure

ConsumerTypeOK ==
    /\ subscriptions \subseteq Topics
    /\ pending \in [Topics -> Nat]
    /\ consumerConnected \in BOOLEAN
    /\ consumerRunning \in BOOLEAN
    /\ consumerRetries \in 0..MaxConsumerRetries
    /\ consumerClosed \in BOOLEAN
    /\ phase \in Phases
    /\ todo \in [Loops -> SUBSET Topics]
    /\ topic \in [Loops -> Topics \cup {NoTopic}]
    /\ attempts \in [Loops -> 0..MaxSubscriptionRetries]
    /\ isSubscribed \subseteq Topics
    /\ known \subseteq Topics
    /\ ran \in BOOLEAN
    /\ fetching \subseteq Topics

\* onModuleInit has set the timer for connect.
ConsumerInit ==
    /\ subscriptions = {}
    /\ pending = [t \in Topics |-> 0]
    /\ consumerConnected = FALSE
    /\ consumerRunning = FALSE
    /\ consumerRetries = 0
    /\ consumerClosed = FALSE
    /\ phase = "timer"
    /\ todo = [f \in Loops |-> {}]
    /\ topic = [f \in Loops |-> NoTopic]
    /\ attempts = [f \in Loops |-> 0]
    /\ isSubscribed = {}
    /\ known = {}
    /\ ran = FALSE
    /\ fetching = {}
------------------------------------------------------------------------------
(* The list of pending topics.                                             *)

PendingTopics == {t \in Topics : pending[t] > 0}

\* Push the topic unless the list includes it.  (Mutant: push it in any case.)
PushedMutant(t) == [pending EXCEPT ![t] = @ + 1]
Pushed(t) == [pending EXCEPT ![t] = IF @ > 0 THEN @ ELSE 1]

\* The list after the last attempt for a topic.  (Mutant: as before.)
GivenBackMutant(t) == pending
GivenBack(t) == Pushed(t)

\* Take the first occurrence out, if there is one.
Spliced(t) == [pending EXCEPT ![t] = IF @ > 0 THEN @ - 1 ELSE 0]
------------------------------------------------------------------------------
(* Loops over topics.                                                      *)

Busy(f) == topic[f] # NoTopic

\* Loop f starts with a set of topics, in the order in which they come.
StartLoop(f, S) ==
    \E t \in S :
        /\ topic' = [topic EXCEPT ![f] = t]
        /\ todo' = [todo EXCEPT ![f] = S \ {t}]
        /\ attempts' = [attempts EXCEPT ![f] = 0]

\* subscribeToTopic has returned, which it always does: the next topic is due.
NextTopic(f) ==
    \/ StartLoop(f, todo[f])
    \/ /\ todo[f] = {}
       /\ topic' = [topic EXCEPT ![f] = NoTopic]
       /\ attempts' = [attempts EXCEPT ![f] = 0]
       /\ UNCHANGED todo

\* What the caller of a loop does when it is over: the client of a call of
\* subscribe is content, setupSubscriptions goes on to run.
LoopReturns(f) ==
    /\ isSubscribed' = IF f \in Calls THEN isSubscribed \cup {topic[f]} ELSE isSubscribed
    /\ phase' = IF f = Setup /\ phase = "subscribe" /\ topic'[f] = NoTopic
                THEN "run" ELSE phase

\* consumer.subscribe returns.
AttemptSucceeds(f) ==
    /\ Busy(f)
    /\ ~ran
    /\ Answers
    /\ known' = known \cup {topic[f]}
    /\ pending' = Spliced(topic[f])
    /\ NextTopic(f)
    /\ LoopReturns(f)
    /\ UNCHANGED <<subscriptions, consumerConnected, consumerRunning,
                   consumerRetries, consumerClosed, ran, fetching>>

\* (Mutant: off by one.)
MayRetryMutant(f) == attempts[f] <= MaxSubscriptionRetries
MayRetry(f) == attempts[f] < MaxSubscriptionRetries

\* consumer.subscribe throws: for want of a broker, or because run came first.
AttemptFails(f) ==
    /\ Busy(f)
    /\ Throws \/ (ran /\ UNCHANGED failures)
    /\ \/ /\ MayRetry(f)
          /\ attempts' = [attempts EXCEPT ![f] = @ + 1]
          /\ UNCHANGED <<pending, todo, topic, isSubscribed, phase>>
       \/ /\ ~MayRetry(f)
          /\ pending' = GivenBack(topic[f])
          /\ NextTopic(f)
          /\ LoopReturns(f)
    /\ UNCHANGED <<subscriptions, consumerConnected, consumerRunning,
                   consumerRetries, consumerClosed, kafkaVars>>
------------------------------------------------------------------------------
(* connect and setupSubscriptions.                                         *)

ConnectConsumer ==
    /\ phase = "timer"
    /\ phase' = "connect"
    /\ UNCHANGED <<subscriptions, pending, isSubscribed, consumerConnected,
                   consumerRunning, consumerRetries, consumerClosed, loopVars,
                   kafkaVars, failures>>

\* The topics that setupSubscriptions finds.  (Mutant: those that are pending
\* are left to the interval.)
AllTopicsMutant == subscriptions \ PendingTopics
AllTopics == subscriptions \cup PendingTopics

\* consumer.connect returns, and setupSubscriptions starts its loop; without any
\* topic the consumer counts as running, and run is not called.
ConsumerConnects ==
    /\ phase = "connect"
    /\ Answers
    /\ consumerConnected' = TRUE
    /\ consumerRetries' = 0
    /\ \/ /\ AllTopics = {}
          /\ consumerRunning' = TRUE
          /\ phase' = "over"
          /\ UNCHANGED loopVars
       \/ /\ StartLoop(Setup, AllTopics)
          /\ phase' = "subscribe"
          /\ UNCHANGED consumerRunning
    /\ UNCHANGED <<subscriptions, pending, isSubscribed, consumerClosed, kafkaVars>>

ConsumerConnectFails ==
    /\ phase = "connect"
    /\ Throws
    /\ consumerConnected' = FALSE
    /\ consumerRetries' = consumerRetries + 1
    /\ phase' = IF consumerRetries' < MaxConsumerRetries THEN "timer" ELSE "givenUp"
    /\ UNCHANGED <<subscriptions, pending, isSubscribed, consumerRunning,
                   consumerClosed, loopVars, kafkaVars>>

\* consumer.run returns; pending topics are retried at once, in the same call.
\* connect has nothing else to do after that.
RunSucceeds ==
    /\ phase = "run"
    /\ Answers
    /\ ran' = TRUE
    /\ fetching' = known
    /\ consumerRunning' = TRUE
    /\ phase' = "over"
    /\ \/ /\ PendingTopics = {} \/ ~consumerConnected
          /\ UNCHANGED loopVars
       \/ consumerConnected /\ StartLoop(Setup, PendingTopics)
    /\ UNCHANGED <<subscriptions, pending, isSubscribed, consumerConnected,
                   consumerRetries, consumerClosed, known>>

\* consumer.run throws, and nobody calls setupSubscriptions again.
RunFails ==
    /\ phase = "run"
    /\ Throws
    /\ consumerRunning' = FALSE
    /\ phase' = "over"
    /\ UNCHANGED <<subscriptions, pending, isSubscribed, consumerConnected,
                   consumerRetries, consumerClosed, loopVars, kafkaVars>>

\* onModuleDestroy, once: a consumer that is connected stops fetching, unless
\* disconnect throws.
DestroyConsumer ==
    /\ ~consumerClosed
    /\ consumerClosed' = TRUE
    /\ \/ /\ consumerConnected
          /\ Answers
          /\ consumerConnected' = FALSE
          /\ fetching' = {}
       \/ consumerConnected /\ Throws /\ UNCHANGED <<consumerConnected, fetching>>
       \/ ~consumerConnected /\ UNCHANGED <<consumerConnected, fetching, failures>>
    /\ UNCHANGED <<subscriptions, pending, isSubscribed, consumerRunning,
                   consumerRetries, phase, loopVars, known, ran>>
------------------------------------------------------------------------------
(* subscribe, as its clients call it, and the interval.                    *)

\* trySubscribe of a client that does not take itself for subscribed, by its
\* first timer or by its interval.  The topic is queued, which the client
\* cannot tell from being subscribed.  (Mutant: the callback is registered only
\* by a call that subscribes at once.)
EnqueueMutant(t) ==
    /\ t \notin isSubscribed
    /\ ~consumerRunning \/ ~consumerConnected
    /\ pending' = Pushed(t)
    /\ isSubscribed' = isSubscribed \cup {t}
    /\ UNCHANGED <<subscriptions, linkVars, loopVars, kafkaVars, failures>>
Enqueue(t) ==
    /\ t \notin isSubscribed
    /\ ~consumerRunning \/ ~consumerConnected
    /\ subscriptions' = subscriptions \cup {t}
    /\ pending' = Pushed(t)
    /\ isSubscribed' = isSubscribed \cup {t}
    /\ UNCHANGED <<linkVars, loopVars, kafkaVars, failures>>

\* The same while the consumer runs: call c waits for subscribeToTopic.
SubscribeNow(c, t) ==
    /\ t \notin isSubscribed
    /\ consumerRunning /\ consumerConnected
    /\ ~Busy(c)
    /\ subscriptions' = subscriptions \cup {t}
    /\ StartLoop(c, {t})
    /\ UNCHANGED <<pending, isSubscribed, linkVars, kafkaVars, failures>>

\* retryPendingSubscriptions, whether or not an earlier call is over.
RetryPending(i) ==
    /\ ~Busy(i)
    /\ consumerRunning /\ consumerConnected
    /\ StartLoop(i, PendingTopics)
    /\ UNCHANGED <<subscriptions, pending, isSubscribed, linkVars, kafkaVars, failures>>
------------------------------------------------------------------------------
LoopStep(f) == AttemptSucceeds(f) \/ AttemptFails(f)

ConnectStep ==
    \/ ConnectConsumer \/ ConsumerConnects \/ ConsumerConnectFails
    \/ RunSucceeds \/ RunFails

ConsumerNext ==
    \/ ConnectStep \/ DestroyConsumer
    \/ \E f \in Loops : LoopStep(f)
    \/ \E t \in Topics : Enqueue(t)
    \/ \E c \in Calls, t \in Topics : SubscribeNow(c, t)
    \/ \E i \in Intervals : RetryPending(i)

ConsumerSpec == ConsumerInit /\ CallsInit /\ [][ConsumerNext]_<<consumerVars, failures>>

\* Calls of kafkajs end and timers run out.
ConsumerFairness ==
    /\ WF_consumerVars(ConnectStep)
    /\ \A f \in Loops : WF_consumerVars(LoopStep(f))
------------------------------------------------------------------------------
\* A registered topic is never forgotten: kafkajs knows it, or it is on the
\* pending list, or some loop has it in hand.  Loops of four kinds, two calls
\* of one kind at a time, take topics off the list and put them back.
NoTopicForgotten ==
    \A t \in subscriptions :
        \/ t \in known
        \/ pending[t] > 0
        \/ \E f \in Loops : topic[f] = t \/ t \in todo[f]

\* However loops overlap, a topic is on the pending list once at most, so that
\* one splice takes it off.
PendingOnce == \A t \in Topics : pending[t] <= 1

\* Once run was called, a topic with a callback that is not fetched shows on the
\* pending list or in a loop; and what is fetched has its callback.  (A topic
\* is subscribed to and not fetched only if run was never called: the topics
\* that come after a setup without topics.)
NothingSilentlyMissed ==
    /\ fetching \subseteq subscriptions
    /\ ran /\ ~consumerClosed =>
         \A t \in subscriptions \ fetching :
            pending[t] > 0 \/ \E f \in Loops : topic[f] = t \/ t \in todo[f]

\* A topic registered before the connection is up is fetched in the end, unless
\* the connection is given up, run fails, the service is shut down, or all the
\* attempts for the topic fail, which leaves it on the pending list for good.
EarlyTopicsAreFetched ==
    \A t \in Topics :
        (t \in subscriptions /\ phase = "connect") ~>
            \/ t \in fetching
            \/ [](pending[t] > 0)
            \/ phase = "over" /\ ~consumerRunning
            \/ phase = "givenUp"
            \/ consumerClosed
==============================================================================
