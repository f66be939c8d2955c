---------------------------- MODULE KafkaProducer -----------------------------
(***************************************************************************)
(* KafkaProducerService: connect with its timers, sendMessage and          *)
(* sendWithRetry.                                                          *)
(*                                                                         *)
(* A message is one call of sendMessage; sender[m] is the await it is in:  *)
(*    "connect"    the connect of sendMessage                              *)
(*    "send"       producer.send, the record on its way to the broker      *)
(*    "refused"    producer.send, which throws at once                     *)
(*    "wait"       the pause before the next attempt                       *)
(*    "reconnect"  the connect of sendWithRetry                            *)
(*    "resolved", "rejected"  how the call ended                           *)
(* Calls of connect that a timer made belong to no message: they are       *)
(* counted in dials, the timers that will make one in timers.  All of them *)
(* share one flag and one counter.  How long a timer runs is left out.     *)
(*                                                                         *)
(* The flag isConnected is the service's opinion of its connection; linked *)
(* is that of kafkajs, which refuses to send while it is not connected.    *)
(* They differ: a connect that fails takes the flag back although another  *)
(* one has succeeded and records are under way, and sendWithRetry sends    *)
(* whatever the flag says.  A record that is under way may be stored and   *)
(* acknowledged whatever becomes of the flag and of the connection.        *)
(***************************************************************************)
EXTENDS KafkaCalls

CONSTANTS
    Messages,            \* calls of sendMessage
    MaxRetries,          \* MAX_RETRIES
    MaxProducerRetries   \* MAX_CONNECTION_RETRIES

ASSUME ProducerAssumption ==
    /\ MaxRetries \in Nat \ {0}
    /\ MaxProducerRetries \in Nat \ {0}

VARIABLES
    producerConnected,  \* isConnected
    linked,             \* kafkajs takes records to send
    producerRetries,    \* connectionRetryCount
    producerClosed,     \* onModuleDestroy was called
    closing,            \* and waits in disconnect
    timers,             \* timers that will call connect
    dials,              \* calls of connect that timers made and that wait
    sender,             \* where each message is
    retryCount,         \* retryCount[m], the argument of sendWithRetry
    copies              \* copies[m]: records of m that the broker has stored

connectionVars == <<producerConnected, linked, producerRetries, producerClosed,
                    closing, timers, dials>>
messageVars    == <<sender, retryCount, copies>>
producerVars   == <<connectionVars, messageVars>>

SenderStates == {"idle", "connect", "send", "refused", "wait", "reconnect",
                 "resolved", "rejected"}

ProducerTypeOK ==
    /\ producerConnected \in BOOLEAN
    /\ linked \in BOOLEAN
    /\ producerRetries \in Nat
    /\ producerClosed \in BOOLEAN
    /\ closing \in BOOLEAN
    /\ timers \in Nat
    /\ dials \in Nat
    /\ sender \in [Messages -> SenderStates]
    /\ retryCount \in [Messages -> 0..MaxRetries]
    /\ copies \in [Messages -> Nat]

\* onModuleInit has set the first timer.
ProducerInit ==
    /\ producerConnected = FALSE
    /\ linked = FALSE
    /\ producerRetries = 0
    /\ producerClosed = FALSE
    /\ closing = FALSE
    /\ timers = 1
    /\ dials = 0
    /\ sender = [m \in Messages |-> "idle"]
    /\ retryCount = [m \in Messages |-> 0]
    /\ copies = [m \in Messages |-> 0]
------------------------------------------------------------------------------
(* connect.                                                                *)

\* producer.connect() returned.
Connected ==
    /\ Answers
    /\ producerConnected' = TRUE
    /\ linked' = TRUE
    /\ producerRetries' = 0

\* producer.connect() threw.  What that leaves of an earlier connection, or of
\* this one, is up to kafkajs.
ConnectFailed ==
    /\ Throws
    /\ producerConnected' = FALSE
    /\ linked' \in BOOLEAN
    /\ producerRetries' = producerRetries + 1

\* The timers that connect sets when it ends.  (Mutant: none once the counter
\* has come to the maximum less one.)
NewTimersMutant ==
    IF ~producerConnected' /\ producerRetries' + 1 < MaxProducerRetries THEN 1 ELSE 0
NewTimers ==
    IF ~producerConnected' /\ producerRetries' < MaxProducerRetries THEN 1 ELSE 0

\* connect ends, in one way or the other.
ConnectEnds ==
    /\ Connected \/ ConnectFailed
    /\ timers' = timers + NewTimers
    /\ UNCHANGED <<producerClosed, closing>>

\* A timer runs out and calls connect.
Dial ==
    /\ timers > 0
    /\ timers' = timers - 1
    /\ dials' = dials + 1
    /\ UNCHANGED <<producerConnected, linked, producerRetries, producerClosed,
                   closing, messageVars, failures>>

\* A call of connect that a timer made ends.
DialEnds ==
    /\ dials > 0
    /\ ConnectEnds
    /\ dials' = dials - 1
    /\ UNCHANGED messageVars

\* onModuleDestroy, once: a producer that the flag calls connected begins to
\* disconnect, and takes no more records.
DestroyProducer ==
    /\ ~producerClosed
    /\ producerClosed' = TRUE
    /\ closing' = producerConnected
    /\ linked' = (linked /\ ~producerConnected)
    /\ UNCHANGED <<producerConnected, producerRetries, timers, dials, messageVars,
                   failures>>

\* producer.disconnect() returns or throws; if it throws the flag stays.
DisconnectEnds ==
    /\ closing
    /\ closing' = FALSE
    /\ \/ Answers /\ producerConnected' = FALSE /\ linked' = FALSE
       \/ Throws /\ UNCHANGED producerConnected /\ linked' \in BOOLEAN
    /\ UNCHANGED <<producerRetries, producerClosed, timers, dials, messageVars>>
------------------------------------------------------------------------------
(* sendMessage and sendWithRetry.                                          *)

SenderGoes(m, state) == sender' = [sender EXCEPT ![m] = state]

\* Where a call of producer.send takes a message: kafkajs takes the record or not.
Sending(taken) == IF taken THEN "send" ELSE "refused"

SendMessage(m) ==
    /\ sender[m] = "idle"
    /\ SenderGoes(m, IF producerConnected THEN Sending(linked) ELSE "connect")
    /\ UNCHANGED <<connectionVars, retryCount, copies, failures>>

\* The connect of sendMessage ends; without a connection the call rejects.
ConnectForMessage(m) ==
    /\ sender[m] = "connect"
    /\ ConnectEnds
    /\ SenderGoes(m, IF producerConnected' THEN Sending(linked') ELSE "rejected")
    /\ UNCHANGED <<dials, retryCount, copies>>

\* The broker stores a record of m.
Store(m) == copies' = [copies EXCEPT ![m] = @ + 1]

\* What follows an attempt that threw.  (Mutants: after the last one the error
\* is logged but not thrown; one attempt more.)
QuietFailureMutant(m) == IF retryCount[m] < MaxRetries THEN "wait" ELSE "resolved"
ExtraAttemptMutant(m) == IF retryCount[m] <= MaxRetries THEN "wait" ELSE "rejected"
AfterFailure(m) == IF retryCount[m] < MaxRetries THEN "wait" ELSE "rejected"

\* producer.send returns; or it throws, when the broker may have the record all
\* the same.
Attempt(m) ==
    /\ sender[m] = "send"
    /\ \/ /\ Answers
          /\ Store(m)
          /\ SenderGoes(m, "resolved")
       \/ /\ Throws
          /\ Store(m) \/ UNCHANGED copies
          /\ SenderGoes(m, AfterFailure(m))
    /\ UNCHANGED <<connectionVars, retryCount>>

\* producer.send throws for want of a connection.
RefusedAttempt(m) ==
    /\ sender[m] = "refused"
    /\ SenderGoes(m, AfterFailure(m))
    /\ UNCHANGED <<connectionVars, retryCount, copies, failures>>

NextAttempt(m, taken) ==
    /\ SenderGoes(m, Sending(taken))
    /\ retryCount' = [retryCount EXCEPT ![m] = @ + 1]

\* The pause is over: the next attempt is made, after a connect if the flag says
\* so.  (Mutant: it waits for somebody else to connect.)
RetryMutant(m) ==
    /\ sender[m] = "wait"
    /\ producerConnected
    /\ NextAttempt(m, linked)
    /\ UNCHANGED <<connectionVars, copies, failures>>
Retry(m) ==
    /\ sender[m] = "wait"
    /\ \/ producerConnected /\ NextAttempt(m, linked)
       \/ ~producerConnected /\ SenderGoes(m, "reconnect") /\ UNCHANGED retryCount
    /\ UNCHANGED <<connectionVars, copies, failures>>

\* The connect of sendWithRetry ends; the next attempt is made in any case.
ReconnectForMessage(m) ==
    /\ sender[m] = "reconnect"
    /\ ConnectEnds
    /\ NextAttempt(m, linked')
    /\ UNCHANGED <<dials, copies>>
------------------------------------------------------------------------------
MessageStep(m) ==
    \/ SendMessage(m) \/ ConnectForMessage(m) \/ Attempt(m) \/ RefusedAttempt(m)
    \/ Retry(m) \/ ReconnectForMessage(m)

ProducerNext ==
    \/ Dial \/ DialEnds \/ DestroyProducer \/ DisconnectEnds
    \/ \E m \in Messages : MessageStep(m)

ProducerSpec == ProducerInit /\ CallsInit /\ [][ProducerNext]_<<producerVars, failures>>

\* Timers run out, and calls of kafkajs end.  Nobody has to send a message.
ProducerFairness ==
    /\ WF_producerVars(Dial)
    /\ WF_producerVars(DialEnds)
    /\ \A m \in Messages : WF_producerVars(sender[m] # "idle" /\ MessageStep(m))
------------------------------------------------------------------------------
\* A producer without a connection is never left to itself: a timer or a call
\* of connect is under way, until the counter that all of them share says that
\* the attempts are used up.  Connects end in any order, and any of them may
\* reset the counter, raise it, or take the flag back from a later one.
NeverIdleDisconnected ==
    \/ producerConnected \/ producerClosed
    \/ timers > 0 \/ dials > 0
    \/ \E m \in Messages : sender[m] \in {"connect", "reconnect"}
    \/ producerRetries >= MaxProducerRetries

\* sendMessage returns normally only if the broker stored the message, and the
\* message is stored at most once for each attempt: at least once, or an error.
ResolvedIsStored ==
    \A m \in Messages :
        /\ sender[m] = "resolved" => copies[m] > 0
        /\ copies[m] <= retryCount[m] + 1

\* However the connects come and go, a call of sendMessage ends.
SendsEnd ==
    \A m \in Messages : sender[m] # "idle" ~> sender[m] \in {"resolved", "rejected"}
------------------------------------------------------------------------------
(* What a caller sees of a message, and the promise that is kept.          *)

ClientOf(m) ==
    CASE sender[m] \in {"idle", "connect"} -> "new"
      [] sender[m] = "resolved"            -> "accepted"
      [] sender[m] = "rejected"            -> "failed"
      [] OTHER                             -> "sending"

\* A call is rejected before the first attempt, or after the last.
AttemptsOf(m) ==
    CASE sender[m] \in {"wait", "reconnect", "resolved"} -> retryCount[m] + 1
      [] sender[m] = "rejected" /\ retryCount[m] = MaxRetries -> retryCount[m] + 1
      [] OTHER -> retryCount[m]

clients == [m \in Messages |-> ClientOf(m)]
tries   == [m \in Messages |-> AttemptsOf(m)]

Promise ==
    INSTANCE SendPromise WITH
        MaxSends <- MaxRetries + 1, client <- clients, sends <- tries

\* The producer with its timers, pauses and connects is what SendPromise says:
\* no attempt too many, none that stores twice, no good news without a record.
PromiseKept == Promise!Spec
==============================================================================
