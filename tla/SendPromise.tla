----------------------------- MODULE SendPromise ------------------------------
(***************************************************************************)
(* What sendMessage of the Kafka producer promises to its callers, however *)
(* its connection comes and goes: a bounded number of attempts, each of    *)
(* which stores the message at most once, and a normal return only for an  *)
(* attempt that stored it.  An error says nothing: the message may have    *)
(* been stored, and more than once.                                        *)
(*                                                                         *)
(* Module BookingRequests takes the producer to be this much; module       *)
(* KafkaProducer is how it is done.                                        *)
(***************************************************************************)
EXTENDS Naturals

CONSTANTS Messages, MaxSends

VARIABLES
    client,   \* client[m]: what its sender knows of m
    sends,    \* sends[m]: attempts made for m
    copies    \* copies[m]: records of m that the broker has stored

Init ==
    /\ client = [m \in Messages |-> "new"]
    /\ sends = [m \in Messages |-> 0]
    /\ copies = [m \in Messages |-> 0]

\* There is a connection for m, or the call fails before any attempt.
Post(m) ==
    /\ client[m] = "new"
    /\ \E c \in {"sending", "failed"} : client' = [client EXCEPT ![m] = c]
    /\ UNCHANGED <<sends, copies>>

\* An attempt succeeds, or fails and is not the last, or is the last.
Send(m) ==
    /\ client[m] = "sending"
    /\ sends' = [sends EXCEPT ![m] = @ + 1]
    /\ \/ client' = [client EXCEPT ![m] = "accepted"]
       \/ sends'[m] < MaxSends /\ UNCHANGED client
       \/ sends'[m] = MaxSends /\ client' = [client EXCEPT ![m] = "failed"]
    /\ \/ copies' = [copies EXCEPT ![m] = @ + 1]
       \/ client'[m] # "accepted" /\ UNCHANGED copies

Next == \E m \in Messages : Post(m) \/ Send(m)

Spec == Init /\ [][Next]_<<client, sends, copies>>
==============================================================================
