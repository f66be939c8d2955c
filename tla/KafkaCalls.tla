------------------------------ MODULE KafkaCalls ------------------------------
(***************************************************************************)
(* Calls of kafkajs as its users see them: every await of connect, send,   *)
(* subscribe, run or disconnect ends normally or throws.  The producer and *)
(* the consumer of the service share the broker, and so its failures.      *)
(***************************************************************************)
EXTENDS Naturals

CONSTANT MaxFailures  \* bound of the runs: calls that throw in a behaviour

ASSUME CallsAssumption == MaxFailures \in Nat

VARIABLE failures     \* calls that threw so far

CallsTypeOK == failures \in 0..MaxFailures

CallsInit == failures = 0

Answers == UNCHANGED failures

Throws ==
    /\ failures < MaxFailures
    /\ failures' = failures + 1
==============================================================================
