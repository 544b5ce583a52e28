--------------------------- MODULE CircuitBreaker ---------------------------
(***************************************************************************)
(* The circuit breaker in front of the database writes                     *)
(* (backend/core/circuit_breaker.py).  Every method runs under one         *)
(* asyncio.Lock, so each is an atomic step.  The clock is abstracted: the  *)
(* recovery timeout of an open breaker may have elapsed at any call.       *)
(***************************************************************************)
EXTENDS Naturals

CONSTANTS
    FailureThreshold,   \* failures in a row that open the breaker
    MaxFailures         \* bound: the failure counter saturates here

ASSUME ThresholdAssumption ==
    /\ FailureThreshold \in Nat \ {0}
    /\ MaxFailures \in Nat
    /\ FailureThreshold <= MaxFailures

VARIABLES
    circuit,            \* CircuitBreaker.state
    failures            \* CircuitBreaker.failures

breakerVars == <<circuit, failures>>

CircuitState == {"closed", "open", "half_open"}

BreakerTypeOK ==
    /\ circuit \in CircuitState
    /\ failures \in 0 .. MaxFailures

BreakerInit ==
    /\ circuit = "closed"
    /\ failures = 0

\* call_succeeded: one success closes the breaker and forgets the failures.
CallSucceeded ==
    /\ circuit' = "closed"
    /\ failures' = 0

\* call_failed: count, and open at the threshold.
CallFailed ==
    /\ failures' = IF failures < MaxFailures THEN failures + 1 ELSE failures
    /\ circuit' = IF failures + 1 >= FailureThreshold THEN "open" ELSE circuit

\* Seeded fault: a half-open breaker starts counting from zero.
CanExecuteForgets ==
    /\ circuit' = IF circuit = "open" THEN "half_open" ELSE circuit
    /\ failures' = IF circuit = "open" THEN 0 ELSE failures

\* can_execute answering True.  An open breaker answers so once the recovery
\* timeout elapsed, and turns half-open; the False answer changes nothing.
\* `failures` is left alone: it is only reset by a success.
CanExecute ==
    /\ circuit' = IF circuit = "open" THEN "half_open" ELSE circuit
    /\ UNCHANGED failures

\* A restarted process builds a new breaker.
BreakerReset ==
    /\ circuit' = "closed"
    /\ failures' = 0

(***************************************************************************)
(* A half-open breaker is on probation: it still remembers a full set of   *)
(* failures, so the very next failed write opens it again.  It is broken   *)
(* if the transition to half-open forgets the failures.                    *)
(***************************************************************************)
HalfOpenIsOneFailureFromOpen ==
    circuit = "half_open" => failures >= FailureThreshold
=============================================================================
