--------------------------- MODULE CircuitBreaker ---------------------------
(***************************************************************************)
(* The circuit breaker of one agent (shared/circuit_breaker.py) and the    *)
(* guard through which every operation of the agent runs                   *)
(* (agents/base_agent.py, _guarded).                                       *)
(*                                                                         *)
(* The breaker's methods hold a lock, so each is one step.  Between        *)
(* is_open and the recording of the outcome the operation awaits, and      *)
(* other calls of the same agent run: a cycle analyses its timeframes      *)
(* concurrently and the gateway serves several cycles at a time.           *)
(*                                                                         *)
(* Two counters are kept only as far as the code can tell their values     *)
(* apart: the failures up to the threshold, and the time since the circuit *)
(* opened up to the recovery timeout.                                      *)
(***************************************************************************)
EXTENDS Integers, FiniteSets

CONSTANTS
    Calls,              \* callers that may run an operation of the agent
    FailureThreshold,   \* failures in a row that trip the circuit
    RecoveryTimeout     \* ticks an open circuit waits for

ASSUME BreakerAssumption ==
    /\ FailureThreshold \in Nat \ {0}
    /\ RecoveryTimeout \in Nat \ {0}

VARIABLES
    state,      \* the breaker's state
    failures,   \* failures since the last success
    openFor,    \* time since the circuit opened, Unset when it has not
    calls       \* per caller, the state its operation was admitted in

vars == << state, failures, openFor, calls >>

Unset == -1
Idle == "idle"

TypeOK ==
    /\ state \in {"closed", "open", "half_open"}
    /\ failures \in 0 .. FailureThreshold
    /\ openFor \in {Unset} \cup 0 .. RecoveryTimeout
    /\ calls \in [Calls -> {Idle, "closed", "half_open"}]

Init ==
    /\ state = "closed"
    /\ failures = 0
    /\ openFor = Unset
    /\ calls = [c \in Calls |-> Idle]

----------------------------------------------------------------------------
\* Mutant: an open circuit stays open.
ObservedNever == state

\* The state property: an open circuit is promoted once its time is over.
Observed ==
    IF state = "open" /\ openFor = RecoveryTimeout THEN "half_open" ELSE state

\* Mutant: an open circuit refuses nobody.
BeginUnguarded(c) ==
    /\ calls[c] = Idle
    /\ state' = Observed
    /\ calls' = [calls EXCEPT ![c] = Observed]
    /\ UNCHANGED << failures, openFor >>

\* _guarded up to its await: refused, or running the operation.
Begin(c) ==
    /\ calls[c] = Idle
    /\ state' = Observed
    /\ calls' = IF Observed = "open" THEN calls ELSE [calls EXCEPT ![c] = Observed]
    /\ UNCHANGED << failures, openFor >>

\* Mutant: a success resets the count and leaves a tripped circuit tripped.
RecordSuccessCountOnly ==
    /\ failures' = 0
    /\ UNCHANGED << state, openFor >>

RecordSuccess ==
    /\ failures' = 0
    /\ state' = "closed"
    /\ openFor' = Unset

RecordFailure ==
    /\ failures' = IF failures < FailureThreshold THEN failures + 1 ELSE failures
    /\ IF failures' = FailureThreshold
       THEN state' = "open" /\ openFor' = 0
       ELSE UNCHANGED << state, openFor >>

Running(c) == calls[c] # Idle
Return(c) == calls' = [calls EXCEPT ![c] = Idle]

\* The operation returned, and what it returned is of the expected type.
Succeed(c) ==
    /\ Running(c)
    /\ RecordSuccess
    /\ Return(c)

\* The operation raised, or what it returned is not of the expected type.
Fail(c) ==
    /\ Running(c)
    /\ RecordFailure
    /\ Return(c)

Tick ==
    /\ openFor \in 0 .. RecoveryTimeout - 1
    /\ openFor' = openFor + 1
    /\ UNCHANGED << state, failures, calls >>

Next ==
    \/ \E c \in Calls : Begin(c) \/ Succeed(c) \/ Fail(c)
    \/ Tick

Spec == Init /\ [][Next]_vars

\* Operations end, the agent goes on being called, and time goes on.
Fairness ==
    /\ WF_vars(Tick)
    /\ \A c \in Calls : WF_vars(Begin(c)) /\ WF_vars(Succeed(c) \/ Fail(c))

FairSpec == Spec /\ Fairness

----------------------------------------------------------------------------
(* Properties *)

\* However calls overlap, the three fields agree: a closed circuit is below the
\* threshold and has no time of opening, and any other has reached it and has
\* one; a half-open circuit has waited for its whole timeout (record_success,
\* record_failure, state).
FieldsAgree ==
    /\ state = "closed" <=> failures < FailureThreshold
    /\ state = "closed" <=> openFor = Unset
    /\ state = "half_open" => openFor = RecoveryTimeout

\* An open circuit opens again only after the recovery timeout
\* (circuit_breaker.py, lines 9 to 10).
OpenWaitsForRecovery ==
    [][state = "open" /\ state' # "open" => openFor = RecoveryTimeout]_vars

\* While the circuit is half open one probe runs, and what it returns decides
\* (circuit_breaker.py, lines 11 to 12).
OneProbe ==
    state = "half_open" => Cardinality({c \in Calls : calls[c] = "half_open"}) <= 1

\* An open circuit does not stay open: late failures of calls admitted earlier
\* may start the wait again, but only finitely often (state, _guarded).
OpenEnds == state = "open" ~> state # "open"

\* An agent that stops failing is served again, with nobody resetting the
\* breaker: from some point on the circuit is closed (record_success).
Heals ==
    <>[][\A c \in Calls : ~Fail(c)]_vars => <>[](state = "closed")
=============================================================================
