------------------------ MODULE CircuitBreakerProofs ------------------------
(***************************************************************************)
(* Proofs about CircuitBreaker, for any number of callers, any threshold   *)
(* and any timeout.                                                        *)
(***************************************************************************)
EXTENDS CircuitBreaker, TLAPS

USE BreakerAssumption

\* The types and the agreement of the fields are inductive together.
IInv == TypeOK /\ FieldsAgree

\* A new breaker is closed and has counted nothing (__init__).
LEMMA InitHolds == Init => IInv
BY DEF Init, IInv, TypeOK, FieldsAgree, Unset, Idle

\* A call that begins promotes the circuit or leaves it alone (_guarded).
LEMMA BeginKeeps == ASSUME NEW c \in Calls, IInv, Begin(c) PROVE IInv'
<1>1. Observed \in {"closed", "open", "half_open"}
  BY DEF IInv, TypeOK, Observed
<1>2. TypeOK'
  BY <1>1 DEF IInv, TypeOK, Begin, Idle
<1>3. FieldsAgree'
  BY DEF IInv, TypeOK, FieldsAgree, Begin, Observed, Unset
<1> QED BY <1>2, <1>3 DEF IInv

\* A success closes the circuit whatever state it is in (record_success).
LEMMA SucceedKeeps == ASSUME NEW c \in Calls, IInv, Succeed(c) PROVE IInv'
<1>1. TypeOK'
  BY DEF IInv, TypeOK, Succeed, RecordSuccess, Return, Unset, Idle
<1>2. FieldsAgree'
  BY DEF FieldsAgree, Succeed, RecordSuccess, Unset
<1> QED BY <1>1, <1>2 DEF IInv

\* A failure counts, and opens the circuit at the threshold (record_failure).
LEMMA FailKeeps == ASSUME NEW c \in Calls, IInv, Fail(c) PROVE IInv'
<1>1. failures' \in 0 .. FailureThreshold
  BY DEF IInv, TypeOK, Fail, RecordFailure
<1>2. TypeOK'
  BY <1>1 DEF IInv, TypeOK, Fail, RecordFailure, Return, Idle
<1>3. CASE failures' = FailureThreshold
  <2>1. state' = "open" /\ openFor' = 0
    BY <1>3 DEF Fail, RecordFailure
  <2> QED BY <2>1, <1>2, <1>3 DEF IInv, FieldsAgree, Unset
<1>4. CASE failures' # FailureThreshold
  <2>1. failures < FailureThreshold /\ failures' < FailureThreshold
    BY <1>1, <1>4 DEF IInv, TypeOK, Fail, RecordFailure
  <2>2. UNCHANGED << state, openFor >>
    BY <1>4 DEF Fail, RecordFailure
  <2> QED BY <2>1, <2>2, <1>2 DEF IInv, FieldsAgree
<1> QED BY <1>3, <1>4

\* Time passes for a circuit that has opened.
LEMMA TickKeeps == ASSUME IInv, Tick PROVE IInv'
<1>1. openFor \in 0 .. RecoveryTimeout - 1 /\ openFor' \in 0 .. RecoveryTimeout
  BY DEF Tick
<1>2. TypeOK'
  BY <1>1 DEF IInv, TypeOK, Tick
<1>3. state = "open"
  BY <1>1 DEF IInv, TypeOK, FieldsAgree, Unset
<1>4. FieldsAgree'
  BY <1>1, <1>3 DEF IInv, TypeOK, FieldsAgree, Tick, Unset
<1> QED BY <1>2, <1>4 DEF IInv

LEMMA NextKeeps == IInv /\ [Next]_vars => IInv'
<1> SUFFICES ASSUME IInv, [Next]_vars PROVE IInv'
  OBVIOUS
<1>1. CASE UNCHANGED vars
  BY <1>1 DEF vars, IInv, TypeOK, FieldsAgree
<1>2. CASE Next
  BY <1>2, BeginKeeps, SucceedKeeps, FailKeeps, TickKeeps DEF Next
<1> QED BY <1>1, <1>2

\* The invariant holds of every behaviour.
THEOREM BreakerInvariant == Spec => []IInv
<1> QED BY InitHolds, NextKeeps, PTL DEF Spec

\* Type correctness of the breaker and of the calls in flight.
THEOREM BreakerTypeCorrect == Spec => []TypeOK
<1>1. IInv => TypeOK
  BY DEF IInv
<1> QED BY BreakerInvariant, <1>1, PTL

\* Whatever calls overlap, the breaker's fields never contradict each other:
\* it is closed exactly below the threshold, and half open only after the wait.
THEOREM BreakerFieldsAgree == Spec => []FieldsAgree
<1>1. IInv => FieldsAgree
  BY DEF IInv
<1> QED BY BreakerInvariant, <1>1, PTL

----------------------------------------------------------------------------
\* With a single caller, nothing runs while the circuit is open: the call that
\* tripped it has returned, and no other was admitted.
Quiet == state = "open" => \A c \in Calls : ~Running(c)

LEMMA QuietInductive ==
    ASSUME NEW only, Calls = {only}
    PROVE  IInv /\ Quiet /\ [Next]_vars => Quiet'
<1> SUFFICES ASSUME IInv, Quiet, [Next]_vars, state' = "open"
             PROVE  ~Running(only)'
  BY DEF Quiet
<1>1. CASE Begin(only)
  BY <1>1 DEF IInv, TypeOK, Begin, Running
<1>2. CASE Succeed(only) \/ Fail(only)
  BY <1>2 DEF IInv, TypeOK, Succeed, Fail, Return, Running, Idle
<1>3. CASE Tick \/ UNCHANGED vars
  BY <1>3 DEF Tick, vars, Quiet, Running
<1> QED BY <1>1, <1>2, <1>3 DEF Next

\* As long as the calls of an agent do not overlap, an open circuit waits for
\* the whole recovery timeout, whatever the threshold and the timeout are.
THEOREM SoloWaitsForRecovery ==
    ASSUME NEW CONSTANT only, Calls = {only}
    PROVE  Spec => OpenWaitsForRecovery
<1>1. Init => Quiet
  BY DEF Init, Quiet
<1>2. IInv /\ Quiet /\ [Next]_vars =>
        [state = "open" /\ state' # "open" => openFor = RecoveryTimeout]_vars
  <2> SUFFICES ASSUME IInv, Quiet, Next, state = "open", state' # "open"
               PROVE  openFor = RecoveryTimeout
    BY DEF vars
  <2>1. PICK c \in Calls : Begin(c)
    BY DEF Next, Quiet, Succeed, Fail, Tick
  <2> QED BY <2>1 DEF Begin, Observed
<1> QED BY <1>1, <1>2, QuietInductive, BreakerInvariant, PTL DEF Spec, OpenWaitsForRecovery
=============================================================================
