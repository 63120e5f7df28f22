------------------------ MODULE RetryService_proofs ------------------------
(***************************************************************************)
(* Theorems about RetryService, for any finite number of callers, any      *)
(* retry policy and all limits.  The calls only use the breaker as         *)
(* CircuitBreaker allows, so that what is proved of the breaker alone      *)
(* holds of the one that they share; the rest is an induction over the     *)
(* calls, in which the breaker's failure count is held against the         *)
(* attempts of the call that alone is to blame for it.                     *)
(***************************************************************************)
EXTENDS RetryService, TLAPS

BreakerProofs == INSTANCE CircuitBreaker_proofs

\* The parameters that _get_circuit_breaker chooses are such as the breaker requires.
LEMMA BreakerAssumptions ==
    BreakerProofs!CallersAssumption /\ BreakerProofs!LimitsAssumption
  BY CallersAssumption, LimitsAssumption
     DEF FailureThreshold, IsFiniteSet, BreakerProofs!IsFiniteSet,
         BreakerProofs!CallersAssumption, BreakerProofs!LimitsAssumption

-----------------------------------------------------------------------------
\* Each step of a call is one of the breaker's, or leaves the breaker alone.
LEMMA StepOfBreaker == [Next]_vars => [Breaker!Next]_breakerVars
<1> SUFFICES ASSUME Next PROVE Breaker!Next \/ UNCHANGED breakerVars
  BY DEF vars
<1>1. ASSUME NEW c \in Callers, Call(c) \/ BlockedByBreaker(c) \/ CancelBackoff(c)
      PROVE  UNCHANGED breakerVars
  BY <1>1 DEF Call, BlockedByBreaker, CancelBackoff
<1>2. ASSUME NEW c \in Callers, Send(c)
      PROVE  Breaker!Admit(c)
  BY <1>2 DEF Send
<1>3. ASSUME NEW c \in Callers,
             Succeed(c) \/ (\E error \in Errors : Fail(c, error))
      PROVE  Breaker!Report(c)
  BY <1>3 DEF Succeed, Fail, Breaker!Report
<1>4. ASSUME NEW c \in Callers, CancelSending(c)
      PROVE  Breaker!Cancel(c)
  BY <1>4 DEF CancelSending
<1>5. Tick => Breaker!Tick
  BY DEF Tick
<1> QED BY <1>1, <1>2, <1>3, <1>4, <1>5 DEF Next, Step, Breaker!Next

\* The calls, seen through the breaker, implement its specification: every request is
\* admitted by allow_request, and reports at most once.
THEOREM CallsUseBreaker == Spec => BreakerSpec
<1>1. Init => Breaker!Init
  BY DEF Init
<1> QED BY <1>1, StepOfBreaker, PTL DEF Spec, BreakerSpec

\* The steps of the breaker in this module are those that CircuitBreaker_proofs is about.
LEMMA SameBreaker ==
    /\ Breaker!Init => BreakerProofs!Init
    /\ [Breaker!Next]_breakerVars => [BreakerProofs!Next]_(BreakerProofs!breakerVars)
    /\ BreakerProofs!TypeOK => Breaker!TypeOK
    /\ BreakerProofs!ClosedBelowThreshold => Breaker!ClosedBelowThreshold
    /\ BreakerProofs!SlotsAccounted => Breaker!SlotsAccounted
<1>1. Breaker!Init => BreakerProofs!Init
  BY DEF Breaker!Init, BreakerProofs!Init
<1>2. ASSUME NEW c \in Callers, Breaker!Admit(c) PROVE BreakerProofs!Admit(c)
  BY <1>2
     DEF Breaker!Admit, Breaker!AdmitClosed, Breaker!AdmitFirstProbe,
         Breaker!AdmitProbe, Breaker!TransitionTo,
         BreakerProofs!Admit, BreakerProofs!AdmitClosed, BreakerProofs!AdmitFirstProbe,
         BreakerProofs!AdmitProbe, BreakerProofs!TransitionTo
<1>3. ASSUME NEW c \in Callers, Breaker!Report(c) PROVE BreakerProofs!Report(c)
  BY <1>3
     DEF Breaker!Report, Breaker!RecordSuccess, Breaker!RecordFailure,
         Breaker!TransitionTo, Breaker!Saturated,
         BreakerProofs!Report, BreakerProofs!RecordSuccess, BreakerProofs!RecordFailure,
         BreakerProofs!TransitionTo, BreakerProofs!Saturated
<1>4. ASSUME NEW c \in Callers, Breaker!Cancel(c) PROVE BreakerProofs!Cancel(c)
  BY <1>4 DEF Breaker!Cancel, BreakerProofs!Cancel
<1>5. Breaker!Reset \/ Breaker!Tick => BreakerProofs!Reset \/ BreakerProofs!Tick
  BY DEF Breaker!Reset, Breaker!Tick, Breaker!TransitionTo,
         BreakerProofs!Reset, BreakerProofs!Tick, BreakerProofs!TransitionTo
<1>6. UNCHANGED breakerVars => UNCHANGED BreakerProofs!breakerVars
  BY DEF breakerVars, BreakerProofs!breakerVars
<1>7. Breaker!Next => BreakerProofs!Next
  BY <1>2, <1>3, <1>4, <1>5 DEF Breaker!Next, BreakerProofs!Next
<1>8. BreakerProofs!TypeOK => Breaker!TypeOK
  BY DEF BreakerProofs!TypeOK, Breaker!TypeOK
<1>9. BreakerProofs!ClosedBelowThreshold => Breaker!ClosedBelowThreshold
  BY DEF BreakerProofs!ClosedBelowThreshold, Breaker!ClosedBelowThreshold
<1>10. BreakerProofs!SlotsAccounted => Breaker!SlotsAccounted
  BY DEF BreakerProofs!SlotsAccounted, Breaker!SlotsAccounted,
         BreakerProofs!Cardinality, Breaker!Cardinality
<1> QED BY <1>1, <1>6, <1>7, <1>8, <1>9, <1>10

\* So the breaker shared by the calls of a service keeps its own invariants.
THEOREM SharedBreaker ==
    Spec => [](Breaker!TypeOK /\ Breaker!ClosedBelowThreshold /\ Breaker!SlotsAccounted)
<1>1. BreakerSpec => BreakerProofs!Spec
  BY SameBreaker, PTL DEF BreakerSpec, BreakerProofs!Spec
<1>2. BreakerProofs!Spec =>
        []BreakerProofs!TypeOK /\ []BreakerProofs!ClosedBelowThreshold
        /\ []BreakerProofs!SlotsAccounted
  BY BreakerAssumptions, BreakerProofs!TypeCorrect, BreakerProofs!ClosedBelow,
     BreakerProofs!SlotAccounting
<1> QED BY <1>1, <1>2, CallsUseBreaker, SameBreaker, PTL

-----------------------------------------------------------------------------
\* The variables of the calls themselves.
CallTypes ==
    /\ pc \in [Callers -> {"idle", "attempt", "sending", "backoff"}]
    /\ attempt \in [Callers -> 0..MaxAttempts]
    /\ answer \in [Callers -> Outcomes]
    /\ blamed \subseteq Callers \cup {"old"}

\* What one call alone can be blamed for is no more than the attempts it has finished,
\* and an unbroken run of failures has someone to blame.
BlameBounded ==
    /\ consecutiveFailures \in Nat
    /\ blamed = {} => consecutiveFailures = 0
    /\ \A c \in Callers :
         /\ pc[c] = "sending" => attempt[c] >= 1
         /\ blamed \subseteq {c} =>
              consecutiveFailures <= attempt[c] - (IF pc[c] = "sending" THEN 1 ELSE 0)

IInv == CallTypes /\ InflightMatchesCalls /\ GivesUpOnlyWhenExhausted /\ BlameBounded

\* The initial state satisfies the invariant.
LEMMA InitInv == Init => IInv
  BY LimitsAssumption
     DEF Init, Breaker!Init, IInv, CallTypes, InflightMatchesCalls,
         GivesUpOnlyWhenExhausted, WorthRetrying, BlameBounded, Outcomes

\* execute() is entered: the caller's last call, if it is to blame, is an old one now.
LEMMA CallInv == ASSUME IInv, NEW c \in Callers, Call(c) PROVE IInv'
<1> USE CallersAssumption, LimitsAssumption
    DEF IInv, CallTypes, Call, breakerVars, Outcomes, Results, Errors
<1>1. CallTypes'
  OBVIOUS
<1>2. InflightMatchesCalls'
  BY DEF InflightMatchesCalls
<1>3. GivesUpOnlyWhenExhausted'
  BY DEF GivesUpOnlyWhenExhausted
<1>4. BlameBounded'
  BY DEF BlameBounded
<1> QED BY <1>1, <1>2, <1>3, <1>4

\* An attempt is counted when it starts, and its failure when it ends.
LEMMA SendInv == ASSUME IInv, NEW c \in Callers, Send(c) PROVE IInv'
<1> USE CallersAssumption, LimitsAssumption
    DEF IInv, CallTypes, Send, AttemptsLeft, Breaker!Admit
<1>1. CallTypes'
  OBVIOUS
<1>2. InflightMatchesCalls'
  BY DEF InflightMatchesCalls
<1>3. GivesUpOnlyWhenExhausted'
  BY DEF GivesUpOnlyWhenExhausted
<1>4. BlameBounded'
  BY DEF BlameBounded
<1> QED BY <1>1, <1>2, <1>3, <1>4

\* The breaker refuses, and the call ends without another attempt.
LEMMA BlockedInv == ASSUME IInv, NEW c \in Callers, BlockedByBreaker(c) PROVE IInv'
<1> USE DEF IInv, CallTypes, BlockedByBreaker, End, breakerVars, Outcomes
<1>1. CallTypes'
  OBVIOUS
<1>2. InflightMatchesCalls'
  BY DEF InflightMatchesCalls
<1>3. GivesUpOnlyWhenExhausted'
  BY DEF GivesUpOnlyWhenExhausted, WorthRetrying
<1>4. BlameBounded'
  BY DEF BlameBounded
<1> QED BY <1>1, <1>2, <1>3, <1>4

\* A success ends the run of failures.
LEMMA SucceedInv == ASSUME IInv, NEW c \in Callers, Succeed(c) PROVE IInv'
<1> USE LimitsAssumption
    DEF IInv, CallTypes, Succeed, End, Breaker!RecordSuccess, Outcomes, Results
<1>1. CallTypes'
  OBVIOUS
<1>2. InflightMatchesCalls'
  BY DEF InflightMatchesCalls
<1>3. GivesUpOnlyWhenExhausted'
  BY DEF GivesUpOnlyWhenExhausted, WorthRetrying
<1>4. BlameBounded'
  BY DEF BlameBounded
<1> QED BY <1>1, <1>2, <1>3, <1>4

\* A failure adds one to the count and its call to those to blame; the call goes on
\* only if the error is retryable and it has attempts left.
LEMMA FailInv ==
    ASSUME IInv, NEW c \in Callers, NEW error \in Errors, Fail(c, error) PROVE IInv'
<1> USE DEF IInv, CallTypes
<1>1. /\ inflight' = inflight \ {c}
      /\ consecutiveFailures' \in Nat
      /\ consecutiveFailures' <= consecutiveFailures + 1
  BY LimitsAssumption
     DEF BlameBounded, Fail, Breaker!RecordFailure, Breaker!Saturated, FailureThreshold
<1>2. /\ pc[c] = "sending"
      /\ blamed' = blamed \cup {c}
      /\ attempt' = attempt
      /\ \/ /\ Retryable(c, error) /\ AttemptsLeft(c)
            /\ pc' = [pc EXCEPT ![c] = "backoff"]
         \/ /\ ~(Retryable(c, error) /\ AttemptsLeft(c))
            /\ pc' = [pc EXCEPT ![c] = "idle"]
      /\ answer' = [answer EXCEPT ![c] = error]
  BY DEF Fail, End
<1>3. CallTypes'
  BY <1>2 DEF Outcomes, Results
<1>4. InflightMatchesCalls'
  BY <1>1, <1>2 DEF InflightMatchesCalls
<1>5. GivesUpOnlyWhenExhausted'
  BY <1>2, LimitsAssumption
     DEF GivesUpOnlyWhenExhausted, WorthRetrying, Errors, AttemptsLeft, Retryable,
         RetryableStatus, RetryableExceptions, MatchesPattern
<1>6. BlameBounded'
  <2>1. \A d \in Callers : pc'[d] = "sending" => pc[d] = "sending" /\ attempt[d] >= 1
    BY <1>2 DEF BlameBounded
  <2>2. blamed' # {}
    BY <1>2
  <2>3. ASSUME NEW d \in Callers, blamed' \subseteq {d}
        PROVE  consecutiveFailures' <= attempt'[d] - (IF pc'[d] = "sending" THEN 1 ELSE 0)
    <3>1. d = c /\ blamed \subseteq {c} /\ pc'[c] # "sending"
      BY <1>2, <2>3
    <3>2. consecutiveFailures <= attempt[c] - 1
      BY <1>2, <3>1 DEF BlameBounded
    <3> QED BY <1>1, <1>2, <3>1, <3>2, LimitsAssumption DEF BlameBounded
  <2> QED BY <1>1, <1>2, <2>1, <2>2, <2>3 DEF BlameBounded
<1> QED BY <1>3, <1>4, <1>5, <1>6

\* A cancelled attempt counts as made, but not as failed.
LEMMA CancelInv ==
    ASSUME IInv, NEW c \in Callers, CancelSending(c) \/ CancelBackoff(c) PROVE IInv'
<1> USE LimitsAssumption
    DEF IInv, CallTypes, CancelSending, CancelBackoff, End, Breaker!Cancel, breakerVars,
        Outcomes
<1>1. CallTypes'
  OBVIOUS
<1>2. InflightMatchesCalls'
  BY DEF InflightMatchesCalls
<1>3. GivesUpOnlyWhenExhausted'
  BY DEF GivesUpOnlyWhenExhausted, WorthRetrying
<1>4. BlameBounded'
  BY DEF BlameBounded
<1> QED BY <1>1, <1>2, <1>3, <1>4

\* The invariant is inductive.
LEMMA StepInv == IInv /\ [Next]_vars => IInv'
<1> SUFFICES ASSUME IInv, [Next]_vars PROVE IInv'
  OBVIOUS
<1>1. ASSUME NEW c \in Callers, Call(c) \/ Step(c) \/ CancelSending(c) \/ CancelBackoff(c)
      PROVE  IInv'
  BY <1>1, CallInv, SendInv, BlockedInv, SucceedInv, FailInv, CancelInv DEF Step
<1>2. CASE Tick \/ UNCHANGED vars
  BY <1>2
     DEF Tick, Breaker!Tick, vars, breakerVars, IInv, CallTypes, InflightMatchesCalls,
         GivesUpOnlyWhenExhausted, BlameBounded
<1> QED BY <1>1, <1>2 DEF Next

\* The invariant holds in every reachable state.
THEOREM Invariance == Spec => []IInv
<1> QED BY InitInv, StepInv, PTL DEF Spec

\* The type invariant, the breaker's included: no call makes more than HTTP_MAX_RETRIES
\* attempts.
THEOREM TypeCorrect == Spec => []TypeOK
<1>1. Breaker!TypeOK /\ IInv => TypeOK
  BY DEF IInv, CallTypes, TypeOK
<1> QED BY <1>1, SharedBreaker, Invariance, PTL

\* The breaker waits for exactly the requests that the calls wait for: none of them is
\* forgotten or counted twice, whatever is cancelled.
THEOREM InflightCorrect == Spec => []InflightMatchesCalls
<1>1. IInv => InflightMatchesCalls
  BY DEF IInv
<1> QED BY <1>1, Invariance, PTL

\* An error that is worth retrying is raised only after the last attempt, and only such an
\* error is retried: the order of the checks of _evaluate_retry lets none slip through.
THEOREM GivesUpCorrect == Spec => []GivesUpOnlyWhenExhausted
<1>1. IInv => GivesUpOnlyWhenExhausted
  BY DEF IInv
<1> QED BY <1>1, Invariance, PTL

\* The attempts of one call, however many HTTP_MAX_RETRIES allows, do not open a closed
\* breaker: it takes failures of another call too.
THEOREM OneCallCannot == Spec => OneCallCannotTrip
<1> DEFINE Shared == \E b1, b2 \in blamed' : b1 # b2
<1>1. IInv /\ [Next]_vars => (state = "CLOSED" /\ state' = "OPEN" => Shared)
  <2> SUFFICES ASSUME IInv, [Next]_vars, state = "CLOSED", state' = "OPEN"
               PROVE  Shared
    OBVIOUS
  <2>1. PICK c \in Callers : \E error \in Errors : Fail(c, error)
    BY DEF Next, vars, breakerVars, Call, Step, Send, BlockedByBreaker, Succeed,
           CancelSending, CancelBackoff, Tick, Breaker!Admit, Breaker!AdmitClosed,
           Breaker!AdmitFirstProbe, Breaker!AdmitProbe, Breaker!RecordSuccess,
           Breaker!Cancel, Breaker!Tick
  <2>2. /\ pc[c] = "sending"
        /\ consecutiveFailures + 1 >= MaxAttempts + 2
        /\ blamed' = blamed \cup {c}
    BY <2>1 DEF Fail, Breaker!RecordFailure, FailureThreshold
  <2>3. ~(blamed \subseteq {c})
    BY <2>2, LimitsAssumption DEF IInv, CallTypes, BlameBounded
  <2> QED BY <2>2, <2>3
<1> QED BY <1>1, Invariance, PTL DEF Spec, OneCallCannotTrip
=============================================================================
