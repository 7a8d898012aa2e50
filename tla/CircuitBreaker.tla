--------------------------- MODULE CircuitBreaker ----------------------------
(***************************************************************************)
(* The circuit breaker in front of a provider, and the decorators that ask *)
(* it before a call and report to it afterwards.  Sessions share a circuit *)
(* and call concurrently; a dropped call (barge-in, cancellation) reports  *)
(* nothing.  RetryingStt and RetryingLlm make one attempt, RetryingTts up  *)
(* to MaxAttempts with one question to the circuit.                        *)
(***************************************************************************)
EXTENDS Naturals

CONSTANTS
    Callers,       \* concurrent calls
    Threshold,     \* failure_threshold (5)
    OpenTicks,     \* open_duration (60 s), in ticks
    ProbeTicks,    \* half_open_probe_gap (15 s), in ticks
    MaxAttempts    \* RetryConfig.max_attempts (1, or 2 for speech)

ASSUME CircuitAssumption ==
    {Threshold, OpenTicks, ProbeTicks, MaxAttempts} \subseteq Nat \ {0}

VARIABLES
    state,     \* CircuitBreaker.state
    failures,  \* of Closed
    timer,     \* ticks until `until`, or until the next probe may go
    caller,    \* caller |-> attempts made, 0 when it has no call under way
    provider,  \* "up" when it answers
    streak     \* failures recorded since the last success, up to Threshold

circuitVars == <<state, failures, timer, caller, provider, streak>>

TimerMax == IF OpenTicks > ProbeTicks THEN OpenTicks ELSE ProbeTicks

CircuitTypeOK ==
    /\ state \in {"closed", "open", "half open"}
    /\ failures \in 0..(Threshold - 1)
    /\ timer \in 0..TimerMax
    /\ caller \in [Callers -> 0..MaxAttempts]
    /\ provider \in {"up", "down"}
    /\ streak \in 0..Threshold

CircuitInit ==
    /\ state = "closed" /\ failures = 0 /\ timer = 0
    /\ caller = [c \in Callers |-> 0]
    /\ provider \in {"up", "down"} /\ streak = 0

\* Faulty variant: a rejected caller counts as a probe.
CanCallRestartsGap(admit) ==
    \/ state = "closed" /\ admit /\ UNCHANGED <<state, timer>>
    \/ state # "closed" /\ timer = 0 /\ admit /\ state' = "half open" /\ timer' = ProbeTicks
    \/ state = "open" /\ timer > 0 /\ ~admit /\ UNCHANGED <<state, timer>>
    \/ state = "half open" /\ timer > 0 /\ ~admit /\ timer' = ProbeTicks /\ UNCHANGED state

\* can_call: the caller that finds the time over is admitted as the probe and
\* starts the gap to the next one.
CanCall(admit) ==
    \/ state = "closed" /\ admit /\ UNCHANGED <<state, timer>>
    \/ state # "closed" /\ timer = 0 /\ admit /\ state' = "half open" /\ timer' = ProbeTicks
    \/ state # "closed" /\ timer > 0 /\ ~admit /\ UNCHANGED <<state, timer>>

\* record_success: closes the circuit, whenever the call was admitted.
RecordSuccess ==
    /\ state' = "closed" /\ failures' = 0 /\ timer' = 0
    /\ streak' = 0

Trip == state' = "open" /\ timer' = OpenTicks /\ failures' = 0

\* Faulty variant: a closed circuit opens one failure too early.
RecordFailureEarly ==
    /\ streak' = IF streak < Threshold THEN streak + 1 ELSE streak
    /\ \/ state = "closed" /\ failures + 2 >= Threshold /\ Trip
       \/ state = "closed" /\ failures + 2 < Threshold
          /\ failures' = failures + 1 /\ UNCHANGED <<state, timer>>
       \/ state = "half open" /\ Trip
       \/ state = "open" /\ UNCHANGED <<state, failures, timer>>

\* record_failure, of whatever call: a half-open circuit opens again, also for
\* a failure that is not the probe's; an open one keeps its `until`.
RecordFailure ==
    /\ streak' = IF streak < Threshold THEN streak + 1 ELSE streak
    /\ \/ state = "closed" /\ failures + 1 >= Threshold /\ Trip
       \/ state = "closed" /\ failures + 1 < Threshold
          /\ failures' = failures + 1 /\ UNCHANGED <<state, timer>>
       \/ state = "half open" /\ Trip
       \/ state = "open" /\ UNCHANGED <<state, failures, timer>>

\* A caller asks, once, before its first attempt.
Ask(c) ==
    /\ caller[c] = 0
    /\ \E admit \in BOOLEAN :
          CanCall(admit) /\ caller' = [caller EXCEPT ![c] = IF admit THEN 1 ELSE 0]
    /\ UNCHANGED <<failures, provider, streak>>

\* The outcomes of an attempt: only a healthy provider succeeds.
Succeed(c) ==
    /\ caller[c] > 0 /\ provider = "up"
    /\ RecordSuccess
    /\ caller' = [caller EXCEPT ![c] = 0]
    /\ UNCHANGED provider

\* A failure is reported at once; the next attempt, after the backoff, does not
\* ask the circuit again.
Fail(c) ==
    /\ caller[c] > 0 /\ provider = "down"
    /\ RecordFailure
    /\ caller' = [caller EXCEPT ![c] = IF @ < MaxAttempts THEN @ + 1 ELSE 0]
    /\ UNCHANGED provider

\* The future of a call is dropped: no report, not even of a probe.
Drop(c) ==
    /\ caller[c] > 0
    /\ caller' = [caller EXCEPT ![c] = 0]
    /\ UNCHANGED <<state, failures, timer, provider, streak>>

CircuitTick ==
    /\ timer > 0 /\ timer' = timer - 1
    /\ UNCHANGED <<state, failures, caller, provider, streak>>

Change ==
    /\ provider' \in {"up", "down"} \ {provider}
    /\ UNCHANGED <<state, failures, timer, caller, streak>>

CircuitNext ==
    \/ \E c \in Callers : Ask(c) \/ Succeed(c) \/ Fail(c) \/ Drop(c)
    \/ CircuitTick \/ Change

\* Questions keep coming, attempts come to an end, and not every call of a
\* healthy provider is dropped.
CircuitFairness ==
    /\ WF_circuitVars(CircuitTick)
    /\ \A c \in Callers :
          /\ SF_circuitVars(Ask(c) /\ caller'[c] = 1) /\ SF_circuitVars(Succeed(c))
          /\ WF_circuitVars(Succeed(c) \/ Fail(c) \/ Drop(c))

CircuitSpec == CircuitInit /\ [][CircuitNext]_circuitVars /\ CircuitFairness

-----------------------------------------------------------------------------
(* Properties *)

\* The circuit leaves Closed only for as many failures as the threshold says,
\* with no success recorded between them, however the reports of concurrent
\* calls interleave; while it is closed it counts every one (record_failure).
\* No time enters it: the failures may be hours apart, the "rolling window" of
\* circuit.rs:6 is not in the code.
OpensOnlyForAStreak ==
    IF state = "closed" THEN failures = streak /\ streak < Threshold
                        ELSE streak = Threshold

\* When the provider stays up again, the circuit closes: rejected callers,
\* dropped probes and late failures do not keep it from the probe that does it
\* (can_call, record_failure).
RecoveredProviderIsUsedAgain ==
    <>[](provider = "up") => <>[](state = "closed")
=============================================================================
