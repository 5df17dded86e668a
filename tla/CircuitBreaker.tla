--------------------------- MODULE CircuitBreaker ---------------------------
(***************************************************************************)
(* broka.reliability.circuit_breaker.CircuitBreaker and the concurrent     *)
(* callers that run an operation through CircuitBreaker.call.              *)
(*                                                                         *)
(* The critical sections of the breaker hold its asyncio lock but contain  *)
(* no await, so each of them is one atomic step.  What interleaves is what *)
(* a caller does between them: the transition listener awaited by          *)
(* before_call, and the protected operation itself.  A call admitted while *)
(* the circuit was CLOSED may therefore report its outcome when the        *)
(* circuit is HALF_OPEN, which is the hazard the properties are about.     *)
(*                                                                         *)
(* The monotonic clock appears as `age`, the time since `_opened_at`       *)
(* capped at RecoveryTimeout, the only comparison the code makes.          *)
(***************************************************************************)
EXTENDS Integers, Sequences, FiniteSets

CONSTANTS
  Callers,            \* the tasks that call the protected operation
  FailureThreshold,   \* CircuitBreakerConfig.failure_threshold
  RecoveryTimeout,    \* recovery_timeout, in clock ticks
  HalfOpenMaxCalls,   \* half_open_max_calls
  SuccessThreshold,   \* success_threshold
  WindowSize,         \* window_size
  MinimumCalls,       \* minimum_calls
  RatePercent,        \* failure_rate_threshold in percent, NoRate for None
  ListenerMayRaise    \* can the awaited circuit_half_opened listener raise?

NoRate == 101

ASSUME ConfigAssumption ==
  /\ IsFiniteSet(Callers)
  /\ FailureThreshold \in Nat \ {0}
  /\ RecoveryTimeout \in Nat
  /\ HalfOpenMaxCalls \in Nat \ {0}
  /\ SuccessThreshold \in Nat \ {0}
  /\ WindowSize \in Nat \ {0}
  /\ MinimumCalls \in 1..WindowSize
  /\ RatePercent \in 0..NoRate
  /\ ListenerMayRaise \in BOOLEAN

VARIABLES
  circuit,      \* _state
  window,       \* _window: outcomes of the last WindowSize calls, TRUE = success
  consecutive,  \* _consecutive_failures
  age,          \* min(now - _opened_at, RecoveryTimeout); 0 when _opened_at is None
  inflight,     \* _half_open_inflight
  successes,    \* _half_open_successes
  pc,           \* where each caller is in CircuitBreaker.call
  \* What the properties need to know about the current HALF_OPEN period:
  probes,       \* callers admitted as a probe of this period and not finished
  late,         \* outcomes reported in this period by calls that are not its probes
  leaked        \* probes of this period that ended without reporting an outcome

breaker == <<circuit, window, consecutive, age, inflight, successes>>
ghosts == <<probes, late, leaked>>
breakerVars == <<breaker, pc, ghosts>>

States == {"closed", "open", "half_open"}

(* "notifying": in before_call, awaiting the circuit_half_opened listener. *)
(* "running":   awaiting the protected operation.                          *)
Places == {"idle", "notifying", "running"}

-----------------------------------------------------------------------------
(* Helpers of the critical sections.                                       *)

\* deque(maxlen=window_size).append
Push(w, outcome) ==
  IF Len(w) < WindowSize THEN Append(w, outcome) ELSE Append(Tail(w), outcome)

Failures(w) == Cardinality({i \in DOMAIN w : ~w[i]})

\* _should_open_locked
ShouldOpen(w, n) ==
  \/ n >= FailureThreshold
  \/ /\ Len(w) >= MinimumCalls
     /\ 100 * Failures(w) >= RatePercent * Len(w)

\* A new period starts whenever the circuit changes state.
NewPeriod == probes' = {} /\ late' = 0 /\ leaked' = 0

\* _open_locked: neither the window nor the consecutive count is cleared.
Open ==
  /\ circuit' = "open"
  /\ age' = 0
  /\ inflight' = 0
  /\ successes' = 0
  /\ NewPeriod

\* _close_locked
Close ==
  /\ circuit' = "closed"
  /\ age' = 0
  /\ consecutive' = 0
  /\ window' = <<>>
  /\ inflight' = 0
  /\ successes' = 0
  /\ NewPeriod

\* Faulty variant, for mutation: the outcome of a probe frees no slot.
ReturnedNoSlot == inflight

\* max(0, self._half_open_inflight - 1)
ReturnedSlot == IF inflight > 0 THEN inflight - 1 ELSE 0

\* Account the outcome of caller c to the current HALF_OPEN period.
Account(c) ==
  /\ probes' = probes \ {c}
  /\ late' = IF c \in probes THEN late ELSE late + 1
  /\ UNCHANGED leaked

-----------------------------------------------------------------------------
(* before_call                                                             *)

AdmitClosed(c) ==
  /\ pc[c] = "idle"
  /\ circuit = "closed"
  /\ pc' = [pc EXCEPT ![c] = "running"]
  /\ UNCHANGED <<breaker, ghosts>>

\* The cooldown has expired: this caller becomes the first probe and then
\* awaits the listeners of the transition.
AdmitFirstProbe(c) ==
  /\ pc[c] = "idle"
  /\ circuit = "open"
  /\ age = RecoveryTimeout
  /\ circuit' = "half_open"
  /\ successes' = 0
  /\ inflight' = 1
  /\ pc' = [pc EXCEPT ![c] = "notifying"]
  /\ probes' = {c}
  /\ late' = 0
  /\ leaked' = 0
  /\ UNCHANGED <<window, consecutive, age>>

\* Faulty variant, for mutation: one probe too many.
SlotFreeOffByOne == inflight <= HalfOpenMaxCalls

SlotFree == inflight < HalfOpenMaxCalls

AdmitProbe(c) ==
  /\ pc[c] = "idle"
  /\ circuit = "half_open"
  /\ SlotFree
  /\ inflight' = inflight + 1
  /\ pc' = [pc EXCEPT ![c] = "running"]
  /\ probes' = probes \cup {c}
  /\ UNCHANGED <<circuit, window, consecutive, age, successes, late, leaked>>

\* Every other before_call raises CircuitOpenError and changes nothing.

ListenerReturns(c) ==
  /\ pc[c] = "notifying"
  /\ pc' = [pc EXCEPT ![c] = "running"]
  /\ UNCHANGED <<breaker, ghosts>>

\* A critical listener raises, or the caller is cancelled while it awaits the
\* listeners: before_call is outside the try of call, so no slot is returned.
ListenerRaises(c) ==
  /\ ListenerMayRaise
  /\ pc[c] = "notifying"
  /\ pc' = [pc EXCEPT ![c] = "idle"]
  /\ probes' = probes \ {c}
  /\ leaked' = IF c \in probes THEN leaked + 1 ELSE leaked
  /\ UNCHANGED <<breaker, late>>

-----------------------------------------------------------------------------
(* The outcome of the protected operation                                  *)

\* record_success, also reached through _record_excluded.
Succeed(c) ==
  /\ pc[c] = "running"
  /\ pc' = [pc EXCEPT ![c] = "idle"]
  /\ \/ /\ circuit = "half_open"
        /\ successes + 1 >= SuccessThreshold
        /\ Close
     \/ /\ circuit = "half_open"
        /\ successes + 1 < SuccessThreshold
        /\ successes' = successes + 1
        /\ inflight' = ReturnedSlot
        /\ Account(c)
        /\ UNCHANGED <<circuit, window, consecutive, age>>
     \/ /\ circuit = "closed"
        /\ window' = Push(window, TRUE)
        /\ consecutive' = 0
        /\ UNCHANGED <<circuit, age, inflight, successes, ghosts>>
     \/ /\ circuit = "open"
        /\ UNCHANGED <<breaker, ghosts>>

\* record_failure
Fail(c) ==
  /\ pc[c] = "running"
  /\ pc' = [pc EXCEPT ![c] = "idle"]
  /\ \/ /\ circuit = "half_open"
        /\ Open
        /\ UNCHANGED <<window, consecutive>>
     \/ /\ circuit = "closed"
        /\ window' = Push(window, FALSE)
        /\ consecutive' = consecutive + 1
        /\ IF ShouldOpen(window', consecutive')
             THEN Open
             ELSE UNCHANGED <<circuit, age, inflight, successes, ghosts>>
     \/ /\ circuit = "open"
        /\ UNCHANGED <<breaker, ghosts>>

\* The operation is cancelled: _release_probe.
CancelCall(c) ==
  /\ pc[c] = "running"
  /\ pc' = [pc EXCEPT ![c] = "idle"]
  /\ IF circuit = "half_open"
       THEN inflight' = ReturnedSlot /\ Account(c)
       ELSE UNCHANGED <<inflight, ghosts>>
  /\ UNCHANGED <<circuit, window, consecutive, age, successes>>

-----------------------------------------------------------------------------
(* Operator actions and time                                               *)

\* reset
Reset == Close /\ UNCHANGED pc

\* trip: re-opening an open circuit restarts its cooldown.
Trip == Open /\ UNCHANGED <<window, consecutive, pc>>

Tick ==
  /\ circuit = "open"
  /\ age < RecoveryTimeout
  /\ age' = age + 1
  /\ UNCHANGED <<circuit, window, consecutive, inflight, successes, pc, ghosts>>

-----------------------------------------------------------------------------
BreakerInit ==
  /\ circuit = "closed"
  /\ window = <<>>
  /\ consecutive = 0
  /\ age = 0
  /\ inflight = 0
  /\ successes = 0
  /\ pc = [c \in Callers |-> "idle"]
  /\ probes = {}
  /\ late = 0
  /\ leaked = 0

Admit(c) == AdmitClosed(c) \/ AdmitFirstProbe(c) \/ AdmitProbe(c)

Notified(c) == ListenerReturns(c) \/ ListenerRaises(c)

Finish(c) == Succeed(c) \/ Fail(c) \/ CancelCall(c)

BreakerNext ==
  \/ \E c \in Callers : Admit(c) \/ Notified(c) \/ Finish(c)
  \/ Reset
  \/ Trip
  \/ Tick

BreakerSpec == BreakerInit /\ [][BreakerNext]_breakerVars

(***************************************************************************)
(* The event loop lets time pass and resumes listeners, the demand does    *)
(* not dry up, and a caller whose operation runs over and over sees it     *)
(* succeed or fail and not for ever cancelled.                             *)
(***************************************************************************)
BreakerFairness ==
  /\ WF_breakerVars(Tick)
  /\ \A c \in Callers :
       /\ WF_breakerVars(Admit(c))
       /\ WF_breakerVars(Notified(c))
       /\ SF_breakerVars(Succeed(c) \/ Fail(c))

BreakerFairSpec == BreakerSpec /\ BreakerFairness

-----------------------------------------------------------------------------
(* Properties                                                              *)

BreakerTypeOK ==
  /\ circuit \in States
  /\ window \in Seq(BOOLEAN)
  /\ Len(window) <= WindowSize
  /\ consecutive \in Nat
  /\ age \in 0..RecoveryTimeout
  /\ inflight \in Nat
  /\ successes \in Nat
  /\ pc \in [Callers -> Places]
  /\ probes \in SUBSET Callers
  /\ late \in Nat
  /\ leaked \in Nat

(* record_failure opens at the threshold: a closed circuit never carries a *)
(* run of failures that should have opened it, whatever reports came late. *)
ClosedIsBelowThreshold == circuit = "closed" => consecutive < FailureThreshold

(* Slot accounting of the HALF_OPEN state, the heart of the breaker: every *)
(* occupied slot belongs to a probe of this period that has not finished   *)
(* (or was lost in its listener), and an unfinished probe without a slot   *)
(* is owed to an outcome reported by a call that was never a probe.        *)
ProbeAccounting ==
  circuit = "half_open" =>
    /\ inflight <= HalfOpenMaxCalls
    /\ inflight <= Cardinality(probes) + leaked
    /\ Cardinality(probes) + leaked <= inflight + late

(* "Bounded half-open probes" as the code provides it: the probes in       *)
(* flight exceed half_open_max_calls at most by the number of outcomes     *)
(* reported in this period by calls admitted before it.                    *)
ProbesBoundedUpToLateReports ==
  circuit = "half_open" => Cardinality(probes) <= HalfOpenMaxCalls + late

\* From now on no operation fails and nobody trips the circuit.
Undisturbed == ~Trip /\ \A c \in Callers : ~Fail(c)

(* A dependency that stops failing is readmitted: the circuit closes and   *)
(* stays closed, again unless a probe was lost.                            *)
HealsWithoutFailures ==
  (<>[][Undisturbed]_breakerVars /\ <>[](leaked = 0)) => <>[](circuit = "closed")

=============================================================================
