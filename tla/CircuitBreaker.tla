----------------------------- MODULE CircuitBreaker -----------------------------
(***************************************************************************)
(* The circuit breaker of one (plugin, hook) entry of the dispatch table,  *)
(* and the hook calls that consult it: dispatch_before_hook asks is_open,  *)
(* calls the plugin under a timeout and records a success or a failure.    *)
(*                                                                         *)
(* The breaker is an atomic counter and two mutexes, so every access to    *)
(* one of the three is a step and calls interleave between them.  An       *)
(* instant is kept as the time elapsed since it, up to the point where     *)
(* more makes no difference: time is not bounded.  Recording a result      *)
(* takes far less than a unit of time, so time passes between recordings.  *)
(***************************************************************************)
EXTENDS Integers, FiniteSets

CONSTANTS
    Call,       \* hook calls that can be in flight together
    Threshold,  \* failures that open the circuit
    Window,     \* a failure older than this does not count
    Reset,      \* how long the circuit stays open
    Never       \* the None of Option<Instant>

ASSUME BreakerConstants ==
    /\ Threshold \in Nat \ {0} /\ Window \in Nat \ {0} /\ Reset \in Nat \ {0}
    /\ Never \notin Nat

VARIABLES
    failure_count,      \* AtomicU32, kept at Threshold once it gets there
    last_failure_at,    \* Mutex<Option<Instant>>
    circuit_opened_at,  \* Mutex<Option<Instant>>
    pc,
    count,              \* what record_failure's fetch_add returned, plus one
    streak,             \* history: how long ago the last failures in a row were
    earned,             \* history: whether the failure a call has counted was
                        \* the last of Threshold close ones in a row
    overlapped          \* history: whether recordings have ever overlapped

vars == <<failure_count, last_failure_at, circuit_opened_at, pc, count,
          streak, earned, overlapped>>
history == <<streak, earned, overlapped>>
breaker == <<failure_count, last_failure_at, circuit_opened_at>>

Age == 0 .. Window + Reset + 1
Control == {"idle", "running", "success_last", "success_opened",
            "failure_count", "failure_opened"}

TypeOK ==
    /\ failure_count \in 0 .. Threshold
    /\ last_failure_at \in Age \cup {Never}
    /\ circuit_opened_at \in Age \cup {Never}
    /\ pc \in [Call -> Control]
    /\ count \in [Call -> 0 .. Threshold]
    /\ streak \in [1 .. Threshold -> Age \cup {Never}]
    /\ earned \in [Call -> BOOLEAN]
    /\ overlapped \in BOOLEAN

Init ==
    /\ failure_count = 0
    /\ last_failure_at = Never
    /\ circuit_opened_at = Never
    /\ pc = [c \in Call |-> "idle"]
    /\ count = [c \in Call |-> 0]
    /\ streak = [i \in 1 .. Threshold |-> Never]
    /\ earned = [c \in Call |-> FALSE]
    /\ overlapped = FALSE

-----------------------------------------------------------------------------

Goto(c, label) == pc' = [pc EXCEPT ![c] = label]

Older(age) == IF age = Never \/ age = Window + Reset + 1 THEN age ELSE age + 1

Recording == {c \in Call : pc[c] \notin {"idle", "running"}}

Tick ==
    /\ Recording = {}
    /\ last_failure_at' = Older(last_failure_at)
    /\ circuit_opened_at' = Older(circuit_opened_at)
    /\ streak' = [i \in 1 .. Threshold |-> Older(streak[i])]
    /\ UNCHANGED <<failure_count, pc, count, earned, overlapped>>

(* A circuit that, once open, is skipped for good. *)
IsOpenForGood == circuit_opened_at # Never

IsOpen == circuit_opened_at # Never /\ circuit_opened_at < Reset

(* A call that finds the circuit open skips the plugin and leaves no trace. *)
Start(c) ==
    /\ pc[c] = "idle"
    /\ ~IsOpen
    /\ Goto(c, "running")
    /\ UNCHANGED <<breaker, count, history>>

-----------------------------------------------------------------------------
(* record_success *)

SuccessCount(c) ==
    /\ pc[c] = "running"
    /\ failure_count' = 0
    /\ streak' = [i \in 1 .. Threshold |-> Never]
    /\ overlapped' = (overlapped \/ Recording # {})
    /\ Goto(c, "success_last")
    /\ UNCHANGED <<last_failure_at, circuit_opened_at, count, earned>>

SuccessLast(c) ==
    /\ pc[c] = "success_last"
    /\ last_failure_at' = Never
    /\ Goto(c, "success_opened")
    /\ UNCHANGED <<failure_count, circuit_opened_at, count, history>>

SuccessOpened(c) ==
    /\ pc[c] = "success_opened"
    /\ circuit_opened_at' = Never
    /\ Goto(c, "idle")
    /\ UNCHANGED <<failure_count, last_failure_at, count, history>>

-----------------------------------------------------------------------------
(* record_failure, when the call has timed out *)

(* The counter is only reset when there was no failure before. *)
FailureLastNoWindow(c) ==
    /\ pc[c] = "running"
    /\ failure_count' = IF last_failure_at = Never THEN 0 ELSE failure_count
    /\ last_failure_at' = 0
    /\ overlapped' = (overlapped \/ Recording # {})
    /\ Goto(c, "failure_count")
    /\ UNCHANGED <<circuit_opened_at, count, streak, earned>>

FailureLast(c) ==
    /\ pc[c] = "running"
    /\ failure_count' = IF last_failure_at = Never \/ last_failure_at > Window
                        THEN 0 ELSE failure_count
    /\ last_failure_at' = 0
    /\ overlapped' = (overlapped \/ Recording # {})
    /\ Goto(c, "failure_count")
    /\ UNCHANGED <<circuit_opened_at, count, streak, earned>>

(* Threshold failures in a row, no two of them further apart than the      *)
(* window: ages that stop growing only come closer.                        *)
Close(ages) ==
    /\ \A i \in 1 .. Threshold : ages[i] # Never
    /\ \A i \in 2 .. Threshold : ages[i] - ages[i - 1] <= Window

Remember(c) ==
    /\ streak' = [i \in 1 .. Threshold |-> IF i = 1 THEN 0 ELSE streak[i - 1]]
    /\ earned' = [earned EXCEPT ![c] = Close(streak')]

FailureCount(c) ==
    /\ pc[c] = "failure_count"
    /\ failure_count' = IF failure_count < Threshold THEN failure_count + 1
                                                     ELSE Threshold
    /\ count' = [count EXCEPT ![c] = failure_count']
    /\ Remember(c)
    /\ Goto(c, "failure_opened")
    /\ UNCHANGED <<last_failure_at, circuit_opened_at, overlapped>>

Opens(c) == count[c] >= Threshold /\ circuit_opened_at = Never

(* Opening only beyond the threshold. *)
FailureOpenedLate(c) ==
    /\ pc[c] = "failure_opened"
    /\ circuit_opened_at' = IF count[c] > Threshold /\ circuit_opened_at = Never
                            THEN 0 ELSE circuit_opened_at
    /\ Goto(c, "idle")
    /\ UNCHANGED <<failure_count, last_failure_at, count, history>>

FailureOpened(c) ==
    /\ pc[c] = "failure_opened"
    /\ circuit_opened_at' = IF Opens(c) THEN 0 ELSE circuit_opened_at
    /\ Goto(c, "idle")
    /\ UNCHANGED <<failure_count, last_failure_at, count, history>>

Return(c) == SuccessCount(c) \/ FailureLast(c)
Record(c) == \/ SuccessLast(c) \/ SuccessOpened(c)
             \/ FailureCount(c) \/ FailureOpened(c)

Next == Tick \/ \E c \in Call : Start(c) \/ Return(c) \/ Record(c)

Spec == Init /\ [][Next]_vars

(* Time passes, and a call returns: the timeout sees to it. *)
FairSpec == /\ Spec
            /\ WF_vars(Tick)
            /\ \A c \in Call : WF_vars(Return(c)) /\ WF_vars(Record(c))

-----------------------------------------------------------------------------

(* Once enough failures in a row are recorded the circuit has opened, and  *)
(* only a success forgets that, while results are recorded one at a time.  *)
OpensAtThreshold ==
    Recording = {} /\ failure_count >= Threshold => circuit_opened_at # Never
ThresholdOpens == ~overlapped => OpensAtThreshold

(* The circuit only opens for a failure that was the last of Threshold in  *)
(* a row, no two of them further apart than the window, however calls      *)
(* overlap: a plugin that fails now and then is never skipped.             *)
OpenIsEarned ==
    [][circuit_opened_at = Never /\ circuit_opened_at' # Never
         => \E c \in Call : pc[c] = "failure_opened" /\ pc'[c] = "idle" /\ earned[c]]_vars

(* An open circuit lets calls through again, whatever calls are in flight. *)
Recovers == IsOpen ~> ~IsOpen

(* The doc of CircuitBreaker: when the failures reach the threshold within *)
(* the window the circuit opens, and a call after the reset is a probe: a  *)
(* probe that fails leaves the circuit open.                               *)
FailureAtThresholdOpens ==
    [][\A c \in Call :
         pc[c] = "failure_opened" /\ pc'[c] = "idle" /\ count[c] >= Threshold
            => IsOpen']_vars

=============================================================================
