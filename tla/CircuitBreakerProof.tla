-------------------------- MODULE CircuitBreakerProof --------------------------
(***************************************************************************)
(* Proofs about CircuitBreaker, for any number of calls in flight, any     *)
(* threshold, window and reset time.                                       *)
(***************************************************************************)
EXTENDS CircuitBreaker, TLAPS

-----------------------------------------------------------------------------
(***************************************************************************)
(* Type correctness.                                                       *)
(***************************************************************************)

LEMMA OlderTyped ==
    ASSUME NEW age \in Age \cup {Never}
    PROVE  Older(age) \in Age \cup {Never}
  BY BreakerConstants DEF Older, Age

(* Growing older keeps the order of two ages and brings them no further    *)
(* apart.                                                                  *)
LEMMA OlderKeepsGaps ==
    ASSUME NEW a \in Age, NEW b \in Age
    PROVE  /\ Older(a) \in Age /\ Older(b) \in Age
           /\ a <= b => Older(a) <= Older(b)
           /\ b - a <= Window => Older(b) - Older(a) <= Window
  BY BreakerConstants DEF Older, Age

LEMMA ZeroIsAge == 0 \in Age /\ Age \subseteq Nat /\ Never \notin Age
  BY BreakerConstants DEF Age

LEMMA InitTypeOK == Init => TypeOK
<1> SUFFICES ASSUME Init PROVE TypeOK
  OBVIOUS
<1>1. failure_count \in 0 .. Threshold /\ count \in [Call -> 0 .. Threshold]
  BY BreakerConstants DEF Init
<1>2. earned \in [Call -> BOOLEAN] /\ overlapped \in BOOLEAN
  BY DEF Init
<1> QED
  BY <1>1, <1>2 DEF Init, TypeOK, Control

LEMMA NextTypeOK ==
    ASSUME TypeOK, [Next]_vars
    PROVE  TypeOK'
<1> USE ZeroIsAge DEF TypeOK
<1>1. CASE Tick
  <2>1. streak' \in [1 .. Threshold -> Age \cup {Never}]
    BY <1>1, OlderTyped DEF Tick
  <2> QED
    BY <1>1, <2>1, OlderTyped DEF Tick
<1>2. ASSUME NEW c \in Call, Start(c) PROVE TypeOK'
  BY <1>2 DEF Start, Goto, Control, breaker, history
<1>3. ASSUME NEW c \in Call, SuccessCount(c) PROVE TypeOK'
  BY <1>3, BreakerConstants DEF SuccessCount, Goto, Control
<1>4. ASSUME NEW c \in Call, FailureLast(c) PROVE TypeOK'
  BY <1>4, BreakerConstants DEF FailureLast, Goto, Control
<1>5. ASSUME NEW c \in Call, SuccessLast(c) \/ SuccessOpened(c) PROVE TypeOK'
  BY <1>5 DEF SuccessLast, SuccessOpened, Goto, Control, history
<1>6. ASSUME NEW c \in Call, FailureCount(c) PROVE TypeOK'
  <2>1. failure_count' \in 0 .. Threshold
    BY <1>6, BreakerConstants DEF FailureCount
  <2>2. streak' \in [1 .. Threshold -> Age \cup {Never}]
    BY <1>6, BreakerConstants DEF FailureCount, Remember
  <2>3. earned' \in [Call -> BOOLEAN]
    BY <1>6 DEF FailureCount, Remember, Close
  <2> QED
    BY <1>6, <2>1, <2>2, <2>3 DEF FailureCount, Goto, Control
<1>7. ASSUME NEW c \in Call, FailureOpened(c) PROVE TypeOK'
  BY <1>7 DEF FailureOpened, Goto, Control, history
<1>8. CASE UNCHANGED vars
  BY <1>8 DEF vars
<1> QED
  BY <1>1, <1>2, <1>3, <1>4, <1>5, <1>6, <1>7, <1>8 DEF Next, Return, Record

(* The breaker's variables stay within their types.                        *)
THEOREM BreakerTypeCorrect == Spec => []TypeOK
<1>1. TypeOK /\ [Next]_vars => TypeOK'
  BY NextTypeOK
<1> QED
  BY <1>1, InitTypeOK, PTL DEF Spec

-----------------------------------------------------------------------------
(***************************************************************************)
(* The circuit opens at the threshold, while results are recorded one at a *)
(* time.                                                                   *)
(***************************************************************************)

(* One recording at a time: what a success has reset stays reset, and a    *)
(* failure is alone with the count it took.                                *)
SerialInv ==
    ~overlapped =>
        /\ \A c, d \in Recording : c = d
        /\ \A c \in Call : pc[c] \in {"success_last", "success_opened"} => failure_count = 0
        /\ \A c \in Call : pc[c] = "failure_opened" => count[c] = failure_count
        /\ failure_count >= Threshold =>
               circuit_opened_at # Never \/ \E c \in Call : pc[c] = "failure_opened"

LEMMA InitSerial == Init => SerialInv
  BY BreakerConstants DEF Init, SerialInv, Recording

LEMMA NextSerial ==
    ASSUME TypeOK, SerialInv, [Next]_vars
    PROVE  SerialInv'
<1> SUFFICES ASSUME ~overlapped'
             PROVE  SerialInv'
  BY DEF SerialInv
<1>0. ~overlapped
  BY DEF Next, Tick, Start, Return, Record, SuccessCount, FailureLast, SuccessLast,
         SuccessOpened, FailureCount, FailureOpened, vars, history
<1>a. \A c \in Call : SuccessCount(c) \/ FailureLast(c) => Recording = {}
  BY DEF SuccessCount, FailureLast
<1> USE <1>0, BreakerConstants DEF SerialInv, TypeOK, Recording, Control
<1>1. CASE Tick
  BY <1>1 DEF Tick, Older, Age
<1>2. ASSUME NEW c \in Call, Start(c) PROVE SerialInv'
  BY <1>2 DEF Start, Goto, breaker, history
<1>3. ASSUME NEW c \in Call, SuccessCount(c) PROVE SerialInv'
  <2>1. \A d \in Call : pc[d] \in {"idle", "running"}
    BY <1>3, <1>a
  <2>2. failure_count' = 0 /\ pc' = [pc EXCEPT ![c] = "success_last"]
    BY <1>3 DEF SuccessCount, Goto
  <2> QED
    BY <2>1, <2>2
<1>4. ASSUME NEW c \in Call, FailureLast(c) PROVE SerialInv'
  <2>1. \A d \in Call : pc[d] \in {"idle", "running"}
    BY <1>4, <1>a
  <2>2. /\ failure_count' \in {0, failure_count}
        /\ pc' = [pc EXCEPT ![c] = "failure_count"]
        /\ UNCHANGED circuit_opened_at
    BY <1>4 DEF FailureLast, Goto
  <2> QED
    BY <2>1, <2>2
<1>5. ASSUME NEW c \in Call, SuccessLast(c) PROVE SerialInv'
  BY <1>5 DEF SuccessLast, Goto, history
<1>6. ASSUME NEW c \in Call, SuccessOpened(c) PROVE SerialInv'
  BY <1>6 DEF SuccessOpened, Goto, history
<1>7. ASSUME NEW c \in Call, FailureCount(c) PROVE SerialInv'
  BY <1>7 DEF FailureCount, Goto
<1>8. ASSUME NEW c \in Call, FailureOpened(c) PROVE SerialInv'
  BY <1>8 DEF FailureOpened, Opens, Goto, history, Age
<1>9. CASE UNCHANGED vars
  BY <1>9 DEF vars
<1> QED
  BY <1>1, <1>2, <1>3, <1>4, <1>5, <1>6, <1>7, <1>8, <1>9 DEF Next, Return, Record

(* While recordings do not overlap, a breaker whose failures have reached  *)
(* the threshold has opened once nobody is recording (record_failure).     *)
THEOREM ThresholdAlwaysOpens == Spec => []ThresholdOpens
<1>1. TypeOK /\ SerialInv /\ [Next]_vars => SerialInv'
  BY NextSerial
<1>2. TypeOK /\ SerialInv => ThresholdOpens
  BY DEF TypeOK, SerialInv, ThresholdOpens, OpensAtThreshold, Recording
<1> QED
  BY <1>1, <1>2, InitSerial, BreakerTypeCorrect, PTL DEF Spec

-----------------------------------------------------------------------------
(***************************************************************************)
(* The circuit opens only for failures in a row, however calls overlap.    *)
(***************************************************************************)

(* The failures counted are the latest in a row, no two of them further    *)
(* apart than the window.  The instant of the last failure is never older  *)
(* than the last failure counted, but while a failure that has noted its   *)
(* instant is yet to be counted; and then the one before it was close.     *)
StreakInv ==
    /\ \A i \in 1 .. failure_count : streak[i] # Never
    /\ \A i \in 2 .. failure_count : streak[i] - streak[i - 1] <= Window
    /\ failure_count > 0 /\ last_failure_at # Never =>
           \/ streak[1] <= last_failure_at
           \/ \E c \in Call : pc[c] = "failure_count"
    /\ failure_count > 0 /\ (\E c \in Call : pc[c] = "failure_count") =>
           streak[1] <= Window
    /\ \A c \in Call : pc[c] = "failure_opened" /\ count[c] >= Threshold => earned[c]

LEMMA InitStreak == Init => StreakInv
  BY BreakerConstants DEF Init, StreakInv

(* The failures counted have an age. *)
LEMMA StreakTyped ==
    ASSUME TypeOK, StreakInv
    PROVE  /\ failure_count \in Nat /\ failure_count <= Threshold
           /\ \A i \in 1 .. failure_count : streak[i] \in Age
           /\ failure_count > 0 => streak[1] \in Age
<1>1. failure_count \in Nat /\ failure_count <= Threshold
  BY BreakerConstants DEF TypeOK
<1>2. ASSUME NEW i \in 1 .. failure_count PROVE streak[i] \in Age
  <2>1. i \in 1 .. Threshold /\ streak[i] # Never
    BY <1>1, BreakerConstants DEF StreakInv
  <2>2. streak[i] \in Age \cup {Never}
    BY <2>1 DEF TypeOK
  <2> QED
    BY <2>1, <2>2
<1>3. failure_count > 0 => 1 \in 1 .. failure_count
  BY <1>1
<1> QED
  BY <1>1, <1>2, <1>3

LEMMA TickStreak ==
    ASSUME TypeOK, StreakInv, Tick
    PROVE  StreakInv'
<1> USE ZeroIsAge, BreakerConstants DEF TypeOK
<1>1. \A i \in 1 .. failure_count : streak[i] \in Age /\ streak'[i] = Older(streak[i])
  BY StreakTyped DEF Tick
<1>2. \A i \in 1 .. failure_count : streak'[i] \in Age
  BY <1>1, OlderKeepsGaps
<1>3. ASSUME NEW i \in 2 .. failure_count
      PROVE  streak'[i] - streak'[i - 1] <= Window
  <2>1. i \in 1 .. failure_count /\ i - 1 \in 1 .. failure_count
    BY <1>3, StreakTyped
  <2> DEFINE a == streak[i - 1]
             b == streak[i]
  <2>2. a \in Age /\ b \in Age /\ b - a <= Window
    BY <1>1, <2>1 DEF StreakInv
  <2>3. Older(b) - Older(a) <= Window
    BY <2>2, OlderKeepsGaps
  <2> QED
    BY <1>1, <2>1, <2>3
<1>4. \A c \in Call : pc[c] \notin {"failure_count", "failure_opened"}
  BY DEF Tick, Recording
<1>5. ASSUME failure_count > 0, last_failure_at' # Never
      PROVE  streak'[1] <= last_failure_at'
  <2>1. last_failure_at \in Age /\ last_failure_at' = Older(last_failure_at)
    BY <1>5 DEF Tick, Older
  <2> DEFINE a == streak[1]
             b == last_failure_at
  <2>2. a \in Age /\ b \in Age /\ a <= b
    BY <1>4, <1>5, <2>1, StreakTyped DEF StreakInv
  <2>3. Older(a) <= Older(b)
    BY <2>2, OlderKeepsGaps
  <2>4. streak'[1] = Older(a)
    BY <1>1, <1>5, StreakTyped
  <2> QED
    BY <2>1, <2>3, <2>4
<1> QED
  BY <1>2, <1>3, <1>4, <1>5 DEF Tick, StreakInv

(* A failure continues the row when the one before it was close enough.    *)
LEMMA FailureLastStreak ==
    ASSUME TypeOK, StreakInv, NEW c \in Call, FailureLast(c)
    PROVE  StreakInv'
<1> USE ZeroIsAge, BreakerConstants DEF TypeOK
<1>1. failure_count' \in {0, failure_count} /\ UNCHANGED <<streak, count, earned>>
  BY DEF FailureLast
<1>2. ASSUME failure_count' > 0
      PROVE  streak[1] <= Window
  <2>1. last_failure_at # Never /\ last_failure_at <= Window /\ failure_count > 0
    BY <1>2 DEF FailureLast
  <2>2. streak[1] \in Nat
    BY <2>1, StreakTyped
  <2> QED
    BY <2>1, <2>2 DEF StreakInv
<1>3. \A d \in Call : pc'[d] = "failure_opened" => pc[d] = "failure_opened"
  BY DEF FailureLast, Goto, Control
<1>4. pc'[c] = "failure_count"
  BY DEF FailureLast, Goto
<1> QED
  BY <1>1, <1>2, <1>3, <1>4 DEF StreakInv

LEMMA FailureCountStreak ==
    ASSUME TypeOK, StreakInv, NEW c \in Call, FailureCount(c)
    PROVE  StreakInv'
<1> USE ZeroIsAge, BreakerConstants DEF TypeOK
<1> DEFINE n == failure_count
<1>1. /\ n' \in 1 .. Threshold /\ n' <= n + 1
      /\ count'[c] = n' /\ \A d \in Call \ {c} : count'[d] = count[d]
  BY DEF FailureCount
<1>2. /\ streak'[1] = 0
      /\ \A i \in 2 .. n' : i - 1 \in 1 .. n /\ streak'[i] = streak[i - 1]
  BY <1>1 DEF FailureCount, Remember
<1>3. \A i \in 1 .. n' : streak'[i] \in Age
  <2> SUFFICES ASSUME NEW i \in 1 .. n' PROVE streak'[i] \in Age
    OBVIOUS
  <2>1. CASE i = 1
    BY <1>2, <2>1
  <2>2. CASE i \in 2 .. n'
    BY <1>1, <1>2, <2>2 DEF StreakInv
  <2> QED
    BY <1>1, <2>1, <2>2
<1>4. ASSUME NEW i \in 2 .. n'
      PROVE  streak'[i] - streak'[i - 1] <= Window
  <2>1. CASE i = 2
    <3>0. 2 \in 2 .. n'
      BY <2>1
    <3>1. 1 \in 1 .. n /\ streak'[2] = streak[1]
      BY <1>2, <3>0
    <3>2. n > 0 /\ streak[1] \in Age
      BY <3>1, StreakTyped
    <3>3. streak[1] <= Window
      BY <3>2 DEF FailureCount, StreakInv
    <3>4. streak[1] \in Nat
      BY <3>2
    <3>5. streak'[i] = streak[1]
      BY <2>1, <3>1
    <3>6. i - 1 = 1
      BY <2>1
    <3>7. streak'[i - 1] = 0
      BY <1>2, <3>6
    <3> QED
      BY <3>3, <3>4, <3>5, <3>7
  <2>2. CASE i # 2
    <3>1. i - 1 \in 2 .. n /\ streak'[i] = streak[i - 1] /\ streak'[i - 1] = streak[i - 2]
      BY <1>1, <1>2, <2>2
    <3> QED
      BY <3>1 DEF StreakInv
  <2> QED
    BY <2>1, <2>2
<1>5. n' >= Threshold => Close(streak')
  BY <1>1, <1>3, <1>4 DEF Close
<1>6. n' >= Threshold => earned'[c]
  BY <1>5 DEF FailureCount, Remember
<1>7. \A d \in Call \ {c} : pc'[d] = pc[d] /\ earned'[d] = earned[d]
  BY DEF FailureCount, Remember, Goto
<1>8. \A d \in Call : pc'[d] = "failure_opened" /\ count'[d] >= Threshold => earned'[d]
  BY <1>1, <1>6, <1>7 DEF StreakInv
<1>9. last_failure_at' # Never => streak'[1] <= last_failure_at'
  BY <1>2 DEF FailureCount
<1> QED
  BY <1>2, <1>3, <1>4, <1>8, <1>9 DEF StreakInv

LEMMA NextStreak ==
    ASSUME TypeOK, StreakInv, [Next]_vars
    PROVE  StreakInv'
<1> USE DEF TypeOK, StreakInv
<1>1. ASSUME NEW c \in Call, Start(c) PROVE StreakInv'
  BY <1>1 DEF Start, Goto, breaker, history
<1>2. ASSUME NEW c \in Call, SuccessCount(c) PROVE StreakInv'
  BY <1>2, BreakerConstants DEF SuccessCount, Goto
<1>3. ASSUME NEW c \in Call, SuccessLast(c) PROVE StreakInv'
  BY <1>3 DEF SuccessLast, Goto, history
<1>4. ASSUME NEW c \in Call, SuccessOpened(c) PROVE StreakInv'
  BY <1>4 DEF SuccessOpened, Goto, history
<1>5. ASSUME NEW c \in Call, FailureOpened(c) PROVE StreakInv'
  BY <1>5 DEF FailureOpened, Goto, history
<1>6. CASE UNCHANGED vars
  BY <1>6 DEF vars
<1> QED
  BY <1>1, <1>2, <1>3, <1>4, <1>5, <1>6, TickStreak, FailureLastStreak, FailureCountStreak
  DEF Next, Return, Record

(* However calls overlap, the circuit opens only for a failure that is the *)
(* last of Threshold in a row, no two further apart than the window        *)
(* (record_failure resets its count after a gap, record_success always).   *)
THEOREM OpeningIsEarned == Spec => OpenIsEarned
<1>1. TypeOK /\ StreakInv /\ [Next]_vars => StreakInv'
  BY NextStreak
<1>2. ASSUME TypeOK, StreakInv, Next, circuit_opened_at = Never, circuit_opened_at' # Never
      PROVE  \E c \in Call : pc[c] = "failure_opened" /\ pc'[c] = "idle" /\ earned[c]
  <2>1. PICK c \in Call : FailureOpened(c)
    BY <1>2 DEF Next, Tick, Older, Start, Return, Record, SuccessCount, SuccessLast,
                SuccessOpened, FailureLast, FailureCount, breaker
  <2>2. count[c] >= Threshold
    BY <1>2, <2>1 DEF FailureOpened, Opens
  <2> QED
    BY <1>2, <2>1, <2>2 DEF FailureOpened, Goto, StreakInv, TypeOK
<1>3. TypeOK /\ StreakInv /\ [Next]_vars =>
        (circuit_opened_at = Never /\ circuit_opened_at' # Never
           => \E c \in Call : pc[c] = "failure_opened" /\ pc'[c] = "idle" /\ earned[c])
  BY <1>2 DEF vars
<1> QED
  BY <1>1, <1>3, InitStreak, BreakerTypeCorrect, PTL DEF Spec, OpenIsEarned

=============================================================================
