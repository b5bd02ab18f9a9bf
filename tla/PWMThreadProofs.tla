--------------------------- MODULE PWMThreadProofs ---------------------------
(* Proofs about PWMThread, for every period, width and set of durations. *)
EXTENDS PWMThread, BasicLemmas

\* The clamp yields an unsigned number below the period.
LEMMA ClampBounds ==
    ASSUME NEW d \in 0..(Width - 1)
    PROVE  Clamp(d) \in 0..(Width - 1) /\ Clamp(d) < Period
BY PWMAssumption DEF Clamp

-----------------------------------------------------------------------------
(* The inductive invariant *)

\* What the two threads may assume of each other: a duration that is too long
\* is seen only inside set_pwm_duration().
DurationClamped == duration >= Period => caller = "clamp"

\* The cycle under way, between reading the duration and the next test.
CycleUnderWay ==
    /\ ~torn => cur < Period
    /\ thread = "high" => cur # 0

\* start() creates the thread.
NotStarted == caller = "new" => thread = "none"

IInv ==
    /\ TypeOK
    /\ NotStarted
    /\ DurationClamped
    /\ CycleUnderWay
    /\ HighOnlyInCycle

\* The inductive invariant of the PWM thread and its caller, which run
\* set_pwm_duration(), start(), stop() and run() with no lock between them.
THEOREM InductiveInvariant == Spec => []IInv
<1>. USE PWMAssumption
<1>1. Init => IInv
  <2>. SUFFICES ASSUME Init PROVE IInv
    OBVIOUS
  <2>1. 0 \in 0..(Width - 1) /\ 0 < Period /\ 0 \in 0..MaxSets
    OBVIOUS
  <2>2. TypeOK
    BY <2>1 DEF Init, TypeOK
  <2>3. NotStarted /\ DurationClamped /\ CycleUnderWay /\ HighOnlyInCycle
    BY <2>1 DEF Init, NotStarted, DurationClamped, CycleUnderWay, HighOnlyInCycle
  <2>. QED  BY <2>2, <2>3 DEF IInv
<1>2. IInv /\ [Next]_vars => IInv'
  <2>. SUFFICES ASSUME IInv, [Next]_vars PROVE IInv'
    OBVIOUS
  <2>. USE DEF IInv, TypeOK, NotStarted, DurationClamped, CycleUnderWay, HighOnlyInCycle
  <2>1. CASE Start
    BY <2>1 DEF Start
  <2>2. ASSUME NEW d \in Durations, StoreDuration(d) PROVE IInv'
    <3>1. d \in 0..(Width - 1)
      OBVIOUS
    <3>2. Clamp(d) \in 0..(Width - 1) /\ Clamp(d) < Period
      BY <3>1, ClampBounds
    <3>3. sets + 1 \in 0..MaxSets
      BY <2>2 DEF StoreDuration
    <3>4. duration' \in 0..(Width - 1) /\ DurationClamped'
      BY <2>2, <3>1, <3>2 DEF StoreDuration
    <3>5. caller' \in {"new", "ready", "clamp", "cleanup", "stopped"}
      BY <2>2 DEF StoreDuration
    <3>. QED  BY <2>2, <3>3, <3>4, <3>5 DEF StoreDuration
  <2>3. CASE Stop
    BY <2>3 DEF Stop
  <2>4. CASE ClampDuration
    <3>1. Clamp(duration) \in 0..(Width - 1) /\ Clamp(duration) < Period
      BY ClampBounds
    <3>. QED  BY <2>4, <3>1 DEF ClampDuration
  <2>5. CASE Cleanup
    BY <2>5 DEF Cleanup
  <2>6. CASE OpenLine
    BY <2>6 DEF OpenLine
  <2>7. CASE TestStop
    BY <2>7 DEF TestStop
  <2>8. CASE ReadDuration
    <3>1. torn' \in BOOLEAN /\ (~torn' => caller # "clamp")
      BY <2>8, Zenon DEF ReadDuration
    <3>2. cur' = duration /\ (~torn' => cur' < Period)
      BY <2>8, <3>1 DEF ReadDuration
    <3>3. thread' = IF duration # 0 THEN "high" ELSE "low"
      BY <2>8 DEF ReadDuration
    <3>4. line # 1
      BY <2>8 DEF ReadDuration
    <3>. QED  BY <2>8, <3>1, <3>2, <3>3, <3>4 DEF ReadDuration
  <2>9. CASE High
    BY <2>9 DEF High
  <2>10. CASE Low
    BY <2>10 DEF Low
  <2>11. CASE Fail
    BY <2>11 DEF Fail
  <2>12. CASE UNCHANGED vars
    BY <2>12 DEF vars
  <2>. QED  BY <2>1, <2>2, <2>3, <2>4, <2>5, <2>6, <2>7, <2>8, <2>9, <2>10,
               <2>11, <2>12 DEF Next, Caller, Worker, Done
<1>. QED  BY <1>1, <1>2, PTL DEF Spec

-----------------------------------------------------------------------------
(* What follows from it *)

\* Every variable keeps its type; no duration leaves the range of unsigned int.
THEOREM TypeCorrect == Spec => []TypeOK
<1>1. IInv => TypeOK
  BY DEF IInv
<1>. QED  BY <1>1, InductiveInvariant, PTL

\* Every cycle of the software PWM lasts exactly one period, unless its
\* duration was read inside set_pwm_duration() before the clamp.
THEOREM CycleLength == Spec => []CycleLastsOnePeriod
<1>1. IInv => CycleLastsOnePeriod
  <2>. SUFFICES ASSUME IInv, ~torn
                PROVE  cur + LowTime = Period /\ LowTime > 0
    BY DEF CycleLastsOnePeriod
  <2>1. cur \in Nat /\ cur < Period /\ Period \in Nat /\ Width \in Nat
        /\ Period < Width
    BY PWMAssumption DEF IInv, TypeOK, CycleUnderWay
  <2>2. Period - cur \in Nat /\ Period - cur < Width
    BY <2>1
  <2>3. (Period - cur) % Width = Period - cur
    BY <2>1, <2>2, SmallModulo
  <2>. QED  BY <2>1, <2>3 DEF LowTime
<1>. QED  BY <1>1, InductiveInvariant, PTL

\* stop() never leaves the line high: only an exception between the two halves
\* of a cycle does.
THEOREM LineLowAtEnd == Spec => []HighOnlyInCycle
<1>1. IInv => HighOnlyInCycle
  BY DEF IInv
<1>. QED  BY <1>1, InductiveInvariant, PTL
=============================================================================
