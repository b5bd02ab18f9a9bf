------------------------------ MODULE PWMThread ------------------------------
(***************************************************************************)
(* GPIOPWMThread on top of SingleThread: the main thread starts a software *)
(* PWM, changes its duration and stops it, while the PWM thread toggles    *)
(* the line.  The two share two plain members, _pwm_duration and           *)
(* _need_to_stop, with no lock; each access is a step of its own, in the   *)
(* order of the source (the calls between them keep the compiler from      *)
(* moving them), except that set_pwm_duration()'s two stores may be merged *)
(* into one.                                                               *)
(***************************************************************************)
EXTENDS Integers

CONSTANTS
    Period,      \* _pwm_period, in microseconds
    Width,       \* 2^w, w the width of unsigned int
    Durations,   \* the arguments of set_pwm_duration()
    MaxSets,     \* bound: number of calls of set_pwm_duration()
    MayFail      \* gpiod may throw

ASSUME PWMAssumption ==
    /\ Width \in Nat
    /\ Period \in 1..(Width - 1)
    /\ Durations \subseteq 0..(Width - 1)
    /\ MaxSets \in Nat
    /\ MayFail \in BOOLEAN

VARIABLES
    caller,     \* the main thread's next statement in start(), stop(),
                \* cleanup() and set_pwm_duration()
    thread,     \* the PWM thread's next statement in run()
    needToStop, \* SingleThread::_need_to_stop
    duration,   \* _pwm_duration
    cur,        \* cur_pwm_duration, local to run()
    line,       \* level of the GPIO line
    wanted,     \* history: last argument of set_pwm_duration()
    sets,       \* history: number of calls of set_pwm_duration()
    torn        \* history: cur was read between the store and its clamp

vars == <<caller, thread, needToStop, duration, cur, line, wanted, sets, torn>>

Init ==
    /\ caller = "new"
    /\ thread = "none"
    /\ needToStop = FALSE
    /\ duration = 0
    /\ cur = 0
    /\ line = 0
    /\ wanted = 0
    /\ sets = 0
    /\ torn = FALSE

\* Mutant: a duration that is too long is reduced, not replaced.
ClampByDifference(d) == IF d >= Period THEN d - Period - 1 ELSE d

\* The line is never high for a whole period.
Clamp(d) == IF d >= Period THEN Period - 1 ELSE d

-----------------------------------------------------------------------------
(* The main thread *)

Start ==
    /\ caller = "new"
    /\ caller' = "ready"
    /\ thread' = "open"
    /\ UNCHANGED <<needToStop, duration, cur, line, wanted, sets, torn>>

\* set_pwm_duration() stores its argument first ...
StoreDuration(d) ==
    /\ caller = "ready"
    /\ sets < MaxSets
    /\ sets' = sets + 1
    /\ wanted' = d
    /\ \/ duration' = d /\ caller' = "clamp"
       \/ duration' = Clamp(d) /\ UNCHANGED caller
    /\ UNCHANGED <<thread, needToStop, cur, line, torn>>

\* Mutant: the clamp is gone.
ClampNothing ==
    /\ caller = "clamp"
    /\ caller' = "ready"
    /\ UNCHANGED <<duration, thread, needToStop, cur, line, wanted, sets, torn>>

\* ... and then corrects it.
ClampDuration ==
    /\ caller = "clamp"
    /\ duration' = Clamp(duration)
    /\ caller' = "ready"
    /\ UNCHANGED <<thread, needToStop, cur, line, wanted, sets, torn>>

Stop ==
    /\ caller = "ready"
    /\ needToStop' = TRUE
    /\ caller' = "cleanup"
    /\ UNCHANGED <<thread, duration, cur, line, wanted, sets, torn>>

\* cleanup() detaches the thread, forgets it and takes the request back.
Cleanup ==
    /\ caller = "cleanup"
    /\ needToStop' = FALSE
    /\ caller' = "stopped"
    /\ UNCHANGED <<thread, duration, cur, line, wanted, sets, torn>>

-----------------------------------------------------------------------------
(* The PWM thread *)

OpenLine ==
    /\ thread = "open"
    /\ thread' = "test"
    /\ line' = 0
    /\ UNCHANGED <<caller, needToStop, duration, cur, wanted, sets, torn>>

TestStop ==
    /\ thread = "test"
    /\ thread' = IF needToStop THEN "ended" ELSE "read"
    /\ UNCHANGED <<caller, needToStop, duration, cur, line, wanted, sets, torn>>

\* Mutant: the duration is read once, before the loop.
ReadDurationOnce ==
    /\ thread = "read"
    /\ cur' = IF cur = 0 THEN duration ELSE cur
    /\ torn' = (caller = "clamp")
    /\ thread' = IF cur' # 0 THEN "high" ELSE "low"
    /\ UNCHANGED <<caller, needToStop, duration, line, wanted, sets>>

ReadDuration ==
    /\ thread = "read"
    /\ cur' = duration
    /\ torn' = (caller = "clamp")
    /\ thread' = IF duration # 0 THEN "high" ELSE "low"
    /\ UNCHANGED <<caller, needToStop, duration, line, wanted, sets>>

\* Mutant: the loop tests the stop flag between the two halves of a cycle.
HighTestsStop ==
    /\ thread = "high"
    /\ line' = 1
    /\ thread' = IF needToStop THEN "ended" ELSE "low"
    /\ UNCHANGED <<caller, needToStop, duration, cur, wanted, sets, torn>>

\* The line goes high and the thread sleeps for the duration.
High ==
    /\ thread = "high"
    /\ line' = 1
    /\ thread' = "low"
    /\ UNCHANGED <<caller, needToStop, duration, cur, wanted, sets, torn>>

\* The line goes low and the thread sleeps for the rest of the period.
Low ==
    /\ thread = "low"
    /\ line' = 0
    /\ thread' = "test"
    /\ UNCHANGED <<caller, needToStop, duration, cur, wanted, sets, torn>>

\* An exception of gpiod ends the thread where it stands.
Fail ==
    /\ MayFail
    /\ thread \in {"open", "high", "low"}
    /\ thread' = "failed"
    /\ UNCHANGED <<caller, needToStop, duration, cur, line, wanted, sets, torn>>

Caller == ClampDuration \/ Cleanup

Worker ==
    \/ OpenLine
    \/ TestStop
    \/ ReadDuration
    \/ High
    \/ Low

\* The caller has stopped and the thread has ended.
Done ==
    /\ caller = "stopped"
    /\ thread \in {"ended", "failed"}
    /\ UNCHANGED vars

Next ==
    \/ Start
    \/ \E d \in Durations : StoreDuration(d)
    \/ Stop
    \/ Caller
    \/ Worker
    \/ Fail
    \/ Done

Spec == Init /\ [][Next]_vars

\* Both threads are scheduled; nobody has to start, change or stop the PWM.
FairSpec == Spec /\ WF_vars(Caller) /\ WF_vars(Worker)

-----------------------------------------------------------------------------
(* Safety *)

TypeOK ==
    /\ caller \in {"new", "ready", "clamp", "cleanup", "stopped"}
    /\ thread \in {"none", "open", "test", "read", "high", "low", "ended",
                  "failed"}
    /\ needToStop \in BOOLEAN
    /\ duration \in 0..(Width - 1)
    /\ cur \in 0..(Width - 1)
    /\ line \in {0, 1}
    /\ wanted \in Durations \cup {0}
    /\ sets \in 0..MaxSets
    /\ torn \in BOOLEAN

\* The second sleep of a cycle: an unsigned difference.
LowTime == (Period - cur) % Width

\* A cycle lasts one period, and the line goes low in it, unless its duration
\* was read inside set_pwm_duration(), between the store and the clamp: only
\* then may the difference wrap around to a sleep of more than an hour.
CycleLastsOnePeriod ==
    (thread \in {"high", "low"} /\ ~torn) =>
        /\ cur + LowTime = Period
        /\ LowTime > 0

\* The line is high only between the two halves of a cycle that has a high
\* half, or for good after gpiod has thrown there: a stop request never leaves
\* it high.
HighOnlyInCycle ==
    (line = 1) => thread \in {"low", "failed"} /\ cur # 0

-----------------------------------------------------------------------------
(* Liveness *)

\* After the last call of set_pwm_duration() the PWM comes to run with its
\* argument, clamped, whatever cycle it was in; unless the thread has ended.
SettingTakesEffect ==
    \A d \in Durations :
        (caller = "ready" /\ wanted = d /\ sets = MaxSets /\ thread # "none") ~>
            (thread \in {"ended", "failed"} \/ cur = Clamp(d))

\* SingleThread.cpp:61: when stop() detaches it, "the thread is about to
\* stop".
StopEndsThread == caller = "stopped" ~> thread \in {"ended", "failed"}
=============================================================================
