------------------------------- MODULE PWMDuty -------------------------------
(***************************************************************************)
(* The arithmetic of GPIOEngineController::set_speed() and                 *)
(* GPIOSteeringController::set_steering(): from a level to a PWM duration, *)
(* in unsigned int with its wrapping, and the direction line.              *)
(*                                                                         *)
(* Unsigned values are in 0..(Width - 1).  The configurations are those of *)
(* a sensible file: duty cycles in percent, the smallest first.            *)
(***************************************************************************)
EXTENDS Integers

CONSTANTS
    Width,      \* 2^w, w the width of unsigned int
    RevModes,   \* the engine's reverse modes
    Periods,    \* pwm_period, in microseconds
    Duties      \* the percentages used as min_duty_cycle and max_duty_cycle

ASSUME DutyAssumption ==
    /\ Width \in Nat \ {0}
    /\ Periods \subseteq 1..(Width - 1)
    /\ Duties \subseteq 0..100
    /\ RevModes \subseteq {"NO_REVERSE", "SAME_LINE", "DEDICATED_LINE"}

Level == -10..10

VARIABLES
    config,         \* the engine's configuration
    rudderConfig,   \* the rudder's
    speed,          \* GPIOEngineController::_cur_speed
    steering,       \* GPIOSteeringController::_cur_steering
    engine,         \* the engine's pwm_duration
    rudder,         \* the rudder's pwm_duration
    forward         \* level of the direction line

vars == <<config, rudderConfig, speed, steering, engine, rudder, forward>>

Configs == {c \in [rev : RevModes, period : Periods, min : Duties, max : Duties] :
               c.min <= c.max}

\* The rudder's period may be left out of the file.
RudderConfigs == {c \in [period : Periods \cup {0}, min : Duties, max : Duties] :
                     c.min <= c.max}

-----------------------------------------------------------------------------
(* int and unsigned int *)

Unsigned(i) == i % Width

Abs(i) == IF i < 0 THEN -i ELSE i

\* Percent of the period, by unsigned arithmetic.
Percent(duty, period) == Unsigned(duty * period) \div 100

-----------------------------------------------------------------------------
(* Durations *)

Neutral(c) == (c.max - c.min) \div 2

\* Mutant: the clamp below min_duty_cycle only.
SameLineDutyNoMax(c, v) ==
    LET step == Unsigned(c.max - Neutral(c)) \div 10
        duty == Unsigned(Neutral(c) + step * v)
    IN IF duty < c.min THEN c.min ELSE duty

\* duty_cycle is an int, but compared with unsigned limits: a negative one is
\* larger than both.
SameLineDuty(c, v) ==
    LET step == Unsigned(c.max - Neutral(c)) \div 10
        duty == Unsigned(Neutral(c) + step * v)
    IN IF duty < c.min THEN c.min
       ELSE IF duty > c.max THEN c.max ELSE duty

\* Mutant: the level's sign is kept.
OneWayDutySigned(c, v) == Unsigned(c.min + Unsigned(v * (c.max - c.min)) \div 10)

OneWayDuty(c, v) == c.min + Unsigned(Abs(v) * (c.max - c.min)) \div 10

EngineDuration(c, v) ==
    Percent(IF c.rev = "SAME_LINE" THEN SameLineDuty(c, v) ELSE OneWayDuty(c, v),
            c.period)

\* Mutant: the middle is half of the range, as in SAME_LINE mode.
RudderDurationFromHalf(c, v) ==
    LET min == c.min * 10
        max == c.max * 10
        straight == (max - min) \div 2
        duty == straight + Unsigned(v * (max - straight)) \div 10
    IN Unsigned(duty * c.period) \div 1000

\* Percentages are scaled by ten; a level to the left is a huge unsigned
\* number before it is divided.
RudderDuration(c, v) ==
    LET min == c.min * 10
        max == c.max * 10
        straight == (min + max) \div 2
        duty == Unsigned(straight + Unsigned(v * (max - straight)) \div 10)
    IN Unsigned(duty * c.period) \div 1000

-----------------------------------------------------------------------------

\* The constructors' values: STOP, STRAIGHT and an idle output.
Init ==
    /\ config \in Configs
    /\ rudderConfig \in RudderConfigs
    /\ speed = 0
    /\ steering = 0
    /\ engine = 0
    /\ rudder = 0
    /\ forward = 0

\* Mutant: the direction line is given the level instead of its sign.
SetSpeedRawDirection(v) ==
    /\ speed' = v
    /\ engine' = EngineDuration(config, v)
    /\ forward' = IF config.rev # "DEDICATED_LINE" THEN forward ELSE v
    /\ UNCHANGED <<config, rudderConfig, steering, rudder>>

SetSpeed(v) ==
    /\ speed' = v
    /\ engine' = EngineDuration(config, v)
    /\ forward' = IF config.rev # "DEDICATED_LINE" THEN forward
                  ELSE IF v >= 0 THEN 1 ELSE 0
    /\ UNCHANGED <<config, rudderConfig, steering, rudder>>

SetSteering(v) ==
    /\ steering' = v
    /\ rudder' = RudderDuration(rudderConfig, v)
    /\ UNCHANGED <<config, rudderConfig, speed, engine, forward>>

Next == \E v \in Level : SetSpeed(v) \/ SetSteering(v)

Spec == Init /\ [][Next]_vars

-----------------------------------------------------------------------------
(* Properties *)

EngineTypeOK ==
    /\ config \in Configs
    /\ speed \in Level
    /\ engine \in 0..(Width - 1)
    /\ forward \in {0, 1}

RudderTypeOK ==
    /\ rudderConfig \in RudderConfigs
    /\ steering \in Level
    /\ rudder \in 0..(Width - 1)

TypeOK == EngineTypeOK /\ RudderTypeOK

WithinDuty(c, d) == Percent(c.min, c.period) <= d /\ d <= Percent(c.max, c.period)

\* GPIOEngineConfig.hpp:52: min_duty_cycle and max_duty_cycle bound what the
\* engine is given, in every reverse mode and at every speed.
EngineWithinDuty == [][engine' # engine => WithinDuty(config, engine')]_vars

\* More speed is never less thrust: forward in every mode, and in reverse
\* where reverse has a line of its own or is just the same direction.
FasterIsNotWeaker ==
    [][(0 <= speed /\ speed <= speed')
          \/ (config.rev # "SAME_LINE" /\ Abs(speed) <= Abs(speed'))
       => engine <= engine']_vars

\* What set_steering() computes without rounding or wrapping, times 10000.
ExactRudder(v) ==
    LET c == rudderConfig IN (50 * (c.max + c.min) + 5 * v * (c.max - c.min)) * c.period

\* The detour of a left turn through huge unsigned numbers comes back to
\* within a microsecond and a thousandth of the period of the exact value when
\* the period is a multiple of ten and the smallest duty cycle is not zero; a right
\* turn always does (GPIOSteeringController.cpp:90-101).
RudderNearExact ==
    [][rudder' # rudder
       /\ (steering' >= 0 \/ (rudderConfig.period % 10 = 0 /\ rudderConfig.min > 0)) =>
          LET slack == 10000 + 10 * rudderConfig.period
          IN Abs(10000 * rudder' - ExactRudder(steering')) <= slack]_vars

\* GPIOSteeringConfig.hpp:41: "min and max duty cycle are in % of pwm_period":
\* the rudder's pulse is never shorter or longer than that.
RudderWithinDuty == [][rudder' # rudder => WithinDuty(rudderConfig, rudder')]_vars

\* GPIOEngineConfig.hpp:32: "reverse is managed by the same GPIO line as
\* engine control": a pulse for reverse is not longer than the one for STOP.
ReverseIsBelowStop ==
    [][(config.rev = "SAME_LINE" /\ speed' < 0)
          => engine' <= EngineDuration(config, 0)]_vars
=============================================================================
