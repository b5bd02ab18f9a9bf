----------------------------- MODULE PWMDutyProofs -----------------------------
(***************************************************************************)
(* For every configuration whose products fit into unsigned int: an engine *)
(* gets pulses within its duty cycles, and a faster one no weaker ones; a  *)
(* rudder gets its exact pulse, but for rounding.                          *)
(***************************************************************************)
EXTENDS PWMDuty, BasicLemmas

\* A hundred periods fit, as they do in 32 bits for periods up to 42 seconds.
Fits == 1000 < Width /\ \A p \in Periods : 100 * p < Width

-----------------------------------------------------------------------------
(* Durations *)

\* What every configuration is made of.
LEMMA ConfigTypes ==
    ASSUME NEW c \in Configs
    PROVE  /\ c.min \in 0..100 /\ c.max \in 0..100 /\ c.min <= c.max
           /\ c.period \in Periods /\ c.period \in Nat /\ Width \in Nat \ {0}
<1>1. c.min \in Duties /\ c.max \in Duties /\ c.period \in Periods /\ c.min <= c.max
    BY DEF Configs
<1>2. Duties \subseteq 0..100 /\ Periods \subseteq 1..(Width - 1) /\ Width \in Nat \ {0}
    BY DutyAssumption
<1>3. c.min \in 0..100 /\ c.max \in 0..100
    BY <1>1, <1>2
<1>4. c.period \in 1..(Width - 1)
    BY <1>1, <1>2
<1>5. c.period \in Nat
    BY <1>2, <1>4, SMT
<1> QED BY <1>1, <1>2, <1>3, <1>5

\* A larger percentage of the period is not shorter.
LEMMA PercentGrows ==
    ASSUME Fits, NEW p \in Periods, NEW a \in 0..100, NEW b \in 0..100, a <= b
    PROVE  Percent(a, p) \in Nat /\ Percent(a, p) <= Percent(b, p)
<1>1. p \in Nat /\ Width \in Nat /\ 100 * p < Width
    BY DutyAssumption DEF Fits
<1>2. a * p \in Nat /\ b * p \in Nat /\ a * p <= b * p /\ b * p <= 100 * p
    BY <1>1, ProductGrows
<1>3. a * p < Width /\ b * p < Width
    BY <1>1, <1>2, SMT
<1>4. (a * p) % Width = a * p /\ (b * p) % Width = b * p
    BY <1>1, <1>2, <1>3, SmallModulo
<1> DEFINE x == a * p
           y == b * p
<1>5. Percent(a, p) = x \div 100 /\ Percent(b, p) = y \div 100
    BY <1>4 DEF Percent, Unsigned
<1>6. x \in Nat /\ y \in Nat /\ x <= y
    BY <1>2
<1> HIDE DEF x, y
<1> QED BY <1>5, <1>6, SMT

\* Without a line shared by both directions, the duty grows with the level.
LEMMA OneWayGrows ==
    ASSUME Fits, NEW c \in Configs, NEW u \in Level, NEW v \in Level, Abs(u) <= Abs(v)
    PROVE  /\ OneWayDuty(c, v) \in 0..100
           /\ c.min <= OneWayDuty(c, v) /\ OneWayDuty(c, v) <= c.max
           /\ OneWayDuty(c, u) <= OneWayDuty(c, v)
<1> DEFINE r == c.max - c.min
           x == Abs(u) * r
           y == Abs(v) * r
<1>0. c.min \in 0..100 /\ c.max \in 0..100 /\ c.min <= c.max
    BY ConfigTypes
<1>a. r \in 0..100
    BY <1>0, SMT
<1>b. Abs(u) \in 0..10 /\ Abs(v) \in 0..10
    BY DEF Level, Abs
<1>c. Width \in Nat /\ 1000 < Width
    BY DutyAssumption DEF Fits
<1>1. r \in 0..100 /\ Abs(u) \in 0..10 /\ Abs(v) \in 0..10 /\ Width \in Nat /\ 1000 < Width
    BY <1>a, <1>b, <1>c
<1>2. x \in Nat /\ y \in Nat /\ x <= y /\ y <= 10 * r
    BY <1>1, ProductGrows
<1> HIDE DEF x, y, r
<1>3. x % Width = x /\ y % Width = y
    BY <1>1, <1>2, SmallModulo, SMT
<1>4. x \div 10 <= y \div 10 /\ y \div 10 <= r /\ 0 <= y \div 10 /\ y \div 10 \in Int
      /\ x \div 10 \in Int
    BY <1>1, <1>2, SMT
<1>5. OneWayDuty(c, u) = c.min + x \div 10 /\ OneWayDuty(c, v) = c.min + y \div 10
    BY <1>3 DEF OneWayDuty, Unsigned, x, y, r
<1>6. r = c.max - c.min
    BY DEF r
<1> DEFINE du == OneWayDuty(c, u)
           dv == OneWayDuty(c, v)
           lo == c.min
           hi == c.max
<1>7. lo \in 0..100 /\ hi \in 0..100 /\ lo <= hi /\ r = hi - lo
    BY <1>6, ConfigTypes
<1>8. du = lo + x \div 10 /\ dv = lo + y \div 10
    BY <1>5
<1> HIDE DEF du, dv, lo, hi
<1>9. dv \in 0..100 /\ lo <= dv /\ dv <= hi /\ du <= dv
    BY <1>4, <1>7, <1>8, SMT
<1> QED BY <1>9 DEF du, dv, lo, hi

\* Half of the range is no more than the largest duty cycle.
LEMMA NeutralBounds ==
    ASSUME NEW c \in Configs
    PROVE  Neutral(c) \in 0..50 /\ c.max - Neutral(c) \in 0..100
<1> DEFINE lo == c.min
           hi == c.max
           n  == Neutral(c)
<1>1. lo \in 0..100 /\ hi \in 0..100 /\ lo <= hi
    BY ConfigTypes
<1>2. n = (hi - lo) \div 2
    BY DEF Neutral
<1> HIDE DEF lo, hi, n
<1>3. n \in 0..50 /\ hi - n \in 0..100
    BY <1>1, <1>2, SMT
<1> QED BY <1>3 DEF hi, n

\* The conversion yields a natural number.
LEMMA UnsignedNat ==
    ASSUME NEW i \in Int
    PROVE  Unsigned(i) \in Nat
<1>1. Width \in Nat \ {0}
    BY DutyAssumption
<1>2. i % Width \in 0..(Width - 1)
    BY <1>1, ModuloRange
<1> QED BY <1>1, <1>2 DEF Unsigned

\* With a shared line the duty is clamped, and grows with the level ahead.
LEMMA SameLineBounds ==
    ASSUME NEW c \in Configs, NEW v \in Level
    PROVE  SameLineDuty(c, v) \in 0..100 /\ c.min <= SameLineDuty(c, v)
           /\ SameLineDuty(c, v) <= c.max
<1> DEFINE step == Unsigned(c.max - Neutral(c)) \div 10
           duty == Unsigned(Neutral(c) + step * v)
<1>1. Neutral(c) \in Int /\ c.max - Neutral(c) \in Int
    BY NeutralBounds
<1>2. Unsigned(c.max - Neutral(c)) \in Nat
    BY <1>1, UnsignedNat
<1>3. step \in Int
    BY <1>2, SMT
<1> HIDE DEF step
<1>4. Neutral(c) + step * v \in Int
    BY <1>1, <1>3 DEF Level
<1>5. duty \in Nat
    BY <1>4, UnsignedNat
<1>6. SameLineDuty(c, v) = IF duty < c.min THEN c.min ELSE IF duty > c.max THEN c.max ELSE duty
    BY DEF SameLineDuty, step
<1> HIDE DEF duty
<1> QED BY <1>5, <1>6, ConfigTypes

\* With a shared line more speed ahead is no smaller duty.
LEMMA SameLineGrows ==
    ASSUME Fits, NEW c \in Configs, NEW u \in Level, NEW v \in Level, 0 <= u, u <= v
    PROVE  SameLineDuty(c, u) <= SameLineDuty(c, v)
<1> DEFINE n == Neutral(c)
           step == Unsigned(c.max - n) \div 10
           x == n + step * u
           y == n + step * v
<1>1. n \in 0..50 /\ c.max - n \in 0..100 /\ Width \in Nat /\ 1000 < Width
    BY NeutralBounds, ConfigTypes DEF Fits
<1>2. Unsigned(c.max - n) = c.max - n
    BY <1>1, SmallModulo, SMT DEF Unsigned
<1>3. step \in 0..10
    BY <1>1, <1>2, SMT
<1> HIDE DEF n, step
<1>4. u * step \in Nat /\ u * step <= v * step /\ v * step <= 10 * step
    BY <1>3, ProductGrows DEF Level
<1>5. x \in Nat /\ y \in Nat /\ x <= y /\ y <= 150
    BY <1>1, <1>3, <1>4, SMT DEF Level
<1> HIDE DEF x, y
<1>6. Unsigned(x) = x /\ Unsigned(y) = y
    BY <1>1, <1>5, SmallModulo, SMT DEF Unsigned
<1>7. /\ SameLineDuty(c, u) = IF x < c.min THEN c.min ELSE IF x > c.max THEN c.max ELSE x
      /\ SameLineDuty(c, v) = IF y < c.min THEN c.min ELSE IF y > c.max THEN c.max ELSE y
    BY <1>6 DEF SameLineDuty, x, y, n, step
<1> QED BY <1>5, <1>7, ConfigTypes

\* In every mode the pulse lies between those of the two duty cycles.
LEMMA EngineBounds ==
    ASSUME Fits, NEW c \in Configs, NEW v \in Level
    PROVE  /\ EngineDuration(c, v) \in Nat
           /\ Percent(c.min, c.period) <= EngineDuration(c, v)
           /\ EngineDuration(c, v) <= Percent(c.max, c.period)
<1> DEFINE d == IF c.rev = "SAME_LINE" THEN SameLineDuty(c, v) ELSE OneWayDuty(c, v)
<1>1. Abs(v) <= Abs(v)
    BY DEF Level, Abs
<1>2. d \in 0..100 /\ c.min <= d /\ d <= c.max
    BY <1>1, SameLineBounds, OneWayGrows
<1>3. EngineDuration(c, v) = Percent(d, c.period)
    BY DEF EngineDuration
<1> HIDE DEF d
<1> QED BY <1>2, <1>3, ConfigTypes, PercentGrows

-----------------------------------------------------------------------------
(* The rudder *)

\* A thousand periods fit, as they do in 32 bits for periods up to 4 seconds.
RudderFits == 5000 < Width /\ \A p \in Periods : 1000 * p < Width

\* What every configuration of a rudder is made of; a period left out is 0.
LEMMA RudderSettings ==
    ASSUME NEW c \in RudderConfigs
    PROVE  /\ c.min \in 0..100 /\ c.max \in 0..100 /\ c.min <= c.max
           /\ c.period \in Periods \cup {0} /\ c.period \in Nat /\ Width \in Nat \ {0}
<1>1. c.min \in Duties /\ c.max \in Duties /\ c.period \in Periods \cup {0} /\ c.min <= c.max
    BY DEF RudderConfigs
<1>2. Duties \subseteq 0..100 /\ Periods \subseteq 1..(Width - 1) /\ Width \in Nat \ {0}
    BY DutyAssumption
<1>3. c.min \in 0..100 /\ c.max \in 0..100
    BY <1>1, <1>2
<1>4. c.period = 0 \/ c.period \in 1..(Width - 1)
    BY <1>1, <1>2
<1>5. c.period \in Nat
    BY <1>2, <1>4, SMT
<1> QED BY <1>1, <1>2, <1>3, <1>5

\* A thousand of its periods fit.
LEMMA RudderTypes ==
    ASSUME RudderFits, NEW c \in RudderConfigs
    PROVE  /\ c.min \in 0..100 /\ c.max \in 0..100 /\ c.min <= c.max
           /\ c.period \in Nat /\ Width \in Nat /\ 5000 < Width /\ 1000 * c.period < Width
<1>1. c.period \in Periods \cup {0} /\ Width \in Nat
    BY RudderSettings
<1>2. CASE c.period \in Periods
    BY <1>2, RudderSettings DEF RudderFits
<1>3. CASE c.period = 0
    BY <1>1, <1>3, RudderSettings DEF RudderFits
<1> QED BY <1>1, <1>2, <1>3

\* What one level adds to the middle, in hundredths of a percent.
Turn(c, v) == v * (5 * (c.max - c.min))

\* It is between the two ends of the range.
LEMMA TurnBounds ==
    ASSUME NEW c \in RudderConfigs, NEW v \in Level
    PROVE  /\ Turn(c, v) \in Int
           /\ -(50 * (c.max - c.min)) <= Turn(c, v)
           /\ Turn(c, v) <= 50 * (c.max - c.min)
           /\ v >= 0 => Turn(c, v) >= 0
           /\ v < 0 => Turn(c, v) <= 0
<1> DEFINE lo == c.min
           hi == c.max
           d == 5 * (hi - lo)
           t == Turn(c, v)
<1>a. lo \in 0..100 /\ hi \in 0..100 /\ lo <= hi
    BY RudderSettings
<1>b. t = v * d
    BY DEF Turn
<1> HIDE DEF lo, hi, t
<1>1. d \in Nat /\ 10 * d = 50 * (hi - lo)
    BY <1>a, SMT
<1> SUFFICES /\ t \in Int /\ -(10 * d) <= t /\ t <= 10 * d
             /\ (v >= 0 => t >= 0) /\ (v < 0 => t <= 0)
    BY <1>1 DEF t, lo, hi
<1> HIDE DEF d
<1>3. CASE v >= 0
    <2>1. v * d \in Nat /\ v * d <= 10 * d
        BY <1>1, <1>3, ProductGrows DEF Level
    <2> QED BY <1>1, <1>b, <1>3, <2>1 DEF Level
<1>4. CASE v < 0
    <2>1. (-v) * d \in Nat /\ (-v) * d <= 10 * d
        BY <1>1, <1>4, ProductGrows DEF Level
    <2>2. v * d = -((-v) * d)
        BY <1>1, SMT DEF Level
    <2> QED BY <1>1, <1>b, <1>4, <2>1, <2>2 DEF Level
<1> QED BY <1>3, <1>4 DEF Level

\* Without a left turn nothing wraps around, and the pulse is the middle's and the
\* turn's, rounded down twice.
LEMMA RightRudder ==
    ASSUME RudderFits, NEW c \in RudderConfigs, NEW v \in Level, Turn(c, v) >= 0
    PROVE  LET exact == (50 * (c.max + c.min) + Turn(c, v)) * c.period IN
           /\ RudderDuration(c, v) \in Nat
           /\ 10000 * RudderDuration(c, v) <= exact
           /\ exact <= 10000 * RudderDuration(c, v) + 10000 + 10 * c.period
<1> DEFINE a == c.min
           b == c.max
           p == c.period
           t == Turn(c, v)
<1>1. a \in 0..100 /\ b \in 0..100 /\ a <= b /\ p \in Nat /\ Width \in Nat
      /\ 5000 < Width /\ 1000 * p < Width
    BY RudderTypes
<1>2. t \in Nat /\ t <= 50 * (b - a)
    BY TurnBounds
<1> HIDE DEF a, b, p, t
<1> DEFINE s == (a * 10 + b * 10) \div 2
<1>3. RudderDuration(c, v) =
        Unsigned(Unsigned(s + Unsigned(v * (b * 10 - s)) \div 10) * p) \div 1000
    BY DEF RudderDuration, a, b, p
<1>4. s = 5 * (a + b)
    BY <1>1, SMT
<1>5. v * (b * 10 - s) = t
    <2>1. b * 10 - s = 5 * (b - a)
        BY <1>1, <1>4, SMT
    <2> QED BY <2>1 DEF Turn, t, a, b
<1> HIDE DEF s
<1>6. Unsigned(t) = t
    BY <1>1, <1>2, SmallModulo, SMT DEF Unsigned
<1> DEFINE u == s + t \div 10
<1>7. u \in Nat /\ u <= 1000 /\ 10 * u <= 10 * s + t /\ 10 * s + t <= 10 * u + 9
    BY <1>1, <1>2, <1>4, SMT
<1> HIDE DEF u
<1>8. Unsigned(u) = u
    BY <1>1, <1>7, SmallModulo, SMT DEF Unsigned
<1> DEFINE x == u * p
<1>9. x \in Nat /\ x <= 1000 * p
    BY <1>1, <1>7, ProductGrows
<1>10. Unsigned(x) = x
    <2> HIDE DEF x
    <2> QED BY <1>1, <1>9, SmallModulo, SMT DEF Unsigned
<1>11. RudderDuration(c, v) = x \div 1000
    BY <1>3, <1>5, <1>6, <1>8, <1>10 DEF u
<1> DEFINE e == (10 * s + t) * p
<1>12. 10 * x <= e /\ e <= 10 * x + 9 * p
    <2>1. (10 * u) * p <= e /\ e <= (10 * u + 9) * p
        BY <1>1, <1>2, <1>4, <1>7, ProductGrows
    <2>2. (10 * u) * p = 10 * x /\ (10 * u + 9) * p = 10 * x + 9 * p
        BY <1>1, <1>7, SMT
    <2> QED BY <2>1, <2>2
<1>13. e \in Int
    BY <1>1, <1>2, <1>4, SMT
<1>14. (50 * (b + a) + t) * p = e
    BY <1>1, <1>4
<1> HIDE DEF x, e
<1> DEFINE y == x \div 1000
<1>15. y \in Nat /\ 10000 * y <= e /\ e <= 10000 * y + 10000 + 10 * p
    BY <1>1, <1>9, <1>12, <1>13, SMT
<1> HIDE DEF y
<1> QED BY <1>11, <1>14, <1>15 DEF a, b, p, t, y

\* A left turn wraps around before it is divided by ten; when the period is a multiple
\* of ten the product with it wraps around too, and is the right one but for the
\* remainder.
LEMMA LeftRudder ==
    ASSUME RudderFits, NEW c \in RudderConfigs, NEW v \in Level, Turn(c, v) < 0,
           c.period % 10 = 0, c.min > 0
    PROVE  LET exact == (50 * (c.max + c.min) + Turn(c, v)) * c.period IN
           /\ RudderDuration(c, v) \in Nat
           /\ 10000 * RudderDuration(c, v) <= exact
           /\ exact <= 10000 * RudderDuration(c, v) + 10000 + 10 * c.period
<1> DEFINE a == c.min
           b == c.max
           p == c.period
           t == Turn(c, v)
<1>1. a \in 1..100 /\ b \in 0..100 /\ a <= b /\ p \in Nat /\ p % 10 = 0 /\ Width \in Nat
      /\ 5000 < Width /\ 1000 * p < Width
    BY RudderTypes
<1>2. t \in Int /\ t < 0 /\ -(50 * (b - a)) <= t
    BY TurnBounds
<1> HIDE DEF a, b, p, t
<1> DEFINE s == (a * 10 + b * 10) \div 2
<1>3. RudderDuration(c, v) =
        Unsigned(Unsigned(s + Unsigned(v * (b * 10 - s)) \div 10) * p) \div 1000
    BY DEF RudderDuration, a, b, p
<1>4. s = 5 * (a + b)
    BY <1>1, SMT
<1>5. v * (b * 10 - s) = t
    <2>1. b * 10 - s = 5 * (b - a)
        BY <1>1, <1>4, SMT
    <2> QED BY <2>1 DEF Turn, t, a, b
<1> HIDE DEF s
<1> DEFINE w == Width + t
           r == w % 10
           q == w \div 10
           k == p \div 10
           m == 10 * s + t - r
<1>6. Unsigned(t) = w
    <2>1. w \in Nat /\ w < Width
        BY <1>1, <1>2, SMT
    <2>2. t % Width = w
        BY <1>1, <1>2, <2>1, SMT
    <2> QED BY <2>2 DEF Unsigned
<1>7. w \in Nat /\ w < Width /\ r \in 0..9 /\ q \in Nat /\ w = 10 * q + r
    BY <1>1, <1>2, SMT
<1>8. k \in Nat /\ p = 10 * k
    BY <1>1, SMT
<1>9. m \in Nat /\ m <= 10000
    BY <1>1, <1>2, <1>4, <1>7, SMT
<1>10. 10 * (s + q) = Width + m
    BY <1>1, <1>2, <1>4, <1>7, SMT
<1>11. s + q \in Nat /\ s + q < Width
    <2>1. s \in Nat
        BY <1>1, <1>4
    <2> HIDE DEF m, q, w, r
    <2> QED BY <1>1, <1>7, <1>9, <1>10, <2>1, SMT
<1>12. Unsigned(s + q) = s + q
    BY <1>1, <1>11, SmallModulo, SMT DEF Unsigned
<1>13. 10 * s + t = m + r
    BY <1>1, <1>2, <1>4, <1>7
<1> DEFINE x == k * m
<1>14. x \in Nat /\ x < Width
    <2>1. m * k \in Nat /\ m * k <= 10000 * k
        BY <1>8, <1>9, ProductGrows
    <2>2. x = m * k
        BY <1>8, <1>9, SMT
    <2> QED BY <2>1, <2>2, <1>1, <1>8
<1>15. (s + q) * p = k * Width + x
    <2>1. (s + q) * p = (10 * (s + q)) * k
        BY <1>8, <1>11, SMT
    <2>2. (Width + m) * k = k * Width + x
        BY <1>1, <1>8, <1>9, SMT
    <2> QED BY <2>1, <2>2, <1>10
<1>16. Unsigned((s + q) * p) = x
    <2> HIDE DEF x, k, m, q
    <2>1. (k * Width + x) % Width = x
        BY <1>1, <1>8, <1>14, ModuloTurns
    <2> QED BY <1>15, <2>1 DEF Unsigned
<1>17. RudderDuration(c, v) = x \div 1000
    BY <1>3, <1>5, <1>6, <1>12, <1>16
<1> DEFINE e == (10 * s + t) * p
<1>18. 10 * x <= e /\ e <= 10 * x + 9 * p /\ e \in Int
    <2>1. e = 10 * x + r * p
        <3>1. e = (m + r) * (10 * k)
            BY <1>8, <1>13
        <3>2. (m + r) * (10 * k) = 10 * (k * m) + r * (10 * k)
            <4> HIDE DEF m, r, k
            <4> QED BY <1>7, <1>8, <1>9, SMT
        <3> QED BY <3>1, <3>2, <1>8
    <2>2. r * p \in Nat /\ r * p <= 9 * p
        <3> HIDE DEF r
        <3> QED BY <1>1, <1>7, ProductGrows
    <2> HIDE DEF e, x, r
    <2> QED BY <1>1, <1>14, <2>1, <2>2
<1>19. (50 * (b + a) + t) * p = e
    BY <1>1, <1>4
<1> HIDE DEF x, e, k, m, w, r, q
<1> DEFINE y == x \div 1000
<1>20. y \in Nat /\ 10000 * y <= e /\ e <= 10000 * y + 10000 + 10 * p
    BY <1>1, <1>14, <1>18, SMT
<1> HIDE DEF y
<1> QED BY <1>17, <1>19, <1>20 DEF a, b, p, t, y

-----------------------------------------------------------------------------
(* The theorems *)

\* Engine and rudder have the pulses of the levels that are remembered, or none yet.
EngineInv ==
    /\ config \in Configs
    /\ speed \in Level
    /\ engine = 0 \/ engine = EngineDuration(config, speed)

RudderInv ==
    /\ rudderConfig \in RudderConfigs
    /\ steering \in Level
    /\ rudder = 0 \/ rudder = RudderDuration(rudderConfig, steering)

DutyInv == EngineInv /\ RudderInv

\* set_speed() leaves the engine with the pulse that belongs to the speed it remembers, and
\* set_steering() the rudder with that of its angle (GPIOEngineController.cpp:115-184,
\* GPIOSteeringController.cpp:90-109).
THEOREM DutyInvariant == Spec => []DutyInv
<1>1. Init => DutyInv
    BY DEF Init, DutyInv, EngineInv, RudderInv, Level
<1>2. DutyInv /\ [Next]_vars => DutyInv'
    BY DEF DutyInv, EngineInv, RudderInv, Next, SetSpeed, SetSteering, vars
<1> QED BY <1>1, <1>2, PTL DEF Spec

\* Every pulse that the engine is newly given is within the duty cycles.
LEMMA PulseStep ==
    ASSUME Fits, config \in Configs, Next, engine' # engine
    PROVE  WithinDuty(config, engine')
<1>1. PICK v \in Level : SetSpeed(v)
    BY DEF Next, SetSteering
<1> QED BY <1>1, EngineBounds DEF SetSpeed, WithinDuty

\* In every reverse mode and at every speed the pulse lies within the duty cycles of
\* the file, for every width of unsigned int that holds a hundred periods
\* (GPIOEngineController.cpp:115-184).
THEOREM PulsesWithinDuty ==
    ASSUME Fits
    PROVE  Spec => EngineWithinDuty
<1>1. DutyInv /\ [Next]_vars => [engine' # engine => WithinDuty(config, engine')]_vars
    BY PulseStep DEF DutyInv, EngineInv, vars
<1> QED BY <1>1, DutyInvariant, PTL DEF Spec, EngineWithinDuty

\* The speed that is set does not ask for less than the one before: in SAME_LINE mode
\* only ahead, as a smaller duty is more thrust astern.
Faster ==
    \/ 0 <= speed /\ speed <= speed'
    \/ config.rev # "SAME_LINE" /\ Abs(speed) <= Abs(speed')

\* Then the pulse is no shorter.
LEMMA ThrustStep ==
    ASSUME Fits, EngineInv, Next, Faster
    PROVE  engine <= engine'
<1>0. engine \in Nat /\ engine <= engine
    BY EngineBounds DEF EngineInv
<1>1. ASSUME NEW v \in Level, SetSpeed(v) PROVE engine <= engine'
    <2>1. engine' = EngineDuration(config, v) /\ speed' = v
          /\ config \in Configs /\ speed \in Level
        BY <1>1 DEF SetSpeed, EngineInv
    <2>2. engine = 0 \/ engine = EngineDuration(config, speed)
        BY DEF EngineInv
    <2>3. EngineDuration(config, v) \in Nat
        BY <2>1, EngineBounds
    <2>4. EngineDuration(config, speed) <= EngineDuration(config, v)
        <3>1. CASE config.rev = "SAME_LINE"
            <4>1. 0 <= speed /\ speed <= v
                BY <2>1, <3>1 DEF Faster
            <4>2. SameLineDuty(config, speed) <= SameLineDuty(config, v)
                BY <2>1, <4>1, SameLineGrows
            <4>3. SameLineDuty(config, speed) \in 0..100 /\ SameLineDuty(config, v) \in 0..100
                BY <2>1, SameLineBounds
            <4> QED BY <2>1, <3>1, <4>2, <4>3, ConfigTypes, PercentGrows DEF EngineDuration
        <3>2. CASE config.rev # "SAME_LINE"
            <4>1. Abs(speed) <= Abs(v) /\ Abs(speed) <= Abs(speed)
                BY <2>1, <3>2 DEF Level, Abs, Faster
            <4>2. OneWayDuty(config, speed) \in 0..100 /\ OneWayDuty(config, v) \in 0..100
                  /\ OneWayDuty(config, speed) <= OneWayDuty(config, v)
                BY <2>1, <4>1, OneWayGrows
            <4> QED BY <2>1, <3>2, <4>2, ConfigTypes, PercentGrows DEF EngineDuration
        <3> QED BY <3>1, <3>2
    <2> QED BY <2>1, <2>2, <2>3, <2>4
<1>2. ASSUME NEW v \in Level, SetSteering(v) PROVE engine <= engine'
    BY <1>0, <1>2 DEF SetSteering
<1> QED BY <1>1, <1>2 DEF Next

\* More speed is never less thrust, ahead in every mode, and astern where reverse has
\* a line of its own (GPIOEngineController.cpp:115-184).
THEOREM ThrustGrows ==
    ASSUME Fits
    PROVE  Spec => FasterIsNotWeaker
<1>1. DutyInv /\ [Next]_vars => [Faster => engine <= engine']_vars
    BY ThrustStep DEF DutyInv
<1>2. FasterIsNotWeaker <=> [][Faster => engine <= engine']_vars
    BY PTL DEF FasterIsNotWeaker, Faster
<1> QED BY <1>1, <1>2, DutyInvariant, PTL DEF Spec

\* Every step of the controllers leaves the rudder near its exact value.
LEMMA RudderStep ==
    ASSUME RudderFits, rudderConfig \in RudderConfigs, Next, rudder' # rudder,
           steering' >= 0 \/ (rudderConfig.period % 10 = 0 /\ rudderConfig.min > 0)
    PROVE  Abs(10000 * rudder' - ExactRudder(steering')) <= 10000 + 10 * rudderConfig.period
<1>1. PICK v \in Level : SetSteering(v)
    BY DEF Next, SetSpeed
<1>2. rudder' = RudderDuration(rudderConfig, v) /\ steering' = v
    BY <1>1 DEF SetSteering
<1> DEFINE exact == (50 * (rudderConfig.max + rudderConfig.min) + Turn(rudderConfig, v))
                       * rudderConfig.period
           d == RudderDuration(rudderConfig, v)
<1>3. d \in Nat /\ 10000 * d <= exact /\ exact <= 10000 * d + 10000 + 10 * rudderConfig.period
    <2>1. CASE Turn(rudderConfig, v) >= 0
        BY <2>1, RightRudder
    <2>2. CASE Turn(rudderConfig, v) < 0
        <3>1. v < 0
            BY <2>2, TurnBounds DEF Level
        <3> QED BY <1>2, <2>2, <3>1, LeftRudder DEF Level
    <2> QED BY <2>1, <2>2, TurnBounds
<1>4. ExactRudder(v) = exact /\ exact \in Int /\ rudderConfig.period \in Nat
    <2> DEFINE hi == rudderConfig.max
               lo == rudderConfig.min
               p == rudderConfig.period
               t == Turn(rudderConfig, v)
    <2>1. hi \in Int /\ lo \in Int /\ p \in Nat /\ v \in Int
        BY RudderSettings DEF Level
    <2>2. t = v * (5 * (hi - lo)) /\ t \in Int
        BY TurnBounds DEF Turn
    <2>3. ExactRudder(v) = (50 * (hi + lo) + 5 * v * (hi - lo)) * p
        BY DEF ExactRudder
    <2>4. exact = (50 * (hi + lo) + t) * p
        OBVIOUS
    <2> HIDE DEF hi, lo, t, p, exact
    <2>5. 5 * v * (hi - lo) = t
        BY <2>1, <2>2, SMT
    <2>6. exact \in Int
        BY <2>1, <2>2, <2>4, SMT
    <2> QED BY <2>1, <2>3, <2>4, <2>5, <2>6 DEF p
<1> HIDE DEF exact, d
<1>5. Abs(10000 * d - exact) <= 10000 + 10 * rudderConfig.period
    BY <1>3, <1>4 DEF Abs
<1> QED BY <1>2, <1>4, <1>5 DEF d

\* The rudder's pulse is within a microsecond and a thousandth of the period of the
\* exact one, whatever the width of unsigned int, for every right turn, and for every
\* left turn when the period is a multiple of ten and the smallest duty cycle is not
\* zero (GPIOSteeringController.cpp:90-101).
THEOREM RudderIsNear ==
    ASSUME RudderFits
    PROVE  Spec => RudderNearExact
<1> DEFINE Near ==
        rudder' # rudder
        /\ (steering' >= 0 \/ (rudderConfig.period % 10 = 0 /\ rudderConfig.min > 0)) =>
            Abs(10000 * rudder' - ExactRudder(steering')) <= 10000 + 10 * rudderConfig.period
<1>1. DutyInv /\ [Next]_vars => [Near]_vars
    BY RudderStep DEF DutyInv, RudderInv
<1>2. RudderNearExact <=> [][Near]_vars
    BY PTL DEF RudderNearExact
<1> QED BY <1>1, <1>2, DutyInvariant, PTL DEF Spec
=============================================================================
