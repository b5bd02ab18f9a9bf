----------------------------- MODULE DrivesProofs -----------------------------
(***************************************************************************)
(* For every configuration file: what the controllers are made from is     *)
(* what the file says, and the Maestro's engines and servos do as they are *)
(* told whatever is lost on the way.                                       *)
(***************************************************************************)
EXTENDS Drives, PWMDutyProofs, SequenceTheorems

-----------------------------------------------------------------------------
(* The list of a call's commands *)

Byte7 == 0..127
Cmds == [channel : Channels, bytes : Byte7 \X Byte7]

SpeedOrder(e, v) == Command(e.channel, SpeedToInt(v, e))
DirectionOrder(m, e, v) == Command(e.dir_channel, Direction(m, v, e))

\* There is a command for the engine's direction.
Directed(e, v) == e.dir_channel # NO_CHANNEL /\ v # 0

\* The j-th command of the list is the engine's, and the next its direction's.
Leads(s, j, m, e, v) ==
    /\ s[j] = SpeedOrder(e, v)
    /\ Directed(e, v) => j < Len(s) /\ s[j + 1] = DirectionOrder(m, e, v)

Follows(s, j, m, e, v) ==
    /\ Directed(e, v) /\ s[j] = DirectionOrder(m, e, v)
    /\ j > 1 /\ s[j - 1] = SpeedOrder(e, v)

\* The list serves the first k engines, and nothing else.
Serves(s, k, m, v) ==
    /\ s \in Seq(Cmds)
    /\ \A i \in 1..k : \E j \in 1..Len(s) : Leads(s, j, m, m.engines[i], v)
    /\ \A j \in 1..Len(s) : \E i \in 1..k :
          Leads(s, j, m, m.engines[i], v) \/ Follows(s, j, m, m.engines[i], v)

\* A command's number of quarter-microseconds goes into two bytes, and its channel
\* into one.
LEMMA CommandType ==
    ASSUME NEW c \in Channels, NEW us \in Int
    PROVE  /\ Command(c, us) \in Cmds
           /\ Command(c, us).channel = c
           /\ Command(c, us).bytes = Encode(us)
<1>1. c \in Nat /\ c < 256
    BY MaestroAssumption
<1>2. c % 256 = c
    BY <1>1, SmallModulo, SMT
<1> DEFINE x == 4 * us
           lo == x % 128
           hi == (x \div 128) % 128
<1>3. x \in Int
    OBVIOUS
<1> HIDE DEF x
<1>4. lo \in Byte7 /\ hi \in Byte7
    BY <1>3, SMT DEF Byte7
<1>5. Encode(us) = <<lo, hi>>
    BY DEF Encode, x
<1> HIDE DEF lo, hi
<1> QED BY <1>2, <1>4, <1>5 DEF Command, Cmds

\* A target within the device's range arrives as it is, and any other as one of the
\* targets.
LEMMA WireValue ==
    ASSUME NEW us \in Int
    PROVE  /\ Decode(Encode(us)) \in Targets
           /\ InRange(us) => Decode(Encode(us)) = 4 * us
<1> DEFINE x == 4 * us
           lo == x % 128
           q == x \div 128
           hi == q % 128
<1>1. x \in Int
    OBVIOUS
<1>2. Decode(Encode(us)) = lo + 128 * hi
    BY DEF Decode, Encode
<1>3. InRange(us) => 0 <= x /\ x < 16384
    BY SMT DEF InRange, Targets
<1> HIDE DEF x
<1>4. lo \in 0..127 /\ q \in Int /\ x = 128 * q + lo
    BY <1>1, SMT
<1> HIDE DEF lo, q
<1>5. hi \in 0..127
    BY <1>4, SMT
<1>6. lo + 128 * hi \in Targets
    BY <1>4, <1>5, SMT DEF Targets
<1>7. ASSUME 0 <= x /\ x < 16384 PROVE lo + 128 * hi = x
    <2>1. q \in Nat /\ q < 128
        BY <1>4, <1>7, SMT
    <2>2. hi = q
        BY <2>1, SmallModulo, SMT
    <2> QED BY <1>4, <2>2, SMT
<1> HIDE DEF hi
<1> QED BY <1>2, <1>3, <1>6, <1>7 DEF x

\* What a level of an engine or of the rudder comes to is a number.
LEMMA LevelsAreNumbers ==
    ASSUME NEW m \in MaestroConfigs, NEW v \in Level
    PROVE  /\ \A i \in 1..Len(m.engines) :
                 /\ m.engines[i] \in Engines
                 /\ SpeedToInt(v, m.engines[i]) \in Int
                 /\ Direction(m, v, m.engines[i]) \in Int
           /\ SteeringToInt(m, v) \in Int
<1>1. m.engines \in Seq(Engines) /\ m.straight \in Int /\ m.step \in Int
      /\ m.high \in Int /\ m.low \in Int
    BY DEF MaestroConfigs
<1>2. v \in Int
    BY DEF Level
<1>3. SteeringToInt(m, v) \in Int
    BY <1>1, <1>2 DEF SteeringToInt
<1>4. ASSUME NEW i \in 1..Len(m.engines)
      PROVE  /\ m.engines[i] \in Engines
             /\ SpeedToInt(v, m.engines[i]) \in Int
             /\ Direction(m, v, m.engines[i]) \in Int
    <2> DEFINE e == m.engines[i]
    <2>1. e \in Engines
        BY <1>1, <1>4
    <2> HIDE DEF e
    <2>2. e.stop \in Int /\ e.step \in Int
        BY <2>1 DEF Engines
    <2>3. SpeedToInt(v, e) \in Int
        BY <1>2, <2>2 DEF SpeedToInt, Magnitude
    <2>4. Direction(m, v, e) \in Int
        BY <1>1 DEF Direction
    <2> QED BY <2>1, <2>3, <2>4 DEF e
<1> QED BY <1>3, <1>4

\* An engine's commands are one, or two.
LEMMA EngineList ==
    ASSUME NEW m \in MaestroConfigs, NEW v \in Level, NEW i \in 1..Len(m.engines)
    PROVE  LET e == m.engines[i]
               c == EngineCommands(m, v, e) IN
           /\ SpeedOrder(e, v) \in Cmds
           /\ Directed(e, v) => DirectionOrder(m, e, v) \in Cmds
           /\ c \in Seq(Cmds)
           /\ c = IF Directed(e, v) THEN <<SpeedOrder(e, v), DirectionOrder(m, e, v)>>
                  ELSE <<SpeedOrder(e, v)>>
<1> DEFINE e == m.engines[i]
           a == SpeedOrder(e, v)
           b == DirectionOrder(m, e, v)
<1>1. e \in Engines /\ SpeedToInt(v, e) \in Int /\ Direction(m, v, e) \in Int
    BY LevelsAreNumbers
<1> HIDE DEF e
<1>2. e.channel \in Channels /\ e.dir_channel \in Channels \cup {NO_CHANNEL}
    BY <1>1 DEF Engines
<1>3. a \in Cmds
    BY <1>1, <1>2, CommandType DEF SpeedOrder
<1>4. Directed(e, v) => b \in Cmds
    BY <1>1, <1>2, CommandType DEF DirectionOrder, Directed
<1>5. EngineCommands(m, v, e) = <<a>> \o (IF Directed(e, v) THEN <<b>> ELSE <<>>)
    BY DEF EngineCommands, SpeedOrder, DirectionOrder, Directed
<1> HIDE DEF a, b
<1>6. EngineCommands(m, v, e) = IF Directed(e, v) THEN <<a, b>> ELSE <<a>>
    <2>1. CASE Directed(e, v)
        <3>1. <<a>> \o <<b>> = <<a, b>>
            <4> DEFINE p == <<a>> \o <<b>>
                       q == <<a, b>>
            <4>1. <<a>> \in Seq(Cmds) /\ <<b>> \in Seq(Cmds) /\ q \in Seq(Cmds)
                  /\ Len(<<a>>) = 1 /\ Len(<<b>>) = 1 /\ Len(q) = 2
                  /\ q[1] = a /\ q[2] = b /\ <<a>>[1] = a /\ <<b>>[1] = b
                BY <1>3, <1>4, <2>1
            <4>2. p \in Seq(Cmds) /\ Len(p) = 2 /\ p[1] = a /\ p[2] = b
                BY <4>1, ConcatProperties
            <4> HIDE DEF p, q
            <4>3. p = q
                BY <4>1, <4>2, SeqEqual
            <4> QED BY <4>3 DEF p, q
        <3> QED BY <1>5, <2>1, <3>1
    <2>2. CASE ~ Directed(e, v)
        <3>1. <<a>> \o <<>> = <<a>>
            BY <1>3, ConcatEmptySeq
        <3> QED BY <1>5, <2>2, <3>1
    <2> QED BY <2>1, <2>2
<1>7. EngineCommands(m, v, e) \in Seq(Cmds)
    BY <1>3, <1>4, <1>6
<1> QED BY <1>3, <1>4, <1>6, <1>7 DEF a, b, e

\* With one more engine's commands the list serves one more engine.
LEMMA ServesNext ==
    ASSUME NEW m \in MaestroConfigs, NEW v \in Level, NEW k \in Nat, k + 1 <= Len(m.engines),
           NEW s, Serves(s, k, m, v)
    PROVE  Serves(s \o EngineCommands(m, v, m.engines[k + 1]), k + 1, m, v)
<1> DEFINE e == m.engines[k + 1]
           c == EngineCommands(m, v, e)
           t == s \o c
           a == SpeedOrder(e, v)
           b == DirectionOrder(m, e, v)
           d == Directed(e, v)
           n == Len(s)
<1>1. k + 1 \in 1..Len(m.engines)
    BY DEF MaestroConfigs
<1>2. s \in Seq(Cmds)
    BY DEF Serves
<1>3. c \in Seq(Cmds) /\ c = IF d THEN <<a, b>> ELSE <<a>>
    BY <1>1, EngineList
<1>4. t \in Seq(Cmds) /\ Len(t) = n + Len(c) /\ n \in Nat
      /\ \A i \in 1..(n + Len(c)) : t[i] = IF i <= n THEN s[i] ELSE c[i - n]
    <2> HIDE DEF c
    <2> QED BY <1>2, <1>3, ConcatProperties
<1> HIDE DEF t, c
<1>5. /\ Len(t) = IF d THEN n + 2 ELSE n + 1
      /\ \A j \in 1..n : t[j] = s[j]
      /\ t[n + 1] = a
      /\ d => t[n + 2] = b
    <2> HIDE DEF a, b, d, n
    <2>1. CASE d
        <3>1. Len(c) = 2 /\ c[1] = a /\ c[2] = b
            BY <1>3, <2>1
        <3> HIDE DEF c
        <3> QED BY <1>4, <2>1, <3>1
    <2>2. CASE ~d
        <3>1. Len(c) = 1 /\ c[1] = a
            BY <1>3, <2>2
        <3> QED BY <1>4, <2>2, <3>1
    <2> QED BY <2>1, <2>2
<1>6. Leads(t, n + 1, m, e, v)
    <2>1. d => n + 1 < Len(t) /\ (n + 1) + 1 = n + 2
        BY <1>4, <1>5
    <2> HIDE DEF n
    <2> QED BY <1>5, <2>1 DEF Leads
<1>7. ASSUME NEW j \in 1..n, NEW i \in 1..k
      PROVE  /\ Leads(s, j, m, m.engines[i], v) => Leads(t, j, m, m.engines[i], v)
             /\ Follows(s, j, m, m.engines[i], v) => Follows(t, j, m, m.engines[i], v)
    <2> DEFINE f == m.engines[i]
    <2>1. t[j] = s[j] /\ (j < n => t[j + 1] = s[j + 1]) /\ (j > 1 => t[j - 1] = s[j - 1])
        <3> HIDE DEF n, d, a, b
        <3>1. n \in Nat
            BY <1>4
        <3>2. (j < n => j + 1 \in 1..n) /\ (j > 1 => j - 1 \in 1..n)
            BY <3>1
        <3> QED BY <1>5, <3>2
    <2>2. n <= Len(t) /\ Len(t) \in Nat
        BY <1>4, <1>5
    <2> HIDE DEF f, d, a, b
    <2>3. Leads(s, j, m, f, v) => Leads(t, j, m, f, v)
        BY <1>4, <2>1, <2>2 DEF Leads
    <2>4. Follows(s, j, m, f, v) => Follows(t, j, m, f, v)
        BY <2>1 DEF Follows
    <2> QED BY <2>3, <2>4 DEF f
<1>8. \A i \in 1..(k + 1) : \E j \in 1..Len(t) : Leads(t, j, m, m.engines[i], v)
    <2> SUFFICES ASSUME NEW i \in 1..(k + 1)
                 PROVE  \E j \in 1..Len(t) : Leads(t, j, m, m.engines[i], v)
        OBVIOUS
    <2>1. CASE i = k + 1
        <3>1. n + 1 \in 1..Len(t)
            BY <1>4, <1>5
        <3> QED BY <1>6, <2>1, <3>1
    <2>2. CASE i # k + 1
        <3>1. i \in 1..k
            BY <2>2
        <3>2. PICK j \in 1..n : Leads(s, j, m, m.engines[i], v)
            BY <3>1 DEF Serves
        <3>3. j \in 1..Len(t)
            BY <1>4, <1>5
        <3> QED BY <1>7, <3>1, <3>2, <3>3
    <2> QED BY <2>1, <2>2
<1>9. \A j \in 1..Len(t) : \E i \in 1..(k + 1) :
          Leads(t, j, m, m.engines[i], v) \/ Follows(t, j, m, m.engines[i], v)
    <2> SUFFICES ASSUME NEW j \in 1..Len(t)
                 PROVE  \E i \in 1..(k + 1) :
                          Leads(t, j, m, m.engines[i], v) \/ Follows(t, j, m, m.engines[i], v)
        OBVIOUS
    <2>1. CASE j \in 1..n
        <3>1. PICK i \in 1..k :
                 Leads(s, j, m, m.engines[i], v) \/ Follows(s, j, m, m.engines[i], v)
            BY <2>1 DEF Serves
        <3>2. i \in 1..(k + 1)
            OBVIOUS
        <3> QED BY <1>7, <2>1, <3>1, <3>2
    <2>2. CASE j = n + 1
        <3>1. k + 1 \in 1..(k + 1)
            OBVIOUS
        <3> QED BY <1>6, <2>2, <3>1
    <2>3. CASE d /\ j = n + 2
        <3>1. k + 1 \in 1..(k + 1) /\ j > 1 /\ j - 1 = n + 1
            BY <1>4, <2>3
        <3>2. Follows(t, j, m, e, v)
            BY <1>5, <2>3, <3>1 DEF Follows
        <3> QED BY <3>1, <3>2
    <2>4. j \in 1..n \/ j = n + 1 \/ (d /\ j = n + 2)
        <3> HIDE DEF n, d, a, b
        <3> QED BY <1>4, <1>5
    <2> QED BY <2>1, <2>2, <2>3, <2>4
<1> QED BY <1>4, <1>8, <1>9 DEF Serves, t, c

\* The commands of set_speed() serve every engine, each engine's direction right
\* after its speed (MaestroController.cpp:107-142).
LEMMA SpeedServes ==
    ASSUME NEW m \in MaestroConfigs, NEW v \in Level
    PROVE  Serves(SpeedCommands(m, v), Len(m.engines), m, v)
<1> DEFINE n == Len(m.engines)
           X == Seq(Cmds)
           step == [i \in 1..n |-> [s \in X |-> s \o EngineCommands(m, v, m.engines[i])]]
           first[i \in 0..n] == IF i = 0 THEN <<>>
                                ELSE first[i - 1] \o EngineCommands(m, v, m.engines[i])
<1>1. n \in Nat
    BY DEF MaestroConfigs
<1>2. \A i \in 1..n : EngineCommands(m, v, m.engines[i]) \in X
    BY EngineList
<1>3. /\ step \in [1..n -> [X -> X]]
      /\ \A i \in 1..n, s \in X : step[i][s] = s \o EngineCommands(m, v, m.engines[i])
    <2>1. \A i \in 1..n, s \in X : s \o EngineCommands(m, v, m.engines[i]) \in X
        BY <1>2, ConcatProperties
    <2> QED BY <2>1
<1>4. PICK f : Computes(f, n, X, <<>>, step)
    <2> HIDE DEF step, first, n
    <2>1. <<>> \in X
        BY EmptySeq
    <2> QED BY <1>1, <1>3, <2>1, RecursionExists
<1>5. f \in [0..n -> X] /\ f[0] = <<>> /\ \A i \in 1..n : f[i] = step[i][f[i - 1]]
    BY <1>4 DEF Computes
<1> HIDE DEF step
<1>6. \A i \in 1..n : f[i] = f[i - 1] \o EngineCommands(m, v, m.engines[i])
    <2>1. \A i \in 1..n : i - 1 \in 0..n
        BY <1>1
    <2> HIDE DEF n, X
    <2> QED BY <1>3, <1>5, <2>1
<1>7. f = [i \in 0..n |-> IF i = 0 THEN <<>>
                          ELSE f[i - 1] \o EngineCommands(m, v, m.engines[i])]
    <2> DEFINE g(i) == IF i = 0 THEN <<>>
                       ELSE f[i - 1] \o EngineCommands(m, v, m.engines[i])
    <2>1. \A i \in 0..n : f[i] = g(i)
        <3> HIDE DEF n
        <3>1. \A i \in 0..n : i = 0 \/ i \in 1..n
            BY <1>1
        <3> QED BY <1>5, <1>6, <3>1
    <2> HIDE DEF n, X, g
    <2>2. f = [i \in 0..n |-> g(i)]
        BY <1>5, <2>1
    <2> QED BY <2>2 DEF g
<1>8. first = [i \in 0..n |-> IF i = 0 THEN <<>>
                              ELSE first[i - 1] \o EngineCommands(m, v, m.engines[i])]
    BY <1>7
<1>9. SpeedCommands(m, v) = first[n]
    BY DEF SpeedCommands
<1> HIDE DEF first, n
<1>10. first[0] = <<>>
       /\ \A i \in 1..n : first[i] = first[i - 1] \o EngineCommands(m, v, m.engines[i])
    <2>1. 0 \in 0..n /\ \A i \in 1..n : i \in 0..n /\ i # 0
        BY <1>1
    <2>2. \A i \in 0..n : first[i] = IF i = 0 THEN <<>>
                                     ELSE first[i - 1] \o EngineCommands(m, v, m.engines[i])
        BY <1>8, Zenon
    <2> QED BY <2>1, <2>2, Zenon
<1> DEFINE S == {k \in Nat : k <= n => Serves(first[k], k, m, v)}
<1>11. 0 \in S
    <2>1. Serves(<<>>, 0, m, v)
        BY EmptySeq DEF Serves
    <2> QED BY <1>10, <2>1
<1>12. ASSUME NEW k \in Nat, k \in S PROVE k + 1 \in S
    <2> SUFFICES ASSUME k + 1 <= n PROVE Serves(first[k + 1], k + 1, m, v)
        OBVIOUS
    <2>1. Serves(first[k], k, m, v)
        BY <1>1, <1>12
    <2>2. k + 1 \in 1..n /\ (k + 1) - 1 = k
        BY <1>1
    <2>3. first[k + 1] = first[k] \o EngineCommands(m, v, m.engines[k + 1])
        BY <1>10, <2>2
    <2> QED BY <2>1, <2>3, ServesNext DEF n
<1>13. n \in S
    <2> HIDE DEF S
    <2> QED BY <1>1, <1>11, <1>12, NaturalInduction
<1> QED BY <1>9, <1>13 DEF n

-----------------------------------------------------------------------------
(* What the levels ask of the device, whatever the order *)

EngineOrders(m, v) ==
    {SpeedOrder(m.engines[i], v) : i \in 1..Len(m.engines)} \cup
    {DirectionOrder(m, m.engines[i], v) :
        i \in {j \in 1..Len(m.engines) : Directed(m.engines[j], v)}}

ServoOrders(m, v) == {Command(m.servos[i], SteeringToInt(m, v)) : i \in 1..Len(m.servos)}

\* The list has these commands and no others.
Lists(s, S) == s \in Seq(Cmds) /\ S = {s[j] : j \in 1..Len(s)}

\* An order is to a channel of an engine's, or to a servo's.
LEMMA OrderChannels ==
    ASSUME NEW m \in MaestroConfigs, NEW v \in Level
    PROVE  /\ \A i \in 1..Len(m.engines) :
                 LET e == m.engines[i] IN
                 /\ SpeedOrder(e, v) \in Cmds /\ SpeedOrder(e, v).channel = e.channel
                 /\ Directed(e, v) => /\ DirectionOrder(m, e, v) \in Cmds
                                      /\ DirectionOrder(m, e, v).channel = e.dir_channel
           /\ \A i \in 1..Len(m.servos) :
                 LET c == Command(m.servos[i], SteeringToInt(m, v)) IN
                 c \in Cmds /\ c.channel = m.servos[i]
<1>1. ASSUME NEW i \in 1..Len(m.engines)
      PROVE  LET e == m.engines[i] IN
             /\ SpeedOrder(e, v) \in Cmds /\ SpeedOrder(e, v).channel = e.channel
             /\ Directed(e, v) => /\ DirectionOrder(m, e, v) \in Cmds
                                  /\ DirectionOrder(m, e, v).channel = e.dir_channel
    <2> DEFINE e == m.engines[i]
    <2>1. e \in Engines /\ SpeedToInt(v, e) \in Int /\ Direction(m, v, e) \in Int
        BY LevelsAreNumbers
    <2> HIDE DEF e
    <2>2. e.channel \in Channels /\ e.dir_channel \in Channels \cup {NO_CHANNEL}
        BY <2>1 DEF Engines
    <2>3. SpeedOrder(e, v) \in Cmds /\ SpeedOrder(e, v).channel = e.channel
        BY <2>1, <2>2, CommandType DEF SpeedOrder
    <2>4. Directed(e, v) => /\ DirectionOrder(m, e, v) \in Cmds
                            /\ DirectionOrder(m, e, v).channel = e.dir_channel
        BY <2>1, <2>2, CommandType DEF DirectionOrder, Directed
    <2> QED BY <2>3, <2>4 DEF e
<1>2. ASSUME NEW i \in 1..Len(m.servos)
      PROVE  LET c == Command(m.servos[i], SteeringToInt(m, v)) IN
             c \in Cmds /\ c.channel = m.servos[i]
    <2>1. m.servos[i] \in Channels
        BY DEF MaestroConfigs
    <2> QED BY <2>1, LevelsAreNumbers, CommandType
<1> QED BY <1>1, <1>2

\* set_speed() sends the engines' orders (MaestroController.cpp:107-142).
LEMMA SpeedLists ==
    ASSUME NEW m \in MaestroConfigs, NEW v \in Level
    PROVE  Lists(SpeedCommands(m, v), EngineOrders(m, v))
<1> DEFINE s == SpeedCommands(m, v)
<1>1. Serves(s, Len(m.engines), m, v)
    BY SpeedServes
<1> HIDE DEF s
<1>2. ASSUME NEW j \in 1..Len(s) PROVE s[j] \in EngineOrders(m, v)
    BY <1>1 DEF Serves, Leads, Follows, EngineOrders
<1>3. ASSUME NEW c \in EngineOrders(m, v) PROVE \E j \in 1..Len(s) : s[j] = c
    <2>0. Len(s) \in Nat
        BY <1>1 DEF Serves
    <2>1. ASSUME NEW i \in 1..Len(m.engines), c = SpeedOrder(m.engines[i], v)
          PROVE  \E j \in 1..Len(s) : s[j] = c
        BY <1>1, <2>1 DEF Serves, Leads
    <2>2. ASSUME NEW i \in 1..Len(m.engines), Directed(m.engines[i], v),
                 c = DirectionOrder(m, m.engines[i], v)
          PROVE  \E j \in 1..Len(s) : s[j] = c
        <3>1. PICK j \in 1..Len(s) : Leads(s, j, m, m.engines[i], v)
            BY <1>1 DEF Serves
        <3>2. j < Len(s) /\ s[j + 1] = c
            BY <2>2, <3>1 DEF Leads
        <3>3. j + 1 \in 1..Len(s)
            BY <2>0, <3>2
        <3> QED BY <3>2, <3>3
    <2> QED BY <2>1, <2>2 DEF EngineOrders
<1>4. s \in Seq(Cmds)
    BY <1>1 DEF Serves
<1> QED BY <1>2, <1>3, <1>4 DEF Lists, s

\* set_steering() sends the servos' orders (MaestroController.cpp:157-178).
LEMMA SteeringLists ==
    ASSUME NEW m \in MaestroConfigs, NEW v \in Level
    PROVE  Lists(SteeringCommands(m, v), ServoOrders(m, v))
<1> DEFINE n == Len(m.servos)
           us == SteeringToInt(m, v)
           s == SteeringCommands(m, v)
<1>1. n \in Nat
    BY DEF MaestroConfigs
<1>2. \A i \in 1..n : Command(m.servos[i], us) \in Cmds
    BY OrderChannels
<1>3. s = [i \in 1..n |-> Command(m.servos[i], us)]
    BY DEF SteeringCommands
<1> HIDE DEF n, us, s
<1>4. s \in Seq(Cmds) /\ Len(s) = n /\ \A i \in 1..n : s[i] = Command(m.servos[i], us)
    BY <1>1, <1>2, <1>3
<1>5. ServoOrders(m, v) = {Command(m.servos[i], us) : i \in 1..n}
    BY DEF ServoOrders, n, us
<1>6. {Command(m.servos[i], us) : i \in 1..n} = {s[j] : j \in 1..Len(s)}
    BY <1>4
<1> QED BY <1>4, <1>5, <1>6 DEF Lists, s

\* The constructor and the destructor send both (MaestroController.cpp:62-64, 73-87).
LEMMA RestLists ==
    ASSUME NEW m \in MaestroConfigs
    PROVE  Lists(Rest(m), EngineOrders(m, 0) \cup ServoOrders(m, 0))
<1> DEFINE s == SpeedCommands(m, 0)
           t == SteeringCommands(m, 0)
           S == EngineOrders(m, 0)
           T == ServoOrders(m, 0)
<1>1. 0 \in Level
    BY DEF Level
<1>2. Lists(s, S) /\ Lists(t, T)
    BY <1>1, SpeedLists, SteeringLists
<1>3. Rest(m) = s \o t
    BY DEF Rest
<1> HIDE DEF s, t, S, T
<1> DEFINE r == s \o t
<1>4. s \in Seq(Cmds) /\ t \in Seq(Cmds) /\ Len(s) \in Nat /\ Len(t) \in Nat
      /\ S = {s[j] : j \in 1..Len(s)} /\ T = {t[j] : j \in 1..Len(t)}
    BY <1>2 DEF Lists
<1>5. r \in Seq(Cmds) /\ Len(r) = Len(s) + Len(t)
      /\ \A i \in 1..(Len(s) + Len(t)) : r[i] = IF i <= Len(s) THEN s[i] ELSE t[i - Len(s)]
    BY <1>4, ConcatProperties
<1> HIDE DEF r
<1>6. ASSUME NEW i \in 1..Len(r) PROVE r[i] \in S \cup T
    <2>1. CASE i <= Len(s)
        BY <1>4, <1>5, <2>1
    <2>2. CASE ~ (i <= Len(s))
        <3>1. i - Len(s) \in 1..Len(t) /\ r[i] = t[i - Len(s)]
            BY <1>4, <1>5, <2>2
        <3> QED BY <1>4, <3>1
    <2> QED BY <2>1, <2>2
<1>7. ASSUME NEW c \in S PROVE \E i \in 1..Len(r) : r[i] = c
    <2>1. PICK j \in 1..Len(s) : s[j] = c
        BY <1>4
    <2>2. j \in 1..Len(r) /\ r[j] = s[j]
        BY <1>4, <1>5
    <2> QED BY <2>1, <2>2
<1>8. ASSUME NEW c \in T PROVE \E i \in 1..Len(r) : r[i] = c
    <2>1. PICK j \in 1..Len(t) : t[j] = c
        BY <1>4
    <2>2. Len(s) + j \in 1..Len(r) /\ (Len(s) + j) - Len(s) = j /\ ~ (Len(s) + j <= Len(s))
        BY <1>4, <1>5
    <2>3. r[Len(s) + j] = t[j]
        BY <1>5, <2>2
    <2> QED BY <2>1, <2>2, <2>3
<1>9. S \cup T = {r[j] : j \in 1..Len(r)}
    BY <1>6, <1>7, <1>8
<1> QED BY <1>3, <1>5, <1>9 DEF Lists, r, S, T

\* Two orders to one channel are the same order, when no channel has two uses.
LEMMA OrdersAgree ==
    ASSUME NEW m \in MaestroConfigs, OneUseEach(m), NEW v \in Level,
           NEW c \in EngineOrders(m, v) \cup ServoOrders(m, v),
           NEW d \in EngineOrders(m, v) \cup ServoOrders(m, v), c.channel = d.channel
    PROVE  c = d
<1> DEFINE n == Len(m.engines)
           Speed(x, i) == i \in 1..n /\ x = SpeedOrder(m.engines[i], v)
                          /\ x.channel = m.engines[i].channel
           Dir(x, i) == i \in 1..n /\ x = DirectionOrder(m, m.engines[i], v)
                        /\ x.channel = m.engines[i].dir_channel
                        /\ x.channel # NO_CHANNEL
           Servo(x, i) == i \in 1..Len(m.servos) /\ x.channel = m.servos[i]
                          /\ x = Command(x.channel, SteeringToInt(m, v))
<1>1. ASSUME NEW x \in EngineOrders(m, v) \cup ServoOrders(m, v)
      PROVE  \/ \E i : Speed(x, i)
             \/ \E i : Dir(x, i)
             \/ \E i : Servo(x, i)
    <2>1. CASE x \in ServoOrders(m, v)
        BY <2>1, OrderChannels DEF ServoOrders
    <2>2. CASE x \in EngineOrders(m, v)
        BY <2>2, OrderChannels DEF EngineOrders, Directed
    <2> QED BY <2>1, <2>2
<1>2. DOMAIN m.engines = 1..n /\ DOMAIN m.servos = 1..Len(m.servos)
    BY DEF MaestroConfigs
<1>3. /\ \A i, j \in 1..n : /\ m.engines[i].channel # m.engines[j].dir_channel
                            /\ i # j => /\ m.engines[i].channel # m.engines[j].channel
                                        /\ \/ m.engines[i].dir_channel # m.engines[j].dir_channel
                                           \/ m.engines[i].dir_channel = NO_CHANNEL
      /\ \A i \in 1..n, j \in 1..Len(m.servos) :
            m.servos[j] # m.engines[i].channel /\ m.servos[j] # m.engines[i].dir_channel
    BY <1>2 DEF OneUseEach
<1>4. ASSUME NEW i, Speed(c, i) PROVE c = d
    <2>1. ~ \E j : Dir(d, j) \/ Servo(d, j)
        BY <1>3, <1>4
    <2>2. PICK j : Speed(d, j)
        BY <1>1, <2>1
    <2>3. i = j
        BY <1>3, <1>4, <2>2
    <2> QED BY <1>4, <2>2, <2>3
<1>5. ASSUME NEW i, Dir(c, i) PROVE c = d
    <2>1. ~ \E j : Speed(d, j) \/ Servo(d, j)
        BY <1>3, <1>5
    <2>2. PICK j : Dir(d, j)
        BY <1>1, <2>1
    <2>3. i = j
        BY <1>3, <1>5, <2>2
    <2> QED BY <1>5, <2>2, <2>3
<1>6. ASSUME NEW i, Servo(c, i) PROVE c = d
    <2>1. ~ \E j : Speed(d, j) \/ Dir(d, j)
        BY <1>3, <1>6
    <2>2. PICK j : Servo(d, j)
        BY <1>1, <2>1
    <2> QED BY <1>6, <2>2
<1> QED BY <1>1, <1>4, <1>5, <1>6

\* The engines' orders and the servos' go to different channels.
LEMMA OrdersApart ==
    ASSUME NEW m \in MaestroConfigs, OneUseEach(m), NEW v \in Level, NEW w \in Level,
           NEW c \in EngineOrders(m, v), NEW d \in ServoOrders(m, w)
    PROVE  c.channel # d.channel
<1>1. DOMAIN m.engines = 1..Len(m.engines) /\ DOMAIN m.servos = 1..Len(m.servos)
    BY DEF MaestroConfigs
<1>2. PICK j \in 1..Len(m.servos) : d.channel = m.servos[j]
    BY OrderChannels DEF ServoOrders
<1>3. PICK i \in 1..Len(m.engines) :
         c.channel \in {m.engines[i].channel, m.engines[i].dir_channel}
    BY OrderChannels DEF EngineOrders
<1> QED BY <1>1, <1>2, <1>3 DEF OneUseEach

-----------------------------------------------------------------------------
(* The Maestro's invariant *)

\* The commands of the call in progress, and how many of them were sent or lost.
Commands ==
    IF call.kind = "speed" THEN SpeedCommands(maestro, call.level)
    ELSE IF call.kind = "steering" THEN SteeringCommands(maestro, call.level)
    ELSE IF call.kind = "rest" THEN Rest(maestro) ELSE <<>>

Done == Len(Commands) - Len(todo)

CallOrders ==
    IF call.kind = "speed" THEN EngineOrders(maestro, call.level)
    ELSE IF call.kind = "steering" THEN ServoOrders(maestro, call.level)
    ELSE IF call.kind = "rest" THEN EngineOrders(maestro, 0) \cup ServoOrders(maestro, 0)
    ELSE {}

\* The orders of the levels that are remembered.
Standing == EngineOrders(maestro, mspeed) \cup ServoOrders(maestro, msteering)

\* The device has the order, or the last command to its channel was lost.
Obeyed(c) == c.channel \in unsent \/ target[c.channel] = Decode(c.bytes)

MaestroTypes ==
    /\ maestro.sane => maestro \in MaestroConfigs
    /\ target \in [Channels -> Targets]
    /\ unsent \subseteq Channels
    /\ mspeed \in Level /\ msteering \in Level
    /\ call \in [kind : {"rest", "speed", "steering", "done"}, level : Level]
    /\ call.kind = "rest" => call.level = 0
    /\ todo \in Seq(Cmds)
    /\ ~maestro.sane => todo = <<>> /\ call.kind = "done"

\* The rest of the call's commands is to be sent; those before were obeyed or lost;
\* the remembered levels stand, except where one of those has changed them.
MaestroInv ==
    /\ MaestroTypes
    /\ maestro.sane =>
          /\ OneUseEach(maestro)
          /\ Done \in Nat
          /\ \A i \in 1..Len(todo) : todo[i] = Commands[Done + i]
          /\ \A i \in 1..Done : Obeyed(Commands[i])
          /\ call.kind # "rest" =>
                \A c \in Standing : Obeyed(c) \/ \E i \in 1..Done : Commands[i].channel = c.channel

\* The commands of a call are its orders.
LEMMA CommandsListed ==
    ASSUME MaestroTypes, maestro.sane
    PROVE  Lists(Commands, CallOrders)
<1>1. maestro \in MaestroConfigs /\ call.level \in Level
    BY DEF MaestroTypes
<1>2. CASE call.kind = "speed"
    BY <1>1, <1>2, SpeedLists DEF Commands, CallOrders
<1>3. CASE call.kind = "steering"
    BY <1>1, <1>3, SteeringLists DEF Commands, CallOrders
<1>4. CASE call.kind = "rest"
    BY <1>1, <1>4, RestLists DEF Commands, CallOrders
<1>5. CASE call.kind \notin {"speed", "steering", "rest"}
    <2>1. Lists(<<>>, {})
        BY EmptySeq DEF Lists
    <2> QED BY <1>5, <2>1 DEF Commands, CallOrders
<1> QED BY <1>2, <1>3, <1>4, <1>5

\* What is asked of the device are commands.
LEMMA OrdersAreCommands ==
    ASSUME NEW m \in MaestroConfigs, NEW v \in Level
    PROVE  EngineOrders(m, v) \subseteq Cmds /\ ServoOrders(m, v) \subseteq Cmds
BY OrderChannels DEF EngineOrders, ServoOrders

\* Two commands of a call to one channel are the same.
LEMMA CommandsAgree ==
    ASSUME MaestroTypes, maestro.sane, OneUseEach(maestro),
           NEW i \in 1..Len(Commands), NEW j \in 1..Len(Commands),
           Commands[i].channel = Commands[j].channel
    PROVE  Commands[i] = Commands[j]
<1>1. Commands[i] \in CallOrders /\ Commands[j] \in CallOrders
    BY CommandsListed DEF Lists
<1>2. /\ maestro \in MaestroConfigs /\ call.level \in Level
      /\ call.kind = "rest" => call.level = 0
    BY DEF MaestroTypes
<1>3. CallOrders \subseteq EngineOrders(maestro, call.level) \cup ServoOrders(maestro, call.level)
    BY <1>2 DEF CallOrders
<1> DEFINE c == Commands[i]
           d == Commands[j]
<1> HIDE DEF c, d
<1>4. c.channel = d.channel
    BY DEF c, d
<1>5. c \in EngineOrders(maestro, call.level) \cup ServoOrders(maestro, call.level)
      /\ d \in EngineOrders(maestro, call.level) \cup ServoOrders(maestro, call.level)
    BY <1>1, <1>3 DEF c, d
<1>6. c = d
    BY <1>2, <1>4, <1>5, OrdersAgree
<1> QED BY <1>6 DEF c, d

\* A call begins with all of its commands to be sent.
LEMMA CallBegins ==
    ASSUME MaestroTypes, maestro.sane, todo = Commands
    PROVE  /\ Done = 0
           /\ \A i \in 1..Len(todo) : todo[i] = Commands[Done + i]
           /\ \A i \in 1..Done : Obeyed(Commands[i])
<1>1. Len(todo) \in Nat
    BY DEF MaestroTypes
<1>2. Done = 0
    BY <1>1 DEF Done
<1> QED BY <1>1, <1>2

\* A command that is sent or lost is obeyed or lost, and concerns its channel alone.
LEMMA SendObeys ==
    ASSUME MaestroTypes, SendNext
    PROVE  /\ Head(todo) \in Cmds
           /\ \A c \in Cmds :
                 c = Head(todo) \/ (c.channel # Head(todo).channel /\ Obeyed(c)) => Obeyed(c)'
           /\ target' \in [Channels -> Targets] /\ unsent' \subseteq Channels
<1> DEFINE h == Head(todo)
<1>1. h \in Cmds
    BY HeadTailProperties DEF MaestroTypes, SendNext
<1>2. \/ target' = [target EXCEPT ![h.channel] = Decode(h.bytes)] /\ unsent' = unsent \ {h.channel}
      \/ unsent' = unsent \cup {h.channel} /\ target' = target
    BY DEF SendNext
<1> HIDE DEF h
<1>4. h.channel \in Channels /\ h.bytes \in Byte7 \X Byte7
    BY <1>1 DEF Cmds
<1>5. Decode(h.bytes) \in Targets
    <2>1. h.bytes[1] \in 0..127 /\ h.bytes[2] \in 0..127
        BY <1>4 DEF Byte7
    <2> DEFINE x == h.bytes[1]
               y == h.bytes[2]
    <2> HIDE DEF x, y
    <2>2. x \in 0..127 /\ y \in 0..127
        BY <2>1 DEF x, y
    <2>3. x + 128 * y \in Targets
        BY <2>2, SMT DEF Targets
    <2> QED BY <2>3 DEF Decode, x, y
<1>6. target \in [Channels -> Targets] /\ unsent \subseteq Channels
    BY DEF MaestroTypes
<1>7. target' \in [Channels -> Targets] /\ unsent' \subseteq Channels
    BY <1>2, <1>4, <1>5, <1>6
<1>8. h.channel \in unsent' \/ target'[h.channel] = Decode(h.bytes)
    BY <1>2, <1>4, <1>6
<1>9. ASSUME NEW c \in Cmds, c.channel # h.channel, Obeyed(c) PROVE Obeyed(c)'
    <2>1. c.channel \in Channels
        BY DEF Cmds
    <2>2. c.channel \in unsent => c.channel \in unsent'
        BY <1>2, <1>9
    <2>3. target'[c.channel] = target[c.channel]
        BY <1>2, <1>6, <1>9, <2>1
    <2> QED BY <1>9, <2>2, <2>3 DEF Obeyed
<1>10. ASSUME NEW c \in Cmds, c = h PROVE Obeyed(c)'
    BY <1>8, <1>10 DEF Obeyed
<1> QED BY <1>1, <1>7, <1>9, <1>10 DEF h

\* Every step of the Maestro keeps the types (MaestroController.cpp:35-208).
LEMMA TypesKept ==
    ASSUME MaestroTypes, SendNext \/ MaestroReturns \/ MaestroCall \/ MaestroDestroy
    PROVE  MaestroTypes'
<1>1. CASE SendNext
    <2>1. todo' \in Seq(Cmds) /\ todo # <<>> /\ UNCHANGED <<maestro, mspeed, msteering, call>>
        BY <1>1, HeadTailProperties DEF MaestroTypes, SendNext
    <2>2. target' \in [Channels -> Targets] /\ unsent' \subseteq Channels
        BY <1>1, SendObeys
    <2> QED BY <2>1, <2>2 DEF MaestroTypes
<1>2. CASE MaestroReturns
    <2>1. call' = [kind |-> "done", level |-> 0] /\ 0 \in Level /\ todo = <<>>
        BY <1>2 DEF MaestroReturns, Level
    <2>2. mspeed' \in {mspeed, call.level, 0} /\ msteering' \in {msteering, call.level, 0}
        BY <1>2 DEF MaestroReturns
    <2>3. UNCHANGED <<maestro, target, todo, unsent>>
        BY <1>2 DEF MaestroReturns
    <2> QED BY <2>1, <2>2, <2>3 DEF MaestroTypes
<1>3. CASE MaestroCall \/ MaestroDestroy
    <2>1. UNCHANGED <<maestro, target, mspeed, msteering, unsent>>
        BY <1>3 DEF MaestroCall, MaestroSetSpeed, MaestroSetSteering, MaestroDestroy
    <2>2. CASE ~maestro.sane
        <3>1. call' = call /\ todo' = <<>> /\ todo = <<>>
            BY <1>3, <2>2 DEF MaestroCall, MaestroSetSpeed, MaestroSetSteering, MaestroDestroy,
                             MaestroIdle
        <3> QED BY <2>1, <2>2, <3>1 DEF MaestroTypes
    <2>3. CASE maestro.sane
        <3>0. maestro \in MaestroConfigs /\ 0 \in Level
            BY <2>3 DEF MaestroTypes, Level
        <3>1. ASSUME NEW v \in MaestroLevels, MaestroSetSpeed(v) \/ MaestroSetSteering(v)
              PROVE  /\ call' \in [kind : {"rest", "speed", "steering"}, level : Level]
                     /\ call'.kind = "rest" => call'.level = 0
                     /\ todo' \in Seq(Cmds)
            <4>1. v \in Level
                BY MaestroAssumption DEF Level
            <4> QED BY <3>0, <3>1, <4>1, SpeedLists, SteeringLists
                    DEF MaestroSetSpeed, MaestroSetSteering, Lists
        <3>2. ASSUME MaestroDestroy
              PROVE  /\ call' \in [kind : {"rest", "speed", "steering"}, level : Level]
                     /\ call'.kind = "rest" => call'.level = 0
                     /\ todo' \in Seq(Cmds)
            BY <2>3, <3>0, <3>2, RestLists DEF MaestroDestroy, Lists
        <3>3. /\ call' \in [kind : {"rest", "speed", "steering"}, level : Level]
              /\ call'.kind = "rest" => call'.level = 0
              /\ todo' \in Seq(Cmds)
            BY <1>3, <3>1, <3>2 DEF MaestroCall
        <3> QED BY <2>1, <2>3, <3>0, <3>3 DEF MaestroTypes
    <2> QED BY <2>2, <2>3
<1> QED BY <1>1, <1>2, <1>3

\* The Maestro's own steps keep the invariant: a command sent or lost, and the end of a
\* call (MaestroController.cpp:99-208).
LEMMA SendKeeps ==
    ASSUME MaestroInv, SendNext
    PROVE  MaestroInv'
<1> DEFINE h == Head(todo)
           n == Len(todo)
           k == Done
           C == Commands
<1>0. MaestroTypes /\ maestro.sane /\ OneUseEach(maestro) /\ todo \in Seq(Cmds) /\ todo # <<>>
    BY DEF MaestroInv, MaestroTypes, SendNext
<1>1. /\ n \in Nat \ {0} /\ h = todo[1] /\ Tail(todo) \in Seq(Cmds)
      /\ Len(Tail(todo)) = n - 1 /\ \A i \in 1..(n - 1) : Tail(todo)[i] = todo[i + 1]
    BY <1>0, EmptySeq, HeadTailProperties
<1>2. todo' = Tail(todo) /\ UNCHANGED <<maestro, mspeed, msteering, call>>
    BY DEF SendNext
<1>3. Commands' = C /\ Standing' = Standing
    BY <1>2 DEF Commands, Standing
<1>4. /\ h \in Cmds
      /\ \A c \in Cmds : c = h \/ (c.channel # h.channel /\ Obeyed(c)) => Obeyed(c)'
      /\ target' \in [Channels -> Targets] /\ unsent' \subseteq Channels
    BY <1>0, SendObeys
<1>5. MaestroTypes'
    BY <1>0, TypesKept
<1>6. C \in Seq(Cmds)
    BY <1>0, CommandsListed DEF Lists
<1>7. /\ k \in Nat /\ Len(C) = k + n /\ Done' = k + 1
      /\ \A i \in 1..n : todo[i] = C[k + i]
    <2>1. k \in Nat /\ \A i \in 1..n : todo[i] = C[k + i]
        BY <1>0 DEF MaestroInv
    <2>2. Len(C) \in Nat /\ k = Len(C) - n
        BY <1>6 DEF Done
    <2>3. Done' = Len(C) - (n - 1)
        BY <1>1, <1>2, <1>3 DEF Done
    <2> HIDE DEF k, C, n
    <2> QED BY <1>1, <2>1, <2>2, <2>3
<1>8. C[k + 1] = h /\ k + 1 \in 1..Len(C)
    <2> HIDE DEF C, k, n
    <2> QED BY <1>1, <1>7
<1>9. \A i \in 1..Len(todo') : todo'[i] = Commands'[Done' + i]
    <2> SUFFICES ASSUME NEW i \in 1..(n - 1) PROVE Tail(todo)[i] = C[(k + 1) + i]
        BY <1>1, <1>2, <1>3, <1>7
    <2> HIDE DEF C, k, n
    <2>1. i + 1 \in 1..n /\ k + (i + 1) = (k + 1) + i
        BY <1>1, <1>7
    <2>2. Tail(todo)[i] = todo[i + 1] /\ todo[i + 1] = C[k + (i + 1)]
        BY <1>1, <1>7, <2>1
    <2> QED BY <2>1, <2>2
<1> DEFINE After(c) == c.channel \in unsent' \/ target'[c.channel] = Decode(c.bytes)
<1>10. \A c \in Cmds : c = h \/ (c.channel # h.channel /\ Obeyed(c)) => After(c)
    BY <1>4 DEF Obeyed
<1>11. \A i \in 1..(k + 1) : After(C[i])
    <2> SUFFICES ASSUME NEW i \in 1..(k + 1) PROVE After(C[i])
        OBVIOUS
    <2>1. i \in 1..Len(C) /\ C[i] \in Cmds
        <3> HIDE DEF C, k, n
        <3> QED BY <1>6, <1>7, <1>8
    <2>2. CASE C[i].channel = h.channel
        <3>1. C[i] = h
            BY <1>0, <1>8, <2>1, <2>2, CommandsAgree
        <3> QED BY <1>10, <2>1, <3>1
    <2>3. CASE C[i].channel # h.channel
        <3>1. i # k + 1
            BY <1>8, <2>3
        <3>2. i \in 1..k
            <4> HIDE DEF k
            <4> QED BY <1>7, <3>1
        <3>3. Obeyed(C[i])
            BY <1>0, <3>2 DEF MaestroInv
        <3> HIDE DEF After
        <3> QED BY <1>10, <2>1, <2>3, <3>3
    <2> QED BY <2>2, <2>3
<1>12. ASSUME call.kind # "rest", NEW c \in Standing
       PROVE  After(c) \/ \E i \in 1..(k + 1) : C[i].channel = c.channel
    <2>1. c \in Cmds
        BY <1>0, OrdersAreCommands DEF Standing, MaestroTypes
    <2>2. k + 1 \in 1..(k + 1) /\ \A i \in 1..k : i \in 1..(k + 1)
        <3> HIDE DEF k
        <3> QED BY <1>7
    <2>3. Obeyed(c) \/ \E i \in 1..k : C[i].channel = c.channel
        BY <1>0, <1>12 DEF MaestroInv
    <2> HIDE DEF After, k, C, h
    <2>4. CASE c.channel = h.channel
        BY <1>8, <2>2, <2>4
    <2>5. CASE c.channel # h.channel /\ Obeyed(c)
        BY <1>10, <2>1, <2>5
    <2> QED BY <2>2, <2>3, <2>4, <2>5
<1> HIDE DEF k, C, n
<1>13. \A i \in 1..Done' : Obeyed(Commands[i])'
    BY <1>3, <1>7, <1>11 DEF Obeyed
<1>14. call'.kind # "rest" => \A c \in Standing' :
          Obeyed(c)' \/ \E i \in 1..Done' : Commands'[i].channel = c.channel
    BY <1>2, <1>3, <1>7, <1>12 DEF Obeyed
<1> QED BY <1>0, <1>2, <1>5, <1>7, <1>9, <1>13, <1>14 DEF MaestroInv

\* When a call is over, the level it was given is one that stands.
LEMMA ReturnKeeps ==
    ASSUME MaestroInv, MaestroReturns
    PROVE  MaestroInv'
<1>0. MaestroTypes /\ todo = <<>>
    BY DEF MaestroInv, MaestroReturns
<1>1. MaestroTypes' /\ todo' = <<>> /\ maestro' = maestro
    BY <1>0, TypesKept DEF MaestroReturns
<1> SUFFICES ASSUME maestro.sane
             PROVE  MaestroInv'
    BY <1>1 DEF MaestroInv, MaestroReturns
<1>2. Commands' = <<>> /\ call'.kind = "done"
    BY DEF Commands, MaestroReturns
<1>3. Done' = 0
    BY <1>1, <1>2, EmptySeq DEF Done
<1>4. Done = Len(Commands) /\ Commands \in Seq(Cmds)
    <2>1. Commands \in Seq(Cmds)
        BY <1>0, CommandsListed DEF Lists
    <2>2. Len(Commands) \in Nat /\ Len(todo) = 0
        BY <1>0, <2>1, EmptySeq
    <2> QED BY <2>1, <2>2 DEF Done
<1>5. \A c \in CallOrders : Obeyed(c)
    <2> SUFFICES ASSUME NEW c \in CallOrders PROVE Obeyed(c)
        OBVIOUS
    <2>1. PICK i \in 1..Len(Commands) : Commands[i] = c
        BY <1>0, CommandsListed DEF Lists
    <2>2. Obeyed(Commands[i])
        BY <1>4, <2>1 DEF MaestroInv
    <2> QED BY <2>1, <2>2
<1>6. /\ maestro \in MaestroConfigs /\ OneUseEach(maestro)
      /\ mspeed \in Level /\ msteering \in Level /\ call.level \in Level
    BY <1>0 DEF MaestroTypes, MaestroInv
<1>7. ASSUME call.kind # "rest", NEW c \in Standing, \A d \in CallOrders : d.channel # c.channel
      PROVE  Obeyed(c)
    <2>1. Obeyed(c) \/ \E i \in 1..Done : Commands[i].channel = c.channel
        BY <1>7 DEF MaestroInv
    <2>2. \A i \in 1..Len(Commands) : Commands[i] \in CallOrders
        BY <1>0, CommandsListed DEF Lists
    <2> QED BY <1>4, <1>7, <2>1, <2>2
<1>8. \A c \in Standing' : Obeyed(c)
    <2>1. CASE call.kind = "speed" /\ mspeed' = call.level /\ msteering' = msteering
        <3>1. \A c \in EngineOrders(maestro, call.level) : Obeyed(c)
            BY <1>5, <2>1 DEF CallOrders
        <3>2. \A c \in ServoOrders(maestro, msteering) : Obeyed(c)
            <4> SUFFICES ASSUME NEW c \in ServoOrders(maestro, msteering) PROVE Obeyed(c)
                OBVIOUS
            <4>1. \A d \in EngineOrders(maestro, call.level) : d.channel # c.channel
                BY <1>6, OrdersApart
            <4> QED BY <1>7, <2>1, <4>1 DEF CallOrders, Standing
        <3> QED BY <2>1, <3>1, <3>2 DEF Standing, MaestroReturns
    <2>2. CASE call.kind = "steering" /\ msteering' = call.level /\ mspeed' = mspeed
        <3>1. \A c \in ServoOrders(maestro, call.level) : Obeyed(c)
            BY <1>5, <2>2 DEF CallOrders
        <3>2. \A c \in EngineOrders(maestro, mspeed) : Obeyed(c)
            <4> SUFFICES ASSUME NEW c \in EngineOrders(maestro, mspeed) PROVE Obeyed(c)
                OBVIOUS
            <4>1. \A d \in ServoOrders(maestro, call.level) : d.channel # c.channel
                BY <1>6, OrdersApart
            <4> QED BY <1>7, <2>2, <4>1 DEF CallOrders, Standing
        <3> QED BY <2>2, <3>1, <3>2 DEF Standing, MaestroReturns
    <2>3. CASE call.kind = "rest" /\ mspeed' = 0 /\ msteering' = 0
        <3>1. \A c \in EngineOrders(maestro, 0) \cup ServoOrders(maestro, 0) : Obeyed(c)
            BY <1>5, <2>3 DEF CallOrders
        <3> QED BY <2>3, <3>1 DEF Standing, MaestroReturns
    <2> QED BY <2>1, <2>2, <2>3 DEF MaestroReturns
<1>9. \A c \in Standing' : Obeyed(c)'
    BY <1>8 DEF Obeyed, MaestroReturns
<1>10. /\ Done' \in Nat
       /\ \A i \in 1..Len(todo') : todo'[i] = Commands'[Done' + i]
       /\ \A i \in 1..Done' : Obeyed(Commands[i])'
    BY <1>1, <1>3, EmptySeq
<1> QED BY <1>1, <1>6, <1>9, <1>10 DEF MaestroInv

\* A call begins with its commands, and what stands is obeyed until they are sent.
LEMMA CallKeeps ==
    ASSUME MaestroInv, MaestroCall \/ MaestroDestroy
    PROVE  MaestroInv'
<1>0. MaestroTypes /\ todo = <<>> /\ call.kind = "done"
      /\ UNCHANGED <<maestro, target, mspeed, msteering, unsent>>
    BY DEF MaestroInv, MaestroCall, MaestroSetSpeed, MaestroSetSteering, MaestroDestroy, MaestroIdle
<1>1. CASE ~maestro.sane
    <2>1. MaestroDestroy /\ todo' = <<>> /\ call' = call
        BY <1>1 DEF MaestroCall, MaestroSetSpeed, MaestroSetSteering, MaestroDestroy
    <2>2. MaestroTypes'
        BY <1>0, TypesKept
    <2> QED BY <1>0, <1>1, <2>2 DEF MaestroInv
<1>2. CASE maestro.sane
    <2>1. /\ call' \in [kind : {"rest", "speed", "steering"}, level : Level]
          /\ call'.kind = "rest" => call'.level = 0
          /\ todo' = Commands'
        <3>1. ASSUME NEW v \in MaestroLevels, MaestroSetSpeed(v) \/ MaestroSetSteering(v)
              PROVE  /\ call' \in [kind : {"rest", "speed", "steering"}, level : Level]
                     /\ call'.kind = "rest" => call'.level = 0
                     /\ todo' = Commands'
            <4>1. v \in Level
                BY MaestroAssumption DEF Level
            <4> QED BY <3>1, <4>1 DEF MaestroSetSpeed, MaestroSetSteering, Commands
        <3>2. CASE MaestroDestroy
            <4>1. 0 \in Level
                BY DEF Level
            <4> QED BY <1>2, <3>2, <4>1 DEF MaestroDestroy, Commands
        <3> QED BY <3>1, <3>2 DEF MaestroCall
    <2>2. Standing' = Standing /\ \A c \in Standing : Obeyed(c)
        <3>1. Commands = <<>> /\ Done = 0
            BY <1>0, EmptySeq DEF Commands, Done
        <3> QED BY <1>0, <1>2, <3>1 DEF Standing, MaestroInv
    <2>3. Commands' \in Seq(Cmds)
        <3>1. /\ maestro \in MaestroConfigs /\ call'.level \in Level /\ 0 \in Level
              /\ call'.kind \in {"rest", "speed", "steering"}
            BY <1>0, <1>2, <2>1 DEF MaestroTypes, Level
        <3>2. Commands' \in {SpeedCommands(maestro, call'.level),
                             SteeringCommands(maestro, call'.level), Rest(maestro)}
            BY <1>0, <3>1 DEF Commands
        <3> QED BY <3>1, <3>2, SpeedLists, SteeringLists, RestLists DEF Lists
    <2>4. MaestroTypes' /\ OneUseEach(maestro)
        BY <1>0, <1>2, TypesKept DEF MaestroInv
    <2>5. /\ Done' = 0
          /\ \A i \in 1..Len(todo') : todo'[i] = Commands'[Done' + i]
          /\ \A i \in 1..Done' : Obeyed(Commands[i])'
        <3>1. Len(Commands') \in Nat
            BY <2>3
        <3>2. Done' = 0
            BY <2>1, <3>1 DEF Done
        <3> QED BY <2>1, <3>1, <3>2
    <2>6. \A c \in Standing' : Obeyed(c)'
        BY <1>0, <2>2 DEF Obeyed
    <2> QED BY <1>0, <2>4, <2>5, <2>6 DEF MaestroInv
<1> QED BY <1>1, <1>2

\* The constructor's commands begin, whatever the device was set to.
LEMMA InitTypes ==
    ASSUME NEW m, MaestroInit(m), m.sane \in BOOLEAN, m.sane => m \in MaestroConfigs
    PROVE  MaestroTypes
<1>1. 0 \in Level /\ 0 \in Targets
    BY DEF Level, Targets
<1>2. m.sane => Rest(m) \in Seq(Cmds)
    BY RestLists DEF Lists
<1> QED BY <1>1, <1>2, EmptySeq DEF MaestroInit, MaestroTypes

\* And the invariant holds with them.
LEMMA InitKeeps ==
    ASSUME NEW m, MaestroInit(m), m.sane \in BOOLEAN,
           m.sane => m \in MaestroConfigs /\ OneUseEach(m)
    PROVE  MaestroInv
<1>1. MaestroTypes
    BY InitTypes
<1>2. ASSUME m.sane PROVE MaestroInv
    <2>1. todo = Commands /\ call.kind = "rest"
        BY <1>2 DEF MaestroInit, Commands
    <2>2. maestro.sane
        BY <1>2 DEF MaestroInit
    <2>3. /\ Done = 0
          /\ \A i \in 1..Len(todo) : todo[i] = Commands[Done + i]
          /\ \A i \in 1..Done : Obeyed(Commands[i])
        BY <1>1, <2>1, <2>2, CallBegins
    <2>4. OneUseEach(maestro)
        BY <1>2 DEF MaestroInit
    <2> QED BY <1>1, <2>1, <2>3, <2>4 DEF MaestroInv
<1>3. ASSUME ~m.sane PROVE MaestroInv
    BY <1>1, <1>3 DEF MaestroInv, MaestroInit
<1> QED BY <1>2, <1>3

-----------------------------------------------------------------------------
(* What the invariant says of the ship *)

\* A level's product with the step is between those of the ends of the range.
LEMMA StepBounds ==
    ASSUME NEW s \in Int, NEW x \in -10..10
    PROVE  /\ x * s \in Int
           /\ s >= 0 => -(10 * s) <= x * s /\ x * s <= 10 * s
           /\ s < 0 => 10 * s <= x * s /\ x * s <= -(10 * s)
           /\ x >= 0 /\ s >= 0 => x * s >= 0
           /\ x >= 0 /\ s < 0 => x * s <= 0
           /\ (-x) * s = -(x * s)
<1>0. x * s \in Int /\ (-x) * s = -(x * s)
    BY SMT
<1>1. \A r \in Nat, y \in 0..10 : y * r \in Nat /\ y * r <= 10 * r
    BY ProductGrows
<1> DEFINE a == IF x < 0 THEN -x ELSE x
           r == IF s < 0 THEN -s ELSE s
           p == a * r
<1>2. a \in 0..10 /\ r \in Nat
    OBVIOUS
<1>3. p \in Nat /\ p <= 10 * r
    BY <1>1, <1>2
<1>4. CASE x < 0 /\ s < 0
    <2>1. x * s = (-x) * (-s)
        BY SMT
    <2> QED BY <1>0, <1>3, <1>4, <2>1
<1>5. CASE x < 0 /\ ~(s < 0)
    <2>1. x * s = -((-x) * s)
        BY SMT
    <2> QED BY <1>0, <1>3, <1>5, <2>1
<1>6. CASE ~(x < 0) /\ s < 0
    <2>1. x * s = -(x * (-s))
        BY SMT
    <2> QED BY <1>0, <1>3, <1>6, <2>1
<1>7. CASE ~(x < 0) /\ ~(s < 0)
    BY <1>0, <1>3, <1>7
<1> QED BY <1>4, <1>5, <1>6, <1>7

\* The multiplier of set_speed() for the level.
Multiplier(v, e) ==
    IF e.dir_channel # NO_CHANNEL THEN Magnitude(v) ELSE IF e.fwd THEN v ELSE -v

\* The calibration covers the levels between the ends.
LEMMA CalibratedRange ==
    ASSUME NEW e \in Engines, Calibrated(e), NEW v \in Level
    PROVE  InRange(SpeedToInt(v, e))
<1> DEFINE s == e.step
           b == e.stop
           x == Multiplier(v, e)
           p == x * s
<1>1. s \in Int /\ b \in Int
    BY DEF Engines
<1>2. SpeedToInt(v, e) = b + x * s
    BY DEF SpeedToInt, Multiplier
<1>3. InRange(b + 10 * s) /\ (InRange(b - 10 * s) \/ x >= 0) /\ InRange(b)
    BY DEF Calibrated, Multiplier, Magnitude, Level
<1>4. x \in -10..10
    BY DEF Multiplier, Magnitude, Level
<1> HIDE DEF s, b, x
<1>5. /\ p \in Int
      /\ s >= 0 => -(10 * s) <= p /\ p <= 10 * s
      /\ s < 0 => 10 * s <= p /\ p <= -(10 * s)
      /\ x >= 0 /\ s >= 0 => p >= 0
      /\ x >= 0 /\ s < 0 => p <= 0
    BY <1>1, <1>4, StepBounds
<1> HIDE DEF p
<1>6. \A n \in Int : InRange(n) <=> 0 <= n /\ n <= 4095
    BY SMT DEF InRange, Targets
<1>7. /\ 0 <= b /\ b <= 4095 /\ 0 <= b + 10 * s /\ b + 10 * s <= 4095
      /\ (0 <= b - 10 * s /\ b - 10 * s <= 4095) \/ x >= 0
    <2>1. b + 10 * s \in Int /\ b - 10 * s \in Int
        BY <1>1
    <2> QED BY <1>1, <1>3, <1>6, <2>1
<1>8. 0 <= b + p /\ b + p <= 4095
    <2>1. CASE s >= 0
        BY <1>1, <1>4, <1>5, <1>7, <2>1
    <2>2. CASE s < 0
        BY <1>1, <1>4, <1>5, <1>7, <2>2
    <2> QED BY <1>1, <2>1, <2>2
<1>9. InRange(b + p)
    BY <1>1, <1>5, <1>6, <1>8
<1> QED BY <1>2, <1>9 DEF p

\* An engine whose channels have the targets of a level drives the ship at that level.
LEMMA TargetsDrive ==
    ASSUME MaestroTypes, maestro.sane, NEW i \in 1..Len(maestro.engines), NEW v \in Level,
           Calibrated(maestro.engines[i]),
           target[maestro.engines[i].channel] = Decode(SpeedOrder(maestro.engines[i], v).bytes),
           Directed(maestro.engines[i], v) =>
               target[maestro.engines[i].dir_channel] =
                   Decode(DirectionOrder(maestro, maestro.engines[i], v).bytes)
    PROVE  Drives(maestro.engines[i], v)
<1> DEFINE e == maestro.engines[i]
           t == target[e.channel]
           d == target[e.dir_channel]
           us == SpeedToInt(v, e)
           x == Multiplier(v, e)
<1>0. maestro \in MaestroConfigs
    BY DEF MaestroTypes
<1>1. e \in Engines /\ us \in Int /\ maestro.high \in Int /\ maestro.low \in Int
    BY <1>0, LevelsAreNumbers DEF MaestroConfigs
<1>2. t = 4 * us
    <2>1. InRange(us)
        BY <1>1, CalibratedRange
    <2>2. SpeedOrder(e, v).bytes = Encode(us)
        BY DEF SpeedOrder, Command
    <2>3. Decode(Encode(us)) = 4 * us
        BY <1>1, <2>1, WireValue
    <2> QED BY <2>2, <2>3
<1>3. Directed(e, v) => d = 4 * Direction(maestro, v, e)
    <2>1. Direction(maestro, v, e) \in {maestro.high, maestro.low}
        BY DEF Direction
    <2>2. InRange(maestro.high) /\ InRange(maestro.low)
        BY DEF Calibrated
    <2>3. DirectionOrder(maestro, e, v).bytes = Encode(Direction(maestro, v, e))
        BY DEF DirectionOrder, Command
    <2>4. Decode(Encode(Direction(maestro, v, e))) = 4 * Direction(maestro, v, e)
        BY <1>1, <2>1, <2>2, WireValue
    <2> QED BY <2>3, <2>4
<1>4. maestro.high # maestro.low
    BY DEF Calibrated
<1>5. us = e.stop + x * e.step
    BY DEF SpeedToInt, Multiplier
<1> HIDE DEF e, t, d, us
<1>6. e.stop \in Int /\ e.step \in Int /\ e.fwd \in BOOLEAN
    BY <1>1 DEF Engines
<1>7. x \in -10..10 /\ v \in Int
    BY DEF Multiplier, Magnitude, Level
<1> DEFINE thrust == t - 4 * e.stop
           s == e.step
<1>8. thrust = 4 * (x * s)
    <2> HIDE DEF x
    <2>1. s \in Int /\ x \in Int
        BY <1>6, <1>7
    <2>2. x * s \in Int /\ 4 * (e.stop + x * s) - 4 * e.stop = 4 * (x * s)
        <3> HIDE DEF s
        <3> QED BY <1>6, <2>1
    <2> QED BY <1>2, <1>5, <2>2
<1>9. ASSUME v = 0 PROVE Drives(e, v)
    <2>1. x = 0
        BY <1>6, <1>7, <1>9 DEF Multiplier, Magnitude
    <2>2. thrust = 0
        BY <1>6, <1>8, <2>1
    <2> QED BY <1>9, <2>2 DEF Drives, t
<1>10. ASSUME v # 0 PROVE Drives(e, v)
    <2>1. thrust * Sense(e) = 4 * s * v
        <3> DEFINE q == v * s
        <3>1. q \in Int /\ 4 * s * v = 4 * q /\ (-v) * s = -q
            BY <1>6, <1>7, SMT
        <3>2. CASE e.dir_channel = NO_CHANNEL
            <4>1. Sense(e) = IF e.fwd THEN 1 ELSE -1
                BY <3>2 DEF Sense
            <4>2. x = IF e.fwd THEN v ELSE -v
                BY <3>2 DEF Multiplier
            <4> HIDE DEF thrust, q, x
            <4>3. thrust = IF e.fwd THEN 4 * q ELSE -(4 * q)
                BY <1>6, <1>8, <3>1, <4>2 DEF q
            <4> QED BY <3>1, <4>1, <4>3
        <3>3. CASE e.dir_channel # NO_CHANNEL
            <4>1. d = IF (v > 0) = e.fwd THEN 4 * maestro.high ELSE 4 * maestro.low
                BY <1>3, <1>10, <3>3 DEF Directed, Direction
            <4>2. Sense(e) = IF v > 0 THEN 1 ELSE -1
                <5>1. Sense(e) = IF d = 4 * maestro.high THEN IF e.fwd THEN 1 ELSE -1
                                 ELSE IF d = 4 * maestro.low
                                      THEN IF e.fwd THEN -1 ELSE 1 ELSE 0
                    BY <3>3 DEF Sense, d
                <5>2. 4 * maestro.high # 4 * maestro.low
                    BY <1>1, <1>4
                <5>3. CASE v > 0
                    BY <1>6, <4>1, <5>1, <5>2, <5>3
                <5>4. CASE ~(v > 0)
                    BY <1>6, <4>1, <5>1, <5>2, <5>4
                <5> QED BY <5>3, <5>4
            <4>3. x = IF v > 0 THEN v ELSE -v
                BY <1>7, <1>10, <3>3 DEF Multiplier, Magnitude
            <4> HIDE DEF thrust, q, x
            <4>4. thrust = IF v > 0 THEN 4 * q ELSE -(4 * q)
                BY <1>6, <1>8, <3>1, <4>3 DEF q
            <4> QED BY <3>1, <4>2, <4>4
        <3> QED BY <3>2, <3>3
    <2> QED BY <1>10, <2>1 DEF Drives, t
<1> QED BY <1>9, <1>10 DEF e

\* Between calls engines and servos have what stands.
LEMMA InvFollows ==
    ASSUME MaestroInv
    PROVE  MaestroFollowsOrders
<1> SUFFICES ASSUME maestro.sane, MaestroIdle
             PROVE  /\ \A i \in 1..Len(maestro.engines) :
                          LET e == maestro.engines[i] IN
                          Calibrated(e) /\ Sent(e) => Drives(e, mspeed)
                    /\ \A i \in 1..Len(maestro.servos) :
                          LET us == SteeringToInt(maestro, msteering) IN
                          InRange(us) /\ maestro.servos[i] \notin unsent
                              => target[maestro.servos[i]] = 4 * us
    BY DEF MaestroFollowsOrders
<1>0. /\ MaestroTypes /\ maestro \in MaestroConfigs
      /\ mspeed \in Level /\ msteering \in Level
    BY DEF MaestroInv, MaestroTypes
<1>1. \A c \in Standing : Obeyed(c)
    <2>1. Commands = <<>> /\ Done = 0 /\ call.kind # "rest"
        BY EmptySeq DEF MaestroIdle, Commands, Done
    <2> QED BY <2>1 DEF MaestroInv
<1>2. ASSUME NEW i \in 1..Len(maestro.engines),
             Calibrated(maestro.engines[i]), Sent(maestro.engines[i])
      PROVE  Drives(maestro.engines[i], mspeed)
    <2> DEFINE e == maestro.engines[i]
               a == SpeedOrder(e, mspeed)
               b == DirectionOrder(maestro, e, mspeed)
    <2>1. a \in Standing /\ (Directed(e, mspeed) => b \in Standing)
        BY DEF Standing, EngineOrders
    <2>2. a.channel = e.channel /\ (Directed(e, mspeed) => b.channel = e.dir_channel)
        BY <1>0, OrderChannels
    <2>3. e.channel \notin unsent /\ e.dir_channel \notin unsent
        BY <1>2 DEF Sent
    <2>4. target[e.channel] = Decode(a.bytes)
          /\ (Directed(e, mspeed) => target[e.dir_channel] = Decode(b.bytes))
        BY <1>1, <2>1, <2>2, <2>3 DEF Obeyed
    <2> QED BY <1>0, <1>2, <2>4, TargetsDrive
<1>3. ASSUME NEW i \in 1..Len(maestro.servos), InRange(SteeringToInt(maestro, msteering)),
             maestro.servos[i] \notin unsent
      PROVE  target[maestro.servos[i]] = 4 * SteeringToInt(maestro, msteering)
    <2> DEFINE us == SteeringToInt(maestro, msteering)
               c == Command(maestro.servos[i], us)
    <2>1. us \in Int
        BY <1>0, LevelsAreNumbers
    <2>2. c \in Standing
        BY DEF Standing, ServoOrders
    <2>3. c.channel = maestro.servos[i] /\ c.bytes = Encode(us)
        <3>1. c.channel = maestro.servos[i]
            BY <1>0, OrderChannels
        <3>2. c.bytes = Encode(us)
            BY DEF Command
        <3> QED BY <3>1, <3>2
    <2>4. target[maestro.servos[i]] = Decode(Encode(us))
        BY <1>1, <1>3, <2>2, <2>3 DEF Obeyed
    <2> QED BY <1>3, <2>1, <2>4, WireValue
<1> QED BY <1>2, <1>3

\* In set_speed()'s list a command to an engine's channel is that engine's, and one to
\* its direction channel comes right after it.
LEMMA ListPlaces ==
    ASSUME NEW m \in MaestroConfigs, OneUseEach(m), NEW v \in Level, NEW i \in 1..Len(m.engines),
           NEW j \in 1..Len(SpeedCommands(m, v))
    PROVE  LET e == m.engines[i]
               C == SpeedCommands(m, v) IN
           /\ C[j].channel = e.channel => Leads(C, j, m, e, v)
           /\ C[j].channel = e.dir_channel => Follows(C, j, m, e, v)
<1> DEFINE e == m.engines[i]
           C == SpeedCommands(m, v)
<1>1. PICK h \in 1..Len(m.engines) : Leads(C, j, m, m.engines[h], v)
                                     \/ Follows(C, j, m, m.engines[h], v)
    BY SpeedServes DEF Serves
<1> DEFINE f == m.engines[h]
<1>2. Leads(C, j, m, f, v) => C[j].channel = f.channel
    BY OrderChannels DEF Leads
<1>3. Follows(C, j, m, f, v) => C[j].channel = f.dir_channel /\ f.dir_channel # NO_CHANNEL
    BY OrderChannels DEF Follows, Directed
<1>4. /\ e.channel # f.dir_channel /\ f.channel # e.dir_channel
      /\ i # h => e.channel # f.channel
      /\ i # h => f.dir_channel # e.dir_channel \/ f.dir_channel = NO_CHANNEL
    <2>1. DOMAIN m.engines = 1..Len(m.engines)
        BY DEF MaestroConfigs
    <2> QED BY <2>1 DEF OneUseEach
<1> HIDE DEF C
<1>5. C[j].channel = e.channel => Leads(C, j, m, e, v)
    BY <1>1, <1>2, <1>3, <1>4
<1>6. C[j].channel = e.dir_channel => Follows(C, j, m, e, v)
    BY <1>1, <1>2, <1>3, <1>4
<1> QED BY <1>5, <1>6 DEF C

\* While a level is set an engine has its old targets, or its new ones, or its next
\* command is the one that turns it round.
LEMMA InvDirection ==
    ASSUME MaestroInv
    PROVE  DirectionFollowsAtOnce
<1> SUFFICES ASSUME call.kind = "speed", NEW i \in 1..Len(maestro.engines),
                    Calibrated(maestro.engines[i]), Sent(maestro.engines[i])
             PROVE  \/ Drives(maestro.engines[i], mspeed)
                    \/ Drives(maestro.engines[i], call.level)
                    \/ todo # <<>> /\ Head(todo).channel = maestro.engines[i].dir_channel
    BY DEF DirectionFollowsAtOnce
<1> DEFINE e == maestro.engines[i]
           w == call.level
           C == SpeedCommands(maestro, w)
           k == Done
           n == Len(todo)
<1>0. /\ MaestroTypes /\ maestro.sane /\ maestro \in MaestroConfigs /\ OneUseEach(maestro)
      /\ mspeed \in Level /\ w \in Level /\ todo \in Seq(Cmds)
    BY DEF MaestroInv, MaestroTypes
<1>1. Commands = C /\ C \in Seq(Cmds)
    BY <1>0, SpeedLists DEF Commands, Lists
<1>2. k \in Nat /\ n \in Nat /\ Len(C) = k + n /\ \A j \in 1..n : todo[j] = C[k + j]
    <2>1. k \in Nat /\ \A j \in 1..n : todo[j] = C[k + j]
        BY <1>0, <1>1 DEF MaestroInv
    <2>2. Len(C) \in Nat /\ k = Len(C) - n /\ n \in Nat
        BY <1>0, <1>1 DEF Done
    <2> HIDE DEF k, C, n
    <2> QED BY <2>1, <2>2
<1>3. /\ \A j \in 1..k : Obeyed(C[j])
      /\ \A c \in Standing : Obeyed(c) \/ \E j \in 1..k : C[j].channel = c.channel
    BY <1>0, <1>1 DEF MaestroInv
<1>4. e.channel \notin unsent /\ e.dir_channel \notin unsent
    BY DEF Sent
<1>5. \A j \in 1..k : j \in 1..Len(C)
    <2> HIDE DEF k, C, n
    <2> QED BY <1>2
<1>6. \A v \in Level :
          LET a == SpeedOrder(e, v)
              b == DirectionOrder(maestro, e, v) IN
          /\ a.channel = e.channel /\ (Directed(e, v) => b.channel = e.dir_channel)
          /\ Obeyed(a) /\ (Directed(e, v) => Obeyed(b)) => Drives(e, v)
    <2> SUFFICES ASSUME NEW v \in Level
                 PROVE  LET a == SpeedOrder(e, v)
                            b == DirectionOrder(maestro, e, v) IN
                        /\ a.channel = e.channel /\ (Directed(e, v) => b.channel = e.dir_channel)
                        /\ Obeyed(a) /\ (Directed(e, v) => Obeyed(b)) => Drives(e, v)
        OBVIOUS
    <2>1. SpeedOrder(e, v).channel = e.channel
          /\ (Directed(e, v) => DirectionOrder(maestro, e, v).channel = e.dir_channel)
        BY <1>0, OrderChannels
    <2>2. ASSUME Obeyed(SpeedOrder(e, v)),
                 Directed(e, v) => Obeyed(DirectionOrder(maestro, e, v))
          PROVE  Drives(e, v)
        <3>1. target[e.channel] = Decode(SpeedOrder(e, v).bytes)
            BY <1>4, <2>1, <2>2 DEF Obeyed
        <3>2. Directed(e, v) =>
                 target[e.dir_channel] = Decode(DirectionOrder(maestro, e, v).bytes)
            BY <1>4, <2>1, <2>2 DEF Obeyed
        <3> QED BY <1>0, <3>1, <3>2, TargetsDrive
    <2> QED BY <2>1, <2>2
<1>7. CASE \E j \in 1..k : C[j].channel = e.channel
    <2>1. PICK j \in 1..k : C[j].channel = e.channel
        BY <1>7
    <2>2. Leads(C, j, maestro, e, w)
        BY <1>0, <1>5, <2>1, ListPlaces
    <2>3. Obeyed(SpeedOrder(e, w))
        BY <1>3, <2>2 DEF Leads
    <2>4. CASE Directed(e, w) /\ j = k
        <3>1. k + 1 <= Len(C) /\ C[k + 1] = DirectionOrder(maestro, e, w)
            <4> HIDE DEF k, C
            <4> QED BY <1>2, <2>2, <2>4 DEF Leads
        <3>2. n >= 1
            <4> HIDE DEF k, C, n
            <4> QED BY <1>2, <3>1
        <3>3. todo # <<>> /\ Head(todo) = todo[1]
            BY <1>0, <3>2, EmptySeq, HeadTailProperties
        <3>4. todo[1] = C[k + 1]
            <4> HIDE DEF k, C, n
            <4> QED BY <1>2, <3>2
        <3>5. Head(todo).channel = e.dir_channel
            BY <1>0, <1>6, <2>4, <3>1, <3>3, <3>4
        <3> QED BY <3>3, <3>5
    <2>5. CASE Directed(e, w) /\ j # k
        <3>1. j + 1 \in 1..k
            <4> HIDE DEF k
            <4> QED BY <1>2, <2>5
        <3>2. C[j + 1] = DirectionOrder(maestro, e, w)
            BY <2>2, <2>5 DEF Leads
        <3>3. Obeyed(DirectionOrder(maestro, e, w))
            BY <1>3, <3>1, <3>2
        <3> QED BY <1>0, <1>6, <2>3, <3>3
    <2>6. CASE ~Directed(e, w)
        BY <1>0, <1>6, <2>3, <2>6
    <2> QED BY <2>4, <2>5, <2>6
<1>8. CASE ~ \E j \in 1..k : C[j].channel = e.channel
    <2> DEFINE a == SpeedOrder(e, mspeed)
               b == DirectionOrder(maestro, e, mspeed)
    <2>1. a \in Standing /\ (Directed(e, mspeed) => b \in Standing)
        BY DEF Standing, EngineOrders
    <2>2. Obeyed(a)
        BY <1>0, <1>3, <1>6, <1>8, <2>1
    <2>3. ASSUME NEW j \in 1..k, C[j].channel = e.dir_channel PROVE FALSE
        <3>1. Follows(C, j, maestro, e, w)
            BY <1>0, <1>5, <2>3, ListPlaces
        <3>2. j - 1 \in 1..k /\ C[j - 1] = SpeedOrder(e, w)
            <4>1. j > 1 /\ C[j - 1] = SpeedOrder(e, w)
                BY <3>1 DEF Follows
            <4> HIDE DEF k, C
            <4> QED BY <1>2, <4>1
        <3> QED BY <1>0, <1>6, <1>8, <3>2
    <2>4. Directed(e, mspeed) => Obeyed(b)
        BY <1>0, <1>3, <1>6, <2>1, <2>3
    <2> QED BY <1>0, <1>6, <2>2, <2>4
<1> QED BY <1>7, <1>8

-----------------------------------------------------------------------------
(* What the file says *)

\* An accepted file has, in the sections it has, all that must be there.
LEMMA AcceptedHas ==
    ASSUME NEW d, Accepted(d)
    PROVE  /\ Has(d, "maestro_engines") =>
                 Has(d, "channel") /\ Has(d, "stop") /\ Has(d, "step")
           /\ Has(d, "maestro_steering_calibration") => Has(d, "straight") /\ Has(d, "angle")
           /\ Has(d, "gpio_engines") => Has(d, "pwm_period") /\ Has(d, "rev_mode")
BY DEF Accepted, IsOk, MustBeThere, Section

\* Without the section there is no calibration.
LEMMA SectionNeeded ==
    ASSUME NEW d, ~Has(d, "maestro_steering_calibration")
    PROVE  ~Has(d, "straight") /\ ~Has(d, "angle")
BY DEF Has, Section

\* The Maestro of a well-formed file that is accepted is configured as one should be.
LEMMA MaestroConfigType ==
    ASSUME NEW d \in Documents, Accepted(d), NEW b \in BOOLEAN
    PROVE  [MaestroConfig(d) EXCEPT !.sane = b] \in MaestroConfigs
<1> DEFINE m == MaestroConfig(d)
<1>1. WellFormed(d)
    BY DocumentsAssumption
<1>2. m.engines \in Seq(Engines)
    <2>1. CASE Has(d, "maestro_engines")
        <3>1. d.engines \in Seq(Engines)
            BY <1>1 DEF WellFormed
        <3>2. m.engines = [i \in DOMAIN d.engines |-> EngineOf(d, d.engines[i])]
            BY <2>1 DEF MaestroConfig
        <3>3. ASSUME NEW e \in Engines PROVE EngineOf(d, e) \in Engines
            <4>1. Has(d, "channel") /\ Has(d, "stop") /\ Has(d, "step")
                BY <2>1, AcceptedHas
            <4> QED BY <4>1 DEF EngineOf, Engines
        <3>4. DOMAIN d.engines = 1..Len(d.engines) /\ Len(d.engines) \in Nat
              /\ \A i \in 1..Len(d.engines) : d.engines[i] \in Engines
            BY <3>1
        <3>5. m.engines = [i \in 1..Len(d.engines) |-> EngineOf(d, d.engines[i])]
            BY <3>2, <3>4
        <3>6. \A i \in 1..Len(d.engines) : EngineOf(d, d.engines[i]) \in Engines
            BY <3>3, <3>4
        <3> HIDE DEF m
        <3> QED BY <3>4, <3>5, <3>6
    <2>2. CASE ~Has(d, "maestro_engines")
        BY <2>2, EmptySeq DEF MaestroConfig
    <2> QED BY <2>1, <2>2
<1>3. m.servos \in Seq(Channels)
    BY <1>1, EmptySeq DEF MaestroConfig, WellFormed
<1>4. m.straight \in Int /\ m.step \in Int /\ m.high \in Int /\ m.low \in Int
    BY <1>1 DEF MaestroConfig, WellFormed, Value
<1>5. m = [sane |-> m.sane, engines |-> m.engines, servos |-> m.servos, straight |-> m.straight,
           step |-> m.step, high |-> m.high, low |-> m.low]
    BY DEF MaestroConfig
<1> HIDE DEF m
<1> QED BY <1>2, <1>3, <1>4, <1>5 DEF MaestroConfigs, m

\* So are the GPIO controllers, if there are any.
LEMMA GPIOConfigType ==
    ASSUME NEW d \in Documents, Accepted(d), Has(d, "gpio_engines")
    PROVE  /\ GPIOConfig(d) \in Configs
           /\ GPIOConfig(d).period = d.pwm_period /\ GPIOConfig(d).rev = d.rev_mode
<1> DEFINE c == GPIOConfig(d)
<1>1. WellFormed(d)
    BY DocumentsAssumption
<1>2. c.period = d.pwm_period /\ c.rev = d.rev_mode
    BY AcceptedHas DEF GPIOConfig, Value
<1>3. c.period \in Periods /\ c.rev \in RevModes
    BY <1>1, <1>2 DEF WellFormed
<1>4. c.min \in Duties /\ c.max \in Duties /\ c.min <= c.max
    BY <1>1 DEF WellFormed
<1>5. c = [rev |-> c.rev, period |-> c.period, min |-> c.min, max |-> c.max]
    BY DEF GPIOConfig
<1> HIDE DEF c
<1>6. c \in Configs
    BY <1>3, <1>4, <1>5 DEF Configs
<1> QED BY <1>2, <1>6 DEF c

\* The rudder's is, whatever the file; its period is the file's or 0.
LEMMA RudderConfigType ==
    ASSUME NEW d \in Documents
    PROVE  /\ RudderConfig(d) \in RudderConfigs
           /\ RudderConfig(d).period = IF Has(d, "rudder_period") THEN d.rudder_period ELSE 0
<1> DEFINE c == RudderConfig(d)
<1>1. WellFormed(d)
    BY DocumentsAssumption
<1>2. c.period = IF Has(d, "rudder_period") THEN d.rudder_period ELSE 0
    BY DEF RudderConfig, Value
<1>3. c.period \in Periods \cup {0}
    BY <1>1, <1>2 DEF WellFormed
<1>4. c.min \in Duties /\ c.max \in Duties /\ c.min <= c.max
    BY <1>1 DEF WellFormed
<1>5. c = [period |-> c.period, min |-> c.min, max |-> c.max]
    BY DEF RudderConfig
<1> HIDE DEF c
<1>6. c \in RudderConfigs
    BY <1>3, <1>4, <1>5 DEF RudderConfigs
<1> QED BY <1>2, <1>6 DEF c

\* The Maestro's configuration is what the file gave.
LEMMA MaestroFromFile ==
    ASSUME NEW d, NEW b
    PROVE  LET m == MaestroConfig(d)
               n == [MaestroConfig(d) EXCEPT !.sane = b] IN
           /\ n.sane = b /\ n.engines = m.engines /\ n.servos = m.servos
           /\ n.straight = m.straight /\ n.step = m.step
BY DEF MaestroConfig

\* The file, what was made of it and where the program is.
DocInv ==
    /\ doc \in Documents
    /\ phase \in {"running", "invalid", "dead", "stopped"}
    /\ phase \in {"running", "stopped"} => Accepted(doc)
    /\ maestro.sane \in BOOLEAN
    /\ maestro.sane => Accepted(doc)
    /\ maestro = [MaestroConfig(doc) EXCEPT !.sane = maestro.sane]
    /\ config = GPIOConfig(doc) /\ rudderConfig = RudderConfig(doc)

\* Nothing changes it but the end of the program (Config.cpp:186-524).
LEMMA DocInvariant == DrivesSpec => []DocInv
<1>1. DrivesInit => DocInv
    <2> SUFFICES ASSUME DrivesInit PROVE DocInv
        OBVIOUS
    <2> DEFINE b == MaestroConfig(doc).sane /\ phase = "running"
    <2>1. maestro = [MaestroConfig(doc) EXCEPT !.sane = b]
        BY DEF DrivesInit, MaestroInit
    <2>2. phase = "running" => Accepted(doc)
        BY DEF DrivesInit, Accepted
    <2>3. phase \in {"running", "invalid", "dead"}
        BY DEF DrivesInit
    <2>4. maestro.sane = b
        BY <2>1, MaestroFromFile
    <2>5. b \in BOOLEAN /\ (b => phase = "running")
        OBVIOUS
    <2>6. doc \in Documents /\ config = GPIOConfig(doc) /\ rudderConfig = RudderConfig(doc)
        BY DEF DrivesInit
    <2> HIDE DEF b
    <2> QED BY <2>1, <2>2, <2>3, <2>4, <2>5, <2>6 DEF DocInv
<1>2. DocInv /\ [DrivesNext]_drivesVars => DocInv'
    <2> SUFFICES ASSUME DocInv, [DrivesNext]_drivesVars PROVE DocInv'
        OBVIOUS
    <2>1. UNCHANGED <<doc, maestro, config, rudderConfig>>
        BY DEF DrivesNext, Order, Quit, SetSpeed, SetSteering, MaestroCall, MaestroSetSpeed,
               MaestroSetSteering, MaestroDestroy, MaestroRuns, SendNext, MaestroReturns,
               drivesVars, vars, maestroVars
    <2>2. phase' = phase \/ (phase = "running" /\ phase' = "stopped")
        BY DEF DrivesNext, Order, Quit, drivesVars
    <2> QED BY <2>1, <2>2 DEF DocInv
<1> QED BY <1>1, <1>2, PTL DEF DrivesSpec

\* Two names never have the same code.
LEMMA CodesDiffer ==
    /\ \A n, k \in DOMAIN KeyCode : KeyCode[n] = KeyCode[k] => n = k
    /\ \A n, k \in DOMAIN RelCode : RelCode[n] = RelCode[k] => n = k
<1>1. \A n, k \in DOMAIN KeyCode : KeyCode[n] = KeyCode[k] => n = k
    BY DEF KeyCode
<1>2. \A n, k \in DOMAIN RelCode : RelCode[n] = RelCode[k] => n = k
    BY DEF RelCode
<1> QED BY <1>1, <1>2

\* The map from codes has the names' events.
LEMMA ByCodeFinds ==
    ASSUME NEW code, NEW names, DOMAIN names \subseteq DOMAIN code,
           \A n, k \in DOMAIN code : code[n] = code[k] => n = k,
           NEW name \in DOMAIN code
    PROVE  /\ code[name] \in DOMAIN ByCode(code, names) <=> name \in DOMAIN names
           /\ name \in DOMAIN names => ByCode(code, names)[code[name]] = names[name]
<1>1. DOMAIN ByCode(code, names) = {code[n] : n \in DOMAIN names}
    BY DEF ByCode
<1>2. code[name] \in DOMAIN ByCode(code, names) <=> name \in DOMAIN names
    BY <1>1
<1>3. ASSUME name \in DOMAIN names PROVE ByCode(code, names)[code[name]] = names[name]
    <2> DEFINE n == CHOOSE n \in DOMAIN names : code[n] = code[name]
    <2>1. n \in DOMAIN names /\ code[n] = code[name]
        BY <1>3
    <2>2. ByCode(code, names)[code[name]] = names[n]
        BY <1>1, <1>3 DEF ByCode
    <2> HIDE DEF n
    <2>3. n = name
        BY <2>1
    <2> QED BY <2>2, <2>3
<1> QED BY <1>2, <1>3

\* A list of events with nothing before or after.
LEMMA Alone ==
    ASSUME NEW x
    PROVE  /\ <<x>> \o <<>> = <<x>> /\ <<>> \o <<x>> = <<x>>
           /\ <<>> \o <<>> = <<>>
<1>1. <<x>> \in Seq({x}) /\ <<>> \in Seq({x})
    BY EmptySeq
<1> QED BY <1>1, ConcatEmptySeq

\* Whatever the maps of the file, a key gives its event once from press to release, and
\* a movement gives its event once (Config.cpp:312-366, EvdevReader.cpp:97-119).
THEOREM EachInputObeyed == DrivesSpec => []InputObeyed
<1>1. DocInv => InputObeyed
    <2> SUFFICES ASSUME DocInv, phase = "running" PROVE InputObeyed
        BY DEF InputObeyed
    <2>1. WellFormed(doc)
        BY DocumentsAssumption DEF DocInv
    <2> DEFINE K == Keymap(doc)
               R == Relmap(doc)
    <2>2. ASSUME NEW name \in DOMAIN KeyCode
          PROVE  Events(Key(name, 1)) \o Events(Key(name, 2)) \o Events(Key(name, 0)) =
                    IF Has(doc, "keymap") /\ name \in DOMAIN doc.keymap
                    THEN <<doc.keymap[name]>> ELSE <<>>
        <3>1. /\ KeyCode[name] \in DOMAIN K <=> Has(doc, "keymap") /\ name \in DOMAIN doc.keymap
              /\ KeyCode[name] \in DOMAIN K => K[KeyCode[name]] = doc.keymap[name]
            <4>1. CASE Has(doc, "keymap")
                <5>1. K = ByCode(KeyCode, doc.keymap)
                    BY <4>1 DEF Keymap
                <5>2. DOMAIN doc.keymap \subseteq DOMAIN KeyCode
                    BY <2>1 DEF WellFormed
                <5> HIDE DEF K
                <5> QED BY <4>1, <5>1, <5>2, CodesDiffer, ByCodeFinds
            <4>2. CASE ~Has(doc, "keymap")
                <5>1. K = <<>>
                    BY <4>2 DEF Keymap
                <5>2. DOMAIN K = {}
                    BY <5>1
                <5> QED BY <4>2, <5>2
            <4> QED BY <4>1, <4>2
        <3>2. /\ Events(Key(name, 1)) = IF KeyCode[name] \in DOMAIN K
                                        THEN <<K[KeyCode[name]]>> ELSE <<>>
              /\ Events(Key(name, 2)) = <<>> /\ Events(Key(name, 0)) = <<>>
            BY DEF Events, EventsOf, Key, EV_KEY, EV_REL
        <3> HIDE DEF K, R
        <3>3. CASE KeyCode[name] \in DOMAIN K
            BY <3>1, <3>2, <3>3, Alone
        <3>4. CASE KeyCode[name] \notin DOMAIN K
            BY <3>1, <3>2, <3>4, Alone
        <3> QED BY <3>3, <3>4
    <2>3. ASSUME NEW name \in DOMAIN RelCode, NEW n \in 1..3
          PROVE  LET axis == RelCode[name][1]
                     sign == IF RelCode[name][2] THEN 1 ELSE -1 IN
                 Events(Movement(axis, 0)) \o Events(Movement(axis, sign * n)) =
                    IF Has(doc, "relmap") /\ name \in DOMAIN doc.relmap
                    THEN <<doc.relmap[name]>> ELSE <<>>
        <3> DEFINE axis == RelCode[name][1]
                   ahead == RelCode[name][2]
                   sign == IF ahead THEN 1 ELSE -1
        <3>1. /\ RelCode[name] \in DOMAIN R <=> Has(doc, "relmap") /\ name \in DOMAIN doc.relmap
              /\ RelCode[name] \in DOMAIN R => R[RelCode[name]] = doc.relmap[name]
            <4>1. CASE Has(doc, "relmap")
                <5>1. R = ByCode(RelCode, doc.relmap)
                    BY <4>1 DEF Relmap
                <5>2. DOMAIN doc.relmap \subseteq DOMAIN RelCode
                    BY <2>1 DEF WellFormed
                <5> HIDE DEF R
                <5> QED BY <4>1, <5>1, <5>2, CodesDiffer, ByCodeFinds
            <4>2. CASE ~Has(doc, "relmap")
                <5>1. R = <<>>
                    BY <4>2 DEF Relmap
                <5>2. DOMAIN R = {}
                    BY <5>1
                <5> QED BY <4>2, <5>2
            <4> QED BY <4>1, <4>2
        <3>2. ahead \in BOOLEAN /\ RelCode[name] = <<axis, ahead>>
            <4> DEFINE x == IF name \in {"REL_X+", "REL_X-"} THEN 0 ELSE 1
                       y == name \in {"REL_X+", "REL_Y+"}
            <4>1. RelCode[name] = <<x, y>>
                BY Zenon DEF RelCode
            <4>2. y \in BOOLEAN
                OBVIOUS
            <4> HIDE DEF x, y
            <4>3. <<x, y>>[1] = x /\ <<x, y>>[2] = y
                OBVIOUS
            <4> QED BY <4>1, <4>2, <4>3
        <3> HIDE DEF axis, ahead
        <3>3. sign * n # 0 /\ (sign * n > 0) = ahead
            BY <3>2
        <3>4. /\ Events(Movement(axis, 0)) = <<>>
              /\ Events(Movement(axis, sign * n)) = IF RelCode[name] \in DOMAIN R
                                                    THEN <<R[RelCode[name]]>> ELSE <<>>
            <4> HIDE DEF sign
            <4> QED BY <3>2, <3>3 DEF Events, EventsOf, Movement, EV_KEY, EV_REL
        <3> HIDE DEF R, K, sign
        <3>5. CASE RelCode[name] \in DOMAIN R
            BY <3>1, <3>4, <3>5, Alone DEF axis, ahead, sign
        <3>6. CASE RelCode[name] \notin DOMAIN R
            BY <3>1, <3>4, <3>6, Alone DEF axis, ahead, sign
        <3> QED BY <3>5, <3>6
    <2> QED BY <2>2, <2>3 DEF InputObeyed
<1> QED BY <1>1, DocInvariant, PTL

-----------------------------------------------------------------------------
(* The controllers of the program *)

\* A part of an unsigned number is one.
LEMMA PartTypes ==
    ASSUME NEW x \in Int, NEW n \in {100, 1000}
    PROVE  Unsigned(x) \div n \in 0..(Width - 1)
<1> DEFINE u == Unsigned(x)
<1>1. Width \in Nat \ {0}
    BY DutyAssumption
<1>2. u \in 0..(Width - 1)
    BY <1>1, ModuloRange DEF Unsigned
<1> HIDE DEF u
<1>3. u \div 100 \in 0..(Width - 1) /\ u \div 1000 \in 0..(Width - 1)
    BY <1>1, <1>2, SMT
<1> QED BY <1>3 DEF u

\* Durations are unsigned numbers.
LEMMA EngineDurationType ==
    ASSUME NEW c \in Configs, NEW v \in Level
    PROVE  EngineDuration(c, v) \in 0..(Width - 1)
<1> DEFINE lo == c.min
           hi == c.max
           p == c.period
<1>1. lo \in 0..100 /\ hi \in 0..100 /\ lo <= hi /\ p \in Nat /\ Width \in Nat \ {0}
    BY ConfigTypes
<1> DEFINE d == IF c.rev = "SAME_LINE" THEN SameLineDuty(c, v) ELSE OneWayDuty(c, v)
           z == Abs(v) * (hi - lo)
<1>2. z \in Int
    <2>1. Abs(v) \in Int /\ hi - lo \in Int
        BY <1>1 DEF Abs, Level
    <2> QED BY <2>1, SMT
<1>3. OneWayDuty(c, v) \in Int
    <2>1. OneWayDuty(c, v) = lo + Unsigned(z) \div 10
        BY DEF OneWayDuty
    <2> HIDE DEF z, lo
    <2>2. Unsigned(z) \in Nat
        BY <1>2, UnsignedNat
    <2> QED BY <1>1, <2>1, <2>2, SMT
<1>4. d \in Int
    BY <1>3, SameLineBounds
<1> HIDE DEF d, p
<1>5. d * p \in Int
    BY <1>1, <1>4, SMT
<1>6. EngineDuration(c, v) = Unsigned(d * p) \div 100
    BY DEF EngineDuration, Percent, d, p
<1> QED BY <1>5, <1>6, PartTypes

\* The rudder's is none when the file gives it no period.
LEMMA RudderDurationType ==
    ASSUME NEW c \in RudderConfigs, NEW v \in Level
    PROVE  /\ RudderDuration(c, v) \in 0..(Width - 1)
           /\ c.period = 0 => RudderDuration(c, v) = 0
<1> DEFINE lo == c.min
           hi == c.max
           p == c.period
<1>1. lo \in 0..100 /\ hi \in 0..100 /\ lo <= hi /\ p \in Nat /\ Width \in Nat \ {0}
    BY RudderSettings
<1> DEFINE s == (lo * 10 + hi * 10) \div 2
           y == v * (hi * 10 - s)
           u == Unsigned(s + Unsigned(y) \div 10)
<1>2. RudderDuration(c, v) = Unsigned(u * p) \div 1000
    BY DEF RudderDuration
<1> HIDE DEF lo, hi, p
<1>3. s \in Int /\ hi * 10 - s \in Int
    BY <1>1, SMT
<1> HIDE DEF s
<1>4. y \in Int
    BY <1>3, SMT DEF Level
<1> HIDE DEF y
<1>5. Unsigned(y) \in Nat
    BY <1>4, UnsignedNat
<1>6. s + Unsigned(y) \div 10 \in Int
    BY <1>3, <1>5, SMT
<1>7. u \in Nat
    BY <1>6, UnsignedNat
<1> HIDE DEF u
<1>8. u * p \in Int
    BY <1>1, <1>7, SMT
<1>9. p = 0 => Unsigned(u * p) \div 1000 = 0
    <2>1. p = 0 => u * p = 0
        BY <1>7, SMT
    <2>2. Unsigned(0) = 0
        BY <1>1, SmallModulo, SMT DEF Unsigned
    <2> QED BY <2>1, <2>2, SMT
<1> QED BY <1>2, <1>8, <1>9, PartTypes DEF p

\* Setting a level keeps the types of the engine and of the rudder.
LEMMA GPIOTypes ==
    ASSUME NEW v \in Level, SetSpeed(v) \/ SetSteering(v)
    PROVE  (EngineTypeOK => EngineTypeOK') /\ (RudderTypeOK => RudderTypeOK')
<1>1. CASE SetSpeed(v)
    <2>1. EngineTypeOK => EngineDuration(config, v) \in 0..(Width - 1)
        BY EngineDurationType DEF EngineTypeOK
    <2> QED BY <1>1, <2>1 DEF SetSpeed, EngineTypeOK, RudderTypeOK
<1>2. CASE SetSteering(v)
    <2>1. RudderTypeOK => RudderDuration(rudderConfig, v) \in 0..(Width - 1)
        BY RudderDurationType DEF RudderTypeOK
    <2> QED BY <1>2, <2>1 DEF SetSteering, EngineTypeOK, RudderTypeOK
<1> QED BY <1>1, <1>2

\* The types: those of the GPIO engines, while there are any.
TypesInv ==
    /\ MaestroTypes
    /\ phase = "running" /\ Has(doc, "gpio_engines") => EngineTypeOK
    /\ RudderTypeOK

\* Who takes a step of the program.
LEMMA WhoMoves ==
    ASSUME [DrivesNext]_drivesVars
    PROVE  /\ SendNext \/ MaestroReturns \/ MaestroCall \/ MaestroDestroy \/ UNCHANGED maestroVars
           /\ \/ phase = "running" /\ Has(doc, "gpio_engines") /\ \E v \in Level : SetSpeed(v)
              \/ phase = "running" /\ Has(doc, "gpio_steering") /\ \E v \in Level : SetSteering(v)
              \/ UNCHANGED vars
           /\ doc' = doc /\ (phase' = phase \/ phase' = "stopped")
BY DEF DrivesNext, Order, Quit, MaestroRuns, drivesVars

\* For every well-formed configuration file and every loss of commands the values keep
\* their types, and only channels of the device are written to (Config.cpp:199-254,
\* MaestroController.cpp:118-139).
THEOREM DrivesTypes == DrivesSpec => []DrivesTypeOK
<1>1. DrivesInit /\ DocInv => TypesInv
    <2> SUFFICES ASSUME DrivesInit, DocInv PROVE TypesInv
        OBVIOUS
    <2>1. MaestroInit(maestro)
        BY DEF DrivesInit, MaestroInit
    <2>2. maestro.sane \in BOOLEAN /\ (maestro.sane => maestro \in MaestroConfigs)
        BY MaestroConfigType DEF DocInv
    <2>3. MaestroTypes
        BY <2>1, <2>2, InitTypes
    <2>4. 0 \in 0..(Width - 1) /\ 0 \in Level
        BY DutyAssumption DEF Level
    <2>5. ASSUME phase = "running", Has(doc, "gpio_engines") PROVE EngineTypeOK
        <3>1. config \in Configs
            BY <2>5, GPIOConfigType DEF DocInv
        <3> QED BY <2>4, <3>1 DEF DrivesInit, EngineTypeOK
    <2>6. RudderTypeOK
        <3>1. rudderConfig \in RudderConfigs
            BY RudderConfigType DEF DocInv
        <3> QED BY <2>4, <3>1 DEF DrivesInit, RudderTypeOK
    <2> QED BY <2>3, <2>5, <2>6 DEF TypesInv
<1>2. TypesInv /\ [DrivesNext]_drivesVars => TypesInv'
    <2> SUFFICES ASSUME TypesInv, [DrivesNext]_drivesVars PROVE TypesInv'
        OBVIOUS
    <2>1. MaestroTypes'
        <3>1. CASE SendNext \/ MaestroReturns \/ MaestroCall \/ MaestroDestroy
            BY <3>1, TypesKept DEF TypesInv
        <3>2. CASE UNCHANGED maestroVars
            BY <3>2 DEF TypesInv, MaestroTypes, maestroVars
        <3> QED BY <3>1, <3>2, WhoMoves
    <2>2. (EngineTypeOK => EngineTypeOK') /\ (RudderTypeOK => RudderTypeOK')
        <3>1. CASE \E v \in Level : SetSpeed(v) \/ SetSteering(v)
            BY <3>1, GPIOTypes
        <3>2. CASE UNCHANGED vars
            BY <3>2 DEF EngineTypeOK, RudderTypeOK, vars
        <3> QED BY <3>1, <3>2, WhoMoves
    <2>3. phase' = "running" => phase = "running"
        BY WhoMoves
    <2> QED BY <2>1, <2>2, <2>3, WhoMoves DEF TypesInv
<1>3. TypesInv /\ DocInv => DrivesTypeOK
    <2> SUFFICES ASSUME TypesInv, DocInv PROVE DrivesTypeOK
        OBVIOUS
    <2>1. \A i \in 1..Len(todo) : todo[i].channel \in Channels
        <3>1. \A i \in 1..Len(todo) : todo[i] \in Cmds
            BY DEF TypesInv, MaestroTypes
        <3> QED BY <3>1 DEF Cmds
    <2> QED BY <2>1 DEF TypesInv, DocInv, MaestroTypes, DrivesTypeOK
<1> QED BY <1>1, <1>2, <1>3, DocInvariant, PTL DEF DrivesSpec

\* The Maestro's invariant is one of the program, from the constructor to the destructor.
LEMMA MaestroInvariant ==
    ASSUME Wired
    PROVE  DrivesSpec => []MaestroInv
<1>1. DrivesInit /\ DocInv => MaestroInv
    <2> SUFFICES ASSUME DrivesInit, DocInv PROVE MaestroInv
        OBVIOUS
    <2>1. MaestroInit(maestro)
        BY DEF DrivesInit, MaestroInit
    <2>2. maestro.sane \in BOOLEAN /\ (maestro.sane => maestro \in MaestroConfigs)
        BY MaestroConfigType DEF DocInv
    <2>3. maestro.sane => OneUseEach(maestro)
        <3>1. OneUseEach(MaestroConfig(doc)) <=> OneUseEach(maestro)
            <4> DEFINE n == [MaestroConfig(doc) EXCEPT !.sane = maestro.sane]
            <4>1. maestro = n
                BY DEF DocInv
            <4>2. n.engines = MaestroConfig(doc).engines /\ n.servos = MaestroConfig(doc).servos
                BY MaestroFromFile
            <4> HIDE DEF n
            <4>3. maestro.engines = MaestroConfig(doc).engines
                  /\ maestro.servos = MaestroConfig(doc).servos
                BY <4>1, <4>2
            <4> QED BY <4>3 DEF OneUseEach
        <3> QED BY <3>1 DEF DocInv, Wired
    <2> QED BY <2>1, <2>2, <2>3, InitKeeps
<1>2. MaestroInv /\ [DrivesNext]_drivesVars => MaestroInv'
    <2> SUFFICES ASSUME MaestroInv, [DrivesNext]_drivesVars PROVE MaestroInv'
        OBVIOUS
    <2>1. CASE UNCHANGED maestroVars
        BY <2>1 DEF MaestroInv, MaestroTypes, Done, Commands, Standing, Obeyed, maestroVars
    <2> QED BY <2>1, WhoMoves, SendKeeps, ReturnKeeps, CallKeeps
<1> QED BY <1>1, <1>2, DocInvariant, PTL DEF DrivesSpec

\* For every configuration file that uses no channel twice, and whatever commands are lost,
\* between calls every engine drives the ship at the level that is remembered, and every
\* servo has the rudder's angle, if the last command to each of its channels went through
\* (MaestroController.cpp:99-145, 157-208).
THEOREM OrdersAreFollowed ==
    ASSUME Wired
    PROVE  DrivesSpec => []MaestroFollowsOrders
<1>1. MaestroInv => MaestroFollowsOrders
    BY InvFollows
<1> QED BY <1>1, MaestroInvariant, PTL

\* For every such file, an engine that is given a new level drives at the old one or at the
\* new one at every moment, except before the one command that turns it round
\* (MaestroController.cpp:107-142).
THEOREM DirectionsFollow ==
    ASSUME Wired
    PROVE  DrivesSpec => []DirectionFollowsAtOnce
<1>1. MaestroInv => DirectionFollowsAtOnce
    BY InvDirection
<1> QED BY <1>1, MaestroInvariant, PTL

-----------------------------------------------------------------------------
(* The GPIO controllers of the program *)

\* Engine and rudder have the pulses of the levels that are remembered, or none yet; an
\* engine that the file does not have has none.
PulseInv ==
    /\ phase = "running" /\ Has(doc, "gpio_engines") => EngineInv
    /\ ~Has(doc, "gpio_engines") => engine = 0
    /\ RudderInv

\* This is so in the whole program as it is for the controllers alone.
LEMMA PulseInvariant == DrivesSpec => []PulseInv
<1>1. DrivesInit /\ DocInv => PulseInv
    <2> SUFFICES ASSUME DrivesInit, DocInv PROVE PulseInv
        OBVIOUS
    <2>1. phase = "running" /\ Has(doc, "gpio_engines") => config \in Configs
        BY GPIOConfigType DEF DocInv
    <2>2. rudderConfig \in RudderConfigs
        BY RudderConfigType DEF DocInv
    <2>3. 0 \in Level
        BY DEF Level
    <2> QED BY <2>1, <2>2, <2>3 DEF DrivesInit, PulseInv, EngineInv, RudderInv
<1>2. PulseInv /\ [DrivesNext]_drivesVars => PulseInv'
    <2> SUFFICES ASSUME PulseInv, [DrivesNext]_drivesVars PROVE PulseInv'
        OBVIOUS
    <2>1. doc' = doc /\ (phase' = "running" => phase = "running")
        BY WhoMoves
    <2>2. ASSUME NEW v \in Level, SetSpeed(v), phase = "running", Has(doc, "gpio_engines")
          PROVE  PulseInv'
        BY <2>1, <2>2 DEF PulseInv, EngineInv, RudderInv, SetSpeed
    <2>3. ASSUME NEW v \in Level, SetSteering(v) PROVE PulseInv'
        BY <2>1, <2>3 DEF PulseInv, EngineInv, RudderInv, SetSteering
    <2>4. CASE UNCHANGED vars
        BY <2>1, <2>4 DEF PulseInv, EngineInv, RudderInv, vars
    <2> QED BY <2>2, <2>3, <2>4, WhoMoves
<1> QED BY <1>1, <1>2, DocInvariant, PTL DEF DrivesSpec

\* What the controllers alone guarantee of engine and rudder they guarantee in the program,
\* for every file whose periods fit into unsigned int (GPIOEngineController.cpp:115-184,
\* GPIOSteeringController.cpp:90-101).
THEOREM PulsesOfFile ==
    ASSUME RudderFits
    PROVE  DrivesSpec => EngineWithinDuty /\ FasterIsNotWeaker /\ RudderNearExact
<1> DEFINE Near ==
        rudder' # rudder
        /\ (steering' >= 0 \/ (rudderConfig.period % 10 = 0 /\ rudderConfig.min > 0)) =>
            Abs(10000 * rudder' - ExactRudder(steering')) <= 10000 + 10 * rudderConfig.period
<1>0. Fits
    BY DutyAssumption DEF Fits, RudderFits
<1>1. PulseInv /\ [DrivesNext]_drivesVars =>
         /\ [engine' # engine => WithinDuty(config, engine')]_vars
         /\ [Faster => engine <= engine']_vars
         /\ [Near]_vars
    <2> SUFFICES ASSUME PulseInv, [DrivesNext]_drivesVars, ~ UNCHANGED vars
                 PROVE  /\ engine' # engine => WithinDuty(config, engine')
                        /\ Faster => engine <= engine'
                        /\ Near
        OBVIOUS
    <2>1. Next
        BY WhoMoves DEF Next
    <2>2. Near
        BY <2>1, RudderStep DEF PulseInv, RudderInv
    <2>3. CASE phase = "running" /\ Has(doc, "gpio_engines")
        <3>1. EngineInv /\ config \in Configs
            BY <2>3 DEF PulseInv, EngineInv
        <3> QED BY <1>0, <2>1, <2>2, <3>1, PulseStep, ThrustStep
    <2>4. CASE ~ (phase = "running" /\ Has(doc, "gpio_engines"))
        <3>1. engine = 0 /\ engine' = 0
            BY <2>4, WhoMoves DEF PulseInv, SetSteering
        <3> QED BY <2>2, <3>1
    <2> QED BY <2>3, <2>4
<1>2. FasterIsNotWeaker <=> [][Faster => engine <= engine']_vars
    BY PTL DEF FasterIsNotWeaker, Faster
<1>3. RudderNearExact <=> [][Near]_vars
    BY PTL DEF RudderNearExact
<1> QED BY <1>1, <1>2, <1>3, PulseInvariant, PTL DEF DrivesSpec, EngineWithinDuty

-----------------------------------------------------------------------------
(* The numbers of the file *)

\* Without a calibration no servo is sent anything but 0.
ServosIdle ==
    maestro.straight = 0 /\ maestro.step = 0 =>
        \A i \in DOMAIN maestro.servos : target[maestro.servos[i]] = 0

\* A command of a call that goes to a servo's channel is one of the servo's.
LEMMA NextToServo ==
    ASSUME MaestroInv, SendNext, NEW i \in DOMAIN maestro.servos,
           Head(todo).channel = maestro.servos[i]
    PROVE  \E v \in Level : Head(todo).bytes = Encode(SteeringToInt(maestro, v))
<1> DEFINE h == Head(todo)
<1>1. /\ MaestroTypes /\ maestro.sane /\ todo \in Seq(Cmds) /\ todo # <<>>
      /\ maestro \in MaestroConfigs /\ OneUseEach(maestro) /\ call.level \in Level
      /\ call.kind = "rest" => call.level = 0
    BY DEF MaestroInv, MaestroTypes, SendNext
<1>2. h \in CallOrders
    <2>1. Len(todo) \in Nat \ {0} /\ h = todo[1]
        BY <1>1, EmptySeq, HeadTailProperties
    <2>2. Commands \in Seq(Cmds) /\ CallOrders = {Commands[j] : j \in 1..Len(Commands)}
        BY <1>1, CommandsListed DEF Lists
    <2>3. Done \in Nat /\ todo[1] = Commands[Done + 1]
        BY <1>1, <2>1 DEF MaestroInv
    <2>4. Done + 1 \in 1..Len(Commands)
        <3>1. Len(Commands) \in Nat /\ Done = Len(Commands) - Len(todo)
            BY <2>2 DEF Done
        <3> QED BY <2>1, <2>3, <3>1
    <2> QED BY <2>1, <2>2, <2>3, <2>4
<1>3. CallOrders \subseteq EngineOrders(maestro, call.level) \cup ServoOrders(maestro, call.level)
    BY <1>1 DEF CallOrders
<1> HIDE DEF h
<1>4. DOMAIN maestro.servos = 1..Len(maestro.servos)
    BY <1>1 DEF MaestroConfigs
<1>5. h \notin EngineOrders(maestro, call.level)
    <2> DEFINE d == Command(maestro.servos[i], SteeringToInt(maestro, call.level))
    <2>1. d \in ServoOrders(maestro, call.level) /\ d.channel = maestro.servos[i]
        BY <1>1, <1>4, OrderChannels DEF ServoOrders
    <2> HIDE DEF d
    <2> QED BY <1>1, <2>1, OrdersApart DEF h
<1>6. PICK j \in 1..Len(maestro.servos) :
         h = Command(maestro.servos[j], SteeringToInt(maestro, call.level))
    BY <1>2, <1>3, <1>5 DEF ServoOrders
<1>7. h.bytes = Encode(SteeringToInt(maestro, call.level))
    BY <1>6 DEF Command
<1> QED BY <1>1, <1>7 DEF h

\* Sending leaves the servos idle.
LEMMA IdleStep ==
    ASSUME MaestroInv, SendNext, ServosIdle
    PROVE  ServosIdle'
<1> SUFFICES ASSUME maestro.straight = 0, maestro.step = 0, NEW i \in DOMAIN maestro.servos
             PROVE  target'[maestro.servos[i]] = 0
    BY DEF ServosIdle, SendNext
<1> DEFINE c == maestro.servos[i]
<1>1. target[c] = 0 /\ target \in [Channels -> Targets]
    BY DEF ServosIdle, MaestroInv, MaestroTypes
<1>2. CASE UNCHANGED target
    BY <1>1, <1>2
<1>3. CASE target' = [target EXCEPT ![Head(todo).channel] = Decode(Head(todo).bytes)]
    <2>1. CASE Head(todo).channel # c
        BY <1>1, <1>3, <2>1
    <2>2. CASE Head(todo).channel = c
        <3>1. PICK v \in Level : Head(todo).bytes = Encode(SteeringToInt(maestro, v))
            BY <2>2, NextToServo
        <3>2. SteeringToInt(maestro, v) = 0
            BY SMT DEF SteeringToInt, Level
        <3>3. Decode(Encode(0)) = 0
            BY WireValue DEF InRange, Targets
        <3>4. Decode(Head(todo).bytes) = 0
            BY <3>1, <3>2, <3>3
        <3>5. c \in Channels
            <4>1. Head(todo) \in Cmds
                BY SendObeys DEF MaestroInv
            <4> QED BY <2>2, <4>1 DEF Cmds
        <3> QED BY <1>1, <1>3, <2>2, <3>4, <3>5
    <2> QED BY <2>1, <2>2
<1> QED BY <1>2, <1>3 DEF SendNext

\* So they stay idle throughout.
LEMMA ServosStayIdle ==
    ASSUME Wired
    PROVE  DrivesSpec => []ServosIdle
<1>1. DrivesInit /\ DocInv => ServosIdle
    <2> SUFFICES ASSUME DrivesInit, DocInv, NEW i \in DOMAIN maestro.servos
                 PROVE  target[maestro.servos[i]] = 0
        BY DEF ServosIdle
    <2>1. maestro.servos \in Seq(Channels)
        <3>1. MaestroConfig(doc).servos \in Seq(Channels)
            BY DocumentsAssumption, EmptySeq DEF DocInv, MaestroConfig, WellFormed
        <3> DEFINE n == [MaestroConfig(doc) EXCEPT !.sane = maestro.sane]
        <3>2. maestro = n
            BY DEF DocInv
        <3>3. n.servos = MaestroConfig(doc).servos
            BY MaestroFromFile
        <3> HIDE DEF n
        <3> QED BY <3>1, <3>2, <3>3
    <2>2. maestro.servos[i] \in Channels
        BY <2>1
    <2> QED BY <2>2 DEF DrivesInit, MaestroInit
<1>2. MaestroInv /\ ServosIdle /\ [DrivesNext]_drivesVars => ServosIdle'
    <2> SUFFICES ASSUME MaestroInv, ServosIdle, [DrivesNext]_drivesVars PROVE ServosIdle'
        OBVIOUS
    <2>1. CASE SendNext
        BY <2>1, IdleStep
    <2>2. CASE UNCHANGED <<maestro, target>>
        BY <2>2 DEF ServosIdle
    <2>3. SendNext \/ UNCHANGED <<maestro, target>>
        BY WhoMoves DEF MaestroReturns, MaestroCall, MaestroSetSpeed, MaestroSetSteering,
                        MaestroDestroy, maestroVars
    <2> QED BY <2>1, <2>2, <2>3
<1> QED BY <1>1, <1>2, DocInvariant, MaestroInvariant, PTL DEF DrivesSpec

\* For every file that uses no channel twice, whatever is missing from it: an engine's numbers
\* are the file's; a rudder's are too, or else its servos are sent nothing but 0 and its PWM
\* gets no duration but 0 (Config.cpp:199-283, 442-524).
THEOREM NumbersAreTheFiles ==
    ASSUME Wired
    PROVE  DrivesSpec => []NumbersFromFile
<1>1. DocInv /\ PulseInv /\ ServosIdle => NumbersFromFile
    <2> SUFFICES ASSUME DocInv, PulseInv, ServosIdle, phase \in {"running", "stopped"}
                 PROVE  NumbersFromFile
        BY DEF NumbersFromFile
    <2>1. /\ doc \in Documents /\ Accepted(doc)
          /\ config = GPIOConfig(doc) /\ rudderConfig = RudderConfig(doc)
        BY DEF DocInv
    <2>2. /\ maestro.engines = MaestroConfig(doc).engines
          /\ maestro.straight = MaestroConfig(doc).straight
          /\ maestro.step = MaestroConfig(doc).step
        <3> DEFINE n == [MaestroConfig(doc) EXCEPT !.sane = maestro.sane]
        <3>1. maestro = n
            BY DEF DocInv
        <3>2. /\ n.engines = MaestroConfig(doc).engines
              /\ n.straight = MaestroConfig(doc).straight
              /\ n.step = MaestroConfig(doc).step
            BY MaestroFromFile
        <3> HIDE DEF n
        <3> QED BY <3>1, <3>2
    <2>3. ASSUME Has(doc, "maestro_engines"), NEW i \in DOMAIN doc.engines,
                 NEW f \in {"channel", "stop", "step"}
          PROVE  maestro.engines[i][f] = doc.engines[i][f]
        <3>1. maestro.engines[i] = EngineOf(doc, doc.engines[i])
            BY <2>2, <2>3 DEF MaestroConfig
        <3>2. Has(doc, "channel") /\ Has(doc, "stop") /\ Has(doc, "step")
            BY <2>1, <2>3, AcceptedHas
        <3>3. /\ EngineOf(doc, doc.engines[i]).channel = doc.engines[i].channel
              /\ EngineOf(doc, doc.engines[i]).stop = doc.engines[i].stop
              /\ EngineOf(doc, doc.engines[i]).step = doc.engines[i].step
            BY <3>2 DEF EngineOf
        <3> QED BY <3>1, <3>3
    <2>4. Has(doc, "gpio_engines") => config.period = doc.pwm_period /\ config.rev = doc.rev_mode
        BY <2>1, GPIOConfigType
    <2>5. ASSUME Has(doc, "maestro_steering_calibration")
          PROVE  maestro.straight = doc.straight /\ maestro.step = doc.angle
        BY <2>1, <2>2, <2>5, AcceptedHas DEF MaestroConfig, Value
    <2>6. ASSUME ~Has(doc, "maestro_steering_calibration")
          PROVE  \A i \in DOMAIN maestro.servos : target[maestro.servos[i]] = 0
        <3>1. ~Has(doc, "straight") /\ ~Has(doc, "angle")
            BY <2>6, SectionNeeded
        <3>2. maestro.straight = 0 /\ maestro.step = 0
            BY <2>2, <3>1 DEF MaestroConfig, Value
        <3> QED BY <3>2 DEF ServosIdle
    <2>7. Has(doc, "rudder_period") => rudderConfig.period = doc.rudder_period
        BY <2>1, RudderConfigType
    <2>8. ~Has(doc, "rudder_period") => rudder = 0
        <3>1. ~Has(doc, "rudder_period") => rudderConfig.period = 0
            BY <2>1, RudderConfigType
        <3> QED BY <3>1, RudderDurationType DEF PulseInv, RudderInv
    <2> QED BY <2>3, <2>4, <2>5, <2>6, <2>7, <2>8 DEF NumbersFromFile
<1> QED BY <1>1, DocInvariant, PulseInvariant, ServosStayIdle, PTL
=============================================================================
