------------------------------- MODULE Maestro -------------------------------
(***************************************************************************)
(* MaestroController: a level becomes one SETTARGET command for each       *)
(* engine, followed by one for its direction channel if it has one, and    *)
(* one for each steering servo.  Commands go to the serial device one by   *)
(* one; a write() that fails is logged, and the call goes on without it.   *)
(***************************************************************************)
EXTENDS Integers, Sequences, FiniteSets

CONSTANTS
    MaestroLevels,  \* the levels that are ordered, out of -10..10
    Channels,       \* the channels of the device
    MaxUnsent       \* how many of them may be waiting for a lost command

ASSUME MaestroAssumption ==
    /\ MaestroLevels \subseteq -10..10
    /\ Channels \subseteq 0..255
    /\ MaxUnsent \in Nat

NO_CHANNEL == -1

Engines == [channel : Channels, fwd : BOOLEAN, dir_channel : Channels \cup {NO_CHANNEL},
            stop : Int, step : Int]

MaestroConfigs ==
    [sane : BOOLEAN, engines : Seq(Engines), servos : Seq(Channels),
     straight : Int, step : Int, high : Int, low : Int]

\* A target is sent in two bytes of seven bits.
Targets == 0..16383

VARIABLES
    maestro,    \* the configuration, and whether the device could be opened
    target,     \* the device: the target of each channel
    mspeed,     \* MaestroController::_cur_speed
    msteering,  \* MaestroController::_cur_steering
    call,       \* the call in progress, or the last one: its kind and level
    todo,       \* its commands that have yet to be sent
    unsent      \* history: the channels whose last command was lost

maestroVars == <<maestro, target, mspeed, msteering, call, todo, unsent>>

-----------------------------------------------------------------------------
(* From a level to the commands *)

Magnitude(v) == IF v < 0 THEN -v ELSE v

\* Mutant: an engine with a direction channel gets the signed level.
SpeedToIntSigned(v, e) ==
    e.stop + e.step * (IF e.dir_channel = NO_CHANNEL /\ ~e.fwd THEN -v ELSE v)

SpeedToInt(v, e) ==
    LET multiplier == IF e.dir_channel # NO_CHANNEL THEN Magnitude(v)
                      ELSE IF e.fwd THEN v ELSE -v
    IN e.stop + multiplier * e.step

SteeringToInt(m, v) == m.straight + v * m.step

\* In quarter-microseconds, seven bits and seven bits; a negative number is in
\* two's complement.
Encode(us) == <<(4 * us) % 128, ((4 * us) \div 128) % 128>>

\* What the device makes of the two bytes of a SETTARGET.
Decode(bytes) == bytes[1] + 128 * bytes[2]

Command(channel, us) == [channel |-> channel % 256, bytes |-> Encode(us)]

Direction(m, v, e) == IF (v > 0) = e.fwd THEN m.high ELSE m.low

EngineCommands(m, v, e) ==
    <<Command(e.channel, SpeedToInt(v, e))>> \o
    (IF e.dir_channel # NO_CHANNEL /\ v # 0
     THEN <<Command(e.dir_channel, Direction(m, v, e))>> ELSE <<>>)

\* Mutant: all speed channels, and then all direction channels.
SpeedCommandsByKind(m, v) ==
    LET es == m.engines
        part[k \in 1..2, i \in 0..Len(es)] ==
            IF i = 0 THEN <<>>
            ELSE part[k, i - 1] \o
                 (IF k <= Len(EngineCommands(m, v, es[i]))
                  THEN <<EngineCommands(m, v, es[i])[k]>> ELSE <<>>)
    IN part[1, Len(es)] \o part[2, Len(es)]

SpeedCommands(m, v) ==
    LET first[i \in 0..Len(m.engines)] ==
            IF i = 0 THEN <<>>
            ELSE first[i - 1] \o EngineCommands(m, v, m.engines[i])
    IN first[Len(m.engines)]

SteeringCommands(m, v) ==
    [i \in 1..Len(m.servos) |-> Command(m.servos[i], SteeringToInt(m, v))]

\* Every channel has one use: an engine's, its direction's or the servos'.
OneUseEach(m) ==
    /\ \A i, j \in DOMAIN m.engines :
          LET e == m.engines[i]
              f == m.engines[j] IN
          /\ e.channel # f.dir_channel
          /\ i # j => /\ e.channel # f.channel
                      /\ e.dir_channel # f.dir_channel \/ e.dir_channel = NO_CHANNEL
    /\ \A i \in DOMAIN m.engines, j \in DOMAIN m.servos :
          m.servos[j] \notin {m.engines[i].channel, m.engines[i].dir_channel}

-----------------------------------------------------------------------------
(* The calls.  Without a device a call returns at once. *)

MaestroIdle == todo = <<>> /\ call.kind = "done"

Rest(m) == SpeedCommands(m, 0) \o SteeringCommands(m, 0)

\* The constructor, given the configuration m: with a device it stops the engines
\* and puts the rudder straight.
MaestroInit(m) ==
    /\ maestro = m
    /\ target = [c \in Channels |-> 0]
    /\ mspeed = 0 /\ msteering = 0
    /\ call = [kind |-> IF m.sane THEN "rest" ELSE "done", level |-> 0]
    /\ todo = IF m.sane THEN Rest(m) ELSE <<>>
    /\ unsent = {}

\* The destructor does the same.
MaestroDestroy ==
    /\ MaestroIdle
    /\ call' = IF maestro.sane THEN [kind |-> "rest", level |-> 0] ELSE call
    /\ todo' = IF maestro.sane THEN Rest(maestro) ELSE <<>>
    /\ UNCHANGED <<maestro, target, mspeed, msteering, unsent>>

MaestroSetSpeed(v) ==
    /\ maestro.sane /\ MaestroIdle
    /\ call' = [kind |-> "speed", level |-> v]
    /\ todo' = SpeedCommands(maestro, v)
    /\ UNCHANGED <<maestro, target, mspeed, msteering, unsent>>

MaestroSetSteering(v) ==
    /\ maestro.sane /\ MaestroIdle
    /\ call' = [kind |-> "steering", level |-> v]
    /\ todo' = SteeringCommands(maestro, v)
    /\ UNCHANGED <<maestro, target, mspeed, msteering, unsent>>

\* MaestroCmd::send(): four bytes, or an error.
SendNext ==
    /\ todo # <<>>
    /\ todo' = Tail(todo)
    /\ LET cmd == Head(todo) IN
          \/ /\ target' = [target EXCEPT ![cmd.channel] = Decode(cmd.bytes)]
             /\ unsent' = unsent \ {cmd.channel}
          \/ /\ unsent' = unsent \cup {cmd.channel}
             /\ Cardinality(unsent') <= MaxUnsent
             /\ UNCHANGED target
    /\ UNCHANGED <<maestro, mspeed, msteering, call>>

\* Whatever was lost, the level is remembered.
MaestroReturns ==
    /\ todo = <<>>
    /\ \/ call.kind = "speed" /\ mspeed' = call.level /\ UNCHANGED msteering
       \/ call.kind = "steering" /\ msteering' = call.level /\ UNCHANGED mspeed
       \/ call.kind = "rest" /\ mspeed' = 0 /\ msteering' = 0
    /\ call' = [kind |-> "done", level |-> 0]
    /\ UNCHANGED <<maestro, target, todo, unsent>>

MaestroCall == \E v \in MaestroLevels : MaestroSetSpeed(v) \/ MaestroSetSteering(v)

MaestroRuns == SendNext \/ MaestroReturns

-----------------------------------------------------------------------------
(* Properties *)

InRange(us) == 0 <= us /\ 4 * us \in Targets

\* The engine's calibration keeps every level within a target's fourteen bits, and
\* its direction channel can tell ahead from astern.
Calibrated(e) ==
    /\ InRange(e.stop - 10 * e.step) \/ e.dir_channel # NO_CHANNEL
    /\ InRange(e.stop) /\ InRange(e.stop + 10 * e.step)
    /\ InRange(maestro.high) /\ InRange(maestro.low) /\ maestro.high # maestro.low

Sent(e) == {e.channel, e.dir_channel} \cap unsent = {}

\* Which way the engine drives the ship: by its wiring, and by its direction
\* channel if it has one.
Sense(e) ==
    LET wiring == IF e.fwd THEN 1 ELSE -1 IN
    IF e.dir_channel = NO_CHANNEL THEN wiring
    ELSE IF target[e.dir_channel] = 4 * maestro.high THEN wiring
    ELSE IF target[e.dir_channel] = 4 * maestro.low THEN -wiring ELSE 0

\* The engine drives the ship at level v.
Drives(e, v) ==
    LET thrust == target[e.channel] - 4 * e.stop IN
    IF v = 0 THEN thrust = 0 ELSE thrust * Sense(e) = 4 * e.step * v

\* Between calls every engine drives the ship at the level that is remembered,
\* whichever way it is wired and with or without a direction channel, and every
\* servo has the rudder's angle, if the last command to each of its channels went
\* through: what an earlier call lost, the next one makes good
\* (MaestroController.cpp:99-145, 157-208).
MaestroFollowsOrders ==
    maestro.sane /\ MaestroIdle =>
        /\ \A i \in 1..Len(maestro.engines) :
              LET e == maestro.engines[i] IN
              Calibrated(e) /\ Sent(e) => Drives(e, mspeed)
        /\ \A i \in 1..Len(maestro.servos) :
              LET us == SteeringToInt(maestro, msteering) IN
              InRange(us) /\ maestro.servos[i] \notin unsent
                  => target[maestro.servos[i]] = 4 * us

\* While a new level is set, an engine drives at the old level or at the new one,
\* except that one which turns round drives the old way with the new force until the
\* next command, the one to its direction channel, is sent
\* (MaestroController.cpp:107-142).
DirectionFollowsAtOnce ==
    call.kind = "speed" =>
        \A i \in 1..Len(maestro.engines) :
            LET e == maestro.engines[i] IN
            Calibrated(e) /\ Sent(e) =>
                \/ Drives(e, mspeed) \/ Drives(e, call.level)
                \/ todo # <<>> /\ Head(todo).channel = e.dir_channel
=============================================================================
