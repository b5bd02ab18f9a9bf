------------------------------- MODULE MCDrives -------------------------------
(***************************************************************************)
(* The configuration files of the run: the shipped one with one family of  *)
(* controllers or the other, their settings varied or one entry wrong.     *)
(***************************************************************************)
EXTENDS Drives, TLC

Shipped ==
    [absent |-> {}, illTyped |-> {}, unknown |-> {},
     engines |-> <<[channel |-> 1, fwd |-> TRUE, dir_channel |-> 0, stop |-> 0, step |-> 240],
                   [channel |-> 3, fwd |-> FALSE, dir_channel |-> 2, stop |-> 0, step |-> 240]>>,
     servos |-> <<5>>, straight |-> 1518, angle |-> 80, high |-> 1900, low |-> 800,
     keymap |-> [BTN_LEFT |-> "SPEED_UP", BTN_RIGHT |-> "SPEED_DOWN", KEY_UP |-> "SPEED_UP"],
     relmap |-> "REL_X+" :> "TURN_RIGHT" @@ "REL_X-" :> "TURN_LEFT",
     rev_mode |-> "DEDICATED_LINE", pwm_period |-> 50,
     min_duty_cycle |-> 10, max_duty_cycle |-> 20,
     rudder_period |-> 50, rudder_min |-> 5, rudder_max |-> 10]

GPIOOnly == [Shipped EXCEPT !.absent = {"maestro_device"}]
MaestroOnly == [Shipped EXCEPT !.absent = {"gpio_engines", "gpio_steering"}]

\* The rudder has the engine's duty cycles and another period.
OtherPeriod == 10 :> 13 @@ 13 :> 50 @@ 50 :> 10

GPIODocuments ==
    {[GPIOOnly EXCEPT !.rev_mode = c.rev, !.pwm_period = c.period,
                      !.min_duty_cycle = c.min, !.max_duty_cycle = c.max,
                      !.rudder_period = OtherPeriod[c.period],
                      !.rudder_min = c.min, !.rudder_max = c.max] : c \in Configs}

\* With and without direction channels, either way round; servos around 1500 us
\* and calibrations that leave a target's range; two rudder servos.
Engine(channel, fwd, dir, stop, step) ==
    [channel |-> channel, fwd |-> fwd, dir_channel |-> dir, stop |-> stop, step |-> step]

MaestroDocuments ==
    {[MaestroOnly EXCEPT !.engines = <<Engine(1, f[1], d[1], k[1], k[2]),
                                       Engine(3, f[2], d[2], k[1], k[2])>>] :
        f \in BOOLEAN \X {TRUE}, d \in {<<0, 2>>, <<NO_CHANNEL, 2>>},
        k \in {<<0, 240>>, <<1500, 40>>, <<1500, -50>>, <<3000, 120>>}}
    \cup {[MaestroOnly EXCEPT !.engines = <<>>, !.servos = <<5, 4>>, !.angle = a] :
             a \in {80, -80, 200}}

FaultyDocuments ==
    UNION {{[base EXCEPT !.absent = @ \cup {f}], [base EXCEPT !.illTyped = {f}],
            [base EXCEPT !.unknown = {f}]} : base \in {GPIOOnly, MaestroOnly}, f \in Fields}

MCLevels == {-3, 0, 10}

ASSUME WiredAssumption == Wired

MCDocuments == GPIODocuments \cup MaestroDocuments \cup FaultyDocuments
=============================================================================
