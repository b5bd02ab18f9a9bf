-------------------------------- MODULE Drives --------------------------------
(***************************************************************************)
(* From the configuration file to the engines and rudders: Config, the     *)
(* controllers that ShipControl::init() makes from it, the orders they get *)
(* and the end of the program.  Maestro and GPIO controllers share no      *)
(* state; each is given every level of its own range at any time.          *)
(***************************************************************************)
EXTENDS PWMDuty, Config, EvdevEvents

CONSTANT Documents  \* the configuration files

\* Controllers are made from it.
Accepted(d) == ~Throws(d) /\ IsOk(d)

\* What the file names exists, and it has the smallest duty cycle first.
WellFormed(d) ==
    /\ d.absent \subseteq Fields /\ d.illTyped \subseteq Fields /\ d.unknown \subseteq Fields
    /\ d.engines \in Seq(Engines) /\ d.servos \in Seq(Channels)
    /\ d.straight \in Int /\ d.angle \in Int /\ d.high \in Int /\ d.low \in Int
    /\ DOMAIN d.keymap \subseteq DOMAIN KeyCode /\ DOMAIN d.relmap \subseteq DOMAIN RelCode
    /\ d.rev_mode \in RevModes /\ d.pwm_period \in Periods
    /\ d.rudder_period \in Periods
    /\ \A c \in {GPIOConfig(d), RudderConfig(d)} :
          c.min \in Duties /\ c.max \in Duties /\ c.min <= c.max

ASSUME DocumentsAssumption == \A d \in Documents : WellFormed(d)

\* No accepted file uses a channel twice.
Wired == \A d \in Documents : Accepted(d) => OneUseEach(MaestroConfig(d))

VARIABLES
    doc,    \* the configuration file
    phase   \* where the program is

drivesVars == <<vars, maestroVars, doc, phase>>

\* Parsing the file and making the controllers, to the Maestro's first command.
DrivesInit ==
    /\ doc \in Documents
    /\ phase = IF Throws(doc) THEN "dead" ELSE IF IsOk(doc) THEN "running" ELSE "invalid"
    /\ config = GPIOConfig(doc) /\ rudderConfig = RudderConfig(doc)
    /\ speed = 0 /\ steering = 0
    /\ engine = 0 /\ rudder = 0 /\ forward = 0
    /\ MaestroInit([MaestroConfig(doc) EXCEPT
                        !.sane = @ /\ phase = "running"])

\* An order to the controllers of one kind.
Order ==
    /\ phase = "running"
    /\ \/ Has(doc, "gpio_engines") /\ (\E v \in Level : SetSpeed(v)) /\ UNCHANGED maestroVars
       \/ Has(doc, "gpio_steering") /\ (\E v \in Level : SetSteering(v)) /\ UNCHANGED maestroVars
       \/ MaestroCall /\ UNCHANGED vars
    /\ UNCHANGED <<doc, phase>>

\* ~ShipControl.
Quit ==
    /\ phase = "running" /\ phase' = "stopped"
    /\ MaestroDestroy
    /\ UNCHANGED <<vars, doc>>

DrivesNext ==
    \/ Order
    \/ MaestroRuns /\ UNCHANGED <<vars, doc, phase>>
    \/ Quit

DrivesSpec == DrivesInit /\ [][DrivesNext]_drivesVars

-----------------------------------------------------------------------------
(* Properties *)

\* Types, and no channel outside the device's is ever written to
\* (Config.cpp:199-254, MaestroController.cpp:118-139).
DrivesTypeOK ==
    /\ phase \in {"running", "invalid", "dead", "stopped"}
    /\ phase = "running" /\ Has(doc, "gpio_engines") => EngineTypeOK
    /\ RudderTypeOK
    /\ target \in [Channels -> Targets]
    /\ unsent \subseteq Channels
    /\ \A i \in 1..Len(todo) : todo[i].channel \in Channels
    /\ mspeed \in Level /\ msteering \in Level

\* Once controllers run, an engine's numbers are the file's: half an entry does not
\* get that far.  A rudder's are too, or else they are nothing at all: without a
\* calibration every servo is sent 0 at every level, and without a period the PWM
\* gets a duration of 0 at every level, so that no half of a calibration and no
\* period that the file does not name ever steers (Config.cpp:199-283, 442-524).
NumbersFromFile ==
    phase \in {"running", "stopped"} =>
        /\ Has(doc, "maestro_engines") =>
              \A i \in DOMAIN doc.engines : \A f \in {"channel", "stop", "step"} :
                  maestro.engines[i][f] = doc.engines[i][f]
        /\ Has(doc, "gpio_engines") =>
              config.period = doc.pwm_period /\ config.rev = doc.rev_mode
        /\ IF Has(doc, "maestro_steering_calibration")
           THEN maestro.straight = doc.straight /\ maestro.step = doc.angle
           ELSE \A i \in DOMAIN maestro.servos : target[maestro.servos[i]] = 0
        /\ IF Has(doc, "rudder_period") THEN rudderConfig.period = doc.rudder_period
           ELSE rudder = 0

Events(report) == EventsOf(Keymap(doc), Relmap(doc), report)

Key(name, value) == [type |-> EV_KEY, code |-> KeyCode[name], value |-> value]
Movement(axis, value) == [type |-> EV_REL, code |-> axis, value |-> value]

\* A key that the file names gives its event once from press to release, however
\* long it is held; a movement gives the event of its axis and direction once;
\* other keys and movements give nothing (Config.cpp:312-366, EvdevReader.cpp:97-119).
InputObeyed ==
    phase = "running" =>
        /\ \A name \in DOMAIN KeyCode :
              Events(Key(name, 1)) \o Events(Key(name, 2)) \o Events(Key(name, 0)) =
                  IF Has(doc, "keymap") /\ name \in DOMAIN doc.keymap
                  THEN <<doc.keymap[name]>> ELSE <<>>
        /\ \A name \in DOMAIN RelCode, n \in 1..3 :
              LET axis == RelCode[name][1]
                  sign == IF RelCode[name][2] THEN 1 ELSE -1 IN
              Events(Movement(axis, 0)) \o Events(Movement(axis, sign * n)) =
                  IF Has(doc, "relmap") /\ name \in DOMAIN doc.relmap
                  THEN <<doc.relmap[name]>> ELSE <<>>
=============================================================================
