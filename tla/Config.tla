------------------------------- MODULE Config -------------------------------
(***************************************************************************)
(* Config: what becomes of the configuration file.  A document holds one   *)
(* entry of each list.  Its fields have the values given, except those in  *)
(* absent, which the file does not have, those in illTyped, whose value is *)
(* a string where a number, an object or a list of those is wanted, or a   *)
(* number where a string or a list of strings is (the file itself is no    *)
(* JSON), and those in unknown, whose value is a string that the parser's  *)
(* tables do not have.                                                     *)
(***************************************************************************)
EXTENDS Maestro

\* The section of each field, "top" for the outermost.
Section ==
    [file |-> "top", unix_socket |-> "top", logbackends |-> "top", loglevel |-> "top",
     maestro_engines |-> "top", maestro_steering |-> "top", maestro_device |-> "top",
     maestro_steering_calibration |-> "top", maestro_direction |-> "top",
     keymap |-> "top", relmap |-> "top", gpio_engines |-> "top",
     gpio_steering |-> "top", water_cooling_relay |-> "top",
     channel |-> "maestro_engines", fwd |-> "maestro_engines",
     dir_channel |-> "maestro_engines", stop |-> "maestro_engines",
     step |-> "maestro_engines",
     straight |-> "maestro_steering_calibration",
     angle |-> "maestro_steering_calibration",
     high |-> "maestro_direction", low |-> "maestro_direction",
     pwm_period |-> "gpio_engines", min_duty_cycle |-> "gpio_engines",
     max_duty_cycle |-> "gpio_engines", rev_mode |-> "gpio_engines",
     rudder_period |-> "gpio_steering", rudder_min |-> "gpio_steering",
     rudder_max |-> "gpio_steering",
     line |-> "water_cooling_relay"]

Fields == DOMAIN Section

\* Those whose value is only searched with find(), by itself or entry by entry.
Sections == {Section[f] : f \in Fields} \ {"top"}

\* Fields whose absence from their section is an error, and fields whose unknown
\* value is one; other unknown values are passed over.
MustBeThere ==
    {"file", "unix_socket", "logbackends", "channel", "stop", "step", "straight",
     "angle", "pwm_period", "rev_mode"}
MustBeKnown == {"keymap", "relmap", "rev_mode"}

\* The parser finds it; in a value that is no object it finds nothing.
Has(doc, f) ==
    /\ f \notin doc.absent
    /\ Section[f] = "top" \/ Section[f] \notin doc.absent \cup doc.illTyped
    /\ "file" \notin doc.absent

\* get<T>() throws, and nobody catches it.
Throws(doc) == \E f \in Fields \ Sections : Has(doc, f) /\ f \in doc.illTyped

\* Mutant: the calibration is taken as it is.
IsOkUncalibrated(doc) ==
    /\ \A f \in MustBeThere \ {"straight", "angle"} :
          Has(doc, f) \/ (Section[f] # "top" /\ ~Has(doc, Section[f]))
    /\ \A f \in MustBeKnown : Has(doc, f) => f \notin doc.unknown

\* _is_ok, if parse() returns.
IsOk(doc) ==
    /\ \A f \in MustBeThere :
          Has(doc, f) \/ (Section[f] # "top" /\ ~Has(doc, Section[f]))
    /\ \A f \in MustBeKnown : Has(doc, f) => f \notin doc.unknown

-----------------------------------------------------------------------------
(* What the getters return *)

Value(doc, f, default) == IF Has(doc, f) THEN doc[f] ELSE default

\* MaestroEngine me{0, true} gives dir_channel the value meant for fwd: that one is
\* false unless the file says otherwise, as the numbers are 0.
EngineOf(doc, e) ==
    LET Entry(f, default) == IF Has(doc, f) THEN e[f] ELSE default IN
    [channel |-> Entry("channel", 0), fwd |-> Entry("fwd", FALSE),
     dir_channel |-> Entry("dir_channel", NO_CHANNEL),
     stop |-> Entry("stop", 0), step |-> Entry("step", 0)]

MaestroConfig(doc) ==
    [sane |-> Has(doc, "maestro_device"),
     engines |-> IF Has(doc, "maestro_engines")
                 THEN [i \in DOMAIN doc.engines |-> EngineOf(doc, doc.engines[i])]
                 ELSE <<>>,
     servos |-> IF Has(doc, "maestro_steering") THEN doc.servos ELSE <<>>,
     straight |-> Value(doc, "straight", 0),
     step |-> Value(doc, "angle", 0),
     high |-> Value(doc, "high", 2000),
     low |-> Value(doc, "low", 1000)]

GPIOConfig(doc) ==
    [rev |-> Value(doc, "rev_mode", "NO_REVERSE"),
     period |-> Value(doc, "pwm_period", 0),
     min |-> Value(doc, "min_duty_cycle", 10),
     max |-> Value(doc, "max_duty_cycle", 20)]

RudderConfig(doc) ==
    [period |-> Value(doc, "rudder_period", 0),
     min |-> Value(doc, "rudder_min", 10),
     max |-> Value(doc, "rudder_max", 20)]

\* Names of keys and movements, a few of the table's of keys, and of ship events.
KeyCode == [KEY_UP |-> 103, KEY_LEFT |-> 105, BTN_LEFT |-> 272, BTN_RIGHT |-> 273]
RelCode == [name \in {"REL_X+", "REL_X-", "REL_Y+", "REL_Y-"} |->
               <<IF name \in {"REL_X+", "REL_X-"} THEN 0 ELSE 1,
                 name \in {"REL_X+", "REL_Y+"}>>]
EventNames == {"TURN_RIGHT", "TURN_LEFT", "SPEED_UP", "SPEED_DOWN"}

\* The map from codes that a map from names becomes.
ByCode(code, names) ==
    [c \in {code[n] : n \in DOMAIN names} |->
        names[CHOOSE n \in DOMAIN names : code[n] = c]]

Keymap(doc) == IF Has(doc, "keymap") THEN ByCode(KeyCode, doc.keymap) ELSE <<>>

Relmap(doc) == IF Has(doc, "relmap") THEN ByCode(RelCode, doc.relmap) ELSE <<>>
=============================================================================
