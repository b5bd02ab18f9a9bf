----------------------------- MODULE EvdevEvents -----------------------------
(***************************************************************************)
(* EvdevReader::handle_event(): the events that one report of the input    *)
(* device becomes, by the two maps of the configuration.                   *)
(***************************************************************************)
EXTENDS Integers

\* linux/input.h
EV_KEY == 1
EV_REL == 2

\* Mutant: a key that repeats or is let go counts as pressed.
EventsOfAnyKey(keymap, relmap, report) ==
    IF report.type = EV_KEY /\ report.code \in DOMAIN keymap
    THEN <<keymap[report.code]>>
    ELSE LET rel == <<report.code, report.value > 0>> IN
         IF report.type = EV_REL /\ report.value # 0 /\ rel \in DOMAIN relmap
         THEN <<relmap[rel]>> ELSE <<>>

\* A key is pressed (1, not repeated or let go), or there is a movement.
EventsOf(keymap, relmap, report) ==
    IF report.type = EV_KEY /\ report.value = 1 /\ report.code \in DOMAIN keymap
    THEN <<keymap[report.code]>>
    ELSE LET rel == <<report.code, report.value > 0>> IN
         IF report.type = EV_REL /\ report.value # 0 /\ rel \in DOMAIN relmap
         THEN <<relmap[rel]>> ELSE <<>>
=============================================================================
