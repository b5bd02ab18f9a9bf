--------------------------- MODULE RequestHandler ---------------------------
(***************************************************************************)
(* IPCRequestHandler: what the program answers to the text that one read() *)
(* returned, and the event it pushes to the input queue for it.            *)
(*                                                                         *)
(* A text is the sequence of the requests it holds; the parser takes one   *)
(* JSON value and nothing after it.  Fields are reduced to the values the  *)
(* handler tells apart: "none" is an absent field, "other" a value that it *)
(* does not know, "speed" and "steering" a string that is a level's name.  *)
(* A request of type "garbled" is no JSON: it starts with bytes that are   *)
(* not UTF-8.                                                              *)
(***************************************************************************)
EXTENDS Sequences, Naturals

Request ==
    [type : {"cmd", "query", "other", "none", "garbled"},
     cmd  : {"speed_up", "speed_down", "turn_left", "turn_right", "set_speed",
             "set_steering", "other", "none"},
     data : {"speed", "steering", "other", "none"}]

\* The event type of each command.
EventType ==
    [speed_up |-> "SPEED_UP", speed_down |-> "SPEED_DOWN",
     turn_left |-> "TURN_LEFT", turn_right |-> "TURN_RIGHT",
     set_speed |-> "SET_SPEED", set_steering |-> "SET_STEERING"]

\* The data a command must carry, if any.
DataFor == [set_speed |-> "speed", set_steering |-> "steering"]

\* handle_cmd() makes an event of the request.
Valid(rq) ==
    /\ rq.type = "cmd"
    /\ rq.cmd \in DOMAIN EventType
    /\ rq.cmd \in DOMAIN DataFor => rq.data = DataFor[rq.cmd]

\* The event of a valid request; only a setting carries its data along.
Event(rq) ==
    [type |-> EventType[rq.cmd],
     data |-> IF rq.cmd \in DOMAIN DataFor THEN rq.data ELSE "none"]

\* The parser quotes the bytes it stumbles over, and dump() refuses the reply that
\* quotes them if they are not UTF-8: the exception leaves the catch block that
\* makes the reply, and ends the process.  The parser stumbles over the first value
\* or over the beginning of a second one.
Kills(text) == \E i \in {1, 2} \cap DOMAIN text : text[i].type = "garbled"

\* The text is pushed as an event.
Accepts(text) == Len(text) = 1 /\ Valid(text[1])

\* Mutant: an invalid command is acknowledged like a valid one.
VerdictAlwaysOk(text) ==
    CASE Accepts(text)                                 -> "ok"
      [] Len(text) = 1 /\ text[1].type = "query"       -> "data"
      [] Len(text) = 1 /\ text[1].type = "cmd"         -> "ok"
      [] OTHER                                         -> "fail"

\* The reply to a text that does not end the process: a status, or the ship's data.
Verdict(text) ==
    CASE Accepts(text)                                 -> "ok"
      [] Len(text) = 1 /\ text[1].type = "query"       -> "data"
      [] OTHER                                         -> "fail"
=============================================================================
