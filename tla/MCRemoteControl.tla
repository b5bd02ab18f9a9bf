--------------------------- MODULE MCRemoteControl ---------------------------
(***************************************************************************)
(* The requests of the runs of RemoteControl: a command, a setting, one    *)
(* that is refused, a query, and one that ends the process.                *)
(***************************************************************************)
EXTENDS RemoteControl, TLC

TurnLeft == [type |-> "cmd", cmd |-> "turn_left", data |-> "none"]
SetSpeed == [type |-> "cmd", cmd |-> "set_speed", data |-> "speed"]
BadSpeed == [type |-> "cmd", cmd |-> "set_speed", data |-> "other"]
Garbled  == [type |-> "garbled", cmd |-> "none", data |-> "none"]
Query    == [type |-> "query", cmd |-> "none", data |-> "none"]

CONSTANTS c1, c2

MCScript == (c1 :> <<TurnLeft, Query>>) @@ (c2 :> <<SetSpeed, BadSpeed, Garbled>>)
StopScript == (c1 :> <<TurnLeft>>) @@ (c2 :> <<>>)
DeafScript == (c1 :> <<Query>>)
=============================================================================
