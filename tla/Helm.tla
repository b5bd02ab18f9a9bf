-------------------------------- MODULE Helm --------------------------------
(***************************************************************************)
(* What the main control module promises: orders are obeyed one at a time, *)
(* in the order given, each as one indivisible change of the ship's speed  *)
(* or steering level that never leaves the range of levels.  ShipControl   *)
(* is the code that implements it, one controller at a time.               *)
(***************************************************************************)
EXTENDS Integers, Sequences

CONSTANTS Order, MaxLevel

VARIABLES
    orders,    \* given and not yet obeyed, oldest first
    speed,     \* the ship's speed level, negative is reverse
    steering   \* the ship's steering level, negative is left

vars == <<orders, speed, steering>>

Level == -MaxLevel..MaxLevel

\* At most the two settings of the command line are waiting at the start.
Init ==
    /\ orders \in {s \in UNION {[1..n -> Order] : n \in {0, 2}} :
                      s # <<>> => s[1].kind = "SET_SPEED"
                                  /\ s[2].kind = "SET_STEERING"}
    /\ speed = 0
    /\ steering = 0

Give(o) ==
    /\ orders' = Append(orders, o)
    /\ UNCHANGED <<speed, steering>>

\* The nearest level.
Clamp(v) == IF v > MaxLevel THEN MaxLevel
            ELSE IF v < -MaxLevel THEN -MaxLevel ELSE v

SpeedAfter(o, s) ==
    CASE o.kind = "SPEED_UP"   -> Clamp(s + 1)
      [] o.kind = "SPEED_DOWN" -> Clamp(s - 1)
      [] o.kind = "SET_SPEED"  -> o.level
      [] OTHER                 -> s

SteeringAfter(o, s) ==
    CASE o.kind = "TURN_RIGHT"   -> Clamp(s + 1)
      [] o.kind = "TURN_LEFT"    -> Clamp(s - 1)
      [] o.kind = "SET_STEERING" -> o.level
      [] OTHER                   -> s

Obey ==
    /\ orders # <<>>
    /\ speed' = SpeedAfter(Head(orders), speed)
    /\ steering' = SteeringAfter(Head(orders), steering)
    /\ orders' = Tail(orders)

Next ==
    \/ \E o \in Order : Give(o)
    \/ Obey

Spec == Init /\ [][Next]_vars
=============================================================================
