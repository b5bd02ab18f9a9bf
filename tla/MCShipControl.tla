---------------------------- MODULE MCShipControl ----------------------------
(* Instances of ShipControl for TLC. *)
EXTENDS ShipControl

\* One event of each kind; SET_* at the far end and back to zero, so that an
\* order can reverse a running engine and another can stop it.
AllOrders ==
    {Setting(k, 0) : k \in {"SPEED_UP", "SPEED_DOWN", "TURN_RIGHT",
                            "TURN_LEFT", "UNKNOWN"}}
    \cup {Setting("SET_SPEED", v) : v \in {-MaxLevel, 0}}
    \cup {Setting("SET_STEERING", MaxLevel)}

\* Enough to change both members behind a query's back.
FewOrders == {Setting("SPEED_UP", 0), Setting("TURN_LEFT", 0)}
=============================================================================
