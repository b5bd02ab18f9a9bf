--------------------------- MODULE ShipControlProofs ---------------------------
(***************************************************************************)
(* Proofs about ShipControl.tla for any number of controllers, levels,     *)
(* orders and clients: type correctness, agreement of the controllers      *)
(* between orders, water cooling of every driven engine, and that the ship *)
(* obeys its Helm.                                                         *)
(***************************************************************************)
EXTENDS ShipControl, SequenceTheorems, TLAPS

(* The inductive invariant *)

\* Where an order is in progress.
Obeying == pc \in {"dispatch", "cool", "apply"}

\* In normal mode there is one order in progress, or none; in command mode
\* only settings.
CurrentInv ==
    /\ Obeying => current # <<>>
    /\ mode = "NORMAL" =>
          /\ pc # "key"
          /\ pc \in {"start", "loop", "pop"} => current = <<>>
          /\ Obeying => Len(current) = 1
    /\ mode = "COMMAND" =>
          /\ pc \notin {"loop", "pop"}
          /\ pc = "start" => current # <<>>

\* The level being applied is the one the order asks for.
TargetInv ==
    /\ pc = "cool" => idx = 1
    /\ pc \in {"cool", "apply"} =>
          HasEffect(Head(current)) /\ target = NewLevel(Head(current))
    /\ pc = "cool" => HasCooling /\ IsSpeedOrder(Head(current))

\* Whatever is not being changed agrees with what the ship reports.
AgreeInv ==
    /\ pc \in {"start", "loop", "pop", "dispatch", "cool", "key", "stopping"} =>
          /\ \A i \in Motors : motor[i] = speed
          /\ \A i \in Servos : servo[i] = steering
          /\ HasCooling => (cooling <=> speed # 0)
    /\ (pc = "apply" /\ HasCooling) =>
          (cooling <=> IF IsSpeedOrder(Head(current)) THEN target # 0
                                                     ELSE speed # 0)

\* The controllers already stopped are off, but for those on a PWM thread.
StoppingInv ==
    pc = "stopping" =>
        \A i \in Engines \ SoftPWM : i < idx => ~enabled[i]

\* A process ended by an exception left the engines as the exception found
\* them.
AbortedInv == pc = "aborted" => CoolingCoversMotion

IInv ==
    /\ TypeOK
    /\ CurrentInv
    /\ TargetInv
    /\ AgreeInv
    /\ OneOrderAtATime
    /\ StoppingInv
    /\ ExitStopsEngines
    /\ AbortedInv

-----------------------------------------------------------------------------
(* Every step keeps the inductive invariant *)

\* The invariant holds when run() begins.
LEMMA InitInvariant == Init => IInv
<1> SUFFICES ASSUME Init PROVE IInv
  OBVIOUS
<1> USE ShipAssumption DEF Init
<1>1. current \in Seq(Order)
  <2>1. CASE current = <<>>
    BY <2>1
  <2>2. CASE \E v, w \in Level :
               current = <<Setting("SET_SPEED", v), Setting("SET_STEERING", w)>>
    BY <2>2 DEF Setting, Order, Kinds
  <2> QED
    BY <2>1, <2>2
<1>2. 0 \in Level
  BY DEF Level
<1>5. enabled \in [Controllers -> BOOLEAN] /\ idx \in 1..(N + 1)
  BY DEF Controllers
<1>6. /\ motor \in [Motors -> Level] /\ servo \in [Servos -> Level]
      /\ given \in 0..MaxOrders /\ reply \in [Clients -> Level \X Level]
      /\ asked \in [Clients -> 0..MaxQueries]
      /\ client \in [Clients -> {"idle", "half", "done"}]
      /\ seen \in [Clients -> SUBSET (Level \X Level)]
      /\ queue \in Seq(Order)
  BY <1>2
<1>7. TypeOK
  BY <1>1, <1>2, <1>5, <1>6 DEF TypeOK
<1>3. CurrentInv /\ TargetInv /\ AgreeInv /\ OneOrderAtATime
  BY DEF CurrentInv, Obeying, TargetInv, AgreeInv, OneOrderAtATime
<1>4. StoppingInv /\ ExitStopsEngines /\ AbortedInv
  BY DEF StoppingInv, ExitStopsEngines, AbortedInv
<1> QED
  BY <1>3, <1>4, <1>7 DEF IInv

\* What the queue of orders is after one of them.
LEMMA AfterOrderFacts ==
    ASSUME IInv, Obeying, AfterOrder
    PROVE  /\ current' \in Seq(Order)
           /\ mode = "NORMAL" => pc' = "loop" /\ current' = <<>>
           /\ mode = "COMMAND" => \/ pc' = "dispatch" /\ current' # <<>>
                                  \/ pc' = "key"
<1>1. current \in Seq(Order) /\ current # <<>>
  BY DEF IInv, TypeOK, CurrentInv
<1>2. /\ current' = Tail(current)
      /\ Tail(current) \in Seq(Order)
      /\ Len(Tail(current)) = Len(current) - 1
      /\ Len(current) \in Nat
  BY <1>1, HeadTailProperties, LenProperties DEF AfterOrder
<1>3. mode = "NORMAL" => pc' = "loop" /\ current' = <<>>
  <2> SUFFICES ASSUME mode = "NORMAL" PROVE pc' = "loop" /\ current' = <<>>
    OBVIOUS
  <2>1. Len(current) = 1
    BY DEF IInv, CurrentInv
  <2> QED
    BY <1>2, <2>1, EmptySeq DEF AfterOrder
<1>4. mode = "COMMAND" => \/ pc' = "dispatch" /\ current' # <<>>
                          \/ pc' = "key"
  <2>1. ASSUME Len(current) > 1
        PROVE  current' # <<>>
    <3> DEFINE n == Len(current)
               t == Tail(current)
    <3>1. n \in Nat /\ n > 1 /\ Len(t) = n - 1
      BY <1>2, <2>1
    <3>2. t # <<>>
      <4> HIDE DEF n, t
      <4> QED
        BY <3>1, EmptySeq
    <3> QED
      BY <1>2, <3>2
  <2> QED
    BY <2>1 DEF AfterOrder
<1> QED
  BY <1>2, <1>3, <1>4

\* An order in progress asks for a level.
LEMMA NewLevelTyped ==
    ASSUME IInv, NEW o \in Order, HasEffect(o)
    PROVE  NewLevel(o) \in Level
<1>1. /\ o.kind \in Kinds /\ o.level \in Level
      /\ speed \in Level /\ steering \in Level
  BY DEF IInv, TypeOK, Order
<1>2. CASE o.kind = "SPEED_UP"
  BY <1>1, <1>2, ShipAssumption DEF HasEffect, NewLevel, NewSpeed,
          NewSteering, IsSpeedOrder, Level
<1>3. CASE o.kind = "SPEED_DOWN"
  BY <1>1, <1>3, ShipAssumption DEF HasEffect, NewLevel, NewSpeed,
          NewSteering, IsSpeedOrder, Level
<1>4. CASE o.kind = "TURN_RIGHT"
  BY <1>1, <1>4, ShipAssumption DEF HasEffect, NewLevel, NewSpeed,
          NewSteering, IsSpeedOrder, Level
<1>5. CASE o.kind = "TURN_LEFT"
  BY <1>1, <1>5, ShipAssumption DEF HasEffect, NewLevel, NewSpeed,
          NewSteering, IsSpeedOrder, Level
<1>6. CASE o.kind \notin {"SPEED_UP", "SPEED_DOWN", "TURN_RIGHT", "TURN_LEFT"}
  BY <1>1, <1>6 DEF NewLevel, NewSpeed, NewSteering, IsSpeedOrder
<1> QED
  BY <1>2, <1>3, <1>4, <1>5, <1>6

\* Water cooling covers the engines wherever the controllers agree or are
\* being brought to agree.
LEMMA AgreementCools ==
    ASSUME IInv
    PROVE  CoolingCoversMotion
<1> SUFFICES ASSUME NEW i \in Motors, HasCooling, Driving(i), ~cooling
             PROVE  /\ pc \in {"apply", "aborted"}
                    /\ IsSpeedOrder(Head(current)) /\ target = 0
                    /\ i >= idx
  BY DEF CoolingCoversMotion
<1> USE DEF Driving
<1>1. CASE pc \notin {"apply", "exited", "aborted"}
  BY <1>1 DEF IInv, TypeOK, AgreeInv
<1>2. CASE pc = "apply"
  <2>1. i \in Int /\ idx \in Int
    BY ShipAssumption DEF IInv, TypeOK, Motors, Controllers
  <2>2. CASE IsSpeedOrder(Head(current))
    BY <1>2, <2>1, <2>2 DEF IInv, AgreeInv, OneOrderAtATime
  <2>3. CASE ~IsSpeedOrder(Head(current))
    BY <1>2, <2>3 DEF IInv, AgreeInv, OneOrderAtATime
  <2> QED
    BY <2>2, <2>3
<1>3. CASE pc = "exited"
  BY <1>3 DEF IInv, ExitStopsEngines
<1>4. CASE pc = "aborted"
  BY <1>4 DEF IInv, AbortedInv, CoolingCoversMotion
<1> QED
  BY <1>1, <1>2, <1>3, <1>4

\* Every step of the main thread, of a query and of a producer keeps the invariant.
LEMMA NextInvariant == IInv /\ [Next]_vars => IInv'
<1> SUFFICES ASSUME IInv, [Next]_vars PROVE IInv'
  OBVIOUS
<1> USE ShipAssumption DEF IInv, main, ship, input, queries, Controllers
<1>1. ASSUME StartController PROVE IInv'
  <2>1. TypeOK'
    BY <1>1 DEF StartController, TypeOK
  <2>2. CurrentInv'
    BY <1>1 DEF StartController, CurrentInv, Obeying
  <2>3. TargetInv'
    BY <1>1 DEF StartController, TargetInv, HasEffect, NewLevel,
          NewSpeed, NewSteering, IsSpeedOrder
  <2>4. AgreeInv' /\ OneOrderAtATime'
    BY <1>1 DEF StartController, AgreeInv, OneOrderAtATime, IsSpeedOrder
  <2>5. (StoppingInv /\ ExitStopsEngines /\ AbortedInv)'
    BY <1>1 DEF StartController, StoppingInv, ExitStopsEngines, AbortedInv
  <2> QED
    BY <2>1, <2>2, <2>3, <2>4, <2>5
<1>2. ASSUME Started PROVE IInv'
  <2>1. TypeOK'
    BY <1>2 DEF Started, TypeOK
  <2>2. CurrentInv'
    BY <1>2 DEF Started, TypeOK, CurrentInv, Obeying
  <2>3. TargetInv'
    BY <1>2 DEF Started, TargetInv, HasEffect, NewLevel,
          NewSpeed, NewSteering, IsSpeedOrder
  <2>4. AgreeInv' /\ OneOrderAtATime'
    BY <1>2 DEF Started, AgreeInv, OneOrderAtATime, IsSpeedOrder
  <2>5. (StoppingInv /\ ExitStopsEngines /\ AbortedInv)'
    BY <1>2 DEF Started, StoppingInv, ExitStopsEngines, AbortedInv
  <2> QED
    BY <2>1, <2>2, <2>3, <2>4, <2>5
<1>3. ASSUME CheckStop PROVE IInv'
  <2>1. TypeOK'
    BY <1>3 DEF CheckStop, TypeOK
  <2>2. CurrentInv'
    BY <1>3 DEF CheckStop, CurrentInv, Obeying
  <2>3. TargetInv'
    BY <1>3 DEF CheckStop, TargetInv, HasEffect, NewLevel,
          NewSpeed, NewSteering, IsSpeedOrder
  <2>4. AgreeInv' /\ OneOrderAtATime'
    BY <1>3 DEF CheckStop, AgreeInv, OneOrderAtATime, IsSpeedOrder
  <2>5. (StoppingInv /\ ExitStopsEngines /\ AbortedInv)'
    BY <1>3 DEF CheckStop, StoppingInv, ExitStopsEngines, AbortedInv
  <2> QED
    BY <2>1, <2>2, <2>3, <2>4, <2>5
<1>4. ASSUME Pop PROVE IInv'
  <2>1. TypeOK'
    BY <1>4 DEF Pop, TypeOK
  <2>2. CurrentInv'
    BY <1>4 DEF Pop, CurrentInv, Obeying
  <2>3. TargetInv'
    BY <1>4 DEF Pop, TargetInv, HasEffect, NewLevel,
          NewSpeed, NewSteering, IsSpeedOrder
  <2>4. AgreeInv' /\ OneOrderAtATime'
    BY <1>4 DEF Pop, AgreeInv, OneOrderAtATime, IsSpeedOrder
  <2>5. (StoppingInv /\ ExitStopsEngines /\ AbortedInv)'
    BY <1>4 DEF Pop, StoppingInv, ExitStopsEngines, AbortedInv
  <2> QED
    BY <2>1, <2>2, <2>3, <2>4, <2>5
<1>5. ASSUME Dispatch PROVE IInv'
  <2> DEFINE o == Head(current)
  <2>a. pc = "dispatch" /\ current # <<>> /\ current \in Seq(Order) /\ o \in Order
    BY <1>5, HeadTailProperties DEF Dispatch, CurrentInv, Obeying, TypeOK
  <2>b. CASE HasEffect(o)
    <3>1. /\ target' = NewLevel(o) /\ current' = current
          /\ pc' = IF IsSpeedOrder(o) /\ HasCooling THEN "cool" ELSE "apply"
          /\ idx' = 1
          /\ UNCHANGED <<mode, ship, input, queries>>
      BY <1>5, <2>b DEF Dispatch
    <3>2. target' \in Level
      BY <2>a, <2>b, <3>1, NewLevelTyped
    <3>3. TypeOK'
      BY <3>1, <3>2 DEF TypeOK
    <3>4. CurrentInv'
      BY <2>a, <3>1 DEF CurrentInv, Obeying
    <3>5. TargetInv'
      BY <2>b, <3>1 DEF TargetInv, HasEffect, NewLevel,
          NewSpeed, NewSteering, IsSpeedOrder
    <3>6. (AgreeInv /\ OneOrderAtATime)'
      <4>1. ~IsSpeedOrder(o) \/ ~HasCooling \/ pc' = "cool"
        BY <3>1
      <4>2. /\ \A i \in Motors : motor'[i] = speed'
            /\ \A i \in Servos : servo'[i] = steering'
            /\ HasCooling => (cooling' <=> speed' # 0)
        BY <2>a, <3>1 DEF AgreeInv
      <4>3. pc' \in {"cool", "apply"} /\ Head(current') = o
        BY <3>1
      <4>4. AgreeInv'
        BY <4>1, <4>2, <4>3 DEF AgreeInv, IsSpeedOrder
      <4>5. \A i \in Controllers : ~(i < idx')
        BY <3>1
      <4>6. OneOrderAtATime'
        <5>1. \A i \in Motors \cup Servos : ~(i < idx')
          BY <4>5 DEF Motors, Servos
        <5> QED
          BY ONLY <4>2, <5>1 DEF OneOrderAtATime
      <4> QED
        BY <4>4, <4>6
    <3>7. (StoppingInv /\ ExitStopsEngines /\ AbortedInv)'
      BY <3>1 DEF StoppingInv, ExitStopsEngines, AbortedInv
    <3> QED
      BY <3>3, <3>4, <3>5, <3>6, <3>7
  <2>c. CASE ~HasEffect(o)
    <3>1. /\ AfterOrder /\ target' = target /\ idx' = 1
          /\ UNCHANGED <<mode, ship, input, queries>>
      BY <1>5, <2>c DEF Dispatch
    <3>2. /\ current' \in Seq(Order)
          /\ mode = "NORMAL" => pc' = "loop" /\ current' = <<>>
          /\ mode = "COMMAND" => \/ pc' = "dispatch" /\ current' # <<>>
                                 \/ pc' = "key"
      BY <2>a, <3>1, AfterOrderFacts DEF Obeying
    <3>3. mode \in {"NORMAL", "COMMAND"} /\ mode' = mode
      BY <3>1 DEF TypeOK
    <3>4. pc' \in {"loop", "dispatch", "key"}
      BY <3>2, <3>3
    <3>5. TypeOK'
      BY <3>1, <3>2, <3>4 DEF TypeOK
    <3>6. CurrentInv'
      BY <3>2, <3>3, <2>a, <3>1 DEF CurrentInv, Obeying, AfterOrder
    <3>7. (TargetInv /\ AgreeInv /\ OneOrderAtATime)'
      BY <2>a, <3>1, <3>4 DEF TargetInv, AgreeInv, OneOrderAtATime
    <3>8. (StoppingInv /\ ExitStopsEngines /\ AbortedInv)'
      BY <3>4 DEF StoppingInv, ExitStopsEngines, AbortedInv
    <3> QED
      BY <3>5, <3>6, <3>7, <3>8
  <2> QED
    BY <2>b, <2>c
<1>6. ASSUME SwitchCooling PROVE IInv'
  <2>1. TypeOK'
    BY <1>6 DEF SwitchCooling, TypeOK
  <2>2. CurrentInv'
    BY <1>6 DEF SwitchCooling, CurrentInv, Obeying
  <2>3. TargetInv'
    BY <1>6 DEF SwitchCooling, TargetInv, HasEffect, NewLevel,
          NewSpeed, NewSteering, IsSpeedOrder
  <2>4. (AgreeInv /\ OneOrderAtATime)'
    <3>1. /\ pc = "cool" /\ pc' = "apply" /\ cooling' = (target # 0)
          /\ UNCHANGED <<idx, current, target, speed, steering, motor, servo>>
      BY <1>6 DEF SwitchCooling
    <3>2. AgreeInv'
      BY <3>1 DEF TargetInv, AgreeInv, IsSpeedOrder
    <3>3. idx = 1
      BY <3>1 DEF TargetInv
    <3>4. OneOrderAtATime'
      BY <3>1, <3>3 DEF AgreeInv, OneOrderAtATime, Motors, Servos
    <3> QED
      BY <3>2, <3>4
  <2>5. (StoppingInv /\ ExitStopsEngines /\ AbortedInv)'
    BY <1>6 DEF SwitchCooling, StoppingInv, ExitStopsEngines, AbortedInv
  <2> QED
    BY <2>1, <2>2, <2>3, <2>4, <2>5
<1>7. ASSUME ApplyToController PROVE IInv'
  <2>1. TypeOK'
    <3>1. motor' \in [Motors -> Level] /\ servo' \in [Servos -> Level]
      <4>1. CASE IsSpeedOrder(Head(current))
        BY <1>7, <4>1 DEF ApplyToController, TypeOK
      <4>2. CASE ~IsSpeedOrder(Head(current))
        <5>1. /\ servo' = [i \in Servos |->
                              IF i = idx THEN target ELSE servo[i]]
              /\ motor' = motor
          BY <1>7, <4>2 DEF ApplyToController
        <5> QED
          BY <5>1 DEF TypeOK
      <4> QED
        BY <4>1, <4>2
    <3>2. idx' \in 1..(N + 1)
      BY <1>7 DEF ApplyToController, TypeOK
    <3> QED
      BY <1>7, <3>1, <3>2 DEF ApplyToController, TypeOK
  <2>2. CurrentInv'
    BY <1>7 DEF ApplyToController, CurrentInv, Obeying
  <2>3. TargetInv'
    BY <1>7 DEF ApplyToController, TargetInv, HasEffect, NewLevel,
          NewSpeed, NewSteering, IsSpeedOrder
  <2>4. (AgreeInv /\ OneOrderAtATime)'
    BY <1>7 DEF ApplyToController, AgreeInv, OneOrderAtATime, IsSpeedOrder,
                TypeOK, Motors, Servos
  <2>5. (StoppingInv /\ ExitStopsEngines /\ AbortedInv)'
    BY <1>7 DEF ApplyToController, StoppingInv, ExitStopsEngines, AbortedInv
  <2> QED
    BY <2>1, <2>2, <2>3, <2>4, <2>5
<1>8. ASSUME Commit PROVE IInv'
  <2>a. /\ pc = "apply" /\ idx > N /\ AfterOrder
        /\ IF IsSpeedOrder(Head(current))
           THEN speed' = target /\ steering' = steering
           ELSE steering' = target /\ speed' = speed
        /\ UNCHANGED <<mode, idx, target, motor, servo, enabled, cooling, input,
                       client, reply, asked>>
    BY <1>8 DEF Commit
  <2>b. /\ current' \in Seq(Order)
        /\ mode = "NORMAL" => pc' = "loop" /\ current' = <<>>
        /\ mode = "COMMAND" => \/ pc' = "dispatch" /\ current' # <<>>
                               \/ pc' = "key"
    BY <2>a, AfterOrderFacts DEF Obeying
  <2>c. mode \in {"NORMAL", "COMMAND"} /\ mode' = mode
    BY <2>a DEF TypeOK
  <2>d. pc' \in {"loop", "dispatch", "key"}
    BY <2>b, <2>c
  <2>e. speed' \in Level /\ steering' \in Level
    BY <2>a DEF TypeOK
  <2>1. TypeOK'
    <3>1. seen' \in [Clients -> SUBSET (Level \X Level)]
      BY <1>8, <2>e DEF Commit, TypeOK
    <3> QED
      BY <2>a, <2>b, <2>d, <2>e, <3>1 DEF TypeOK
  <2>2. CurrentInv'
    BY <2>a, <2>b, <2>c DEF CurrentInv, Obeying, AfterOrder
  <2>3. TargetInv'
    BY <2>d DEF TargetInv
  <2>4. (AgreeInv /\ OneOrderAtATime)'
    <3>1. \A i \in Motors \cup Servos : i \in Int /\ i < idx
      BY <2>a DEF TypeOK, Motors, Servos
    <3>2. (\A i \in Motors : motor[i] = speed') /\ (\A i \in Servos : servo[i] = steering')
      BY <2>a, <3>1 DEF OneOrderAtATime
    <3>3. HasCooling => (cooling' <=> speed' # 0)
      BY <2>a DEF AgreeInv
    <3> QED
      BY <2>a, <2>d, <3>2, <3>3 DEF AgreeInv, OneOrderAtATime
  <2>5. (StoppingInv /\ ExitStopsEngines /\ AbortedInv)'
    BY <2>d DEF StoppingInv, ExitStopsEngines, AbortedInv
  <2> QED
    BY <2>1, <2>2, <2>3, <2>4, <2>5
<1>9. ASSUME StopController PROVE IInv'
  <2>1. TypeOK'
    BY <1>9 DEF StopController, TypeOK
  <2>2. CurrentInv'
    BY <1>9 DEF StopController, CurrentInv, Obeying
  <2>3. TargetInv'
    BY <1>9 DEF StopController, TargetInv, HasEffect, NewLevel,
          NewSpeed, NewSteering, IsSpeedOrder
  <2>4. AgreeInv' /\ OneOrderAtATime'
    BY <1>9 DEF StopController, AgreeInv, OneOrderAtATime, IsSpeedOrder
  <2>5. (StoppingInv /\ ExitStopsEngines /\ AbortedInv)'
    <3>1. /\ pc = "stopping" /\ pc' = "stopping" /\ idx' = idx + 1
          /\ idx \in 1..N
          /\ \A i \in Controllers : i # idx => enabled'[i] = enabled[i]
          /\ idx \notin Maestro \cup SoftPWM => ~enabled'[idx]
      BY <1>9 DEF StopController, TypeOK
    <3>2. \A i \in Engines \ SoftPWM : i \in 2..N /\ i \notin Maestro
      OBVIOUS
    <3>3. StoppingInv'
      BY <3>1, <3>2 DEF StoppingInv
    <3> QED
      BY <3>1, <3>3 DEF ExitStopsEngines, AbortedInv
  <2> QED
    BY <2>1, <2>2, <2>3, <2>4, <2>5
<1>10. ASSUME Exit PROVE IInv'
  <2>1. TypeOK'
    <3>1. motor' \in [Motors -> Level] /\ servo' \in [Servos -> Level]
      <4>1. 0 \in Level
        BY DEF Level
      <4> QED
        BY <1>10, <4>1 DEF Exit, TypeOK
    <3>2. enabled' \in [Controllers -> BOOLEAN]
      BY <1>10 DEF Exit, TypeOK
    <3> QED
      BY <1>10, <3>1, <3>2 DEF Exit, TypeOK
  <2>2. CurrentInv'
    BY <1>10 DEF Exit, CurrentInv, Obeying
  <2>3. TargetInv'
    BY <1>10 DEF Exit, TargetInv, HasEffect, NewLevel,
          NewSpeed, NewSteering, IsSpeedOrder
  <2>4. AgreeInv' /\ OneOrderAtATime'
    BY <1>10 DEF Exit, AgreeInv, OneOrderAtATime, IsSpeedOrder
  <2>5. (StoppingInv /\ ExitStopsEngines /\ AbortedInv)'
    <3>1. /\ pc = "stopping" /\ idx > N /\ pc' = "exited"
          /\ motor' = [i \in Motors |-> IF i \in Maestro THEN 0 ELSE motor[i]]
          /\ enabled' = [i \in Controllers |-> enabled[i] /\ i \notin SoftPWM]
      BY <1>10 DEF Exit
    <3>2. ASSUME NEW i \in Motors
          PROVE  ~(enabled'[i] /\ motor'[i] # 0)
      <4>1. CASE i \in Maestro
        BY <3>1, <4>1
      <4>2. CASE i \in SoftPWM
        <5>1. i \in 1..N
          BY DEF Motors
        <5> QED
          BY <3>1, <4>2, <5>1
      <4>3. CASE i \in Engines \ SoftPWM
        BY <3>1, <4>3 DEF StoppingInv, TypeOK
      <4> QED
        BY <4>1, <4>2, <4>3 DEF Motors
    <3> QED
      BY <3>1, <3>2 DEF StoppingInv, ExitStopsEngines, AbortedInv, Driving
  <2> QED
    BY <2>1, <2>2, <2>3, <2>4, <2>5
<1>11. ASSUME Abort PROVE IInv'
  <2>1. TypeOK'
    BY <1>11 DEF Abort, TypeOK
  <2>2. CurrentInv'
    BY <1>11 DEF Abort, CurrentInv, Obeying
  <2>3. TargetInv'
    BY <1>11 DEF Abort, TargetInv, HasEffect, NewLevel,
          NewSpeed, NewSteering, IsSpeedOrder
  <2>4. AgreeInv' /\ OneOrderAtATime'
    BY <1>11 DEF Abort, AgreeInv, OneOrderAtATime, IsSpeedOrder
  <2>5. (StoppingInv /\ ExitStopsEngines /\ AbortedInv)'
    <3>1. /\ pc \in {"cool", "apply"} /\ pc' = "aborted"
          /\ enabled' = [i \in Controllers |-> enabled[i] /\ i \notin SoftPWM]
          /\ UNCHANGED <<idx, current, target, motor, cooling>>
      BY <1>11 DEF Abort
    <3>2. CoolingCoversMotion
      BY AgreementCools
    <3>3. ASSUME NEW i \in Motors, enabled'[i]
          PROVE  enabled[i]
      <4>1. i \in 1..N
        BY DEF Motors
      <4> QED
        BY <3>1, <3>3, <4>1
    <3>4. CoolingCoversMotion'
      BY <3>1, <3>2, <3>3 DEF CoolingCoversMotion, Driving, IsSpeedOrder
    <3> QED
      BY <3>1, <3>4 DEF StoppingInv, ExitStopsEngines, AbortedInv
  <2> QED
    BY <2>1, <2>2, <2>3, <2>4, <2>5
<1>12. ASSUME PressKey PROVE IInv'
  <2>1. TypeOK'
    BY <1>12 DEF PressKey, TypeOK
  <2>2. CurrentInv'
    BY <1>12 DEF PressKey, CurrentInv, Obeying
  <2>3. TargetInv'
    BY <1>12 DEF PressKey, TargetInv, HasEffect, NewLevel,
          NewSpeed, NewSteering, IsSpeedOrder
  <2>4. AgreeInv' /\ OneOrderAtATime'
    BY <1>12 DEF PressKey, AgreeInv, OneOrderAtATime, IsSpeedOrder
  <2>5. (StoppingInv /\ ExitStopsEngines /\ AbortedInv)'
    BY <1>12 DEF PressKey, StoppingInv, ExitStopsEngines, AbortedInv
  <2> QED
    BY <2>1, <2>2, <2>3, <2>4, <2>5
<1>13. ASSUME NEW o \in Orders, Give(o) PROVE IInv'
  <2>1. TypeOK'
    BY <1>13 DEF Give, TypeOK
  <2>2. CurrentInv'
    BY <1>13 DEF Give, CurrentInv, Obeying
  <2>3. TargetInv'
    BY <1>13 DEF Give, TargetInv, HasEffect, NewLevel,
          NewSpeed, NewSteering, IsSpeedOrder
  <2>4. AgreeInv' /\ OneOrderAtATime'
    BY <1>13 DEF Give, AgreeInv, OneOrderAtATime, IsSpeedOrder
  <2>5. (StoppingInv /\ ExitStopsEngines /\ AbortedInv)'
    BY <1>13 DEF Give, StoppingInv, ExitStopsEngines, AbortedInv, Alive
  <2> QED
    BY <2>1, <2>2, <2>3, <2>4, <2>5
<1>14. ASSUME HandlerPushes PROVE IInv'
  <2>1. TypeOK'
    <3>1. Setting("UNKNOWN", 0) \in Order
      BY DEF Setting, Order, Kinds, Level
    <3>2. queue' \in Seq(Order)
      BY <1>14, <3>1, AppendProperties DEF HandlerPushes, TypeOK
    <3> QED
      BY <1>14, <3>2 DEF HandlerPushes, TypeOK
  <2>2. CurrentInv'
    BY <1>14 DEF HandlerPushes, CurrentInv, Obeying
  <2>3. TargetInv'
    BY <1>14 DEF HandlerPushes, TargetInv, HasEffect, NewLevel,
          NewSpeed, NewSteering, IsSpeedOrder
  <2>4. AgreeInv' /\ OneOrderAtATime'
    BY <1>14 DEF HandlerPushes, AgreeInv, OneOrderAtATime, IsSpeedOrder
  <2>5. (StoppingInv /\ ExitStopsEngines /\ AbortedInv)'
    BY <1>14 DEF HandlerPushes, StoppingInv, ExitStopsEngines, AbortedInv, Alive
  <2> QED
    BY <2>1, <2>2, <2>3, <2>4, <2>5
<1>15. ASSUME Interrupt PROVE IInv'
  <2>1. TypeOK'
    BY <1>15 DEF Interrupt, TypeOK
  <2>2. CurrentInv'
    BY <1>15 DEF Interrupt, CurrentInv, Obeying
  <2>3. TargetInv'
    BY <1>15 DEF Interrupt, TargetInv, HasEffect, NewLevel,
          NewSpeed, NewSteering, IsSpeedOrder
  <2>4. AgreeInv' /\ OneOrderAtATime'
    BY <1>15 DEF Interrupt, AgreeInv, OneOrderAtATime, IsSpeedOrder
  <2>5. (StoppingInv /\ ExitStopsEngines /\ AbortedInv)'
    BY <1>15 DEF Interrupt, StoppingInv, ExitStopsEngines, AbortedInv, Alive
  <2> QED
    BY <2>1, <2>2, <2>3, <2>4, <2>5
<1>16. ASSUME HandlerSticks PROVE IInv'
  <2>1. TypeOK'
    BY <1>16 DEF HandlerSticks, TypeOK
  <2>2. CurrentInv'
    BY <1>16 DEF HandlerSticks, CurrentInv, Obeying
  <2>3. TargetInv'
    BY <1>16 DEF HandlerSticks, TargetInv, HasEffect, NewLevel,
          NewSpeed, NewSteering, IsSpeedOrder
  <2>4. AgreeInv' /\ OneOrderAtATime'
    BY <1>16 DEF HandlerSticks, AgreeInv, OneOrderAtATime, IsSpeedOrder
  <2>5. (StoppingInv /\ ExitStopsEngines /\ AbortedInv)'
    BY <1>16 DEF HandlerSticks, StoppingInv, ExitStopsEngines, AbortedInv, Alive
  <2> QED
    BY <2>1, <2>2, <2>3, <2>4, <2>5
<1>17. ASSUME NEW c \in Clients, QuerySpeed(c) PROVE IInv'
  <2>1. TypeOK'
    <3>1. <<speed, 0>> \in Level \X Level /\ <<speed, steering>> \in Level \X Level
      BY DEF TypeOK, Level
    <3>2. /\ reply' \in [Clients -> Level \X Level]
          /\ seen' \in [Clients -> SUBSET (Level \X Level)]
          /\ asked' \in [Clients -> 0..MaxQueries]
      BY <1>17, <3>1 DEF QuerySpeed, TypeOK
    <3> QED
      BY <1>17, <3>2 DEF QuerySpeed, TypeOK
  <2>2. CurrentInv'
    BY <1>17 DEF QuerySpeed, CurrentInv, Obeying
  <2>3. TargetInv'
    BY <1>17 DEF QuerySpeed, TargetInv, HasEffect, NewLevel,
          NewSpeed, NewSteering, IsSpeedOrder
  <2>4. AgreeInv' /\ OneOrderAtATime'
    BY <1>17 DEF QuerySpeed, AgreeInv, OneOrderAtATime, IsSpeedOrder
  <2>5. (StoppingInv /\ ExitStopsEngines /\ AbortedInv)'
    BY <1>17 DEF QuerySpeed, StoppingInv, ExitStopsEngines, AbortedInv, Alive
  <2> QED
    BY <2>1, <2>2, <2>3, <2>4, <2>5
<1>18. ASSUME NEW c \in Clients, QuerySteering(c) PROVE IInv'
  <2>1. TypeOK'
    BY <1>18 DEF QuerySteering, TypeOK
  <2>2. CurrentInv'
    BY <1>18 DEF QuerySteering, CurrentInv, Obeying
  <2>3. TargetInv'
    BY <1>18 DEF QuerySteering, TargetInv, HasEffect, NewLevel,
          NewSpeed, NewSteering, IsSpeedOrder
  <2>4. AgreeInv' /\ OneOrderAtATime'
    BY <1>18 DEF QuerySteering, AgreeInv, OneOrderAtATime, IsSpeedOrder
  <2>5. (StoppingInv /\ ExitStopsEngines /\ AbortedInv)'
    BY <1>18 DEF QuerySteering, StoppingInv, ExitStopsEngines, AbortedInv, Alive
  <2> QED
    BY <2>1, <2>2, <2>3, <2>4, <2>5
<1>19. ASSUME UNCHANGED vars PROVE IInv'
  <2>1. TypeOK'
    BY <1>19 DEF vars, TypeOK
  <2>2. CurrentInv'
    BY <1>19 DEF vars, CurrentInv, Obeying
  <2>3. TargetInv'
    BY <1>19 DEF vars, TargetInv, HasEffect, NewLevel,
          NewSpeed, NewSteering, IsSpeedOrder
  <2>4. AgreeInv' /\ OneOrderAtATime'
    BY <1>19 DEF vars, AgreeInv, OneOrderAtATime, IsSpeedOrder
  <2>5. (StoppingInv /\ ExitStopsEngines /\ AbortedInv)'
    BY <1>19 DEF vars, StoppingInv, ExitStopsEngines, AbortedInv, Driving,
                CoolingCoversMotion, IsSpeedOrder
  <2> QED
    BY <2>1, <2>2, <2>3, <2>4, <2>5
<1> QED
  BY <1>1, <1>2, <1>3, <1>4, <1>5, <1>6, <1>7, <1>8, <1>9, <1>10,
     <1>11, <1>12, <1>13, <1>14, <1>15, <1>16, <1>17, <1>18, <1>19
  DEF Next, MainStep, HandlerStep, Terminated

-----------------------------------------------------------------------------
(* The safety theorems *)

\* The inductive invariant holds in every reachable state.
THEOREM InductiveInvariant == Spec => []IInv
<1>1. Init => IInv
  BY InitInvariant
<1>2. IInv /\ [Next]_vars => IInv'
  BY NextInvariant
<1> QED
  BY <1>1, <1>2, PTL DEF Spec

\* Every variable keeps its type: in particular no level leaves its range,
\* whatever the mix of orders.
THEOREM TypeCorrect == Spec => []TypeOK
<1>1. IInv => TypeOK
  BY DEF IInv
<1> QED
  BY <1>1, InductiveInvariant, PTL

\* Between two orders all controllers, the relay, _speed and _steering agree.
THEOREM Agreement == Spec => []ControllersAgree
<1>1. IInv => ControllersAgree
  BY DEF IInv, AgreeInv, ControllersAgree
<1> QED
  BY <1>1, InductiveInvariant, PTL

\* While an order is carried out the controllers that were called have its level and
\* the others the level that is reported, whatever the controllers and their number
\* (shipcontrol.cpp:546-553).
THEOREM OneAtATime == Spec => []OneOrderAtATime
<1>1. IInv => OneOrderAtATime
  BY DEF IInv
<1> QED
  BY <1>1, InductiveInvariant, PTL

\* No engine is driven without water cooling, but for the moments between the
\* relay and the engine in which a STOP order is carried out.
THEOREM Cooling == Spec => []CoolingCoversMotion
<1>1. IInv => CoolingCoversMotion
  BY AgreementCools
<1> QED
  BY <1>1, InductiveInvariant, PTL

\* A program that ends regularly leaves no engine driven.
THEOREM RegularEnd == Spec => []ExitStopsEngines
<1>1. IInv => ExitStopsEngines
  BY DEF IInv
<1> QED
  BY <1>1, InductiveInvariant, PTL

-----------------------------------------------------------------------------
(* The ship obeys its helm *)

\* Taking the first order off a queue in front of another queue.
LEMMA TailOfConcat ==
    ASSUME NEW S, NEW s \in Seq(S), NEW t \in Seq(S), s # <<>>
    PROVE  /\ s \o t # <<>>
           /\ Head(s \o t) = Head(s)
           /\ Tail(s \o t) = Tail(s) \o t
<1>1. Len(s) \in Nat \ {0} /\ Len(t) \in Nat
  BY EmptySeq, LenProperties
<1>2. /\ s \o t \in Seq(S)
      /\ Len(s \o t) = Len(s) + Len(t)
      /\ \A i \in 1..(Len(s) + Len(t)) :
            (s \o t)[i] = IF i <= Len(s) THEN s[i] ELSE t[i - Len(s)]
  BY ConcatProperties
<1>3. s \o t # <<>>
  BY <1>1, <1>2, EmptySeq
<1>4. Head(s \o t) = Head(s)
  BY <1>1, <1>2
<1>5. /\ Tail(s) \in Seq(S)
      /\ Len(Tail(s)) = Len(s) - 1
      /\ \A i \in 1..Len(Tail(s)) : Tail(s)[i] = s[i + 1]
  BY HeadTailProperties
<1>6. /\ Tail(s \o t) \in Seq(S)
      /\ Len(Tail(s \o t)) = Len(s \o t) - 1
      /\ \A i \in 1..Len(Tail(s \o t)) : Tail(s \o t)[i] = (s \o t)[i + 1]
  BY <1>2, <1>3, HeadTailProperties
<1>7. /\ Tail(s) \o t \in Seq(S)
      /\ Len(Tail(s) \o t) = Len(Tail(s)) + Len(t)
      /\ \A i \in 1..(Len(Tail(s)) + Len(t)) :
            (Tail(s) \o t)[i] = IF i <= Len(Tail(s)) THEN Tail(s)[i]
                                ELSE t[i - Len(Tail(s))]
  BY <1>5, ConcatProperties
<1>8. Len(Tail(s \o t)) = Len(Tail(s) \o t)
  BY <1>1, <1>2, <1>5, <1>6, <1>7
<1>9. ASSUME NEW i \in 1..Len(Tail(s \o t))
      PROVE  Tail(s \o t)[i] = (Tail(s) \o t)[i]
  <2>1. Tail(s \o t)[i] = (s \o t)[i + 1] /\ i + 1 \in 1..(Len(s) + Len(t))
    BY <1>1, <1>2, <1>6
  <2>2. CASE i + 1 <= Len(s)
    BY <1>1, <1>2, <1>5, <1>7, <1>8, <2>1, <2>2
  <2>3. CASE i + 1 > Len(s)
    <3>1. Tail(s \o t)[i] = t[i + 1 - Len(s)]
      BY <1>1, <1>2, <2>1, <2>3
    <3>2. (Tail(s) \o t)[i] = t[i - (Len(s) - 1)]
      BY <1>1, <1>5, <1>7, <1>8, <2>3
    <3>3. i + 1 - Len(s) = i - (Len(s) - 1)
      BY <1>1
    <3> QED
      BY <3>1, <3>2, <3>3
  <2> QED
    BY <1>1, <2>2, <2>3
<1>10. Tail(s \o t) = Tail(s) \o t
  BY <1>6, <1>7, <1>8, <1>9, SeqEqual
<1> QED
  BY <1>3, <1>4, <1>10

\* Pushing an event gives the helm an order.
LEMMA PushIsGive ==
    ASSUME IInv, NEW o \in Order, queue' = Append(queue, o),
           UNCHANGED <<current, speed, steering>>
    PROVE  TheHelm!Next
<1>1. current \in Seq(Order) /\ queue \in Seq(Order)
  BY DEF IInv, TypeOK
<1>2. current \o Append(queue, o) = Append(current \o queue, o)
  <2>1. Append(queue, o) = queue \o <<o>>
    BY <1>1, AppendIsConcat
  <2>2. Append(current \o queue, o) = (current \o queue) \o <<o>>
    BY <1>1, ConcatProperties, AppendIsConcat
  <2> QED
    BY <1>1, <2>1, <2>2, ConcatAssociative
<1>3. TheHelm!Give(o)
  BY <1>2 DEF TheHelm!Give
<1> QED
  BY <1>3 DEF TheHelm!Next

\* An order that changes the ship's level as the helm says, and leaves the
\* front of the queue, is obeyed.
LEMMA FinishIsObey ==
    ASSUME IInv, current # <<>>, current' = Tail(current), queue' = queue,
           speed' = TheHelm!SpeedAfter(Head(current), speed),
           steering' = TheHelm!SteeringAfter(Head(current), steering)
    PROVE  TheHelm!Next
<1>1. current \in Seq(Order) /\ queue \in Seq(Order)
  BY DEF IInv, TypeOK
<1>2. /\ current \o queue # <<>>
      /\ Head(current \o queue) = Head(current)
      /\ Tail(current \o queue) = Tail(current) \o queue
  BY <1>1, TailOfConcat
<1>3. TheHelm!Obey
  BY <1>2 DEF TheHelm!Obey
<1> QED
  BY <1>3 DEF TheHelm!Next

\* An order with an effect sets the level the helm computes; an order without
\* one leaves the ship at the end of its range, or is none.
LEMMA EffectIsHelms ==
    ASSUME IInv, NEW o \in Order
    PROVE  /\ HasEffect(o) /\ IsSpeedOrder(o) =>
                 /\ TheHelm!SpeedAfter(o, speed) = NewLevel(o)
                 /\ TheHelm!SteeringAfter(o, steering) = steering
           /\ HasEffect(o) /\ ~IsSpeedOrder(o) =>
                 /\ TheHelm!SpeedAfter(o, speed) = speed
                 /\ TheHelm!SteeringAfter(o, steering) = NewLevel(o)
           /\ ~HasEffect(o) =>
                 /\ TheHelm!SpeedAfter(o, speed) = speed
                 /\ TheHelm!SteeringAfter(o, steering) = steering
<1> USE ShipAssumption
    DEF HasEffect, NewLevel,
          NewSpeed, NewSteering, IsSpeedOrder, TheHelm!SpeedAfter,
        TheHelm!SteeringAfter, TheHelm!Clamp, Level
<1>1. /\ speed \in Level /\ steering \in Level
      /\ o.kind \in Kinds /\ o.level \in Level
  BY DEF IInv, TypeOK, Order
<1>2. CASE o.kind = "SPEED_UP"
  BY <1>1, <1>2
<1>3. CASE o.kind = "SPEED_DOWN"
  BY <1>1, <1>3
<1>4. CASE o.kind = "TURN_RIGHT"
  BY <1>1, <1>4
<1>5. CASE o.kind = "TURN_LEFT"
  BY <1>1, <1>5
<1>6. CASE o.kind = "SET_SPEED"
  BY <1>1, <1>6
<1>7. CASE o.kind = "SET_STEERING"
  BY <1>1, <1>7
<1>8. CASE o.kind = "UNKNOWN"
  BY <1>1, <1>8
<1> QED
  BY <1>1, <1>2, <1>3, <1>4, <1>5, <1>6, <1>7, <1>8 DEF Kinds

\* Every step is one of the helm, or leaves the levels and the orders as they are.
LEMMA StepRefines ==
    IInv /\ [Next]_vars => [TheHelm!Next]_(TheHelm!vars)
<1> SUFFICES ASSUME IInv, [Next]_vars
             PROVE  TheHelm!Next \/ UNCHANGED TheHelm!vars
  OBVIOUS
<1> USE DEF main, ship, input, queries
<1>1. ASSUME UNCHANGED <<current, queue, speed, steering>>
      PROVE  UNCHANGED TheHelm!vars
  BY <1>1 DEF TheHelm!vars
<1>2. CASE \/ StartController \/ Started \/ CheckStop \/ SwitchCooling
           \/ ApplyToController \/ StopController \/ Exit \/ Abort \/ PressKey
           \/ Interrupt \/ HandlerSticks
  BY <1>1, <1>2 DEF StartController, Started, CheckStop, SwitchCooling,
     ApplyToController, StopController, Exit, Abort, PressKey, Interrupt,
     HandlerSticks
<1>3. CASE Pop
  <2>1. /\ pc = "pop" /\ queue # <<>>
        /\ current' = <<Head(queue)>> /\ queue' = Tail(queue)
        /\ UNCHANGED <<speed, steering>>
    BY <1>3 DEF Pop
  <2>2. current = <<>> /\ queue \in Seq(Order)
    BY <2>1 DEF IInv, TypeOK, CurrentInv
  <2>3. <<Head(queue)>> \o Tail(queue) = <<>> \o queue
    <3>1. /\ Head(queue) \in Order
          /\ Tail(queue) \in Seq(Order)
          /\ Len(Tail(queue)) = Len(queue) - 1
          /\ \A i \in 1..Len(Tail(queue)) : Tail(queue)[i] = queue[i + 1]
      BY <2>1, <2>2, HeadTailProperties
    <3>2. <<Head(queue)>> # <<>> /\ <<Head(queue)>> \in Seq(Order)
      BY <3>1
    <3>3. Len(queue) \in Nat \ {0} /\ Head(queue) = queue[1]
      BY <2>1, <2>2, EmptySeq
    <3> DEFINE h == <<Head(queue)>>
               t == Tail(queue)
               r == h \o t
    <3>4. Len(h) = 1 /\ h[1] = queue[1] /\ h \in Seq(Order)
      BY <3>2, <3>3
    <3>5. t \in Seq(Order)
      BY <3>1
    <3> HIDE DEF h, t
    <3>6. /\ r \in Seq(Order)
          /\ Len(r) = Len(h) + Len(t)
          /\ \A i \in 1..(Len(h) + Len(t)) :
                r[i] = IF i <= Len(h) THEN h[i] ELSE t[i - Len(h)]
      BY <3>4, <3>5, ConcatProperties
    <3> HIDE DEF r
    <3>7. Len(r) = Len(queue) /\ \A i \in 1..Len(r) : r[i] = queue[i]
      BY <3>1, <3>3, <3>4, <3>6 DEF t
    <3>8. r = queue
      BY <2>2, <3>6, <3>7, SeqEqual
    <3> QED
      BY <2>2, <3>8, ConcatEmptySeq DEF r, h, t
  <2> QED
    BY <2>1, <2>2, <2>3 DEF TheHelm!vars
<1>4. CASE Dispatch
  <2> DEFINE o == Head(current)
  <2>1. pc = "dispatch" /\ current # <<>> /\ o \in Order
    BY <1>4, HeadTailProperties
    DEF Dispatch, IInv, TypeOK, CurrentInv, Obeying
  <2>2. UNCHANGED <<queue, speed, steering>>
    BY <1>4 DEF Dispatch
  <2>3. CASE HasEffect(o)
    BY <1>1, <1>4, <2>2, <2>3 DEF Dispatch
  <2>4. CASE ~HasEffect(o)
    <3>1. current' = Tail(current)
      BY <1>4, <2>4 DEF Dispatch, AfterOrder
    <3>2. /\ speed' = TheHelm!SpeedAfter(o, speed)
          /\ steering' = TheHelm!SteeringAfter(o, steering)
      BY <2>1, <2>2, <2>4, EffectIsHelms
    <3> QED
      BY <2>1, <2>2, <3>1, <3>2, FinishIsObey
  <2> QED
    BY <2>3, <2>4
<1>5. CASE Commit
  <2> DEFINE o == Head(current)
  <2>1. pc = "apply" /\ current # <<>> /\ o \in Order
    BY <1>5, HeadTailProperties
    DEF Commit, IInv, TypeOK, CurrentInv, Obeying
  <2>2. HasEffect(o) /\ target = NewLevel(o)
    BY <2>1 DEF IInv, TargetInv
  <2>3. /\ current' = Tail(current) /\ queue' = queue
        /\ IsSpeedOrder(o) => speed' = target /\ steering' = steering
        /\ ~IsSpeedOrder(o) => steering' = target /\ speed' = speed
    BY <1>5 DEF Commit, AfterOrder
  <2>4. /\ speed' = TheHelm!SpeedAfter(o, speed)
        /\ steering' = TheHelm!SteeringAfter(o, steering)
    BY <2>1, <2>2, <2>3, EffectIsHelms
  <2> QED
    BY <2>1, <2>3, <2>4, FinishIsObey
<1>6. ASSUME NEW o \in Orders, Give(o)
      PROVE  TheHelm!Next
  <2>1. o \in Order
    BY ShipAssumption
  <2> QED
    BY <1>6, <2>1, PushIsGive DEF Give
<1>7. CASE HandlerPushes
  <2>1. Setting("UNKNOWN", 0) \in Order
    BY ShipAssumption DEF Setting, Order, Kinds, Level
  <2> QED
    BY <1>7, <2>1, PushIsGive DEF HandlerPushes
<1>8. ASSUME NEW c \in Clients, QuerySpeed(c) \/ QuerySteering(c)
      PROVE  UNCHANGED TheHelm!vars
  BY <1>1, <1>8 DEF QuerySpeed, QuerySteering
<1>9. CASE UNCHANGED vars
  BY <1>1, <1>9 DEF vars
<1> QED
  BY <1>2, <1>3, <1>4, <1>5, <1>6, <1>7, <1>8, <1>9
  DEF Next, MainStep, HandlerStep, Terminated

\* For any number of controllers and levels the ship obeys its helm: what
\* queries report changes with one order at a time, in the order the events
\* were queued, and never leaves the range of levels.
THEOREM ShipImplementsHelm == Spec => ImplementsHelm
<1>1. Init => TheHelm!Init
  <2> SUFFICES ASSUME Init PROVE TheHelm!Init
    OBVIOUS
  <2>1. queue = <<>> /\ speed = 0 /\ steering = 0
    BY DEF Init
  <2>2. CASE current = <<>>
    <3>1. current \o queue = <<>>
      BY <2>1, <2>2, ConcatEmptySeq, EmptySeq
    <3>2. <<>> \in [1..0 -> Order]
      OBVIOUS
    <3> QED
      BY <2>1, <3>1, <3>2 DEF TheHelm!Init
  <2>3. CASE \E v, w \in Level :
               current = <<Setting("SET_SPEED", v), Setting("SET_STEERING", w)>>
    <3>1. PICK v \in Level, w \in Level :
               current = <<Setting("SET_SPEED", v), Setting("SET_STEERING", w)>>
      BY <2>3
    <3>2. Setting("SET_SPEED", v) \in Order /\ Setting("SET_STEERING", w) \in Order
      BY DEF Setting, Order, Kinds
    <3>3. current \in Seq(Order) /\ current \in [1..2 -> Order]
      BY <3>1, <3>2
    <3>4. current \o queue = current
      BY <2>1, <3>3, ConcatEmptySeq
    <3>5. current[1].kind = "SET_SPEED" /\ current[2].kind = "SET_STEERING"
      BY <3>1 DEF Setting
    <3> QED
      BY <2>1, <3>3, <3>4, <3>5 DEF TheHelm!Init
  <2> QED
    BY <2>2, <2>3 DEF Init
<1>2. IInv /\ [Next]_vars => [TheHelm!Next]_(TheHelm!vars)
  BY StepRefines
<1> QED
  BY <1>1, <1>2, InductiveInvariant, PTL
  DEF Spec, ImplementsHelm, TheHelm!Spec

=============================================================================
