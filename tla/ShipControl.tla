----------------------------- MODULE ShipControl -----------------------------
(***************************************************************************)
(* ShipControl: the main thread between the input queue and the servo      *)
(* controllers.  An order is carried out in many steps - the water cooling *)
(* relay, then each controller in turn, then the member _speed or          *)
(* _steering - while IPC client threads read those members, new events     *)
(* arrive, a controller may throw, and a signal may ask for the end.       *)
(* The queue is the FIFO that InputQueue implements (EventPipeline), with  *)
(* its fairness: an event waiting in it is taken, unless the handler of    *)
(* the signal waits for ever for a mutex of the thread it has interrupted. *)
(*                                                                         *)
(* Levels stand for SpeedVal and SteeringVal: 0 is STOP or STRAIGHT, the   *)
(* code's MaxLevel is 10 (steps of 10 percent).                            *)
(***************************************************************************)
EXTENDS Integers, Sequences

CONSTANTS
    N,              \* number of servo controllers, in _servo_controllers order
    Maestro,        \* the indices of the MaestroController: {1}, or {} if it
                    \* has no device and ignores every call
    Engines,        \* the GPIOEngineControllers: they ignore set_steering()
    Rudders,        \* the GPIOSteeringControllers: they ignore set_speed()
    SoftPWM,        \* the engines and rudders driven by a GPIOPWMThread
    Faulty,         \* controllers whose set_speed() may throw, and 0 for the
                    \* water cooling switch
    HasCooling,     \* a water cooling relay is configured and is_ok()
    MaxLevel,       \* the largest level
    Orders,         \* the events that producers push
    MaxOrders,      \* bound: number of events pushed
    Clients,        \* IPC client threads that query the ship
    MaxQueries      \* bound: number of queries of each client

Controllers == 1..N
Level == -MaxLevel..MaxLevel

Kinds == {"SPEED_UP", "SPEED_DOWN", "TURN_RIGHT", "TURN_LEFT", "SET_SPEED",
          "SET_STEERING", "UNKNOWN"}
Order == [kind : Kinds, level : Level]

ASSUME ShipAssumption ==
    /\ N \in Nat
    /\ MaxLevel \in Nat \ {0}
    /\ Maestro \subseteq {1} \cap Controllers
    /\ Engines \subseteq 2..N
    /\ Rudders \subseteq 2..N
    /\ Engines \cap Rudders = {}
    /\ SoftPWM \subseteq Engines \cup Rudders
    /\ Faulty \subseteq Engines \cup {0}
    /\ HasCooling \in BOOLEAN
    /\ Orders \subseteq Order
    /\ MaxOrders \in Nat
    /\ MaxQueries \in Nat

\* The controllers that act on set_speed() and those that act on set_steering().
Motors == Maestro \cup Engines
Servos == Maestro \cup Rudders

VARIABLES
    mode,       \* ShipControl::_mode: "NORMAL" or "COMMAND"
    pc,         \* where the main thread is in main() and run()
    idx,        \* the controller a for loop is about to call
    current,    \* the orders taken from the queue or the command line
    target,     \* local new_speed or new_steering
    speed,      \* ShipControl::_speed
    steering,   \* ShipControl::_steering
    motor,      \* level last given to each controller that drives an engine
    servo,      \* level last given to each controller that drives a rudder
    enabled,    \* controllers that put their level on their output
    cooling,    \* level of the water cooling relay line
    queue,      \* ShipControl::_inputQueue
    stop,       \* ShipControl::_stop
    handler,    \* the signal handler: "none", "pushing" its dummy event,
                \* "returned", or "stuck" in that push
    given,      \* history: number of events pushed
    client,     \* state of each client's query: "idle", "half", "done"
    reply,      \* the speed and steering a query has read so far
    asked,      \* history: queries made by each client
    seen        \* history: the ship's states since a query began

main == <<mode, pc, idx, current, target>>
ship == <<speed, steering, motor, servo, enabled, cooling>>
input == <<queue, stop, handler, given>>
queries == <<client, reply, asked, seen>>
vars == <<main, ship, input, queries>>

\* A setting of a level; a string that names none, and an option left out, is
\* STOP or STRAIGHT.
Setting(k, v) == [kind |-> k, level |-> v]

\* After handle_cmd_line() and init(): the Maestro was opened and set to STOP
\* and STRAIGHT; the relay line was requested low.
Init ==
    /\ \/ mode = "NORMAL" /\ current = <<>>
       \/ /\ mode = "COMMAND"
          /\ \E v, w \in Level :
                current = <<Setting("SET_SPEED", v), Setting("SET_STEERING", w)>>
    /\ pc = "start"
    /\ idx = 1
    /\ target = 0
    /\ speed = 0
    /\ steering = 0
    /\ motor = [i \in Motors |-> 0]
    /\ servo = [i \in Servos |-> 0]
    /\ enabled = [i \in Controllers |-> i \in Maestro]
    /\ cooling = FALSE
    /\ queue = <<>>
    /\ stop = FALSE
    /\ handler = "none"
    /\ given = 0
    /\ client = [c \in Clients |-> "idle"]
    /\ reply = [c \in Clients |-> <<0, 0>>]
    /\ asked = [c \in Clients |-> 0]
    /\ seen = [c \in Clients |-> {}]

\* A finished process runs no thread.
Alive == pc \notin {"exited", "aborted"}

-----------------------------------------------------------------------------
(* Starting and stopping the controllers *)

\* run() calls start() on each controller in turn; Maestro's does nothing.
StartController ==
    /\ pc = "start"
    /\ idx <= N
    /\ enabled' = [enabled EXCEPT ![idx] = TRUE]
    /\ idx' = idx + 1
    /\ UNCHANGED <<mode, pc, current, target, speed, steering, motor, servo,
                   cooling, input, queries>>

Started ==
    /\ pc = "start"
    /\ idx > N
    /\ pc' = IF mode = "NORMAL" THEN "loop" ELSE "dispatch"
    /\ UNCHANGED <<mode, idx, current, target, ship, input, queries>>

\* run() calls stop() on each controller in turn.  Maestro's does nothing; a
\* hardware PWM is disabled; a GPIOPWMThread may or may not notice the request
\* (see SingleThread.cpp:55-68).
StopController ==
    /\ pc = "stopping"
    /\ idx <= N
    /\ \E e \in BOOLEAN :
          /\ idx \in Maestro => e = enabled[idx]
          /\ idx \notin Maestro \cup SoftPWM => ~e
          /\ enabled' = [enabled EXCEPT ![idx] = e]
    /\ idx' = idx + 1
    /\ UNCHANGED <<mode, pc, current, target, speed, steering, motor, servo,
                   cooling, input, queries>>

\* Mutant: ~MaestroController() leaves the engines as they are.
ExitAsIs ==
    /\ pc = "stopping"
    /\ idx > N
    /\ enabled' = [i \in Controllers |-> enabled[i] /\ i \notin SoftPWM]
    /\ pc' = "exited"
    /\ UNCHANGED <<mode, idx, current, target, speed, steering, motor, servo,
                   cooling, input, queries>>

\* main() deletes the ShipControl and returns: ~MaestroController() goes back
\* to STOP and STRAIGHT, and the PWM threads end with the process.
Exit ==
    /\ pc = "stopping"
    /\ idx > N
    /\ motor' = [i \in Motors |-> IF i \in Maestro THEN 0 ELSE motor[i]]
    /\ servo' = [i \in Servos |-> IF i \in Maestro THEN 0 ELSE servo[i]]
    /\ enabled' = [i \in Controllers |-> enabled[i] /\ i \notin SoftPWM]
    /\ pc' = "exited"
    /\ UNCHANGED <<mode, idx, current, target, speed, steering, cooling, input,
                   queries>>

-----------------------------------------------------------------------------
(* The event loop *)

CheckStop ==
    /\ pc = "loop"
    /\ pc' = IF stop THEN "stopping" ELSE "pop"
    /\ idx' = 1
    /\ UNCHANGED <<mode, current, target, ship, input, queries>>

\* Mutant: an emptiness test that is off by one.
PopKeepsLast ==
    /\ pc = "pop"
    /\ Len(queue) > 1
    /\ current' = <<Head(queue)>>
    /\ queue' = Tail(queue)
    /\ pc' = "dispatch"
    /\ UNCHANGED <<mode, idx, target, ship, stop, handler, given, queries>>

\* pop_blocking() needs both of the queue's mutexes; the thread under a handler
\* that is stuck - this one or a producer's - never gives its mutex back.
Pop ==
    /\ pc = "pop"
    /\ queue # <<>>
    /\ handler # "stuck"
    /\ current' = <<Head(queue)>>
    /\ queue' = Tail(queue)
    /\ pc' = "dispatch"
    /\ UNCHANGED <<mode, idx, target, ship, stop, handler, given, queries>>

\* Where main goes after an order: back to the loop, to the second setting of
\* the command line, or to cin.get().
AfterOrder ==
    /\ current' = Tail(current)
    /\ pc' = IF mode = "NORMAL" THEN "loop"
             ELSE IF Len(current) > 1 THEN "dispatch" ELSE "key"

IsSpeedOrder(o) == o.kind \in {"SPEED_UP", "SPEED_DOWN", "SET_SPEED"}

\* Mutant: speed_up() has an entry at the end of the range.
HasEffectAtTop(o) ==
    CASE o.kind = "SPEED_UP"   -> TRUE
      [] o.kind = "SPEED_DOWN" -> speed # -MaxLevel
      [] o.kind = "TURN_RIGHT" -> steering # MaxLevel
      [] o.kind = "TURN_LEFT"  -> steering # -MaxLevel
      [] o.kind = "UNKNOWN"    -> FALSE
      [] OTHER                 -> TRUE

\* Mutant: turn_left() tests the end that turn_right() tests.
HasEffectCopied(o) ==
    CASE o.kind = "SPEED_UP"   -> speed # MaxLevel
      [] o.kind = "SPEED_DOWN" -> speed # -MaxLevel
      [] o.kind = "TURN_RIGHT" -> steering # MaxLevel
      [] o.kind = "TURN_LEFT"  -> steering # MaxLevel
      [] o.kind = "UNKNOWN"    -> FALSE
      [] OTHER                 -> TRUE

\* The switch tables of speed_up(), speed_down(), turn_right() and turn_left()
\* have no entry at the end of the range: the method returns at once, and so
\* does the dispatcher on an UNKNOWN event.
HasEffect(o) ==
    CASE o.kind = "SPEED_UP"   -> speed # MaxLevel
      [] o.kind = "SPEED_DOWN" -> speed # -MaxLevel
      [] o.kind = "TURN_RIGHT" -> steering # MaxLevel
      [] o.kind = "TURN_LEFT"  -> steering # -MaxLevel
      [] o.kind = "UNKNOWN"    -> FALSE
      [] OTHER                 -> TRUE

NewSpeed(o) ==
    CASE o.kind = "SPEED_UP"   -> speed + 1
      [] o.kind = "SPEED_DOWN" -> speed - 1
      [] OTHER                 -> o.level

NewSteering(o) ==
    CASE o.kind = "TURN_RIGHT" -> steering + 1
      [] o.kind = "TURN_LEFT"  -> steering - 1
      [] OTHER                 -> o.level

NewLevel(o) == IF IsSpeedOrder(o) THEN NewSpeed(o) ELSE NewSteering(o)

\* Mutant: the loop over the controllers starts where the last one ended.
DispatchNoReset ==
    LET o == Head(current) IN
    /\ pc = "dispatch"
    /\ IF HasEffect(o)
       THEN /\ target' = NewLevel(o)
            /\ pc' = IF IsSpeedOrder(o) /\ HasCooling THEN "cool" ELSE "apply"
            /\ UNCHANGED current
       ELSE AfterOrder /\ UNCHANGED target
    /\ idx' = idx
    /\ UNCHANGED <<mode, ship, input, queries>>

Dispatch ==
    LET o == Head(current) IN
    /\ pc = "dispatch"
    /\ IF HasEffect(o)
       THEN /\ target' = NewLevel(o)
            /\ pc' = IF IsSpeedOrder(o) /\ HasCooling THEN "cool" ELSE "apply"
            /\ UNCHANGED current
       ELSE AfterOrder /\ UNCHANGED target
    /\ idx' = 1
    /\ UNCHANGED <<mode, ship, input, queries>>

\* Mutant: reverse speeds are not cooled.
SwitchCoolingForward ==
    /\ pc = "cool"
    /\ cooling' = (target > 0)
    /\ pc' = "apply"
    /\ UNCHANGED <<mode, idx, current, target, speed, steering, motor, servo,
                   enabled, input, queries>>

\* set_water_cooling() comes before the controllers, also when stopping.
SwitchCooling ==
    /\ pc = "cool"
    /\ cooling' = (target # 0)
    /\ pc' = "apply"
    /\ UNCHANGED <<mode, idx, current, target, speed, steering, motor, servo,
                   enabled, input, queries>>

\* One call of set_speed() or set_steering(); a controller that does not
\* handle that axis ignores it.
ApplyToController ==
    /\ pc = "apply"
    /\ idx <= N
    /\ IF IsSpeedOrder(Head(current))
       THEN /\ motor' = [i \in Motors |-> IF i = idx THEN target ELSE motor[i]]
            /\ UNCHANGED servo
       ELSE /\ servo' = [i \in Servos |-> IF i = idx THEN target ELSE servo[i]]
            /\ UNCHANGED motor
    /\ idx' = idx + 1
    /\ UNCHANGED <<mode, pc, current, target, speed, steering, enabled, cooling,
                   input, queries>>

\* Mutant: the last controller is left out.
CommitBeforeLast ==
    /\ pc = "apply"
    /\ idx >= N
    /\ IF IsSpeedOrder(Head(current))
       THEN speed' = target /\ UNCHANGED steering
       ELSE steering' = target /\ UNCHANGED speed
    /\ AfterOrder
    /\ UNCHANGED <<mode, idx, target, motor, servo, enabled, cooling, input,
                   queries>>

\* Only now do the members that queries read change.
Commit ==
    /\ pc = "apply"
    /\ idx > N
    /\ IF IsSpeedOrder(Head(current))
       THEN speed' = target /\ UNCHANGED steering
       ELSE steering' = target /\ UNCHANGED speed
    /\ seen' = [c \in Clients |->
                  IF client[c] = "half" THEN seen[c] \cup {<<speed', steering'>>}
                                        ELSE seen[c]]
    /\ AfterOrder
    /\ UNCHANGED <<mode, idx, target, motor, servo, enabled, cooling, input,
                   client, reply, asked>>

\* gpiod throws from set_value(); nothing on the main thread catches it.
Abort ==
    /\ \/ pc = "cool" /\ 0 \in Faulty
       \/ pc = "apply" /\ idx \in Faulty /\ IsSpeedOrder(Head(current))
    /\ pc' = "aborted"
    /\ enabled' = [i \in Controllers |-> enabled[i] /\ i \notin SoftPWM]
    /\ UNCHANGED <<mode, idx, current, target, speed, steering, motor, servo,
                   cooling, input, queries>>

\* Command mode ends on a key, on the end of the input, or when a signal
\* interrupts the wait for a key.
PressKey ==
    /\ pc = "key"
    /\ pc' = "stopping"
    /\ idx' = 1
    /\ UNCHANGED <<mode, current, target, ship, input, queries>>

MainStep ==
    \/ StartController
    \/ Started
    \/ CheckStop
    \/ Pop
    \/ Dispatch
    \/ SwitchCooling
    \/ ApplyToController
    \/ Commit
    \/ StopController
    \/ Exit

-----------------------------------------------------------------------------
(* The other threads *)

\* The evdev reader or an IPC client pushes an event.
Give(o) ==
    /\ Alive
    /\ handler # "stuck"
    /\ given < MaxOrders
    /\ queue' = Append(queue, o)
    /\ given' = given + 1
    /\ UNCHANGED <<main, ship, stop, handler, queries>>

\* A signal runs interrupt(), which sets the flag and calls push().
Interrupt ==
    /\ Alive
    /\ handler = "none"
    /\ stop' = TRUE
    /\ handler' = "pushing"
    /\ UNCHANGED <<main, ship, queue, given, queries>>

\* Mutant: interrupt() pushes no dummy event.
HandlerReturns ==
    /\ Alive
    /\ handler = "pushing"
    /\ handler' = "returned"
    /\ UNCHANGED <<main, ship, queue, stop, given, queries>>

HandlerPushes ==
    /\ Alive
    /\ handler = "pushing"
    /\ queue' = Append(queue, Setting("UNKNOWN", 0))
    /\ handler' = "returned"
    /\ UNCHANGED <<main, ship, stop, given, queries>>

\* The handler runs on top of a thread that owns a mutex of the queue - main
\* inside pop_blocking(), or a producer inside push() - and waits for it.
HandlerSticks ==
    /\ Alive
    /\ handler = "pushing"
    /\ handler' = "stuck"
    /\ UNCHANGED <<main, ship, queue, stop, given, queries>>

HandlerStep == HandlerPushes \/ HandlerSticks

\* handle_query() reads _speed, then _steering, without a lock.
QuerySpeed(c) ==
    /\ Alive
    /\ client[c] # "half"
    /\ asked[c] < MaxQueries
    /\ client' = [client EXCEPT ![c] = "half"]
    /\ reply' = [reply EXCEPT ![c] = <<speed, 0>>]
    /\ asked' = [asked EXCEPT ![c] = @ + 1]
    /\ seen' = [seen EXCEPT ![c] = {<<speed, steering>>}]
    /\ UNCHANGED <<main, ship, input>>

QuerySteering(c) ==
    /\ Alive
    /\ client[c] = "half"
    /\ client' = [client EXCEPT ![c] = "done"]
    /\ reply' = [reply EXCEPT ![c] = <<@[1], steering>>]
    /\ UNCHANGED <<main, ship, input, asked, seen>>

\* Main waits for a mutex that nobody will release.
Hung == handler = "stuck" /\ pc = "pop"

\* The process has ended, or hangs.
Terminated == (~Alive \/ Hung) /\ UNCHANGED vars

Next ==
    \/ MainStep
    \/ Abort
    \/ PressKey
    \/ \E o \in Orders : Give(o)
    \/ Interrupt
    \/ HandlerStep
    \/ \E c \in Clients : QuerySpeed(c) \/ QuerySteering(c)
    \/ Terminated

Spec == Init /\ [][Next]_vars

\* The main thread and the handler are scheduled (for Pop this is the fairness
\* of EventPipeline!FairSpec); nobody has to give orders or press a key.
FairSpec == Spec /\ WF_vars(MainStep) /\ WF_vars(HandlerStep)

-----------------------------------------------------------------------------
(* Safety *)

TypeOK ==
    /\ mode \in {"NORMAL", "COMMAND"}
    /\ pc \in {"start", "loop", "pop", "dispatch", "cool", "apply", "key",
               "stopping", "exited", "aborted"}
    /\ idx \in 1..(N + 1)
    /\ current \in Seq(Order)
    /\ target \in Level
    /\ speed \in Level
    /\ steering \in Level
    /\ motor \in [Motors -> Level]
    /\ servo \in [Servos -> Level]
    /\ enabled \in [Controllers -> BOOLEAN]
    /\ cooling \in BOOLEAN
    /\ queue \in Seq(Order)
    /\ stop \in BOOLEAN
    /\ handler \in {"none", "pushing", "returned", "stuck"}
    /\ given \in 0..MaxOrders
    /\ client \in [Clients -> {"idle", "half", "done"}]
    /\ reply \in [Clients -> Level \X Level]
    /\ asked \in [Clients -> 0..MaxQueries]
    /\ seen \in [Clients -> SUBSET (Level \X Level)]

\* Between two orders every controller, the relay and the two members agree.
ControllersAgree ==
    pc \in {"loop", "pop", "key", "stopping"} =>
        /\ \A i \in Motors : motor[i] = speed
        /\ \A i \in Servos : servo[i] = steering
        /\ HasCooling => (cooling <=> speed # 0)

\* A thrust is on the output of a controller.
Driving(i) == enabled[i] /\ motor[i] # 0

\* An engine turns without water cooling only in the short while in which a
\* STOP order has switched the relay and has not reached that engine - or for
\* good, if an exception ends the process in that while.
CoolingCoversMotion ==
    \A i \in Motors :
        (HasCooling /\ Driving(i) /\ ~cooling) =>
            /\ pc \in {"apply", "aborted"}
            /\ IsSpeedOrder(Head(current)) /\ target = 0
            /\ i >= idx

\* After a regular end of the program no engine is driven.
ExitStopsEngines ==
    pc = "exited" => \A i \in Motors : ~Driving(i)

\* While an order is carried out the controllers already called have the new
\* level, the others still have the one the ship reports.
OneOrderAtATime ==
    pc = "apply" =>
        LET turning == IsSpeedOrder(Head(current)) IN
        /\ \A i \in Motors :
              motor[i] = IF turning /\ i < idx THEN target ELSE speed
        /\ \A i \in Servos :
              servo[i] = IF ~turning /\ i < idx THEN target ELSE steering

\* DataProvider.hpp:32: a query "simply provides current ship status": the
\* speed and steering of a reply were the ship's at one and the same time.
ReplyIsSnapshot ==
    \A c \in Clients : client[c] = "done" => reply[c] \in seen[c]

-----------------------------------------------------------------------------
(* Liveness *)

\* After a termination signal every engine is eventually switched off and stays
\* off.  There are two ways out, both real: an exception ends the process with
\* the relay and engines as they are, or the handler waits for a mutex of the
\* thread it has interrupted while main is inside pop_blocking(), and the
\* engines run on.  A handler stuck at any other moment does no harm.
StopStopsEngines ==
    (stop /\ mode = "NORMAL") ~>
        (pc = "aborted" \/ Hung \/ [](\A i \in Motors : ~Driving(i)))

\* Orders do not pile up: the queue is worked off, unless the program is told
\* to stop or an exception ends it.
EveryOrderObeyed ==
    (mode = "NORMAL" /\ queue # <<>>) ~>
        (stop \/ pc = "aborted" \/ (queue = <<>> /\ current = <<>>))

-----------------------------------------------------------------------------
(* The ship obeys its helm *)

TheHelm == INSTANCE Helm WITH
    Order    <- Order,
    MaxLevel <- MaxLevel,
    orders   <- current \o queue,
    speed    <- speed,
    steering <- steering

\* However many controllers an order takes, and whatever arrives meanwhile,
\* the reported speed and steering follow the orders one at a time, in order.
ImplementsHelm == TheHelm!Spec
=============================================================================
