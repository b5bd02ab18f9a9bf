# ship-control: specifications and proofs

TLA+ modules that model the `ship-control` daemon, TLC configurations that
check them on small instances, and TLAPS proofs of the results that matter most
for every value of the constants. Paths such as `shipcontrol.cpp:289` are
relative to `src/`.

## 1. The system

`ship-control` is one process. It takes orders from a PSMove device (evdev) and
from a Unix socket, puts them into one queue, and carries them out one by one on
servo controllers (a Pololu Maestro, GPIO engines, GPIO rudders) and on a water
cooling relay.

| Component | State | Operations | Talks to | Hard part |
|---|---|---|---|---|
| `InputQueue` | `_queue`, `_queue_mutex`, `_block_mutex`, `_block_var` | `push`, `pop`, `pop_blocking`, `is_empty` | every producer, the main thread, the signal handler | two mutexes and an unlocked read, wakeups, a signal handler that locks |
| `ShipControl` (main thread) | `_speed`, `_steering`, `_stop`, `_mode`, the controllers | `init`, `run`, the six event methods, `set_water_cooling`, `interrupt` | queue, controllers, relay, queries | one order is many steps; readers, exceptions and signals in between |
| `SingleThread` | `_thread`, `_need_to_stop` | `start`, `stop`, `cleanup` | base of the PWM thread, the evdev reader, the listener, the clients | a flag set and taken back without synchronisation |
| `GPIOPWMThread` | `_pwm_duration`, the line | `run`, `set_pwm_duration` | GPIO controllers | store then clamp, unsigned sleep time |
| `GPIOEngineController`, `GPIOSteeringController` | level, duration, direction line | `set_speed`, `set_steering`, `start`, `stop` | PWM thread or sysfs | mixed signed and unsigned arithmetic, exceptions |
| `MaestroController`, `MaestroCmd` | channels, calibration, levels | `set_speed`, `set_steering` | serial device | several commands per order, lost writes, 14 bits |
| `GPIOSwitch` | the relay's line | `on`, `off` | main thread | exceptions |
| `UnixListener` | `_fd`, `_cl_handlers`, the socket's file | `setup`, accept loop, `teardown`, `stop` | clients, main thread | stop from another thread; the file outlives the process |
| `IPCClient` | `_fd`, `_buf` | read, handle, write; `stop` | request handler, peer | its number is closed and given out again by others; stream without framing |
| `IPCRequestHandler` | none | `handleRequest`, `handle_cmd`, `handle_query` | queue, `ShipControl` | event before answer, unlocked reads |
| `EvdevReader` | `_fd`, key maps | `setup`, `run`, `handle_event`, `teardown`, `stop` | queue, main thread | stop from another thread |
| `Config` | settings, `_is_ok` | `parse`, getters | `ShipControl::init` | missing and wrong entries among defaults |
| `Log`, `ConsoleLog`, `SysLog`, `GPIOUtil`, `json.hpp` | text | sequential | all | none of the kinds above |

What must be right:

- **queue**: no data race, no pop of an empty queue, nothing lost, duplicated or
  overtaken, no lost wakeup, a stop request ends the loop;
- **main thread**: controllers, relay and reported state agree between orders;
  the levels follow the orders and stay in range; engines never run uncooled
  except where the code's order of steps makes that unavoidable; engines are off
  at the end;
- **software PWM**: a cycle lasts a period, the last setting takes effect, a stop
  leaves the line low;
- **duty cycles**: pulses stay within the configured limits and are monotone;
- **Maestro**: every engine drives the ship at the level that is remembered,
  whichever way it is wired; a lost command is made good by the next order;
- **remote control**: no thread uses another's descriptor; a request is taken
  once, in order, pushed before it is answered and answered truthfully; a peer
  that waits is answered; a stop reaches every client; a start over the remains of
  a crash cleans up;
- **configuration**: a controller calculates with what the file says; a key or
  movement of the file gives its event, and nothing else does.

`PROJECT.json` lists the hazards of the code, line by line, with the properties
that cover each, and the parts that are not modelled.

## 2. The modules

| Module | Kind | Models |
|---|---|---|
| `EventPipeline` | abstract | what the input path promises: FIFO, at most one event after a stop request, and no event or stop put off for ever, unless the signal handler jams it |
| `InputQueue` | detailed | `InputQueue.cpp` under producers, main thread and signals; implements `EventPipeline` |
| `Helm` | abstract | what the ship promises: one indivisible change of level per order, in order, in range |
| `ShipControl` | detailed | `shipcontrol.cpp` between the queue and the controllers; implements `Helm` |
| `PWMThread` | detailed | `SingleThread.cpp` and `GPIOPWMThread.cpp` |
| `PWMDuty` | algorithm | the arithmetic of the two GPIO controllers |
| `Maestro` | detailed | `MaestroController.cpp`, `MaestroCmd.cpp` and the device, command by command |
| `Config` | algorithm | `Config.cpp`: what becomes of a file |
| `EvdevEvents` | algorithm | `EvdevReader::handle_event()` |
| `Drives` | composition | `Config`, the controllers `init()` makes from it, `PWMDuty`, `Maestro`, `EvdevEvents` |
| `RequestHandler` | algorithm | `IPCRequestHandler.cpp`: validation, event, answer |
| `CommandService` | abstract | what peers are promised, with no socket, descriptor or thread |
| `Process` | shared | the descriptor table and the stop flag that threads share |
| `EvdevReader` | detailed | the reader's thread, and main's stop of it |
| `UnixSocket` | detailed | `UnixListener.cpp`, `IPCClient.cpp` and the peers |
| `RemoteControl` | composition | reader, socket side and main thread in one process that may crash and start again; implements `CommandService` |
| `MCShipControl`, `MCDrives`, `MCRemoteControl` | instances | the orders, configuration files and requests TLC tries |
| `InputQueueProofs`, `ShipControlProofs`, `PWMThreadProofs`, `PWMDutyProofs`, `RemoteControlProofs` | proofs | about the module each is named for |
| `DrivesProofs` | proofs | about `Drives`, and in it about `Maestro`, `Config` and `EvdevEvents`, on top of `PWMDutyProofs` |
| `RemoteServiceProofs` | proofs | about `RemoteControl`, on top of `RemoteControlProofs`: the promise to peers, and what a failed start and a stop leave |
| `BasicLemmas` | lemmas | about unsigned arithmetic, induction over a set of naturals, and the existence of recursive functions |

The definitions whose comment begins with "Mutant:" are not part of any
specification. Each is a plausible slip in the definition below it, and puts a
property to the test: with the slip in place, TLC finds that property violated.

### InputQueue

A *frame* is one activation that can be scheduled: a thread, or a signal handler
running on top of a thread. `pc` holds the next statement of each frame. `push()`
is six steps (two lock_guards, the append, their two releases, `notify_all`; that
the append allocates memory, which a handler must not do either, is left out),
`pop_blocking()` and `pop()` eight. `Runs(f)` says that no handler is active on
top of `f`; a handler keeps the thread under it from running, but not from
owning mutexes, which is what can deadlock. `wait()` releases the mutex and falls
asleep in one step, may wake up spuriously, takes the mutex again and retests.
`is_empty()` is the read in `PopTest`, under `_block_mutex` only, as in the code.
The mutexes are not recursive and locking one that the own thread holds blocks
(the standard calls it undefined; glibc's default mutex blocks).
`issued`, `pushed`, `handled` and `late` are history.

SIGINT, SIGQUIT and SIGTERM mask each other (`setup_signals()`), so a thread
carries one handler at most, and each signal is delivered at most once. A thread
that never touches the queue (PWM, listener) is `Bystander`: it only matters as a
place where a handler may run. A handler running after `main()` has left `run()`
is not modelled.

### ShipControl

`pc` walks the main thread through `run()`: start the controllers, loop, pop,
dispatch, switch the relay, call the controllers one by one (`idx`), assign the
member, and at the end stop the controllers and destroy them. Levels are integers in
`-MaxLevel..MaxLevel` (the code: 10). The four hand-written tables are `HasEffect`
(an entry exists), `NewSpeed` and `NewSteering` (its value). Command mode is the
two settings of the command line, in `current` at the start. The queue is the
pipeline that `InputQueue` was shown to implement, with its fairness
(`ImplementsFairPipeline`), so a push is one step here. The signal handler sets the
flag in one step (`Interrupt`); its push is another that either succeeds
(`HandlerPushes`) or never ends (`HandlerSticks`), when the handler runs on top of a
thread that owns a mutex of the queue. Then nobody pushes or pops any more: main,
if it comes to `pop_blocking()`, waits there for ever (`Hung`).

`Abort` is an exception of gpiod that nobody catches: from the relay (0 in
`Faulty`) or from an engine's direction line. It ends the process as
`std::terminate` does: software PWM threads end with it, everything else stays
as it was. A hardware PWM that is stopped is disabled; a PWM thread may or may
not notice its stop (`PWMThread` shows both), and ends with the process. What a
GPIO line's level is after its process has ended is up to the kernel; the models
take the end of the pulses as the end of the drive.

`QuerySpeed` and `QuerySteering` are the two reads of `handle_query()`. `_speed`
and `_steering` are plain enum members, each written and read as one aligned
word in the builds at hand, so each read yields a value that was written.

### PWMThread

The main thread's statements of `start()`, `set_pwm_duration()`, `stop()` and
`cleanup()` interleave with the loop of `run()`. Both sides access `_need_to_stop`
and `_pwm_duration` without synchronisation. The calls between the accesses (the
logger, `sleep_for`, `detach`, gpiod) are opaque to the compiler, so each access
is a step; only the two stores of `set_pwm_duration()` may be merged into one, and
the model does either. A cycle's two sleeps belong to the steps `High` and `Low`;
`LowTime` is the unsigned difference given to the second. `Fail` is an exception
caught at the end of `run()`. `ShipControl` calls `start()` and `stop()` once
each, so the model does.

### PWMDuty, Maestro, Config, EvdevEvents and Drives

`EngineDuration` and `RudderDuration` are the computations of the two GPIO
controllers with every operation taken modulo `Width`, where the code's operands
are unsigned. The code's width is 2^32; TLC's integers are 32 bits wide, so the
runs use 2^16, which leaves the same remainder modulo 10 (6), and periods short
enough that the intended products fit. The proofs hold for every width and take
"the products fit" as their assumption (`Fits`).

A call of `MaestroController` is the list of its commands (`todo`), and `SendNext`
is one `MaestroCmd::send()`: the four bytes arrive, or `write()` fails, which the
code logs and passes over. Without a device (`sane`) a call does nothing. A target
goes through `Encode`, seven bits and seven bits of four times the microseconds in
two's complement, and back through the device's `Decode`. A calibration that
leaves fourteen bits is among the files checked; `Calibrated` names those that do
not, and whose direction channel has two different targets: only of them can one
say which way an engine turns.

A document (`Config`) is one entry of each list with the fields that are absent,
of the wrong JSON type, or have a value outside the parser's tables. `Throws` is an
exception of `get<T>()`, which ends the program; `IsOk` is `_is_ok`; the getters
return values with the defaults of the code. A section of a wrong type does not
throw: `find()` finds nothing in it, so that `maestro_engines`, `gpio_engines` and
`maestro_steering_calibration` become entries without their fields and the file is
refused, while `maestro_direction`, `gpio_steering` and `water_cooling_relay` are
accepted with their defaults (`Sections`, `Has`). One wrong type stands for all that
`get<T>()` throws for; that the library converts booleans and fractions to integers
is left out, and a `null` counts as a wrong type. `WellFormed` says what a document is
made of (`DocumentsAssumption`): any number of engines and servos, any numbers in
the calibrations, the smallest duty cycle first. The entries of a list stand or fall
together. Of the table of key names four are taken.

`Drives` goes from the file to the pulses and targets: parsing, the controllers
that `init()` makes, any orders at any time, the end. A GPIO engine and a GPIO rudder
each have a configuration of their own, and exist if the file has their section. GPIO and Maestro
controllers share no state, so each gets orders of its own, and the files of the
run configure one family or the other: the product of the two would multiply
states and show nothing more.

### Process, EvdevReader, UnixSocket and RemoteControl

The three kinds of thread share one table of descriptors (`fds`). A number is the
lowest free one when it is opened; objects keep copies of it (`rfd`, `lfd`,
`cfd`), and `close()` frees it for others at once while a thread that is inside a
system call goes on with the old file (`source`) and is not woken up. `accept()`
takes its number when it is called and fills it when a connection is there, as
Linux does.

- `EvdevReader`: `setup()` may fail at `open()` or at the grab and tears down, and
  `run()` tears down once more; the two statements of `teardown()` (close, reset)
  are two steps on either thread. A turn of the loop reads events, or nothing, or
  fails; what is read is `EvdevEvents`' matter, how it is pushed `InputQueue`'s.
- `UnixSocket`: `setup()` with `socket()`, `bind()` and `listen()`, each of which may
  fail, the accept loop, the client
  vector, the client's read, handle and write, and `UnixListener::stop()` on the
  main thread: the walk over the clients with iterators taken once (`walk`), the
  close, the unlink, the reset. A peer sends, hangs up, and reads what it is told;
  those in `Eager` do not wait for answers, so that one `read()` may return several
  requests. A read that returns 0 is handled as an empty request, as the code does.
  `NameFits` says whether the name fits into `sun_path`: `bind()` is given as much of it
  as fits, `unlink()` all of it, and removes nothing then. That `unlink()` succeeds
  otherwise is assumed. `CanRefuse` lets `bind()` and `listen()` fail for reasons of the
  file system. A peer closes its connection as a whole, not one direction of it, and a
  `write()` of an answer writes all of it or fails: the code, which does not look at
  how much was written, does not tell more apart.
- `RemoteControl`: start and stop of both threads, a `Crash` at any moment, the end
  that a client's text may bring about (`Terminate`), a start
  after it with the socket's file (`path`) as it was left. Everything but that file
  starts afresh, so the number of restarts is not bounded.

Where a step stands for several statements:

- the test of `_need_to_stop` at the top of a loop and the lookup of the number
  by the system call behind it are one step; so are the return of `read()` and
  `handleRequest()` on what it returned, which has one effect on shared state, the
  push;
- a stop flag is raised with main's step before `stop()`, and taken down by
  `cleanup()` with main's next step: a thread's test falls before, between or after
  them as it does in the code;
- if the vector is reallocated during main's walk, main reads freed memory: the
  old contents, which is what the model does, or anything, of which dying
  is covered by `Crash`;
- a descriptor closed by main may belong to another connection by the time an
  old thread uses it. The model follows that, also for the reader
  (`ReaderReadsConnection`), but the histories `sent`, `served`, `pushed`, `told` are
  kept only until a stop begins.

`RequestHandler` takes a text to be the sequence of the requests in it and tells
apart what the handler does: type, command, whether the data is a name of the
right kind of level. A text that is no JSON is refused like any other, with one
exception (`Kills`): the reply quotes what the parser stumbled over, `dump()` throws if
that is not UTF-8, and since this happens in the catch block of `handleRequest()` the
exception leaves the thread and ends the process. `CommandService` says what peers may
rely on: requests taken in order, none skipped or twice; a valid one taken alone
pushed once and before its answer, where `doc/remote_control.puml:73-82` draws the
answer first; an answer for every text taken. A text that ends the process is not
taken: the service goes down. Requests that arrive together are
refused together: `doc/Arch.md` (step 13) has each command validated by itself,
which holds for a peer that waits for its answers, as the network bridge does.

## 3. What is checked

| Run | Instance | Shows |
|---|---|---|
| `InputQueue_safety` | 2 producers x 2 pushes, 1 signal on any thread, fairness | `TypeOK`, `NoDataRace`, `NoPopOnEmpty`, `NothingLostOrReordered`, `IssueOrder`, `NoLostWakeup`; the queue implements `EventPipeline` and its fairness; `StopTakesEffectOrSelfDeadlock`, `EveryEventHandled` |
| `InputQueue_main` | 1 producer, signal on the main thread, fairness | **violated** `StopTakesEffect` |
| `ShipControl_orders` | Maestro, throwing GPIO engine on software PWM, GPIO rudder on hardware PWM, throwing relay; 2 events of 8 kinds, 1 query, levels -1..1, both modes, fairness | `TypeOK`, `ControllersAgree`, `OneOrderAtATime`, `CoolingCoversMotion`, `ExitStopsEngines`, `StopStopsEngines`, `EveryOrderObeyed`; the ship implements `Helm` |
| `ShipControl_query` | the same ship, 2 events, 1 query | **violated** `ReplyIsSnapshot` |
| `PWMThread_cycles` | period 4, durations 0, 2, 4 and 5, three calls, gpiod may throw, fairness | `TypeOK`, `CycleLastsOnePeriod`, `HighOnlyInCycle`, `SettingTakesEffect` |
| `PWMThread_stop` | the same, gpiod does not throw | **violated** `StopEndsThread` |
| `Drives_documents` | 456 files: 3 reverse modes x 3 periods x 28 pairs of duty cycles, each with another period for the rudder, 19 Maestro wirings and calibrations, and every section and field absent, ill-typed or unknown; all 21 levels of GPIO controllers, 3 of the Maestro, one lost write at a time | `DrivesTypeOK`, `NumbersFromFile`, `InputObeyed`, `EngineWithinDuty`, `FasterIsNotWeaker`, `RudderNearExact`, `MaestroFollowsOrders`, `DirectionFollowsAtOnce` |
| `PWMDuty_rudder` | default duty cycles, period 13 | **violated** `RudderWithinDuty` |
| `PWMDuty_reverse` | default duty cycles, `SAME_LINE` | **violated** `ReverseIsBelowStop` |
| `RemoteControl_service` | 2 peers, one that waits for its answers with 2 requests, one that does not with 3, the last of which may end the process; 3 descriptors, failures of the device, `bind()` and `listen()`, crashes and restarts, fairness | `TypeOK`, `OwnDescriptors`, `AnswersAreTrue`, `DeafStartClearsName`, `Answered`, `HangupEndsClient`; the process implements `CommandService` |
| `RemoteControl_stop` | the same peers, one request, a stop at any moment | `StopReachesClients`, `FileLeftWithSocket` |
| `RemoteControl_deaf` | 1 peer, a crash and a restart | **violated** `DaemonListens` |

**Bounds.** Two producers and a signal are the fewest with which an append can
fall between another's append and its notification while the consumer
sleeps, and two pushes of one producer the fewest with which its own order can be
broken; a handler on top of the second producer is one on top of the first with
the names exchanged. Two events, after the start and with a signal as a third, reach both
ends of the range of levels `-1..1`, a reversal of a running engine, a stop, and an
exception in each of them. Three calls of `set_pwm_duration()` interleave with a cycle under
way, the one that replaces it and the clamp; durations below, at and above the
period are the cases the clamp tells apart. `MaxPushes`, `MaxOrders`,
`MaxQueries` and `MaxSets` bound only how often the environment acts; the proofs
hold for all of them.

Periods are 10 and 50, multiples of ten, and 13, which is none; the duty cycles
include zero, and those of the shipped file and of the tests. No accepted file
uses a channel of the Maestro twice (`Wired`, which TLC evaluates). `MaestroLevels` has rest, the
largest level and one astern, between which every order is tried. `MaxUnsent` = 1
lets a command of either channel of an engine be lost and the next be lost or not.

Three descriptors are one fewer than device, socket and two connections need:
numbers run out, and are freed and taken by another. Two peers are the fewest with which an answer could go
astray or the walk meet a client accepted during it. `Script` bounds what each peer
sends and contains an accepted command, a refused one, a setting, a query and a
text that ends the process if it is taken alone or in the second place; a
peer connects once while the process lives. Peers act only until a stop begins.
`NameFits` is `TRUE` in the runs, since the names in use fit; the proofs have both.
`CanRefuse` is `FALSE` in `RemoteControl_deaf`, whose trace is about the file left by a
crash. `CanStop` keeps the fair run free of stops, whose end would cut off what liveness
is about, and leaves them to the run of their own.

**Fairness.** The kernel schedules every runnable thread, so the steps of a main
thread, of a `push()` that has begun, of a handler, of a PWM loop, of the reader,
the listener, each client (also into the end of the process) and of a stop that has
begun are weakly fair. `ShipControl` has the fairness of `EventPipeline!FairSpec`: its
`Pop` is taken if an event waits, unless the handler is stuck. Taking
`_block_mutex` inside `push()` is strongly fair: with endless
spurious wakeups the main thread takes that mutex again and again, and a waiter
gets it in between, as a futex-based mutex in practice provides. Nothing is
assumed of producers, operators, keys, peers, the device, a stop, a crash or
spurious wakeups.

**Deadlock.** It is checked except in the `InputQueue` runs, where a handler may
wait for its own thread's mutex (in `InputQueue_main` that is the very thing shown),
and in `Drives_documents`, whose program ends. The states in which the other
programs have ended have a step of their own (`Terminated`, `Done`), and
`RemoteControl` can always be started again.

### What the violated properties show

- `InputQueue_main`: `interrupt()` pushes from a signal handler. Delivered to the
  main thread between a lock and its unlock, it waits for ever for a mutex its
  own thread owns; the ship neither stops nor takes further orders.
  `StopTakesEffectOrSelfDeadlock` shows that nothing else in the queue keeps a stop from
  reaching the loop, and `StopStopsEngines` what follows for the ship: the engines are
  switched off, or run on because main hangs or an exception has ended the process.
- `ShipControl_query`: a reply may pair the speed of one moment with the steering
  of another, a state the ship never had.
- `PWMThread_stop`: `cleanup()` resets the stop flag right after `stop()` has set
  it; a thread that sleeps meanwhile runs on, detached, until the process ends.
- `PWMDuty_reverse`: in `SAME_LINE` mode the default duty cycles turn full
  reverse into full speed ahead: the neutral point is `(max - min) / 2`, and a
  negative duty cycle compared with an unsigned limit counts as too large.
- `PWMDuty_rudder`: a turn to the left goes through a huge unsigned number that is
  divided before it wraps back. With a period that is a multiple of ten and a
  smallest duty cycle above zero the result is right up to rounding
  (`RudderNearExact`); otherwise it is not.
- `RemoteControl_deaf`: a process that does not reach `teardown()` leaves the
  socket's file behind, `bind()` of the next one fails, and it runs without remote
  control. `DeafStartClearsName` shows the other half: its `teardown()` removes the
  file, so that the start after that one listens again.

Seen on the way, without a run of their own:

- `README.md` says that `rev_mode` of `gpio_engines` is not required, and
  `Config.cpp:478-481` refuses a file without it.
- `maestro_steering` without `maestro_steering_calibration` is accepted with a
  calibration of zeros, and `gpio_steering` without `pwm_period` (or of a wrong type)
  with a period of 0. Neither steers: every servo is sent the target 0 at every level,
  and the PWM gets a duration of 0 at every level (`NumbersFromFile`). What the program
  does not do is refuse such a file.
- One text of a peer can end the process (`Kills`).
- With a smallest duty cycle of 0 the rudder's full left turn rounds to just below
  zero and wraps around: 4.29 seconds for a period of 20 ms and a largest duty cycle
  of 20, which a software PWM clamps to the whole period. `RudderNearExact` excepts
  it; it came up when the proof for all duty cycles failed.
- A client thread that ends on an error keeps its descriptor and its place in the
  vector until the process ends. When no number is left, later peers wait without
  an answer; `Answered` excepts exactly that (`NoNumberFor`).
- A file left by a stop (`FileLeftWithSocket`): the listener's thread may reach
  `socket()` after main has looked for its descriptor; nobody closes it then.

## 4. What is proved

All for every value of the constants that satisfies the named assumptions
(`FramesAssumption`, `MaxPushesAssumption`, `ShipAssumption`, `PWMAssumption`,
`DutyAssumption`, `MaestroAssumption`, `DocumentsAssumption`, `ProcessAssumption`,
`SocketAssumption`; TLC evaluates each on its run), and those a theorem states
itself: `Fits` (a hundred periods fit into `unsigned int`: in 32 bits, periods up to
42 seconds), `RudderFits` (a thousand: up to 4 seconds), `Wired` (no file uses a
channel of the Maestro twice; the parser does not check it, and two engines on one
channel cannot obey two orders), and two descriptors per process.

| Theorem | Module | Says |
|---|---|---|
| `TypeCorrect`, `DataRaceFreedom`, `PopIsDefined`, `FirstInFirstOut`, `DispatchInIssueOrder`, `WakeupNotLost` | `InputQueueProofs` | `TypeOK`, `NoDataRace`, `NoPopOnEmpty`, `NothingLostOrReordered`, `IssueOrder`, `NoLostWakeup` |
| `QueueImplementsPipeline` | `InputQueueProofs` | `Spec => Pipeline!Spec` |
| `TypeCorrect`, `Agreement`, `OneAtATime`, `Cooling`, `RegularEnd` | `ShipControlProofs` | `TypeOK`, `ControllersAgree`, `OneOrderAtATime`, `CoolingCoversMotion`, `ExitStopsEngines` |
| `ShipImplementsHelm` | `ShipControlProofs` | `Spec => TheHelm!Spec` |
| `TypeCorrect`, `CycleLength`, `LineLowAtEnd` | `PWMThreadProofs` | `TypeOK`, `CycleLastsOnePeriod`, `HighOnlyInCycle` |
| `DutyInvariant` | `PWMDutyProofs` | the pulse belongs to the speed that is remembered |
| `PulsesWithinDuty`, `ThrustGrows` | `PWMDutyProofs` | `EngineWithinDuty`, `FasterIsNotWeaker`, if `Fits` |
| `RudderIsNear` | `PWMDutyProofs` | `RudderNearExact`, if `RudderFits` |
| `TypeCorrect`, `DescriptorsAreOwn` | `RemoteControlProofs` | `TypeOK`, `OwnDescriptors` |
| `WalkReachesClients` | `RemoteControlProofs` | `StopReachesClients` |
| `TruthfulAnswers`, `FileNotOrphaned` | `RemoteServiceProofs` | `AnswersAreTrue`, `FileLeftWithSocket` |
| `NameCleared` | `RemoteServiceProofs` | `DeafStartClearsName`, if the process may have two descriptors |
| `ServiceImplemented` | `RemoteServiceProofs` | `Spec => Service!Spec` |
| `EachInputObeyed`, `DrivesTypes` | `DrivesProofs` | `InputObeyed`, `DrivesTypeOK` |
| `NumbersAreTheFiles` | `DrivesProofs` | `NumbersFromFile`, if `Wired` |
| `OrdersAreFollowed`, `DirectionsFollow` | `DrivesProofs` | `MaestroFollowsOrders`, `DirectionFollowsAtOnce`, if `Wired` |
| `PulsesOfFile` | `DrivesProofs` | `EngineWithinDuty`, `FasterIsNotWeaker`, `RudderNearExact` in the program a file configures, if `RudderFits` |

The queue, the main thread, the software PWM, the duty cycles and the remote
control each have one inductive invariant (`InductiveInvariant`, for `PWMDuty`
`DutyInvariant`) from which the rest is derived; the other proofs add to it what
they say below.

- **InputQueue.** The heart is `MutexInv`: a frame owns a mutex exactly while its
  next statement lies in the critical section. No single mutex protects `_queue`,
  and data race freedom comes from the two together: `append` holds both,
  `front` and `popFront` hold the first, and the unlocked `is_empty()` runs under
  the second on the very thread that pops. That last point is why there may be
  one consumer only: `NoPopOnEmpty` is inductive because nobody but the main
  thread removes. `NoLostWakeup` needs that `append` holds `_block_mutex`, so that
  it cannot fall between the test and the sleep. For the refinement, the pending
  events are the one in hand followed by the queue; `PushAppend` is `Submit`,
  `Dispatch` is `Handle`, `SetStop` is `RequestStop`, `CheckStop` is `Close` or a
  stutter, and everything else stutters. `LateInv` gives "at most one event after
  a stop". `IssueOrder` follows from FIFO and `PushOrder`: what a producer has
  pushed is in the order of its counter, and below it.
- **ShipControl.** `CurrentInv` says how many orders are in progress at each
  statement, `TargetInv` that the level under way is the one the order asks for and
  is in range, `AgreeInv` and `OneOrderAtATime` which controllers already have it.
  Cooling follows from these where the process is alive; an exception freezes it
  (`AbortedInv`). For the refinement the orders are the ones in progress followed
  by the queue; `Commit`, or a `Dispatch` without effect, is the helm's `Obey`,
  where saturation by a missing table entry equals clamping.
- **PWMThread.** `DurationClamped` says that an over-long duration is visible only
  between the store and the clamp, `CycleUnderWay` carries that to the thread's
  local copy, and `SmallModulo` that the unsigned difference then does not wrap.
- **PWMDuty.** The invariant is that the engine has the pulse of the remembered
  level, or none yet. Then it is arithmetic: products that fit are not reduced
  (`SmallModulo`), `* range / 10` and `* period / 100` are monotone (`ProductGrows`,
  `PercentGrows`), and in `SAME_LINE` the clamp bounds whatever the wrapped duty
  is (`SameLineBounds`), which is why the bounds hold astern too, and the
  monotonicity only ahead (`SameLineGrows`).
- **PWMDuty, the rudder.** To the right nothing wraps, and two roundings lose less
  than a microsecond and a thousandth of the period (`RightRudder`). To the left the
  quotient is that of `Width` less the turn, so that it is off by `Width / 10`; the
  product with a period of ten times `k` is then off by `k` whole turns, up to the
  rounding, and whole turns do not count (`ModuloTurns`, `LeftRudder`). What must not
  happen is that the sum falls below zero, which takes a smallest duty cycle of 0.
- **RemoteControl, descriptors.** `OwnDescriptors` is not inductive by itself. `IInv`
  adds that the walk stays inside the vector (`WalkInBounds`), that nothing is
  left of an earlier process (`CleanStart`) and that the vector holds exactly the
  accepted clients, none twice (`Registered`). The argument: until a stop
  begins only the thread that opened a number closes it, and forgets it before
  it opens another; the one window, between `close()` and the reset of the member,
  lies on the thread that would use it.
- **RemoteControl, service.** On top of `IInv`: `Accepted` (a number names a
  connection only after its client was made), from which `WalkCloses` (what the
  walk has passed stays closed, because no connection is opened a second time);
  `NameInv` (which states of the listener go with which of the socket's file), where
  the second descriptor guarantees that every start gets as far as
  `bind()`; `OwedInv` with `LastIsNew` (the events pushed exceed the answers "ok" by
  the one being written, or by the one that met a peer that was gone).
- **RemoteControl, the file left.** `FileInv` follows the one case in which a file can
  be left: the listener's thread is still before `bind()` when main has passed it.
  Then no client was ever accepted, so that main's walk closes nothing; the socket's
  number can only be closed by a reader that has set up just as late, and that
  closes its own number, which names the device. A reader that was set up earlier
  may close the socket's number (its own was closed by main and given out again),
  but then main has yet to come to the socket and removes the name. A listener whose
  `listen()` fails closes the socket itself, and is then about to remove the name. If
  the name does not fit, nothing removes it and nothing is claimed.
- **RemoteControl implements CommandService.** `InOrder`, on top of `IInv`, `Accepted`,
  `LastIsNew` and `OwedInv`: what waits in a connection is what its peer has sent after
  the requests taken (`Waiting`), and a client has at most one text unanswered, the
  last one (`Unanswered`). Then a read that finds requests is the service's `Serve`, a write
  its `Answer`, a crash, and the beginning of a stop, where the histories end, its
  `GoDown`; all else stutters. `OwnDescriptors` is what makes it work: a client's
  read and write go to its own connection. That taking a text adds its length to the
  requests taken is an induction over the texts (`TakenCounts`, `TakenAppend`).
- **Drives, the file.** `DocInv`: the configuration in use is that of the accepted file
  throughout. `NumbersAreTheFiles` follows for the engines field by field from `IsOk`;
  for a rudder without a calibration or period it needs what becomes of zeros:
  `ServosIdle` says that every target on a servo's channel is 0, kept by each step
  because no engine writes to that channel (`NextToServo`, hence `Wired`), and
  `RudderInv` that a duration is 0 if the period is. `EachInputObeyed` follows
  from the fact that two names never have the same code (`CodesDiffer`), so that
  the maps by code give what the maps by name say.
- **Drives, the Maestro.** `MaestroFollowsOrders` speaks of the moments between calls, and
  is not inductive: in the middle of a call some channels have the new level and
  others the old, and some commands were lost. `MaestroInv` says what holds then:
  the commands to send are the rest of the call's list; each command before them was
  obeyed or is the last one lost on its channel; and each command that the
  remembered levels ask for is obeyed likewise, unless one of those has
  already gone to its channel. When the list is empty, every channel of the new level
  has its command, and the others have what they had. That needs that a call's list
  holds exactly its orders (`SpeedServes`, `CommandsListed`) and that no two orders go
  to one channel (`OrdersAgree`, `OrdersApart`), which is where `Wired` enters. That the
  targets drive the ship at the level (`TargetsDrive`) is arithmetic on the fourteen
  bits (`WireValue`, `CalibratedRange`). `DirectionFollowsAtOnce` comes from the same
  invariant and from the place of a direction in the list, right after its engine
  (`ListPlaces`). TLC found `MaestroInv` to hold on the
  Maestro's files of `MCDrives` too.

Lists that the models build recursively (`SpeedCommands`, `CommandService!Taken`) are
recursive functions. That they exist and satisfy their equation is proved once
(`RecursionExists`), and facts about them by induction over a set of naturals
(`NaturalInduction`), which needs no operator parameter.

**Only model-checked.** The liveness properties (`StopTakesEffectOrSelfDeadlock`,
`EveryEventHandled`, the fairness of `ImplementsFairPipeline`, `StopStopsEngines`, `EveryOrderObeyed`, `SettingTakesEffect`,
`Answered`, `HangupEndsClient`): they rest on fairness, whose ENABLED the prover does
not handle. Every other property of a passing run is a theorem.

## 5. What is not modelled

- `json.hpp`, a vendored header, by far the longest file; the models use what the
  code asks of it: a member is there, is of the type asked for, or is not.
- Logging (`Log`, `ConsoleLog`, `SysLog`), the sysfs writes of `GPIOUtil` and of
  hardware PWMs, the parsing of the command line, `find_input_device()`: sequential
  code without shared state, output or text.
- The tables that convert the 42 names of levels, one name at a time, and all but
  four names of the table of keys.
- The length of a text in bytes: that a read which fills the buffer has its
  terminator written behind it (`IPCClient.cpp:62`) is a hazard listed, not modelled.
- The destruction order: detached threads that outlive the objects they use.
  `RemoteControl` ends the process with main's last step; what a thread reads from
  freed memory in between is undefined.
- `MaestroCmd`'s commands other than SETTARGET, which nothing in the program sends.
- The Android application, the MQTT broker and `ship-net-bridge`, outside the
  repository; to the models they are peers that may send anything at any time.

## 6. Plan

Done, in this order: the queue, the main thread, the software PWM, the duty
cycles, the socket side with the reader, crashes and restarts, the Maestro, the
configuration, and the proofs of section 4. Left:

1. **Destruction order**: what is freed when, with the detached threads as readers.
2. **Text lengths**: reads at the limit of the buffer.
3. **Proofs**: the safety half of the liveness properties, that is the measures that
   decrease (no livelock by a finite number of steps without the environment).
