------------------------------ MODULE InputQueue ------------------------------
(***************************************************************************)
(* InputQueue.cpp under the threads that use it: the producers (the evdev  *)
(* reader and one thread per IPC client) call push(), the main thread runs *)
(* the event loop of ShipControl::run() around pop_blocking(), and a       *)
(* termination signal runs ShipControl::interrupt() - a store and a third  *)
(* kind of push() - on top of whatever thread the kernel delivers it to.   *)
(*                                                                         *)
(* A frame is one activation that can be scheduled: a thread, or a signal  *)
(* handler.  While a handler is active the thread under it does not run,   *)
(* but it keeps the mutexes it owns.                                       *)
(***************************************************************************)
EXTENDS Naturals, Sequences

CONSTANTS
    Producers,      \* threads that push input events
    Signals,        \* termination signals, each delivered at most once
    Main,           \* the main thread
    Bystander,      \* a thread that never touches the queue (PWM, listener)
    SignalTargets,  \* the threads the kernel may deliver a signal to
    None,           \* no owner, no thread, no event
    MaxPushes       \* bound: events pushed by each producer

Threads == Producers \cup {Main}
Pushers == Producers \cup Signals
Frames  == Threads \cup Signals

ASSUME FramesAssumption ==
    /\ Main \notin Pushers
    /\ Producers \cap Signals = {}
    /\ Bystander \notin Frames
    /\ None \notin Frames \cup {Bystander}
    /\ SignalTargets \subseteq Threads \cup {Bystander}

ASSUME MaxPushesAssumption == MaxPushes \in Nat \ {0}

Event == [by : Pushers, n : 1..MaxPushes]

\* The statements a frame can be at: those of push(), and those of each role.
PushPC == {"pushLockQueue", "pushLockBlock", "append", "pushUnlockBlock",
           "pushUnlockQueue", "notify"}
ProducerPC == PushPC \cup {"idle"}
SignalPC == PushPC \cup {"undelivered", "setStop", "returned"}
MainPC == {"checkStop", "popLockBlock", "test", "sleep", "relock",
           "popUnlockBlock", "popLockQueue", "front", "popFront",
           "popUnlockQueue", "dispatch", "exited"}
PC == ProducerPC \cup SignalPC \cup MainPC

VARIABLES
    queue,       \* InputQueue::_queue
    queueMutex,  \* owner of InputQueue::_queue_mutex, or None
    blockMutex,  \* owner of InputQueue::_block_mutex, or None
    pc,          \* next statement of each frame
    on,          \* the thread each signal was delivered to, or None
    evt,         \* local evt of pop() and run(), or None
    stop,        \* ShipControl::_stop
    issued,      \* history: number of push() calls of each frame
    pushed,      \* history: events in the order they entered the queue
    handled,     \* history: events in the order run() dispatched them
    late         \* history: an event was dispatched after stop was set

vars == <<queue, queueMutex, blockMutex, pc, on, evt, stop,
          issued, pushed, handled, late>>

Init ==
    /\ queue = <<>>
    /\ queueMutex = None
    /\ blockMutex = None
    /\ pc = [f \in Frames |-> IF f \in Producers THEN "idle"
                              ELSE IF f = Main   THEN "checkStop"
                              ELSE "undelivered"]
    /\ on = [s \in Signals |-> None]
    /\ evt = None
    /\ stop = FALSE
    /\ issued = [f \in Pushers |-> 0]
    /\ pushed = <<>>
    /\ handled = <<>>
    /\ late = FALSE

-----------------------------------------------------------------------------
(* Frames and mutexes *)

Active(s) == pc[s] \notin {"undelivered", "returned"}

\* A thread runs only while no signal handler is active on top of it.
Runs(f) == \A s \in Signals : Active(s) => on[s] # f

At(f, here) == Runs(f) /\ pc[f] = here

Goto(f, there) == pc' = [pc EXCEPT ![f] = there]

LockQueue(f) == queueMutex = None /\ queueMutex' = f

LockBlock(f) == blockMutex = None /\ blockMutex' = f

-----------------------------------------------------------------------------
(* push(): the two lock_guards, the append, the guards' release in reverse *)
(* order, and notify_all() with no mutex held.                             *)

\* A producer has read a key press or a command and calls push().
Submit(p) ==
    /\ At(p, "idle")
    /\ issued[p] < MaxPushes
    /\ issued' = [issued EXCEPT ![p] = @ + 1]
    /\ Goto(p, "pushLockQueue")
    /\ UNCHANGED <<queue, queueMutex, blockMutex, on, evt, stop, pushed,
                   handled, late>>

PushLockQueue(f) ==
    /\ At(f, "pushLockQueue")
    /\ LockQueue(f)
    /\ Goto(f, "pushLockBlock")
    /\ UNCHANGED <<queue, blockMutex, on, evt, stop, issued, pushed, handled,
                   late>>

\* Mutant: push() takes only _queue_mutex.
PushLockBlockForgotten(f) ==
    /\ At(f, "pushLockBlock")
    /\ Goto(f, "append")
    /\ UNCHANGED <<queue, queueMutex, blockMutex, on, evt, stop, issued, pushed,
                   handled, late>>

PushLockBlock(f) ==
    /\ At(f, "pushLockBlock")
    /\ LockBlock(f)
    /\ Goto(f, "append")
    /\ UNCHANGED <<queue, queueMutex, on, evt, stop, issued, pushed, handled,
                   late>>

\* Mutant: the newest event is put in front.
PushAppendInFront(f) ==
    LET event == [by |-> f, n |-> issued[f]] IN
    /\ At(f, "append")
    /\ queue' = <<event>> \o queue
    /\ pushed' = Append(pushed, event)
    /\ Goto(f, "pushUnlockBlock")
    /\ UNCHANGED <<queueMutex, blockMutex, on, evt, stop, issued, handled,
                   late>>

PushAppend(f) ==
    LET event == [by |-> f, n |-> issued[f]] IN
    /\ At(f, "append")
    /\ queue' = Append(queue, event)
    /\ pushed' = Append(pushed, event)
    /\ Goto(f, "pushUnlockBlock")
    /\ UNCHANGED <<queueMutex, blockMutex, on, evt, stop, issued, handled,
                   late>>

PushUnlockBlock(f) ==
    /\ At(f, "pushUnlockBlock")
    /\ blockMutex' = None
    /\ Goto(f, "pushUnlockQueue")
    /\ UNCHANGED <<queue, queueMutex, on, evt, stop, issued, pushed, handled,
                   late>>

PushUnlockQueue(f) ==
    /\ At(f, "pushUnlockQueue")
    /\ queueMutex' = None
    /\ Goto(f, "notify")
    /\ UNCHANGED <<queue, blockMutex, on, evt, stop, issued, pushed, handled,
                   late>>

\* Mutant: only the push that ends the queue's emptiness notifies.
PushNotifyFirst(f) ==
    /\ At(f, "notify")
    /\ pc' = [pc EXCEPT
                ![f] = IF f \in Signals THEN "returned" ELSE "idle",
                ![Main] = IF @ = "sleep" /\ Len(queue) = 1 THEN "relock" ELSE @]
    /\ UNCHANGED <<queue, queueMutex, blockMutex, on, evt, stop, issued,
                   pushed, handled, late>>

\* Mutant: a signal handler does not return to the code it has interrupted.
PushNotifyNoReturn(f) ==
    /\ At(f, "notify")
    /\ pc' = [pc EXCEPT
                ![f] = "idle",
                ![Main] = IF @ = "sleep" THEN "relock" ELSE @]
    /\ UNCHANGED <<queue, queueMutex, blockMutex, on, evt, stop, issued,
                   pushed, handled, late>>

\* notify_all() wakes the main thread if it sleeps, also one that a handler
\* has interrupted in its sleep.
PushNotify(f) ==
    /\ At(f, "notify")
    /\ pc' = [pc EXCEPT
                ![f] = IF f \in Signals THEN "returned" ELSE "idle",
                ![Main] = IF @ = "sleep" THEN "relock" ELSE @]
    /\ UNCHANGED <<queue, queueMutex, blockMutex, on, evt, stop, issued,
                   pushed, handled, late>>

Push(f) ==
    \/ PushLockQueue(f)
    \/ PushLockBlock(f)
    \/ PushAppend(f)
    \/ PushUnlockBlock(f)
    \/ PushUnlockQueue(f)
    \/ PushNotify(f)

-----------------------------------------------------------------------------
(* The main thread: run()'s loop, pop_blocking() and pop() *)

\* Mutant: a stop is noticed only when the queue is empty.
CheckStopWhenIdle ==
    /\ At(Main, "checkStop")
    /\ Goto(Main, IF stop /\ queue = <<>> THEN "exited" ELSE "popLockBlock")
    /\ UNCHANGED <<queue, queueMutex, blockMutex, on, evt, stop, issued,
                   pushed, handled, late>>

CheckStop ==
    /\ At(Main, "checkStop")
    /\ Goto(Main, IF stop THEN "exited" ELSE "popLockBlock")
    /\ UNCHANGED <<queue, queueMutex, blockMutex, on, evt, stop, issued,
                   pushed, handled, late>>

\* Mutant: wait() without a predicate, the queue is not tested after a wakeup.
PopLockBlockNoRetest ==
    /\ Runs(Main)
    /\ pc[Main] \in {"popLockBlock", "relock"}
    /\ LockBlock(Main)
    /\ Goto(Main, IF pc[Main] = "relock" THEN "popUnlockBlock" ELSE "test")
    /\ UNCHANGED <<queue, queueMutex, on, evt, stop, issued, pushed, handled,
                   late>>

\* unique_lock of pop_blocking(), and its reacquisition inside wait().
PopLockBlock ==
    /\ Runs(Main)
    /\ pc[Main] \in {"popLockBlock", "relock"}
    /\ LockBlock(Main)
    /\ Goto(Main, "test")
    /\ UNCHANGED <<queue, queueMutex, on, evt, stop, issued, pushed, handled,
                   late>>

\* The predicate of wait(): is_empty() reads _queue without _queue_mutex.
\* An empty queue releases the mutex and sleeps in one step.
PopTest ==
    /\ At(Main, "test")
    /\ IF queue = <<>>
       THEN blockMutex' = None /\ Goto(Main, "sleep")
       ELSE UNCHANGED blockMutex /\ Goto(Main, "popUnlockBlock")
    /\ UNCHANGED <<queue, queueMutex, on, evt, stop, issued, pushed, handled,
                   late>>

SpuriousWakeup ==
    /\ At(Main, "sleep")
    /\ Goto(Main, "relock")
    /\ UNCHANGED <<queue, queueMutex, blockMutex, on, evt, stop, issued,
                   pushed, handled, late>>

PopUnlockBlock ==
    /\ At(Main, "popUnlockBlock")
    /\ blockMutex' = None
    /\ Goto(Main, "popLockQueue")
    /\ UNCHANGED <<queue, queueMutex, on, evt, stop, issued, pushed, handled,
                   late>>

PopLockQueue ==
    /\ At(Main, "popLockQueue")
    /\ LockQueue(Main)
    /\ Goto(Main, "front")
    /\ UNCHANGED <<queue, blockMutex, on, evt, stop, issued, pushed, handled,
                   late>>

\* Mutant: back() for front().
PopBack ==
    /\ At(Main, "front")
    /\ evt' = queue[Len(queue)]
    /\ Goto(Main, "popFront")
    /\ UNCHANGED <<queue, queueMutex, blockMutex, on, stop, issued, pushed,
                   handled, late>>

\* front() and pop() on an empty std::queue are undefined: NoPopOnEmpty says
\* that neither happens.
PopFront ==
    /\ At(Main, "front")
    /\ evt' = Head(queue)
    /\ Goto(Main, "popFront")
    /\ UNCHANGED <<queue, queueMutex, blockMutex, on, stop, issued, pushed,
                   handled, late>>

PopRemove ==
    /\ At(Main, "popFront")
    /\ queue' = Tail(queue)
    /\ Goto(Main, "popUnlockQueue")
    /\ UNCHANGED <<queueMutex, blockMutex, on, evt, stop, issued, pushed,
                   handled, late>>

PopUnlockQueue ==
    /\ At(Main, "popUnlockQueue")
    /\ queueMutex' = None
    /\ Goto(Main, "dispatch")
    /\ UNCHANGED <<queue, blockMutex, on, evt, stop, issued, pushed, handled,
                   late>>

\* The switch of run(); what it does to the ship is ShipControl.tla.
Dispatch ==
    /\ At(Main, "dispatch")
    /\ handled' = Append(handled, evt)
    /\ evt' = None
    /\ late' = (late \/ stop)
    /\ Goto(Main, "checkStop")
    /\ UNCHANGED <<queue, queueMutex, blockMutex, on, stop, issued, pushed>>

MainStep ==
    \/ CheckStop
    \/ PopLockBlock
    \/ PopTest
    \/ PopUnlockBlock
    \/ PopLockQueue
    \/ PopFront
    \/ PopRemove
    \/ PopUnlockQueue
    \/ Dispatch

-----------------------------------------------------------------------------
(* Termination signals *)

\* SIGINT, SIGQUIT and SIGTERM are masked while one of them is handled, so a
\* thread carries at most one handler.  A thread that has left run() is not a
\* target: it is tearing the program down.
DeliverSignal(s, t) ==
    /\ At(s, "undelivered")
    /\ t \in SignalTargets
    /\ t \in Threads => Runs(t)
    /\ t = Main => pc[Main] # "exited"
    /\ on' = [on EXCEPT ![s] = t]
    /\ Goto(s, "setStop")
    /\ UNCHANGED <<queue, queueMutex, blockMutex, evt, stop, issued, pushed,
                   handled, late>>

\* Mutant: interrupt() sets the flag and pushes no dummy event.
SetStopOnly(s) ==
    /\ At(s, "setStop")
    /\ stop' = TRUE
    /\ issued' = [issued EXCEPT ![s] = @ + 1]
    /\ Goto(s, "returned")
    /\ UNCHANGED <<queue, queueMutex, blockMutex, on, evt, pushed, handled,
                   late>>

\* interrupt(): _stop = true, then push() of a dummy UNKNOWN event.
SetStop(s) ==
    /\ At(s, "setStop")
    /\ stop' = TRUE
    /\ issued' = [issued EXCEPT ![s] = @ + 1]
    /\ Goto(s, "pushLockQueue")
    /\ UNCHANGED <<queue, queueMutex, blockMutex, on, evt, pushed, handled,
                   late>>

-----------------------------------------------------------------------------

\* The process ends when main() returns; only then may nothing happen.
Terminated == pc[Main] = "exited" /\ UNCHANGED vars

Next ==
    \/ \E p \in Producers : Submit(p)
    \/ \E f \in Pushers : Push(f)
    \/ MainStep
    \/ SpuriousWakeup
    \/ \E s \in Signals, t \in SignalTargets : DeliverSignal(s, t)
    \/ \E s \in Signals : SetStop(s)
    \/ Terminated

Spec == Init /\ [][Next]_vars

\* Every thread that can run is eventually scheduled, and a thread waiting for
\* _block_mutex gets it if it is released again and again (SF: the main thread
\* may be woken spuriously for ever and take that mutex every time).  Nothing
\* is assumed of the input (Submit), of the operator (DeliverSignal) or of
\* spurious wakeups.
Fairness ==
    /\ WF_vars(MainStep)
    /\ \A f \in Pushers : WF_vars(Push(f)) /\ SF_vars(PushLockBlock(f))
    /\ \A s \in Signals : WF_vars(SetStop(s))

FairSpec == Spec /\ Fairness

-----------------------------------------------------------------------------
(* Safety *)

\* Every variable keeps its type, every frame its own part of the code.
TypeOK ==
    /\ queue \in Seq(Event)
    /\ queueMutex \in Frames \cup {None}
    /\ blockMutex \in Frames \cup {None}
    /\ pc \in [Frames -> PC]
    /\ \A p \in Producers : pc[p] \in ProducerPC
    /\ \A s \in Signals : pc[s] \in SignalPC
    /\ pc[Main] \in MainPC
    /\ on \in [Signals -> Threads \cup {Bystander, None}]
    /\ evt \in Event \cup {None}
    /\ stop \in BOOLEAN
    /\ issued \in [Pushers -> 0..MaxPushes]
    /\ pushed \in Seq(Event)
    /\ handled \in Seq(Event)
    /\ late \in BOOLEAN

\* The statements about to read or write _queue.
Writing(f) == pc[f] \in {"append", "popFront"}
Touching(f) == pc[f] \in {"append", "test", "front", "popFront"}

\* No two frames are ever at conflicting accesses to _queue, although
\* is_empty() takes no mutex itself, pop() takes only _queue_mutex and a
\* signal handler may push on top of a suspended thread.
NoDataRace ==
    \A f, g \in Frames : f # g => ~(Writing(f) /\ Touching(g))

\* pop() runs outside the mutex under which emptiness was tested: between the
\* test and front()/pop() no other frame may empty the queue.
NoPopOnEmpty ==
    pc[Main] \in {"popUnlockBlock", "popLockQueue", "front", "popFront"}
        => queue # <<>>

\* The event pop() has removed from the queue and run() has not dispatched.
InHand == IF pc[Main] \in {"popUnlockQueue", "dispatch"} THEN <<evt>> ELSE <<>>

\* Between all producers, handlers and the main thread no event is lost,
\* duplicated or overtaken: what was dispatched, what is in hand and what is
\* queued is exactly what was pushed, in the order of the pushes.
NothingLostOrReordered == handled \o InHand \o queue = pushed

\* Each producer's events are dispatched in the order it issued them.
IssueOrder ==
    \A p \in Pushers :
        \A i, j \in 1..Len(handled) :
            (i < j /\ handled[i].by = p /\ handled[j].by = p)
                => handled[i].n < handled[j].n

\* The main thread sleeps with events queued only while a push that has not
\* yet reached notify_all() will wake it.
NoLostWakeup ==
    (pc[Main] = "sleep" /\ queue # <<>>)
        => \E f \in Pushers :
              pc[f] \in {"pushUnlockBlock", "pushUnlockQueue", "notify"}

-----------------------------------------------------------------------------
(* Liveness *)

\* A signal handler waits for mutexes on top of a thread that owns one.
OwnerInterrupted ==
    \E s \in Signals : Active(s) /\ on[s] \in {queueMutex, blockMutex}

\* interrupt() stops the event loop (shipcontrol.cpp:288: the dummy event is
\* pushed "so that run() could detect stop flag").
StopTakesEffect == stop ~> pc[Main] = "exited"

\* The only way a stop request can fail is a handler delivered on top of a
\* thread that owns one of the queue's mutexes.
StopTakesEffectOrSelfDeadlock ==
    stop ~> (pc[Main] = "exited" \/ OwnerInterrupted)

\* Every event that enters the queue is dispatched, unless the ship is told
\* to stop.
EveryEventHandled ==
    \A k \in 1..(MaxPushes + 1) :
        (Len(pushed) >= k) ~> (Len(handled) >= k \/ stop)

-----------------------------------------------------------------------------
(* The queue implements the pipeline *)

Pipeline == INSTANCE EventPipeline WITH
    Event    <- Event,
    pending  <- InHand \o queue,
    done     <- handled,
    stopping <- stop,
    late     <- late,
    closed   <- pc[Main] = "exited",
    jammed   <- OwnerInterrupted

\* Mutexes, sleeping and signals implement the plain pipeline: one event at a
\* time, in order, and at most one after a stop request.
ImplementsPipeline == Pipeline!Spec

\* And they keep it moving: as long as no handler waits on top of an owner, an
\* event that waits is dispatched and a stop request closes the loop.
ImplementsFairPipeline == Pipeline!FairSpec
=============================================================================
