---------------------------- MODULE EventPipeline ----------------------------
(***************************************************************************)
(* What the ship's input path promises, with no mutex, condition variable  *)
(* or signal handler in sight: events are handled one at a time, in the    *)
(* order in which they were submitted (doc/Arch.md: "Commands ... are      *)
(* queued for internal processing in the order of reception"), and once a  *)
(* stop is requested at most one more event is handled before the loop is  *)
(* closed.  InputQueue.tla is the code that implements it.                 *)
(*                                                                         *)
(* The pipeline may jam: then nothing more is owed to anybody.  In the     *)
(* code that is the signal handler that waits for a mutex of the very      *)
(* thread it has interrupted (shipcontrol.cpp:285-290).                    *)
(***************************************************************************)
EXTENDS Sequences

CONSTANT Event

VARIABLES
    pending,    \* submitted and not yet handled, oldest first
    done,       \* handled, oldest first
    stopping,   \* a stop has been requested
    late,       \* an event was handled after the stop request
    closed,     \* the event loop has ended
    jammed      \* the loop may wait for ever

vars == <<pending, done, stopping, late, closed, jammed>>

Init ==
    /\ pending = <<>>
    /\ done = <<>>
    /\ stopping = FALSE
    /\ late = FALSE
    /\ closed = FALSE
    /\ jammed = FALSE

\* Any thread may submit at any time, also after the loop has ended.
Submit(e) ==
    /\ pending' = Append(pending, e)
    /\ UNCHANGED <<done, stopping, late, closed, jammed>>

\* The oldest event is handled; only one may be once a stop was requested.
Handle ==
    /\ ~closed
    /\ pending # <<>>
    /\ ~late
    /\ done' = Append(done, Head(pending))
    /\ pending' = Tail(pending)
    /\ late' = stopping
    /\ UNCHANGED <<stopping, closed, jammed>>

RequestStop ==
    /\ stopping' = TRUE
    /\ UNCHANGED <<pending, done, late, closed, jammed>>

Close ==
    /\ stopping
    /\ closed' = TRUE
    /\ UNCHANGED <<pending, done, stopping, late, jammed>>

Jam ==
    /\ jammed' = TRUE
    /\ UNCHANGED <<pending, done, stopping, late, closed>>

Next ==
    \/ \E e \in Event : Submit(e)
    \/ Handle
    \/ RequestStop
    \/ Close
    \/ Jam

Spec == Init /\ [][Next]_vars

\* The two steps of the loop are not put off for ever unless it jams: weak
\* fairness, with the state predicates in which the steps are possible spelled
\* out, so that TLC can evaluate them under the mapping of InputQueue.
HandlePossible == ~jammed /\ ~closed /\ pending # <<>> /\ ~late
ClosePossible == ~jammed /\ ~closed /\ stopping

FairSpec ==
    /\ Spec
    /\ <>[]HandlePossible => []<><<Handle>>_vars
    /\ <>[]ClosePossible => []<><<Close>>_vars
=============================================================================
