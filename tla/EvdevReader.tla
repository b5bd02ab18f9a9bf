----------------------------- MODULE EvdevReader -----------------------------
(***************************************************************************)
(* EvdevReader: the thread that reads the input device, its descriptor,    *)
(* and its stop by the main thread.  The events it pushes are in           *)
(* EvdevEvents and in InputQueue.                                          *)
(***************************************************************************)
EXTENDS Process

VARIABLES
    reader,     \* where the reader's thread is in run()
    rfd         \* EvdevReader::_fd

readerVars == <<reader, rfd>>

\* setup(): the device is opened and grabbed, or is not there, or another program
\* has grabbed it.
ReaderSetsUp ==
    /\ reader = "setup"
    /\ \/ /\ FreeNumbers # {}
          /\ Open("device")
          /\ rfd' = LowestFree
          /\ reader' \in {"loop", "setupClose"}
       \/ /\ reader' = "setupClose"
          /\ UNCHANGED <<fds, rfd>>

\* teardown() on the reader's own thread, first half.
ReaderTearsDown(here, next, there) ==
    /\ reader = here
    /\ Close(rfd)
    /\ reader' = IF rfd = NoFd THEN there ELSE next
    /\ UNCHANGED rfd

\* Mutant: the number of the closed device is kept.
ReaderKeepsNumber(here, there) ==
    /\ reader = here
    /\ reader' = there
    /\ UNCHANGED <<fds, rfd>>

\* teardown(), second half: the member is reset.
ReaderForgets(here, there) ==
    /\ reader = here
    /\ rfd' = NoFd
    /\ reader' = there
    /\ UNCHANGED fds

\* setup() tears down after a failure, and run() does once more.
ReaderFailsSetup ==
    \/ ReaderTearsDown("setupClose", "setupForget", "close")
    \/ ReaderForgets("setupForget", "close")

ReaderCloses ==
    \/ ReaderTearsDown("close", "forget", "ended")
    \/ ReaderForgets("forget", "ended")

\* One turn of the loop.  The device has events, which are pushed, or has none
\* for now; or it is gone.  A number that names no file is an error.
ReaderLoops ==
    /\ reader = "loop"
    /\ IF flagged = "reader"
       THEN reader' = "ended"
       ELSE /\ FileAt(rfd) \notin Conns
            /\ \/ FileAt(rfd) = "device" /\ UNCHANGED reader
               \/ reader' = "close"
    /\ UNCHANGED <<fds, rfd>>

ReaderAlone ==
    /\ ReaderSetsUp \/ ReaderFailsSetup \/ ReaderLoops \/ ReaderCloses
    /\ UNCHANGED <<main, flagged>>

\* EvdevReader::stop() on the main thread: teardown(), SingleThread::stop().
StopReader ==
    \/ /\ main = "closeReader"
       /\ Close(rfd)
       /\ IF rfd = NoFd THEN main' = "walk" /\ flagged' = "reader"
                        ELSE main' = "forgetReader" /\ UNCHANGED flagged
       /\ UNCHANGED rfd
    \/ /\ main = "forgetReader"
       /\ rfd' = NoFd
       /\ main' = "walk" /\ flagged' = "reader"
       /\ UNCHANGED fds
=============================================================================
