------------------------------- MODULE Process -------------------------------
(***************************************************************************)
(* What the threads of the program share: its table of file descriptors,   *)
(* and the stop request that SingleThread::stop() makes to one of them.    *)
(*                                                                         *)
(* A descriptor is a small number, the lowest free one at the time it is   *)
(* opened.  The numbers are copied into members of several objects, and    *)
(* nothing ties a copy to what the number names later.  close() takes the  *)
(* number out of the table at once, but the file lives on while a thread   *)
(* is inside a system call on it, and such a call is not woken up.         *)
(*                                                                         *)
(* SingleThread::stop() raises the flag of a thread that was started, and  *)
(* cleanup() detaches the thread and takes the flag down again before main *)
(* does anything else.  The flag is raised here with main's last step      *)
(* before it and taken down with main's next one: what a thread can do in  *)
(* between it can do as well before or after.                              *)
(***************************************************************************)
EXTENDS Integers

CONSTANTS
    Conns,      \* connections to the Unix socket, one of each peer
    MaxFd       \* how many descriptors the process may have (RLIMIT_NOFILE)

\* What a number may name beside a connection: nothing, the input device, the
\* listening socket, or a number taken by accept() for the next connection.
Special == {"free", "device", "socket", "accepting"}

ASSUME ProcessAssumption ==
    /\ MaxFd \in Nat
    /\ Conns \cap (Special \cup {"nobody", "reader", "listener"}) = {}

NoFd == -1
Numbers == 0..(MaxFd - 1)
Files == Special \cup Conns
Threads == {"reader", "listener"} \cup Conns

VARIABLES
    fds,        \* the descriptor table: what each number names
    main,       \* where the main thread is in run()
    flagged     \* the thread whose _need_to_stop is true, if any

FreeNumbers == {n \in Numbers : fds[n] = "free"}

LowestFree == CHOOSE n \in FreeNumbers : \A m \in FreeNumbers : n <= m

\* The file that a system call on number n works on.  accept() holds its number
\* without a file until the connection is there.
FileAt(n) == IF n \in Numbers /\ fds[n] # "accepting" THEN fds[n] ELSE "free"

InTable(file) == \E n \in Numbers : fds[n] = file

\* close(n); EBADF, without an effect, where the number names no file.
Close(n) == fds' = IF FileAt(n) = "free" THEN fds ELSE [fds EXCEPT ![n] = "free"]

\* The lowest free number names the file.
Open(file) == fds' = [fds EXCEPT ![LowestFree] = file]
=============================================================================
