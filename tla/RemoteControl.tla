---------------------------- MODULE RemoteControl ----------------------------
(***************************************************************************)
(* The input side of the program: the evdev reader and the Unix socket     *)
(* with its clients, which share one table of file descriptors, and the    *)
(* main thread that starts and stops them.  The program may be killed at   *)
(* any time, and is started again; the socket's file survives it.          *)
(***************************************************************************)
EXTENDS EvdevReader, UnixSocket, FiniteSets

CONSTANT CanStop    \* bound: whether the program may be told to stop

vars == <<fds, main, flagged, readerVars, listenerVars, clientVars, peerVars>>

NoFiles == [n \in Numbers |-> "free"]

Init ==
    /\ main = "off" /\ flagged = "nobody" /\ fds = NoFiles
    /\ reader = "off" /\ rfd = NoFd
    /\ SocketInit
    /\ path = "none"

\* run() starts both threads.
Start ==
    /\ main = "off"
    /\ main' = "run"
    /\ reader' = "setup"
    /\ listener' = "setup"
    /\ UNCHANGED <<fds, flagged, rfd, path, lfd, backlog, handlers, walk,
                   clientVars, peerVars>>

\* The event loop has ended, or a key was pressed in command mode.  The histories
\* are closed: from now on a number may lead to another's connection.
Stop ==
    /\ CanStop
    /\ main = "run" /\ main' = "closeReader"
    /\ sent' = Empty /\ served' = Empty /\ pushed' = Empty /\ told' = Empty
    /\ UNCHANGED <<fds, flagged, readerVars, listenerVars, clientVars, peer, inbox>>

\* Nothing of the process is left but the socket's file.
ProcessEnds ==
    /\ main' = "off" /\ flagged' = "nobody" /\ fds' = NoFiles
    /\ reader' = "off" /\ rfd' = NoFd
    /\ SocketEnds

\* main() returns: the threads that still run end with it.
Exit == main = "exit" /\ ProcessEnds

\* Killed, power lost, or an exception that nobody catches.
Crash == main # "off" /\ ProcessEnds

\* The reply that a client's thread makes to the text it reads is refused by dump().
Terminate ==
    /\ \E c \in Conns : client[c] = "blocked" /\ Kills(inbox[source[c]])
    /\ Crash

\* The reader's number is closed by main, and names a connection before the
\* member is reset: the reader takes what the connection has for events, none of
\* which it knows, and goes by an errno of an earlier call if there is too little.
ReaderReadsConnection ==
    /\ reader = "loop" /\ flagged # "reader"
    /\ FileAt(rfd) \in Conns
    /\ inbox[FileAt(rfd)] # <<>> \/ peer[FileAt(rfd)] = "gone"
    /\ inbox' = [inbox EXCEPT ![FileAt(rfd)] = <<>>]
    /\ reader' \in {"loop", "close"}
    /\ UNCHANGED <<fds, main, flagged, rfd, listenerVars, clientVars,
                   peer, sent, served, pushed, told>>

Reader ==
    \/ ReaderAlone /\ UNCHANGED <<listenerVars, clientVars, peerVars>>
    \/ ReaderReadsConnection

Stopping ==
    \/ StopReader /\ UNCHANGED <<reader, listenerVars, clientVars, peerVars>>
    \/ StopListener /\ UNCHANGED readerVars
    \/ Exit

Next ==
    \/ Start
    \/ Stop
    \/ Crash
    \/ Stopping
    \/ Reader
    \/ Listener /\ UNCHANGED readerVars
    \/ \E c \in Conns : Client(c) /\ UNCHANGED readerVars
    \/ Peers /\ UNCHANGED readerVars

Spec == Init /\ [][Next]_vars

\* Threads run on, into the end of the process if that is where they run; peers,
\* the device, a stop and any other crash do as they like.
Fairness ==
    /\ WF_vars(Reader)
    /\ WF_vars(Listener /\ UNCHANGED readerVars)
    /\ \A c \in Conns : WF_vars(Client(c) /\ UNCHANGED readerVars)
    /\ WF_vars(Terminate)
    /\ WF_vars(Stopping)

FairSpec == Spec /\ Fairness
-----------------------------------------------------------------------------
(* Properties *)

MainStates == {"off", "run", "closeReader", "forgetReader", "walk", "closeClient",
               "nextClient", "closeSocket", "unlinkSocket", "unflag", "exit"}
ReaderStates == {"off", "setup", "setupClose", "setupForget", "loop", "close",
                 "forget", "ended"}
ListenerStates == {"off", "setup", "bind", "listen", "loop", "blocked", "start",
                   "close", "unlink", "ended"}
ClientStates == {"none", "new", "loop", "blocked", "write", "ended"}

\* A number is held for accept() exactly while the listener is inside it.
AcceptHoldsNumber ==
    /\ (\E n \in Numbers : fds[n] = "accepting") <=> listener = "blocked"
    /\ \A n, m \in Numbers : fds[n] = "accepting" /\ fds[m] = "accepting" => n = m

\* Type invariant; accept() holds one number while it waits, and no other is held.
TypeOK ==
    /\ fds \in [Numbers -> Files]
    /\ AcceptHoldsNumber
    /\ main \in MainStates
    /\ flagged \in Threads \cup {"nobody"}
    /\ reader \in ReaderStates
    /\ rfd \in Numbers \cup {NoFd}
    /\ path \in {"none", "bound", "stale"}
    /\ listener \in ListenerStates
    /\ lfd \in Numbers \cup {NoFd}
    /\ backlog \in Seq(Conns)
    /\ handlers \in Seq(Conns)
    /\ walk \in [at : Nat, end : Nat]
    /\ client \in [Conns -> ClientStates]
    /\ cfd \in [Conns -> Numbers \cup {NoFd}]
    /\ source \in [Conns -> Conns]
    /\ peer \in [Conns -> {"away", "open", "gone"}]

ReaderHolds == reader \in {"loop", "setupClose", "close"} /\ rfd # NoFd
ListenerHolds ==
    listener \in {"bind", "listen", "loop", "blocked", "start", "close"} /\ lfd # NoFd

\* Until a stop begins, the number that an object keeps names the file which the
\* object opened, although numbers are closed by one thread and given out again by
\* another: no thread reads, answers or closes what belongs to somebody else
\* (EvdevReader.cpp:144-152, UnixListener.cpp:66-76, IPCClient.cpp:56-65).
OwnDescriptors ==
    main = "run" =>
        /\ ReaderHolds => FileAt(rfd) = "device"
        /\ ListenerHolds => FileAt(lfd) = "socket"
        /\ \A c \in Conns : client[c] # "none" => FileAt(cfd[c]) = c

Service == INSTANCE CommandService WITH Requests <- Request

\* The ship keeps the promise of CommandService: a peer's requests are taken in
\* order, none twice and none skipped, a valid one that is taken alone is pushed
\* once, before its answer, and every answer goes to the peer that asked, though
\* peers hang up, numbers run out and the process crashes (IPCClient.cpp:49-71,
\* IPCRequestHandler.cpp:36-154).
ImplementsService == Service!Spec

\* An answer tells the truth: the events pushed for a connection are as many as the
\* answers "ok", and one more while an answer is being written or could not be
\* (IPCRequestHandler.cpp:141-151, IPCClient.cpp:63-65).
AnswersAreTrue ==
    \A c \in Conns :
        LET oks == Cardinality({i \in DOMAIN told[c] : told[c][i] = "ok"}) IN
        Len(pushed[c]) - oks \in
            IF client[c] = "write" \/ peer[c] = "gone" THEN {0, 1} ELSE {0}

\* A start that fails to bind the socket's name, because an earlier process left the
\* file behind or for another reason, or that fails to listen, leaves no descriptor,
\* and no file if the name was not cut short: the program runs deaf, and the start
\* after it finds the name free (UnixListener.cpp:53-57, 99-113, 127-132).
DeafStartClearsName ==
    main = "run" /\ listener = "ended" =>
        ~InTable("socket") /\ (NameFits => path = "none")

\* doc of unix_socket in README.md: "ship-control listens to" it.  While the program
\* runs and its listener's thread has got through setup(), the socket's name leads to
\* the listener (UnixListener.cpp:86-116).
DaemonListens ==
    main = "run" /\ listener \notin {"setup", "bind", "listen"} => path = "bound"

\* The walk over the clients has reached its end, and the connection of each client
\* it has passed is closed, although their threads still run, later connections are
\* accepted meanwhile, and the numbers are given to them (UnixListener.cpp:122-125,
\* IPCClient.cpp:73-85).
StopReachesClients ==
    /\ \A i \in 1..(walk.at - 1) : ~InTable(handlers[i])
    /\ main \in {"closeSocket", "unlinkSocket", "unflag", "exit"} => walk.at = walk.end + 1

\* A stop leaves the socket's file behind, if its name was not cut short, only
\* together with the socket: the listener's thread reached socket() after main had
\* looked for its descriptor, and nobody will close it; or that thread, whose
\* listen() has failed, has closed it and is about to remove the file
\* (UnixListener.cpp:80-84, 90, 109-113, 127-132).
FileLeftWithSocket ==
    NameFits /\ main \in {"unflag", "exit"} /\ path = "bound" =>
        FileAt(lfd) = "socket" \/ listener = "unlink"

\* No descriptor is left for c, which still waits in the backlog.
NoNumberFor(c) ==
    /\ \E i \in 1..Len(backlog) : backlog[i] = c
    /\ FreeNumbers = {} /\ listener # "blocked"

\* A peer that waits for its answer gets one, unless it hangs up, the process ends,
\* or there is no descriptor left to accept it with: threads whose peer is gone keep
\* theirs (IPCClient.cpp:56-70, UnixListener.cpp:66-71).
Answered ==
    \A c \in Conns \ Eager :
        Len(told[c]) < Len(sent[c]) ~>
            \/ Len(told[c]) = Len(sent[c])
            \/ peer[c] # "open" \/ main # "run" \/ NoNumberFor(c)

\* A client's thread ends after its peer has hung up: the end of the connection is
\* handled as an empty request whose answer cannot be written, which ends the loop
\* (IPCClient.cpp:56-70).
HangupEndsClient ==
    \A c \in Conns :
        peer[c] = "gone" /\ client[c] # "none" ~> client[c] \in {"ended", "none"}
=============================================================================
